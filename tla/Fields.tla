------------------------------- MODULE Fields -------------------------------
(***************************************************************************)
(* The fields of a document: saved on a template (TemplatesService),       *)
(* copied onto a request when it is created (createRequest, selfSign),     *)
(* filled with the signature (sign), and printed as evidence.              *)
(*                                                                         *)
(* One template, and one document that may be linked to it.  A recipient   *)
(* is named by orderIndex.  Each await is a step; the routing of the       *)
(* request is SigningRequest's, so here whoever has a room may sign.  A    *)
(* fault is a call that dies between two awaits.                           *)
(*                                                                         *)
(* Left out: names, positions, pages and options of fields.                *)
(***************************************************************************)
EXTENDS Faults, Integers, FiniteSets

CONSTANTS
  Drafts,      \* the sets of fields that are saved on the template
  Recipients,  \* what senders ask for: orderIndex values, and who gets a copy
  Sends,       \* requests (bound)
  Rooms        \* signing rooms in which somebody signs at once (bound)

FieldsAssumption ==
  /\ \A f \in UNION Drafts : f.order \in Nat /\ f.required \in BOOLEAN
                              /\ f.attachment \in BOOLEAN
  /\ \A r \in Recipients :
       r.orders \subseteq Nat /\ r.orders # {} /\ r.copies \subseteq r.orders
  /\ "none" \notin Rooms
  /\ MaxFaults \in Nat

VARIABLES
  template,   \* its fields
  gone,       \* it has been removed and not made anew
  saved,      \* the sets of fields it has had
  removed,    \* it was removed at some time
  linked,     \* the document names the template
  send,       \* what each createRequest is doing
  request,    \* the request that each has made
  signature,  \* Signature rows, by request and recipient
  room        \* what each sign() is doing

library == <<template, gone, saved, removed>>
fieldsVars == <<library, linked, send, request, signature, room, faults>>

Nobody == "none"
NoSigner == -1
NoOne == [orders |-> {}, copies |-> {}]
Unsent == [pc |-> "idle", named |-> FALSE, templated |-> FALSE,
           to |-> NoOne, fields |-> {}]
NoRequest == [to |-> NoOne, templated |-> FALSE, fields |-> {},
              placed |-> FALSE]
NoSignature == [by |-> Nobody, early |-> FALSE]
NoCall == [pc |-> "idle", request |-> Nobody, signer |-> NoSigner, early |-> FALSE,
          values |-> {}]

Orders == {0} \cup UNION {r.orders : r \in Recipients}

FieldsInit ==
  /\ template \in Drafts
  /\ saved = {template}
  /\ gone = FALSE
  /\ removed = FALSE
  /\ linked \in BOOLEAN
  /\ send = [c \in Sends |-> Unsent]
  /\ request = [c \in Sends |-> NoRequest]
  /\ signature = [c \in Sends |-> [o \in Orders |-> NoSignature]]
  /\ room = [k \in Rooms |-> NoCall]
  /\ faults = 0

(***************************************************************************)
(* TemplatesService.                                                       *)
(***************************************************************************)
\* Slip: the old fields are deleted, and the new ones created later.
SaveTemplateInTwo ==
  \/ /\ ~gone /\ template # {}
     /\ template' = {}
     /\ UNCHANGED <<gone, saved, removed, linked, send, request, signature,
                    room, faults>>
  \/ /\ template = {}
     /\ \E d \in Drafts : template' = d /\ saved' = saved \cup {d}
     /\ gone' = FALSE
     /\ UNCHANGED <<removed, linked, send, request, signature, room, faults>>

(* create, and update: the fields are replaced in one transaction.         *)
SaveTemplate ==
  /\ \E d \in Drafts : template' = d /\ saved' = saved \cup {d}
  /\ gone' = FALSE
  /\ UNCHANGED <<removed, linked, send, request, signature, room, faults>>

(* remove; the document's link is set to null with it.                     *)
RemoveTemplate ==
  /\ ~gone
  /\ template' = {}
  /\ gone' = TRUE
  /\ removed' = TRUE
  /\ linked' = FALSE
  /\ UNCHANGED <<saved, send, request, signature, room, faults>>

(***************************************************************************)
(* createRequest, as far as fields go.  Recipients are checked first; the  *)
(* template is the document's, or the one that selfSign names.             *)
(***************************************************************************)
Begin(c, named, to) ==
  /\ send[c].pc = "idle" /\ request[c].to = NoOne
  /\ send' = [send EXCEPT ![c] = [pc |-> "load", named |-> named, to |-> to,
                 templated |-> named \/ linked, fields |-> {}]]
  /\ UNCHANGED <<linked, request, signature, room, faults, library>>

StartSend(c) == \E to \in Recipients : Begin(c, FALSE, to)

(* selfSign has one recipient, the caller; a template that is named was    *)
(* looked for before createRequest.                                        *)
Myself == [orders |-> {0}, copies |-> {}]
SelfSign(c) == \E named \in BOOLEAN : (named => ~gone) /\ Begin(c, named, Myself)

(* loadTemplatePlacements: a field for a recipient beyond their number, or *)
(* an attachment, refuses the request.                                     *)
LoadPlacements(c) ==
  LET fields == IF send[c].templated THEN template ELSE {}
  IN  /\ send[c].pc = "load"
      /\ send' = [send EXCEPT ![c] =
           IF \E f \in fields : f.attachment \/ f.order >= Cardinality(@.to.orders)
           THEN Unsent ELSE [@ EXCEPT !.pc = "create", !.fields = fields]]
      /\ UNCHANGED <<linked, request, signature, room, faults, library>>

CreateRequest(c) ==
  /\ send[c].pc = "create"
  /\ request' = [request EXCEPT ![c].to = send[c].to,
                               ![c].templated = send[c].templated]
  /\ send' = [send EXCEPT ![c].pc = "relink"]
  /\ UNCHANGED <<linked, signature, room, faults, library>>

(* document.update; the foreign key refuses a template that is gone.       *)
RelinkDocument(c) ==
  /\ send[c].pc = "relink"
  /\ IF send[c].named /\ gone
     THEN send' = [send EXCEPT ![c] = Unsent] /\ UNCHANGED linked
     ELSE /\ send' = [send EXCEPT ![c].pc = "place"]
          /\ linked' = (linked \/ send[c].named)
  /\ UNCHANGED <<request, signature, room, faults, library>>

(* placementsForRequest binds a field to the recipient whose orderIndex is *)
(* the field's assigneeOrder, or to nobody.                                *)
Bind(f, to) == [field |-> f, filledBy |-> Nobody,
                signer |-> IF f.order \in to.orders THEN f.order ELSE NoSigner]

PlaceFields(c) ==
  /\ send[c].pc = "place"
  /\ request' = [request EXCEPT ![c].placed = TRUE,
       ![c].fields = {Bind(f, send[c].to) : f \in send[c].fields}]
  /\ send' = [send EXCEPT ![c] = Unsent]
  /\ UNCHANGED <<linked, signature, room, faults, library>>

(***************************************************************************)
(* sign, as far as fields go.                                              *)
(***************************************************************************)
FieldsOf(c, o) == {p.field : p \in {q \in request[c].fields : q.signer = o}}

(* The values that resolveFieldValues lets pass: of this signer's fields   *)
(* only, and of the required ones all.                                     *)
Complete(c, o) ==
  {v \in SUBSET FieldsOf(c, o) : \A f \in FieldsOf(c, o) : f.required => f \in v}

Fill(c, o, values, k) ==
  [request EXCEPT ![c].fields =
     {IF p.signer = o /\ p.field \in values THEN [p EXCEPT !.filledBy = k] ELSE p :
        p \in @}]

CanSign(c, o) == /\ request[c].to # NoOne
                 /\ o \in request[c].to.orders \ request[c].to.copies
                 /\ signature[c][o] = NoSignature

\* Slip: the values are written before the signature is.
ResolveAndCapture(k) ==
  /\ room[k].pc = "idle"
  /\ \E c \in Sends, o \in Orders :
       /\ CanSign(c, o)
       /\ \E v \in Complete(c, o) :
            /\ room' = [room EXCEPT ![k] = [pc |-> "collect", request |-> c,
                 signer |-> o, early |-> ~request[c].placed, values |-> v]]
            /\ request' = Fill(c, o, v, k)
  /\ UNCHANGED <<linked, send, signature, faults, library>>

ResolveFieldValues(k) ==
  /\ room[k].pc = "idle"
  /\ \E c \in Sends, o \in Orders :
       /\ CanSign(c, o)
       /\ \E v \in Complete(c, o) :
            room' = [room EXCEPT ![k] = [pc |-> "collect", request |-> c,
              signer |-> o, early |-> ~request[c].placed, values |-> v]]
  /\ UNCHANGED <<linked, send, request, signature, faults, library>>

(* signature.create: the unique key lets one of two calls through.         *)
CollectSignature(k) ==
  LET r == room[k]
  IN  /\ r.pc = "collect"
      /\ IF signature[r.request][r.signer] # NoSignature
         THEN room' = [room EXCEPT ![k] = NoCall] /\ UNCHANGED signature
         ELSE /\ signature' = [signature EXCEPT ![r.request][r.signer] =
                   [by |-> k, early |-> r.early]]
              /\ room' = [room EXCEPT ![k].pc = "capture"]
      /\ UNCHANGED <<linked, send, request, faults, library>>

(* One transaction writes all values.                                      *)
CaptureFieldValues(k) ==
  /\ room[k].pc = "capture"
  /\ request' = Fill(room[k].request, room[k].signer, room[k].values, k)
  /\ room' = [room EXCEPT ![k] = NoCall]
  /\ UNCHANGED <<linked, send, signature, faults, library>>

(* evidenceReport prints each recipient with their signature and the       *)
(* fields bound to them.                                                   *)
EvidenceReport(c) ==
  [o \in Orders |-> [signature |-> signature[c][o],
                     fields |-> {p \in request[c].fields : p.signer = o}]]

(* A call dies between two awaits.                                         *)
Die ==
  /\ faults < MaxFaults
  /\ faults' = faults + 1
  /\ \/ \E k \in Rooms : /\ room[k].pc # "idle"
                         /\ room' = [room EXCEPT ![k] = NoCall]
                         /\ UNCHANGED send
     \/ \E c \in Sends : /\ send[c].pc # "idle"
                         /\ send' = [send EXCEPT ![c] = Unsent]
                         /\ UNCHANGED room
  /\ UNCHANGED <<linked, request, signature, library>>

FieldsNext ==
  \/ SaveTemplate \/ RemoveTemplate \/ Die
  \/ \E c \in Sends :
       \/ StartSend(c) \/ SelfSign(c) \/ LoadPlacements(c)
       \/ CreateRequest(c) \/ RelinkDocument(c) \/ PlaceFields(c)
  \/ \E k \in Rooms :
       ResolveFieldValues(k) \/ CollectSignature(k) \/ CaptureFieldValues(k)

FieldsSpec == FieldsInit /\ [][FieldsNext]_fieldsVars
-----------------------------------------------------------------------------
(***************************************************************************)
(* Properties.                                                             *)
(***************************************************************************)
(* A request carries one saved version of the template, whole: a save that *)
(* races with createRequest never gives it a mixture or a part, and no     *)
(* fields at all only when no template was meant, or it was gone.          *)
PlacedWhole ==
  \A c \in Sends : request[c].placed =>
    {p.field : p \in request[c].fields} \in
      saved \cup (IF removed \/ ~request[c].templated THEN {{}} ELSE {})

(* sign stands between its signature and its values.                       *)
Capturing(k, c, o) ==
  room[k].pc = "capture" /\ room[k].request = c /\ room[k].signer = o

(* What the evidence shows as filled was given with the signature it       *)
(* shows, never by a call that lost to it; and no required field is blank, *)
(* unless the call died after the signature or a room was opened before    *)
(* the fields were placed.                                                 *)
EvidenceWhole ==
  \A c \in Sends, o \in Orders :
    LET entry == EvidenceReport(c)[o]
        s == entry.signature
    IN  /\ \A p \in entry.fields : p.filledBy \in {Nobody, s.by}
        /\ \/ s.by = Nobody \/ s.early \/ faults > 0
           \/ Capturing(s.by, c, o)
           \/ \A p \in entry.fields : p.field.required => p.filledBy # Nobody

(* "Refuses to send to one instead of dropping the second signer's fields  *)
(* without saying so": every field of the template has its recipient.      *)
NoFieldDropped ==
  \A c \in Sends : \A p \in request[c].fields : p.signer # NoSigner
=============================================================================
