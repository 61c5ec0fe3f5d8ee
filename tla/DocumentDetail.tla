--------------------------- MODULE DocumentDetail ---------------------------
(***************************************************************************)
(* The page of one document: DocumentDetailClient, with the panel in which *)
(* the user signs it themselves.  Each of its calls is a slot that goes    *)
(* its own way; what they share is the page's state: one busy marker, one  *)
(* error, the form, and the document as the last load answered.            *)
(*                                                                         *)
(* The document is the set of the versions and the titles that it has been *)
(* given; each has the name of the slot that asked for it.                 *)
(*                                                                         *)
(* Left out: other users, and what is on the page but never changes.       *)
(***************************************************************************)
EXTENDS FiniteSets

CONSTANTS Slots   \* calls of one visit (bound)

VARIABLES
  changed,    \* changes in the database
  deleted,
  slot,       \* what each call is doing
  shown,      \* the changes that the document on the page has
  present,    \* the page has a document, an error, or is gone
  busy,
  error,
  form,       \* the title and description: shown, open, or typed into
  undone      \* changes the page has shown, before an older answer to load

page == <<shown, present, busy, error, form, undone>>
detailVars == <<changed, deleted, slot, page>>

NoSlot == [kind |-> "none", pc |-> "idle", seen |-> {}]
Kinds == {"version", "meta", "delete", "download", "in-person", "self-sign"}
Reloading == {"load", "version", "meta"}

AskSlot(c, kind) ==
  slot' = [slot EXCEPT ![c] = [NoSlot EXCEPT !.kind = kind, !.pc = "sent"]]
EndSlot(c) == slot' = [slot EXCEPT ![c] = [NoSlot EXCEPT !.pc = "over"]]
FreeIfHeld(c) == busy' = IF slot[c].kind = "load" THEN busy ELSE "none"

First == CHOOSE c \in Slots : TRUE

DetailInit ==
  /\ changed = {} /\ deleted = FALSE
  /\ slot = [c \in Slots |->
       IF c = First THEN [NoSlot EXCEPT !.kind = "load", !.pc = "load"] ELSE NoSlot]
  /\ shown = {} /\ present = "loading"
  /\ busy = "none" /\ error = FALSE /\ form = "shown"
  /\ undone = {}

(***************************************************************************)
(* The buttons.  One in the header, or that to delete, waits while busy    *)
(* names it; the rows of requests and of versions have one each, and wait  *)
(* for their own row only.                                                 *)
(***************************************************************************)
OfRows == {"download", "in-person"}

OfferedActions(kind) ==
  /\ present = "document" /\ kind # "self-sign"
  /\ kind \in OfRows \/ busy # kind
  /\ kind = "meta" => form # "shown"
  /\ kind = "version" => form = "shown"

(* signInPerson, onNewVersion and saveMetadata clear the error; download   *)
(* and remove do not.                                                      *)
StartCall(c) ==
  /\ slot[c].pc = "idle"
  /\ \E kind \in Kinds :
       /\ OfferedActions(kind)
       /\ AskSlot(c, kind)
       /\ busy' = kind
       /\ error' = (error /\ kind \notin {"version", "meta", "in-person"})
  /\ UNCHANGED <<changed, deleted, shown, present, form, undone>>

(* SelfSignPanel has a marker and an error of its own.                     *)
PanelBusy ==
  \E d \in Slots : slot[d].kind = "self-sign" /\ slot[d].pc \in {"sent", "served"}

SelfSign(c) ==
  /\ slot[c].pc = "idle"
  /\ present = "document" /\ ~PanelBusy
  /\ AskSlot(c, "self-sign")
  /\ UNCHANGED <<changed, deleted, page>>

EditForm ==
  /\ present = "document"
  /\ \/ form = "shown" /\ form' = "open"
     \/ form = "open" /\ form' = "typed"
     \/ form # "shown" /\ form' = "shown"
  /\ UNCHANGED <<changed, deleted, slot, shown, present, busy, error, undone>>

(***************************************************************************)
(* The server's side.                                                      *)
(***************************************************************************)
ServeSlot(c) ==
  /\ slot[c].pc = "sent" /\ ~deleted
  /\ changed' = IF slot[c].kind \in Reloading THEN changed \cup {c} ELSE changed
  /\ deleted' = (slot[c].kind = "delete")
  /\ slot' = [slot EXCEPT ![c].pc = "served"]
  /\ UNCHANGED page

ReadDocument(c) ==
  /\ slot[c].pc = "load" /\ ~deleted
  /\ slot' = [slot EXCEPT ![c].pc = "loaded", ![c].seen = changed]
  /\ UNCHANGED <<changed, deleted, page>>

(* A new version or new metadata: load again, with setError(null) first.   *)
ReloadDocument(c) ==
  /\ slot[c].pc = "served" /\ slot[c].kind \in Reloading
  /\ slot' = [slot EXCEPT ![c].pc = "load"]
  /\ error' = FALSE
  /\ form' = IF slot[c].kind = "meta" THEN "shown" ELSE form
  /\ UNCHANGED <<changed, deleted, shown, present, busy, undone>>

Downloaded(c) ==
  /\ slot[c].pc = "served" /\ slot[c].kind = "download"
  /\ EndSlot(c)
  /\ busy' = "none"
  /\ UNCHANGED <<changed, deleted, shown, present, error, form, undone>>

(* Deleted, or a signing room takes the place of the page.                 *)
LeavePage(c) ==
  /\ slot[c].pc = "served"
  /\ slot[c].kind \in {"delete", "in-person", "self-sign"}
  /\ slot' = [d \in Slots |-> [NoSlot EXCEPT !.pc = "over"]]
  /\ present' = "left"
  /\ UNCHANGED <<changed, deleted, shown, busy, error, form, undone>>

(* load writes the form too, whatever has been typed into it.              *)
ShowDocument(c) ==
  /\ slot[c].pc = "loaded"
  /\ EndSlot(c)
  /\ shown' = slot[c].seen
  /\ present' = "document"
  /\ form' = IF form = "typed" THEN "open" ELSE form
  /\ undone' = (undone \cup shown) \ slot[c].seen
  /\ FreeIfHeld(c)
  /\ UNCHANGED <<changed, deleted, error>>

(* Refused, or lost on the way there or back.                              *)
CallFails(c) ==
  /\ slot[c].pc \in {"sent", "served", "load", "loaded"}
  /\ EndSlot(c)
  /\ error' = (error \/ slot[c].kind # "self-sign")
  /\ present' = IF present = "loading" THEN "error" ELSE present
  /\ IF slot[c].kind = "self-sign" THEN UNCHANGED busy ELSE FreeIfHeld(c)
  /\ UNCHANGED <<changed, deleted, shown, form, undone>>

DetailNext ==
  \/ EditForm
  \/ \E c \in Slots :
       \/ StartCall(c) \/ SelfSign(c) \/ ServeSlot(c) \/ ReadDocument(c)
       \/ ReloadDocument(c) \/ Downloaded(c) \/ LeavePage(c) \/ ShowDocument(c) \/ CallFails(c)

DetailSpec == DetailInit /\ [][DetailNext]_detailVars
-----------------------------------------------------------------------------
(* With no call under way and no error on the page, the document on it has *)
(* every version and title that was given to it from the page, however its *)
(* calls overlapped and whichever failed, but for those that were there    *)
(* until an older answer to load came; the next answer that is not older   *)
(* brings these back.                                                      *)
ShowsOwnChanges ==
  /\ present = "document" /\ ~error
  /\ \A c \in Slots : slot[c].pc \in {"idle", "over"}
  => changed \ undone = shown
=============================================================================
