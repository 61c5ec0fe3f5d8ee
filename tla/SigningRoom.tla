---------------------------- MODULE SigningRoom ----------------------------
(***************************************************************************)
(* The public signing room: SigningRoom of the console, opened in several  *)
(* tabs with one signing link, against publicSession, sign and decline of  *)
(* the API, which check the signer's status and write it awaits apart, for *)
(* as many calls at once as there are.                                     *)
(*                                                                         *)
(* A field has the value that was typed into it, or none.  PENDING and     *)
(* INVITED are one status, and so are the two writes that end in VIEWED.   *)
(* Left out: kinds of fields, the document, the sender's branding, and     *)
(* what an answer does to the rest of the request (SigningRequest).        *)
(***************************************************************************)
EXTENDS FiniteSets

CONSTANTS
  Tabs,
  RoomCalls,   \* calls of the API under way at once (bound)
  RoomFields,  \* the fields of the signer
  Required,    \* those that must be filled
  Answers      \* what may be typed into one

Blank == "blank"
NoCall == "none"

RoomAssumption == Required \subseteq RoomFields /\ NoCall \notin RoomCalls

VARIABLES
  turn,       \* canSignerAct
  active,     \* the request takes answers
  status,     \* of the signer
  signature,  \* the signer has a signature row
  recorded,   \* the values of the request's fields
  raced,      \* calls of two kinds have been past their checks at once
  served,     \* the API's side of each call
  tab         \* each tab's page

outside == <<turn, active>>
record == <<status, signature, recorded>>
roomVars == <<outside, record, raced, served, tab>>

NoValues == [f \in RoomFields |-> Blank]

(* seen is the status a call read, sent the values it carries: a signer's  *)
(* with sign, those of the session with view.                              *)
IdleCall == [kind |-> "none", stage |-> "idle", seen |-> "INVITED", allows |-> FALSE,
             sent |-> NoValues]

(* page is loading, form, thanks or dead; allows and answered are what the *)
(* session said when it was loaded; action is the answer that was given.   *)
Closed == [page |-> "closed", allows |-> FALSE, answered |-> FALSE,
           values |-> NoValues, action |-> "none", call |-> NoCall]

RoomInit ==
  /\ turn \in BOOLEAN /\ active = TRUE
  /\ status = "INVITED" /\ signature = FALSE /\ recorded = NoValues
  /\ raced = FALSE
  /\ served = [c \in RoomCalls |-> IdleCall]
  /\ tab = [t \in Tabs |-> Closed]

(***************************************************************************)
(* The request outside the room.                                           *)
(***************************************************************************)
TurnMoves ==
  /\ turn' = ~turn
  /\ UNCHANGED <<active, record, raced, served, tab>>

Ends ==
  /\ active' = FALSE
  /\ UNCHANGED <<turn, record, raced, served, tab>>

(***************************************************************************)
(* The tab.  Whoever leaves a page, or gives up on a call, does not stop   *)
(* the call.                                                               *)
(***************************************************************************)
NextCall(c) ==
  LET idle == {d \in RoomCalls : served[d].stage = "idle"}
  IN  idle # {} /\ c = CHOOSE d \in idle : TRUE

Send(c, kind, values) ==
  served' = [served EXCEPT ![c] = [IdleCall EXCEPT !.kind = kind, !.stage = "sent",
                                               !.sent = values]]

\* Opening the link, or loading the page again: after a call given up.
OpenLink(t, c) ==
  /\ tab[t].call = NoCall /\ NextCall(c) /\ Send(c, "view", NoValues)
  /\ tab' = [tab EXCEPT ![t] = [Closed EXCEPT !.page = "loading", !.call = c]]
  /\ UNCHANGED <<outside, record, raced>>

Over(c) == served[c].stage \in {"done", "refused"}

\* The tab waits for its call no more.
Hangs(t) ==
  served' = [c \in RoomCalls |-> IF tab[t].call = c /\ Over(c) THEN IdleCall ELSE served[c]]

Form(t) == tab[t].page = "form" /\ ~tab[t].answered

\* Slip: the fields stay open while an answer is under way.
FieldsOpen(t) == tab[t].allows

FieldsEnabled(t) == tab[t].allows /\ tab[t].action = "none"

FieldInput(t) ==
  /\ Form(t) /\ FieldsEnabled(t)
  /\ \E f \in RoomFields, a \in Answers \cup {Blank} :
       tab' = [tab EXCEPT ![t].values[f] = a]
  /\ UNCHANGED <<outside, record, raced, served>>

CanSign(t) == \A f \in Required : tab[t].values[f] # Blank

Sign(t, c) ==
  /\ Form(t) /\ tab[t].action = "none"
  /\ tab[t].allows /\ CanSign(t)
  /\ NextCall(c) /\ Send(c, "sign", tab[t].values)
  /\ tab' = [tab EXCEPT ![t].action = "sign", ![t].call = c]
  /\ UNCHANGED <<outside, record, raced>>

\* Waits for nothing, not even the signer's turn.
Decline(t, c) ==
  /\ Form(t) /\ tab[t].action = "none"
  /\ NextCall(c) /\ Send(c, "decline", NoValues)
  /\ tab' = [tab EXCEPT ![t].action = "decline", ![t].call = c]
  /\ UNCHANGED <<outside, record, raced>>

LoadSession(t) ==
  /\ tab[t].page = "loading" /\ Hangs(t)
  /\ \E c \in RoomCalls :
       /\ tab[t].call = c /\ served[c].stage = "done"
       /\ tab' = [tab EXCEPT ![t] =
            [Closed EXCEPT !.page = "form", !.allows = served[c].allows,
                           !.answered = served[c].seen = "SIGNED",
                           !.values = served[c].sent]]
  /\ UNCHANGED <<outside, record, raced>>

ShowThanks(t) ==
  /\ tab[t].page = "form" /\ Hangs(t)
  /\ \E c \in RoomCalls : tab[t].call = c /\ served[c].stage = "done"
  /\ tab' = [tab EXCEPT ![t].page = "thanks", ![t].call = NoCall]
  /\ UNCHANGED <<outside, record, raced>>

(* Refused, not sent, or given up: the page is dead, or the form says so   *)
(* and takes another answer.                                               *)
AnswerFails(t) ==
  /\ tab[t].call # NoCall /\ Hangs(t)
  /\ tab' = [tab EXCEPT ![t].page = IF @ = "loading" THEN "dead" ELSE @,
                        ![t].action = "none", ![t].call = NoCall]
  /\ UNCHANGED <<outside, record, raced>>

(***************************************************************************)
(* The API.                                                                *)
(***************************************************************************)
At(c, kind, stage) == served[c].kind = kind /\ served[c].stage = stage

Goes(c, stage) == served' = [served EXCEPT ![c].stage = stage]

\* The answer, to the tab that waits for it, if one does.
Replies(c, stage, values) ==
  served' = [served EXCEPT ![c] =
    IF \E t \in Tabs : tab[t].call = c
    THEN [@ EXCEPT !.stage = stage, !.sent = values]
    ELSE IdleCall]

\* Slip: whoever may open the room may answer.
AdmitsAnyone(kind) == active /\ status # "DECLINED"

Admits(kind) ==
  /\ active
  /\ status \in {"INVITED", "VIEWED"} \cup (IF kind = "view" THEN {"SIGNED"} ELSE {})

\* A call that will write the status, going by what it has read.
Pending(c) ==
  /\ served[c].stage \in {"found", "passed", "inserted", "captured"}
  /\ served[c].kind = "view" => served[c].seen = "INVITED"

FindSigner(c) ==
  /\ served[c].stage = "sent"
  /\ Admits(served[c].kind)
  /\ served' = [served EXCEPT ![c].stage = "found",
                             ![c].seen = IF served[c].kind = "view" THEN status ELSE @]
  /\ raced' = (raced \/ \E d \in RoomCalls :
                 Pending(d) /\ Pending(c)' /\ served[d].kind # served[c].kind)
  /\ UNCHANGED <<outside, record, tab>>

AskTurn(c) ==
  /\ served[c].stage = "found" /\ served[c].kind # "view" /\ turn
  /\ Goes(c, "passed")
  /\ UNCHANGED <<outside, record, raced, tab>>

\* canSignNow
AskView(c) ==
  LET allows == turn /\ served[c].seen # "SIGNED"
  IN  /\ At(c, "view", "found")
      /\ served' = [served EXCEPT
           ![c].allows = allows,
           ![c].stage = IF allows /\ served[c].seen = "INVITED" THEN "passed" ELSE "viewed"]
      /\ UNCHANGED <<outside, record, raced, tab>>

MarkViewed(c) ==
  /\ At(c, "view", "passed") /\ Goes(c, "viewed")
  /\ status' = "VIEWED"
  /\ UNCHANGED <<outside, signature, recorded, raced, tab>>

ReadFields(c) ==
  /\ At(c, "view", "viewed") /\ Replies(c, "done", recorded)
  /\ UNCHANGED <<outside, record, raced, tab>>

\* One row for each signer: another is refused.
InsertSignature(c) ==
  /\ At(c, "sign", "passed") /\ ~signature
  /\ Goes(c, "inserted")
  /\ signature' = TRUE
  /\ UNCHANGED <<outside, status, recorded, raced, tab>>

CaptureFields(c) ==
  /\ At(c, "sign", "inserted") /\ Goes(c, "captured")
  /\ recorded' = [f \in RoomFields |->
                    IF served[c].sent[f] = Blank THEN recorded[f] ELSE served[c].sent[f]]
  /\ UNCHANGED <<outside, status, signature, raced, tab>>

MarkSigned(c) ==
  /\ At(c, "sign", "captured") /\ Replies(c, "done", served[c].sent)
  /\ status' = "SIGNED"
  /\ UNCHANGED <<outside, signature, recorded, raced, tab>>

MarkDeclined(c) ==
  /\ At(c, "decline", "passed") /\ Replies(c, "done", NoValues)
  /\ status' = "DECLINED"
  /\ UNCHANGED <<outside, signature, recorded, raced, tab>>

(* Whatever a step finds otherwise, an error before or after what the call *)
(* has written, or the end of the process.                                 *)
RoomCallFails(c) ==
  /\ served[c].stage \notin {"idle", "refused"} /\ Replies(c, "refused", NoValues)
  /\ UNCHANGED <<outside, record, raced, tab>>

RoomNext ==
  \/ TurnMoves \/ Ends
  \/ \E t \in Tabs : \/ FieldInput(t) \/ LoadSession(t) \/ ShowThanks(t) \/ AnswerFails(t)
                     \/ \E c \in RoomCalls : OpenLink(t, c) \/ Sign(t, c) \/ Decline(t, c)
  \/ \E c \in RoomCalls : \/ FindSigner(c) \/ AskTurn(c) \/ AskView(c) \/ MarkViewed(c) \/ ReadFields(c)
                          \/ InsertSignature(c) \/ CaptureFields(c) \/ MarkSigned(c)
                          \/ MarkDeclined(c) \/ RoomCallFails(c)

RoomSpec == RoomInit /\ [][RoomNext]_roomVars
-----------------------------------------------------------------------------
(* A page that thanks for a signature: the signature is on record, with    *)
(* the values that the page showed when it ended, whatever other tabs, a   *)
(* cancellation, an answer given up and a second try did in between; and a *)
(* page that thanks for either answer: it is the signer's status, unless   *)
(* calls of two kinds were past their checks at once, of which the last to *)
(* write decides (sign, decline and publicSession compare nothing when     *)
(* they write).                                                            *)
ThanksForTheRecord ==
  \A t \in Tabs : tab[t].page = "thanks" =>
    /\ tab[t].action = "sign" => signature /\ recorded = tab[t].values /\ CanSign(t)
    /\ \/ raced
       \/ tab[t].action = "sign" /\ status = "SIGNED"
       \/ tab[t].action = "decline" /\ status = "DECLINED"
=============================================================================
