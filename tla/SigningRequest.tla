--------------------------- MODULE SigningRequest ---------------------------
(***************************************************************************)
(* One signing request of SignaturesService, its document and the API      *)
(* calls in flight against it.  No handler runs in a transaction: each     *)
(* await on the database or on the queue is one step here, and between two *)
(* steps any other call may run.  A call is a slot of Calls that is idle   *)
(* or at the await named by its pc; slots are reused, so the number of     *)
(* calls is unbounded and only the number in flight at once is bounded.    *)
(*                                                                         *)
(* Left out: what a call only reads (document bytes, templates, branding), *)
(* the placed fields' values, and the webhook each event also queues.      *)
(***************************************************************************)
EXTENDS Envelope, FiniteSets

CONSTANTS
  Calls,       \* slots for concurrent API calls
  Ops,         \* the operations clients use
  MaxFaults    \* calls that may die half-way (bound)

AllOps == {"open", "sign", "decline", "cancel", "handOver"}

ASSUME OpsAssumption == Ops \subseteq AllOps
ASSUME MaxFaultsAssumption == MaxFaults \in Nat

VARIABLES
  envelope,         \* what createRequest fixed
  reqStatus,        \* SigningRequest.status
  docStatus,        \* Document.status
  status,           \* Signer.status, by recipient
  signature,        \* recipients with a Signature row (unique per recipient)
  inPerson,         \* recipients whose authMethod is in_person
  trail,            \* SignatureEvent rows: <<type, recipient or Nobody>>
  mailed,           \* recipients for whom an invitation job was queued
  completionMail,   \* the job completion-<id> is in the queue
  overdue,          \* the deadline has passed
  faults,           \* calls that died half-way so far
  call              \* the calls in flight

vars == <<envelope, reqStatus, docStatus, status, signature, inPerson, trail,
          mailed, completionMail, overdue, faults, call>>
request == <<envelope, reqStatus, docStatus, status, signature, inPerson,
             trail, mailed, completionMail>>

RequestStatus ==
  {"AWAITING_SIGNATURE", "IN_PROGRESS", "COMPLETED", "CANCELLED", "EXPIRED"}
DocumentStatus == {"DRAFT", "AWAITING_SIGNATURE", "COMPLETED", "CANCELLED"}
SignerStatus == {"PENDING", "INVITED", "VIEWED", "SIGNED", "DECLINED"}
EventType == {"CREATED", "VIEWED", "SIGNED", "DECLINED", "CANCELLED",
              "EXPIRED", "HANDED_OVER"}

(* What a call does once canSignerAct has let it through.                  *)
Goal == {"promote", "view", "sign", "decline", "handOver"}
Pc == {"idle", "turn", "markDocument", "recordCreated", "enqueueAll",
       "recordViewed", "markSigned", "recordSigned", "advance", "complete",
       "completeDocument", "recordCompleted", "completionMail", "inviteNext",
       "enqueueInvite", "recordDeclined", "pause", "cancel",
       "cancelDocument", "recordCancelled", "recordHandedOver", "expire",
       "recordExpired"} \cup Goal

CallState == [pc : Pc, who : Signers \cup {Nobody},
              goal : Goal \cup {"idle"}, wasInPerson : BOOLEAN]
Running(p, s, goal, wasInPerson) ==
  [pc |-> p, who |-> s, goal |-> goal, wasInPerson |-> wasInPerson]
Idle == Running("idle", Nobody, "idle", FALSE)

(***************************************************************************)
(* Reading the request.                                                    *)
(***************************************************************************)
\* Slip: a cancelled, or a completed, request still takes calls.
ActiveIfCancelled == reqStatus \notin {"COMPLETED", "EXPIRED"}
ActiveIfCompleted == reqStatus \notin {"CANCELLED", "EXPIRED"}
Active == reqStatus \in {"AWAITING_SIGNATURE", "IN_PROGRESS"}

Invited(s) == status[s] \in {"INVITED", "VIEWED"}

\* Slip: an earlier recipient that answered at all is enough.
CanSignerActAfterAnswer(s) ==
  \A p \in Earlier(envelope, s) : status[p] \in {"SIGNED", "DECLINED"}
(* canSignerAct for a recipient that is not a CC.                          *)
CanSignerAct(s) == \A p \in Earlier(envelope, s) : status[p] = "SIGNED"

CompletedEvent == <<"SIGNED", Nobody>>

(* Recipients createRequest stores as INVITED: everyone in a parallel      *)
(* request, only the first position, whatever its role, in a sequential    *)
(* one.                                                                    *)
InvitedAtCreation(e) ==
  IF e.mode = "PARALLEL" THEN Signers ELSE {1}

(***************************************************************************)
(* Moving a call.                                                          *)
(***************************************************************************)
At(c, p) == call[c].pc = p

Goto(c, p) ==
  call' = [call EXCEPT ![c] =
             IF p = "idle" THEN Idle
             ELSE Running(p, call[c].who, call[c].goal, call[c].wasInPerson)]

Enter(c, p, s, goal, wasInPerson) ==
  /\ At(c, "idle")
  /\ call' = [call EXCEPT ![c] = Running(p, s, goal, wasInPerson)]

\* Slip: the handler never asks canSignerAct.
EnterUnchecked(c, s, goal, wasInPerson) == Enter(c, goal, s, goal, wasInPerson)
(* The first read of a handler bound to a recipient, and whether           *)
(* canSignerAct still has to read the earlier recipients.                  *)
EnterTurn(c, s, goal, wasInPerson) ==
  Enter(c, IF envelope.mode = "SEQUENTIAL" THEN "turn" ELSE goal,
        s, goal, wasInPerson)

EnterExpire(c) == Enter(c, "expire", Nobody, "idle", FALSE)

\* Slip: the answer of canSignerAct is dropped (a missing await).
CheckTurnIgnored(c) ==
  /\ At(c, "turn")
  /\ Goto(c, call[c].goal)
  /\ UNCHANGED <<request, overdue, faults>>

CheckTurn(c) ==
  /\ At(c, "turn")
  /\ Goto(c, IF CanSignerAct(call[c].who) THEN call[c].goal ELSE "idle")
  /\ UNCHANGED <<request, overdue, faults>>

(* recordEvent: the SignatureEvent row.                                    *)
Record(c, p, type, s, next) ==
  /\ At(c, p)
  /\ trail' = trail \cup {<<type, s>>}
  /\ Goto(c, next)
  /\ UNCHANGED <<envelope, reqStatus, docStatus, status, signature, inPerson,
                 mailed, completionMail, overdue, faults>>

SetStatus(c, p, value, next) ==
  /\ At(c, p)
  /\ status' = [status EXCEPT ![call[c].who] = value]
  /\ Goto(c, next)
  /\ UNCHANGED <<envelope, reqStatus, docStatus, signature, trail, mailed,
                 completionMail, overdue, faults>>

SetRequest(c, p, value, next) ==
  /\ At(c, p)
  /\ reqStatus' = value
  /\ Goto(c, next)
  /\ UNCHANGED <<envelope, docStatus, status, signature, inPerson, trail,
                 mailed, completionMail, overdue, faults>>

SetDocument(c, p, value, next) ==
  /\ At(c, p)
  /\ docStatus' = value
  /\ Goto(c, next)
  /\ UNCHANGED <<envelope, reqStatus, status, signature, inPerson, trail,
                 mailed, completionMail, overdue, faults>>

QueueInvite(c, s, next) ==
  /\ mailed' = mailed \cup {s}
  /\ Goto(c, next)
  /\ UNCHANGED <<envelope, reqStatus, docStatus, status, signature, inPerson,
                 trail, completionMail, overdue, faults>>

(***************************************************************************)
(* createRequest, from the insert of the request and its recipients on.    *)
(***************************************************************************)
Init ==
  /\ envelope \in Envelopes
  /\ reqStatus = "AWAITING_SIGNATURE"
  /\ docStatus = "DRAFT"
  /\ status = [s \in Signers |-> IF s \in InvitedAtCreation(envelope)
                                 THEN "INVITED" ELSE "PENDING"]
  /\ signature = {}
  /\ inPerson = {}
  /\ trail = {}
  /\ mailed = {}
  /\ completionMail = FALSE
  /\ overdue = FALSE
  /\ faults = 0
  /\ \E creator \in Calls :
       call = [c \in Calls |-> IF c = creator
                               THEN Running("markDocument", Nobody, "idle", FALSE)
                               ELSE Idle]

CreateMarkDocument(c) ==
  SetDocument(c, "markDocument", "AWAITING_SIGNATURE", "recordCreated")

CreateRecord(c) ==
  Record(c, "recordCreated", "CREATED", Nobody,
         IF envelope.sendInvites THEN "enqueueAll" ELSE "idle")

CreateEnqueue(c) ==
  /\ At(c, "enqueueAll")
  /\ \E s \in InvitedAtCreation(envelope) \ mailed :
       QueueInvite(c, s,
         IF InvitedAtCreation(envelope) \subseteq mailed \cup {s}
         THEN "idle" ELSE "enqueueAll")

(***************************************************************************)
(* publicSession.  Only the two reads that lead to a write are calls: a    *)
(* recipient that is PENDING or INVITED; anyone else only looks.           *)
(***************************************************************************)
OpenSession(c, s) ==
  /\ "open" \in Ops
  /\ Active
  /\ status[s] # "DECLINED"
  /\ \/ overdue /\ EnterExpire(c)
     \/ /\ ~overdue
        /\ s \in Required(envelope)
        /\ \/ status[s] = "PENDING" /\ EnterTurn(c, s, "promote", FALSE)
           \/ status[s] = "INVITED" /\ EnterTurn(c, s, "view", FALSE)
  /\ UNCHANGED <<request, overdue, faults>>

Promote(c) == SetStatus(c, "promote", "INVITED", "view") /\ UNCHANGED inPerson

View(c) == SetStatus(c, "view", "VIEWED", "recordViewed") /\ UNCHANGED inPerson

RecordViewed(c) == Record(c, "recordViewed", "VIEWED", call[c].who, "idle")

(***************************************************************************)
(* sign and advanceWorkflow.                                               *)
(***************************************************************************)
Sign(c, s) ==
  /\ "sign" \in Ops
  /\ Active
  /\ \/ overdue /\ EnterExpire(c)
     \/ /\ ~overdue
        /\ s \in Required(envelope)
        /\ Invited(s)
        /\ EnterTurn(c, s, "sign", s \in inPerson)
  /\ UNCHANGED <<request, overdue, faults>>

(* The content hash, a field value or the certificate is refused.          *)
RejectSignature(c) ==
  /\ At(c, "sign")
  /\ Goto(c, "idle")
  /\ UNCHANGED <<request, overdue, faults>>

(* signature.create, which the unique index refuses a second time.         *)
CollectSignature(c) ==
  /\ At(c, "sign")
  /\ Goto(c, IF call[c].who \in signature THEN "idle" ELSE "markSigned")
  /\ signature' = signature \cup {call[c].who}
  /\ UNCHANGED <<envelope, reqStatus, docStatus, status, inPerson, trail,
                 mailed, completionMail, overdue, faults>>

(* status SIGNED, and authMethod as the call read it (or 'certificate').   *)
MarkSigned(c) ==
  /\ SetStatus(c, "markSigned", "SIGNED", "recordSigned")
  /\ \E kept \in SUBSET {call[c].who} :
       /\ kept # {} => call[c].wasInPerson
       /\ inPerson' = (inPerson \ {call[c].who}) \cup kept

RecordSigned(c) == Record(c, "recordSigned", "SIGNED", call[c].who, "advance")

\* Slip: carbon copies must sign too; approvers need not.
AllRecipientsSigned == \A s \in Signers : status[s] = "SIGNED"
AllButApproversSigned ==
  \A s \in Signers : envelope.role[s] = "SIGNER" => status[s] = "SIGNED"

AllSigned == \A s \in Required(envelope) : status[s] = "SIGNED"

\* Slip: the next recipient may be a carbon copy.
WaitingWithCopies == {s \in Signers : status[s] = "PENDING"}

Waiting == {s \in Required(envelope) : status[s] = "PENDING"}

\* Slip: the recipients are read in descending order.
AdvanceFromLast(c) ==
  /\ At(c, "advance")
  /\ \/ AllSigned /\ Goto(c, "complete")
     \/ /\ ~AllSigned
        /\ envelope.mode = "PARALLEL" \/ Waiting = {}
        /\ Goto(c, "idle")
     \/ /\ ~AllSigned
        /\ envelope.mode = "SEQUENTIAL"
        /\ \E s \in Waiting :
             /\ \A t \in Waiting : t <= s
             /\ call' = [call EXCEPT ![c] = Running("inviteNext", s, "idle", FALSE)]
  /\ UNCHANGED <<request, overdue, faults>>

(* The read of advanceWorkflow decides what the call will write.           *)
AdvanceWorkflow(c) ==
  /\ At(c, "advance")
  /\ \/ AllSigned /\ Goto(c, "complete")
     \/ /\ ~AllSigned
        /\ envelope.mode = "PARALLEL" \/ Waiting = {}
        /\ Goto(c, "idle")
     \/ /\ ~AllSigned
        /\ envelope.mode = "SEQUENTIAL"
        /\ \E s \in Waiting :
             /\ \A t \in Waiting : s <= t
             /\ call' = [call EXCEPT ![c] = Running("inviteNext", s, "idle", FALSE)]
  /\ UNCHANGED <<request, overdue, faults>>

InviteNext(c) ==
  SetStatus(c, "inviteNext", "INVITED", "enqueueInvite") /\ UNCHANGED inPerson

EnqueueInvite(c) ==
  At(c, "enqueueInvite") /\ QueueInvite(c, call[c].who, "idle")

CompleteRequest(c) == SetRequest(c, "complete", "COMPLETED", "completeDocument")

CompleteDocument(c) ==
  SetDocument(c, "completeDocument", "COMPLETED", "recordCompleted")

RecordCompleted(c) ==
  Record(c, "recordCompleted", "SIGNED", Nobody, "completionMail")

(* The stable jobId makes a second add a no-op.                            *)
QueueCompletionMail(c) ==
  /\ At(c, "completionMail")
  /\ completionMail' = TRUE
  /\ Goto(c, "idle")
  /\ UNCHANGED <<envelope, reqStatus, docStatus, status, signature, inPerson,
                 trail, mailed, overdue, faults>>

(***************************************************************************)
(* decline.                                                                *)
(***************************************************************************)
Decline(c, s) ==
  /\ "decline" \in Ops
  /\ Active
  /\ \/ overdue /\ EnterExpire(c)
     \/ /\ ~overdue
        /\ s \in Required(envelope)
        /\ Invited(s)
        /\ EnterTurn(c, s, "decline", FALSE)
  /\ UNCHANGED <<request, overdue, faults>>

MarkDeclined(c) ==
  SetStatus(c, "decline", "DECLINED", "recordDeclined") /\ UNCHANGED inPerson

RecordDeclined(c) ==
  Record(c, "recordDeclined", "DECLINED", call[c].who,
         IF envelope.mode = "SEQUENTIAL" THEN "pause" ELSE "idle")

PauseRequest(c) == SetRequest(c, "pause", "IN_PROGRESS", "idle")

(***************************************************************************)
(* cancel.                                                                 *)
(***************************************************************************)
Cancel(c) ==
  /\ "cancel" \in Ops
  /\ reqStatus # "COMPLETED"
  /\ Enter(c, "cancel", Nobody, "idle", FALSE)
  /\ UNCHANGED <<request, overdue, faults>>

CancelRequest(c) == SetRequest(c, "cancel", "CANCELLED", "cancelDocument")

CancelDocument(c) ==
  SetDocument(c, "cancelDocument", "CANCELLED", "recordCancelled")

RecordCancelled(c) ==
  Record(c, "recordCancelled", "CANCELLED", Nobody, "idle")

(***************************************************************************)
(* inPersonSession.  The operator names the recipient, or leaves it out    *)
(* when exactly one is waiting; either way it is one of the candidates.    *)
(***************************************************************************)
HandOver(c, s) ==
  /\ "handOver" \in Ops
  /\ Active
  /\ \/ overdue /\ EnterExpire(c)
     \/ /\ ~overdue
        /\ s \in Required(envelope)
        /\ status[s] \notin {"SIGNED", "DECLINED"}
        /\ \/ envelope.role[s] = "APPROVER"
           \/ envelope.mode = "PARALLEL"
           \/ Invited(s)
        /\ EnterTurn(c, s, "handOver", FALSE)
  /\ UNCHANGED <<request, overdue, faults>>

MarkInPerson(c) ==
  /\ At(c, "handOver")
  /\ inPerson' = inPerson \cup {call[c].who}
  /\ Goto(c, "recordHandedOver")
  /\ UNCHANGED <<envelope, reqStatus, docStatus, status, signature, trail,
                 mailed, completionMail, overdue, faults>>

RecordHandedOver(c) ==
  Record(c, "recordHandedOver", "HANDED_OVER", call[c].who, "idle")

(***************************************************************************)
(* markRequestExpired, reached from any of the recipient's handlers.       *)
(***************************************************************************)
ExpireRequest(c) == SetRequest(c, "expire", "EXPIRED", "recordExpired")

RecordExpired(c) == Record(c, "recordExpired", "EXPIRED", Nobody, "idle")

(***************************************************************************)
(* The environment: the clock, and a call that dies at an await (the       *)
(* database or the queue refuses it, or the process stops).                *)
(***************************************************************************)
DeadlinePasses ==
  /\ ~overdue
  /\ overdue' = TRUE
  /\ UNCHANGED <<request, faults, call>>

Fail(c) ==
  /\ ~At(c, "idle")
  /\ faults < MaxFaults
  /\ faults' = faults + 1
  /\ Goto(c, "idle")
  /\ UNCHANGED <<request, overdue>>

(* One step of a call that is already running.                             *)
Continue(c) ==
  \/ CheckTurn(c)
  \/ CreateMarkDocument(c) \/ CreateRecord(c) \/ CreateEnqueue(c)
  \/ Promote(c) \/ View(c) \/ RecordViewed(c)
  \/ RejectSignature(c) \/ CollectSignature(c) \/ MarkSigned(c)
  \/ RecordSigned(c) \/ AdvanceWorkflow(c) \/ InviteNext(c) \/ EnqueueInvite(c)
  \/ CompleteRequest(c) \/ CompleteDocument(c) \/ RecordCompleted(c)
  \/ QueueCompletionMail(c)
  \/ MarkDeclined(c) \/ RecordDeclined(c) \/ PauseRequest(c)
  \/ CancelRequest(c) \/ CancelDocument(c) \/ RecordCancelled(c)
  \/ MarkInPerson(c) \/ RecordHandedOver(c)
  \/ ExpireRequest(c) \/ RecordExpired(c)

Begin(c) ==
  \/ Cancel(c)
  \/ \E s \in Signers : \/ OpenSession(c, s) \/ Sign(c, s)
                        \/ Decline(c, s) \/ HandOver(c, s)

Next ==
  \/ \E c \in Calls : Begin(c) \/ Continue(c) \/ Fail(c)
  \/ DeadlinePasses

Spec == Init /\ [][Next]_vars

(* The event loop runs every continuation that is ready; nothing obliges a *)
(* client to call.                                                         *)
FairSpec == Spec /\ \A c \in Calls : WF_vars(Continue(c))
-----------------------------------------------------------------------------
(***************************************************************************)
(* Properties.                                                             *)
(***************************************************************************)
TypeOK ==
  /\ envelope \in EnvelopeType
  /\ reqStatus \in RequestStatus
  /\ docStatus \in DocumentStatus
  /\ status \in [Signers -> SignerStatus]
  /\ signature \in SUBSET Signers
  /\ inPerson \in SUBSET Signers
  /\ trail \in SUBSET (EventType \X (Signers \cup {Nobody}))
  /\ mailed \in SUBSET Signers
  /\ completionMail \in BOOLEAN
  /\ overdue \in BOOLEAN
  /\ faults \in 0..MaxFaults
  /\ call \in [Calls -> CallState]

(* No recipient acts before its turn: in a sequential request a signature  *)
(* row, and every event a recipient leaves in the trail, comes after the   *)
(* signatures of all earlier recipients (canSignerAct read statuses, other *)
(* calls overwrite them, and the row is written some awaits later).        *)
Acted(s) == s \in signature \/ \E type \in EventType : <<type, s>> \in trail

InOrder ==
  \A s \in Signers :
    Acted(s) => s \in Required(envelope) /\ Earlier(envelope, s) \subseteq signature

(* The request is reported complete (its status, its document, the event   *)
(* behind the request.completed webhook, the completion mail) only when    *)
(* the signature of every recipient that is not a CC has been collected.   *)
ReportedComplete ==
  \/ reqStatus = "COMPLETED"
  \/ docStatus = "COMPLETED"
  \/ CompletedEvent \in trail
  \/ completionMail

CompleteMeansAllSigned ==
  ReportedComplete => Required(envelope) \subseteq signature

(* Recipients are released in routing order: in a sequential request one   *)
(* has left PENDING, or was sent its invitation, only when every earlier   *)
(* one has left PENDING, whichever of advanceWorkflow and publicSession    *)
(* released them and however their writes interleave.                      *)
Released(s) == status[s] # "PENDING" \/ s \in mailed

ReleasedInOrder ==
  \A s \in Required(envelope) : Released(s) =>
    \A p \in Earlier(envelope, s) : status[p] # "PENDING"

(* A status SIGNED or a SIGNED event without a signature row never shows,  *)
(* although row, status and event are written at three separate awaits.    *)
SignedHasRow ==
  \A s \in Signers :
    status[s] = "SIGNED" \/ <<"SIGNED", s>> \in trail => s \in signature

(* The request promises the ledger of SignatureLedger.                     *)
Ledger == INSTANCE SignatureLedger WITH
            collected <- signature, completed <- CompletedEvent \in trail

ImplementsLedger == Ledger!LedgerSpec

Quiet == \A c \in Calls : At(c, "idle")

Declined == \E s \in Signers : status[s] = "DECLINED"

(* At rest an active request that nobody declined can go on: some          *)
(* recipient that has not signed is released, it is its turn, and its      *)
(* invitation went out (docs/Architecture.md:117).                         *)
NeverStalls ==
  Quiet /\ Active /\ ~Declined /\ faults = 0 /\ Required(envelope) # {} =>
    \E s \in Required(envelope) \ signature :
      /\ Invited(s)
      /\ CanSignerAct(s)
      /\ envelope.sendInvites => s \in mailed

(* Once the last required signature has landed the sender is told          *)
(* (docs/Webhooks.md:39).                                                  *)
LastSignatureCompletes ==
  (Required(envelope) # {} /\ Required(envelope) \subseteq signature)
    ~> CompletedEvent \in trail

(* No next recipient is activated once someone declined (comment at        *)
(* signatures.service.ts:585).                                             *)
DeclineStopsRouting ==
  [][\A s, t \in Signers :
       envelope.mode = "SEQUENTIAL" /\ <<"DECLINED", s>> \in trail
         /\ status[t] = "PENDING" => status'[t] = "PENDING"]_vars

(* The EXPIRED event, and with it the webhook request.expired, is for a    *)
(* request that expires un-signed (docs/Webhooks.md:42): it never stands   *)
(* in one trail with the completion of the same request.                   *)
ExpiredMeansUnsigned ==
  ~(CompletedEvent \in trail /\ <<"EXPIRED", Nobody>> \in trail)

(* A cancelled request does not become active again (docs/UserGuide.md:137,*)
(* 138: signers see the session as no longer available).                   *)
CancelledNotReopened ==
  [][reqStatus = "CANCELLED" => ~Active']_vars

-----------------------------------------------------------------------------
(***************************************************************************)
(* The inductive invariant: what the rows say of each other, and what a    *)
(* call may still rely on from the read it decided on, however long ago.   *)
(***************************************************************************)
RowInv ==
  /\ \A s \in Signers : status[s] = "SIGNED" => s \in signature
  /\ \A s \in signature :
       /\ s \in Required(envelope)
       /\ Earlier(envelope, s) \subseteq signature
       /\ status[s] # "PENDING"

(* The awaits behind canSignerAct, and those behind AllSigned.             *)
Cleared == Goal \cup {"recordViewed", "markSigned", "recordSigned",
                      "recordDeclined", "recordHandedOver"}
Closing == {"complete", "completeDocument", "recordCompleted",
            "completionMail"}
Inviting == {"inviteNext", "enqueueInvite"}

CallInv(c) ==
  LET pc == call[c].pc
      who == call[c].who
  IN  /\ pc \in Cleared \cup Inviting \cup {"turn"} => who \in Required(envelope)
      /\ pc = "turn" => call[c].goal \in Goal
      /\ pc = "sign" \/ (pc = "turn" /\ call[c].goal = "sign") =>
           status[who] # "PENDING"
      /\ pc \in Cleared => Earlier(envelope, who) \subseteq signature
      /\ pc \in {"markSigned", "recordSigned"} => who \in signature
      /\ pc \in Inviting =>
           \A p \in Earlier(envelope, who) : status[p] # "PENDING"
      /\ pc \in Closing => Required(envelope) \subseteq signature

IInv ==
  /\ TypeOK
  /\ RowInv
  /\ \A c \in Calls : CallInv(c)
  /\ InOrder
  /\ CompleteMeansAllSigned
  /\ ReleasedInOrder
  /\ SignedHasRow
=============================================================================
