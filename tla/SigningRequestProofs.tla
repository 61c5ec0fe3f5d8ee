------------------------ MODULE SigningRequestProofs ------------------------
(***************************************************************************)
(* Proofs about SigningRequest, for every number of recipients up to the   *)
(* code's 50, every set of envelopes, every set of concurrent calls, every *)
(* choice of operations and every number of faults.                        *)
(*                                                                         *)
(* Racing calls break what the code says of a decline; the last part       *)
(* proves it for one call at a time (OneAtATime, SerialInv).               *)
(***************************************************************************)
EXTENDS SigningRequest, TLAPS

-----------------------------------------------------------------------------
(***************************************************************************)
(* Type correctness.                                                       *)
(***************************************************************************)

(* Goto and Enter keep every slot a call.                                  *)
LEMMA GotoType ==
  ASSUME TypeOK, NEW c \in Calls, NEW p \in Pc, Goto(c, p)
  PROVE  call' \in [Calls -> CallState]
BY DEF TypeOK, Goto, CallState, Running, Idle, Pc, Goal, Nobody

LEMMA EnterType ==
  ASSUME TypeOK, NEW c \in Calls, NEW p \in Pc, NEW s \in Signers \cup {Nobody},
         NEW g \in Goal \cup {"idle"}, NEW b \in BOOLEAN, Enter(c, p, s, g, b)
  PROVE  call' \in [Calls -> CallState]
BY DEF TypeOK, Enter, CallState, Running

LEMMA EnterTurnType ==
  ASSUME TypeOK, NEW c \in Calls, NEW s \in Signers, NEW g \in Goal,
         NEW b \in BOOLEAN, EnterTurn(c, s, g, b)
  PROVE  call' \in [Calls -> CallState]
BY EnterType DEF EnterTurn, Pc

LEMMA EnterExpireType ==
  ASSUME TypeOK, NEW c \in Calls, EnterExpire(c)
  PROVE  call' \in [Calls -> CallState]
BY EnterType DEF EnterExpire, Pc

(* The call that runs an await is about a recipient or about nobody.       *)
LEMMA CallFields ==
  ASSUME TypeOK, NEW c \in Calls
  PROVE  /\ call[c].who \in Signers \cup {Nobody}
         /\ call[c].goal \in Goal \cup {"idle"}
         /\ call[c].pc \in Pc
BY DEF TypeOK, CallState

LEMMA RecordType ==
  ASSUME TypeOK, NEW c \in Calls, NEW p \in Pc, NEW type \in EventType,
         NEW s \in Signers \cup {Nobody}, NEW next \in Pc,
         Record(c, p, type, s, next)
  PROVE  TypeOK'
<1>1. call' \in [Calls -> CallState]
  BY GotoType DEF Record
<1> QED BY <1>1 DEF TypeOK, Record

LEMMA SetRequestType ==
  ASSUME TypeOK, NEW c \in Calls, NEW p \in Pc, NEW value \in RequestStatus,
         NEW next \in Pc, SetRequest(c, p, value, next)
  PROVE  TypeOK'
<1>1. call' \in [Calls -> CallState]
  BY GotoType DEF SetRequest
<1> QED BY <1>1 DEF TypeOK, SetRequest

LEMMA SetDocumentType ==
  ASSUME TypeOK, NEW c \in Calls, NEW p \in Pc, NEW value \in DocumentStatus,
         NEW next \in Pc, SetDocument(c, p, value, next)
  PROVE  TypeOK'
<1>1. call' \in [Calls -> CallState]
  BY GotoType DEF SetDocument
<1> QED BY <1>1 DEF TypeOK, SetDocument

LEMMA SetStatusType ==
  ASSUME TypeOK, NEW c \in Calls, NEW p \in Pc, NEW value \in SignerStatus,
         NEW next \in Pc, SetStatus(c, p, value, next),
         inPerson' \in SUBSET Signers
  PROVE  TypeOK'
<1>1. call' \in [Calls -> CallState]
  BY GotoType DEF SetStatus
<1>2. status' \in [Signers -> SignerStatus]
  BY DEF TypeOK, SetStatus
<1> QED BY <1>1, <1>2 DEF TypeOK, SetStatus

LEMMA QueueInviteType ==
  ASSUME TypeOK, NEW c \in Calls, NEW s \in Signers, NEW next \in Pc,
         QueueInvite(c, s, next)
  PROVE  TypeOK'
<1>1. call' \in [Calls -> CallState]
  BY GotoType DEF QueueInvite
<1> QED BY <1>1 DEF TypeOK, QueueInvite

(* A step that moves calls and nothing else.                               *)
LEMMA ReadOnlyType ==
  ASSUME TypeOK, call' \in [Calls -> CallState],
         UNCHANGED <<request, overdue, faults>>
  PROVE  TypeOK'
BY DEF TypeOK, request

LEMMA InitType == Init => TypeOK
<1> SUFFICES ASSUME Init PROVE TypeOK
  OBVIOUS
<1> USE EnvelopesAssumption, MaxFaultsAssumption DEF Init
<1>1. envelope \in EnvelopeType
  OBVIOUS
<1>2. /\ reqStatus \in RequestStatus
      /\ docStatus \in DocumentStatus
      /\ status \in [Signers -> SignerStatus]
  BY DEF RequestStatus, DocumentStatus, SignerStatus
<1>3. call \in [Calls -> CallState]
  BY DEF CallState, Running, Idle, Pc, Goal, Nobody
<1>4. signature = {} /\ inPerson = {} /\ trail = {} /\ mailed = {}
  OBVIOUS
<1>5. completionMail \in BOOLEAN /\ overdue \in BOOLEAN
  OBVIOUS
<1>6. faults \in 0..MaxFaults
  <2> HIDE DEF Init
  <2>1. faults = 0
    BY DEF Init
  <2> QED BY <2>1
<1> HIDE DEF Init
<1> QED BY <1>1, <1>2, <1>3, <1>4, <1>5, <1>6 DEF TypeOK

LEMMA BeginType ==
  ASSUME TypeOK, NEW c \in Calls, Begin(c)
  PROVE  TypeOK'
<1>1. CASE Cancel(c)
  <2>1. call' \in [Calls -> CallState]
    BY <1>1, EnterType DEF Cancel, Pc
  <2> QED BY <1>1, <2>1, ReadOnlyType DEF Cancel
<1>2. ASSUME NEW s \in Signers, OpenSession(c, s) PROVE TypeOK'
  <2>1. call' \in [Calls -> CallState]
    BY <1>2, EnterTurnType, EnterExpireType DEF OpenSession, Goal
  <2> QED BY <1>2, <2>1, ReadOnlyType DEF OpenSession
<1>3. ASSUME NEW s \in Signers, Sign(c, s) PROVE TypeOK'
  <2>1. (s \in inPerson) \in BOOLEAN
    OBVIOUS
  <2>2. call' \in [Calls -> CallState]
    BY <1>3, <2>1, EnterTurnType, EnterExpireType DEF Sign, Goal
  <2> QED BY <1>3, <2>2, ReadOnlyType DEF Sign
<1>4. ASSUME NEW s \in Signers, Decline(c, s) PROVE TypeOK'
  <2>1. call' \in [Calls -> CallState]
    BY <1>4, EnterTurnType, EnterExpireType DEF Decline, Goal
  <2> QED BY <1>4, <2>1, ReadOnlyType DEF Decline
<1>5. ASSUME NEW s \in Signers, HandOver(c, s) PROVE TypeOK'
  <2>1. call' \in [Calls -> CallState]
    BY <1>5, EnterTurnType, EnterExpireType DEF HandOver, Goal
  <2> QED BY <1>5, <2>1, ReadOnlyType DEF HandOver
<1> QED BY <1>1, <1>2, <1>3, <1>4, <1>5 DEF Begin

LEMMA ContinueType ==
  ASSUME TypeOK, NEW c \in Calls, CallInv(c), Continue(c)
  PROVE  TypeOK'
<1> DEFINE who == call[c].who
<1>0. who \in Signers \cup {Nobody} /\ call[c].goal \in Goal \cup {"idle"}
  BY CallFields
<1>a. /\ Goal \subseteq Pc
      /\ Nobody \in Signers \cup {Nobody}
  BY DEF Pc
<1>1. CASE CheckTurn(c)
  BY <1>0, <1>1, <1>a, GotoType, ReadOnlyType DEF CheckTurn, Pc
<1>2. CASE CreateMarkDocument(c)
  BY <1>2, SetDocumentType DEF CreateMarkDocument, Pc, DocumentStatus
<1>3. CASE CreateRecord(c)
  BY <1>3, <1>a, RecordType DEF CreateRecord, Pc, EventType
<1>4. CASE CreateEnqueue(c)
  <2>1. InvitedAtCreation(envelope) \subseteq Signers
    BY NumSignersAssumption DEF InvitedAtCreation, Signers
  <2> QED BY <1>4, <2>1, QueueInviteType DEF CreateEnqueue, Pc
<1>5. CASE Promote(c)
  BY <1>5, SetStatusType DEF Promote, Pc, SignerStatus, Goal, TypeOK
<1>6. CASE View(c)
  BY <1>6, SetStatusType DEF View, Pc, SignerStatus, Goal, TypeOK
<1>7. CASE RecordViewed(c)
  BY <1>0, <1>7, RecordType DEF RecordViewed, Pc, EventType
<1>8. CASE RejectSignature(c)
  BY <1>8, GotoType, ReadOnlyType DEF RejectSignature, Pc
<1>9. CASE CollectSignature(c)
  <2>1. who \in Signers
    BY <1>9 DEF CollectSignature, At, CallInv, Cleared, Goal, Required
  <2>2. call' \in [Calls -> CallState]
    BY <1>9, GotoType DEF CollectSignature, Pc
  <2> QED BY <1>9, <2>1, <2>2 DEF CollectSignature, TypeOK
<1>10. CASE MarkSigned(c)
  <2>1. who \in Signers
    BY <1>10 DEF MarkSigned, SetStatus, At, CallInv, Cleared, Required
  <2>2. inPerson' \in SUBSET Signers
    BY <1>10, <2>1 DEF MarkSigned, TypeOK
  <2> QED BY <1>10, <2>2, SetStatusType DEF MarkSigned, Pc, SignerStatus
<1>11. CASE RecordSigned(c)
  BY <1>0, <1>11, RecordType DEF RecordSigned, Pc, EventType
<1>12. CASE AdvanceWorkflow(c)
  <2>1. ASSUME NEW s \in Waiting,
               call' = [call EXCEPT ![c] = Running("inviteNext", s, "idle", FALSE)]
        PROVE  call' \in [Calls -> CallState]
    BY <2>1 DEF Waiting, Required, TypeOK, CallState, Running, Pc
  <2>2. call' \in [Calls -> CallState]
    BY <1>12, <2>1, GotoType DEF AdvanceWorkflow, Pc
  <2> QED BY <1>12, <2>2, ReadOnlyType DEF AdvanceWorkflow
<1>13. CASE InviteNext(c)
  BY <1>13, SetStatusType DEF InviteNext, Pc, SignerStatus, TypeOK
<1>14. CASE EnqueueInvite(c)
  <2>1. who \in Signers
    BY <1>14 DEF EnqueueInvite, At, CallInv, Inviting, Required
  <2> QED BY <1>14, <2>1, QueueInviteType DEF EnqueueInvite, Pc
<1>15. CASE CompleteRequest(c)
  BY <1>15, SetRequestType DEF CompleteRequest, Pc, RequestStatus
<1>16. CASE CompleteDocument(c)
  BY <1>16, SetDocumentType DEF CompleteDocument, Pc, DocumentStatus
<1>17. CASE RecordCompleted(c)
  BY <1>17, <1>a, RecordType DEF RecordCompleted, Pc, EventType
<1>18. CASE QueueCompletionMail(c)
  BY <1>18, GotoType DEF QueueCompletionMail, Pc, TypeOK
<1>19. CASE MarkDeclined(c)
  BY <1>19, SetStatusType DEF MarkDeclined, Pc, SignerStatus, Goal, TypeOK
<1>20. CASE RecordDeclined(c)
  BY <1>0, <1>20, RecordType DEF RecordDeclined, Pc, EventType
<1>21. CASE PauseRequest(c)
  BY <1>21, SetRequestType DEF PauseRequest, Pc, RequestStatus
<1>22. CASE CancelRequest(c)
  BY <1>22, SetRequestType DEF CancelRequest, Pc, RequestStatus
<1>23. CASE CancelDocument(c)
  BY <1>23, SetDocumentType DEF CancelDocument, Pc, DocumentStatus
<1>24. CASE RecordCancelled(c)
  BY <1>24, <1>a, RecordType DEF RecordCancelled, Pc, EventType
<1>25. CASE MarkInPerson(c)
  <2>1. who \in Signers
    BY <1>25 DEF MarkInPerson, At, CallInv, Cleared, Goal, Required
  <2>2. call' \in [Calls -> CallState]
    BY <1>25, GotoType DEF MarkInPerson, Pc
  <2> QED BY <1>25, <2>1, <2>2 DEF MarkInPerson, TypeOK
<1>26. CASE RecordHandedOver(c)
  BY <1>0, <1>26, RecordType DEF RecordHandedOver, Pc, EventType
<1>27. CASE ExpireRequest(c)
  BY <1>27, SetRequestType DEF ExpireRequest, Pc, RequestStatus
<1>28. CASE RecordExpired(c)
  BY <1>28, <1>a, RecordType DEF RecordExpired, Pc, EventType
<1> QED BY <1>1, <1>2, <1>3, <1>4, <1>5, <1>6, <1>7, <1>8, <1>9, <1>10, <1>11,
           <1>12, <1>13, <1>14, <1>15, <1>16, <1>17, <1>18, <1>19, <1>20,
           <1>21, <1>22, <1>23, <1>24, <1>25, <1>26, <1>27, <1>28 DEF Continue

LEMMA NextType ==
  ASSUME TypeOK, \A c \in Calls : CallInv(c), [Next]_vars
  PROVE  TypeOK'
<1>1. CASE UNCHANGED vars
  BY <1>1 DEF vars, TypeOK
<1>2. CASE DeadlinePasses
  BY <1>2 DEF DeadlinePasses, request, TypeOK
<1>3. ASSUME NEW c \in Calls, Fail(c) PROVE TypeOK'
  <2>1. call' \in [Calls -> CallState]
    BY <1>3, GotoType DEF Fail, Pc
  <2>2. faults' \in 0..MaxFaults
    BY <1>3, MaxFaultsAssumption DEF Fail, TypeOK
  <2> QED BY <1>3, <2>1, <2>2 DEF Fail, request, TypeOK
<1> QED BY <1>1, <1>2, <1>3, BeginType, ContinueType DEF Next

-----------------------------------------------------------------------------
(***************************************************************************)
(* What every step preserves.                                              *)
(***************************************************************************)

(* The envelope is fixed, signatures are never removed and nobody becomes  *)
(* PENDING again: the facts a call may carry across an await.              *)
Grows ==
  /\ envelope' = envelope
  /\ signature \subseteq signature'
  /\ \A s \in Signers : status[s] # "PENDING" => status'[s] # "PENDING"

(* The awaits that write a recipient's status or a signature row.          *)
LEMMA Writers ==
  ASSUME NEW c \in Calls, Continue(c)
  PROVE  \/ UNCHANGED <<envelope, status, signature>>
         \/ Promote(c) \/ View(c) \/ CollectSignature(c) \/ MarkSigned(c)
         \/ InviteNext(c) \/ MarkDeclined(c)
BY DEF Continue, CheckTurn, CreateMarkDocument, CreateRecord, CreateEnqueue,
       RecordViewed, RejectSignature, RecordSigned, AdvanceWorkflow,
       EnqueueInvite, CompleteRequest, CompleteDocument, RecordCompleted,
       QueueCompletionMail, RecordDeclined, PauseRequest, CancelRequest,
       CancelDocument, RecordCancelled, MarkInPerson, RecordHandedOver,
       ExpireRequest, RecordExpired, Record, SetRequest, SetDocument,
       QueueInvite, request

LEMMA BeginReads ==
  ASSUME NEW c \in Calls, Begin(c)
  PROVE  UNCHANGED <<request, overdue, faults>>
BY DEF Begin, Cancel, OpenSession, Sign, Decline, HandOver

LEMMA StepGrows ==
  ASSUME TypeOK, [Next]_vars
  PROVE  Grows
<1>1. ASSUME UNCHANGED <<envelope, status, signature>> PROVE Grows
  BY <1>1 DEF Grows
<1>2. ASSUME NEW c \in Calls, Continue(c) PROVE Grows
  <2>1. CASE Promote(c) \/ View(c) \/ MarkSigned(c) \/ InviteNext(c) \/ MarkDeclined(c)
    <3>1. PICK p \in Pc, value \in SignerStatus \ {"PENDING"}, next \in Pc :
            SetStatus(c, p, value, next)
      BY <2>1 DEF Promote, View, MarkSigned, InviteNext, MarkDeclined, Pc, Goal,
                  SignerStatus
    <3> QED BY <3>1 DEF SetStatus, Grows, TypeOK
  <2>2. CASE CollectSignature(c)
    BY <2>2 DEF CollectSignature, Grows
  <2> QED BY <1>1, <1>2, <2>1, <2>2, Writers
<1>3. ASSUME NEW c \in Calls, Begin(c) \/ Fail(c) PROVE Grows
  BY <1>1, <1>3, BeginReads DEF Fail, request
<1>4. CASE DeadlinePasses \/ UNCHANGED vars
  BY <1>1, <1>4 DEF DeadlinePasses, vars, request
<1> QED BY <1>2, <1>3, <1>4 DEF Next

(* What holds of a call that did not move holds after the step.            *)
LEMMA CallInvKept ==
  ASSUME TypeOK, Grows, NEW d \in Calls, CallInv(d), call'[d] = call[d]
  PROVE  CallInv(d)'
<1>1. /\ Required(envelope)' = Required(envelope)
      /\ (call[d].who)' = call[d].who
      /\ (call[d].pc)' = call[d].pc
      /\ (call[d].goal)' = call[d].goal
      /\ Earlier(envelope, call[d].who)' = Earlier(envelope, call[d].who)
  BY DEF Grows
<1>2. Required(envelope) \subseteq Signers
      /\ Earlier(envelope, call[d].who) \subseteq Signers
  BY DEF Required, Earlier
<1>3. signature \subseteq signature'
      /\ \A s \in Signers : status[s] # "PENDING" => status'[s] # "PENDING"
  BY DEF Grows
<1> QED BY <1>1, <1>2, <1>3 DEF CallInv, Inviting, Cleared, Closing, Goal

LEMMA IdleCall ==
  ASSUME NEW c \in Calls, call'[c] = Idle
  PROVE  CallInv(c)'
BY DEF CallInv, Idle, Running, Cleared, Inviting, Closing, Goal

(* Where Goto and Enter take the call that moves, and that no other does.  *)
LEMMA GotoCall ==
  ASSUME TypeOK, NEW c \in Calls, NEW p, Goto(c, p)
  PROVE  /\ call'[c] = IF p = "idle" THEN Idle
                       ELSE Running(p, call[c].who, call[c].goal, call[c].wasInPerson)
         /\ \A d \in Calls \ {c} : call'[d] = call[d]
BY DEF TypeOK, Goto

LEMMA EnterCall ==
  ASSUME TypeOK, NEW c \in Calls, NEW p, NEW s, NEW g, NEW b, Enter(c, p, s, g, b)
  PROVE  /\ call'[c] = Running(p, s, g, b)
         /\ \A d \in Calls \ {c} : call'[d] = call[d]
BY DEF TypeOK, Enter

(* A call that goes on to p with its recipient, having been allowed there. *)
LEMMA GotoCallInv ==
  ASSUME TypeOK, NEW c \in Calls, NEW p \in Pc \ {"idle", "turn", "sign"},
         Goto(c, p), Grows,
         p \in Cleared \cup Inviting => call[c].who \in Required(envelope),
         p \in Cleared => Earlier(envelope, call[c].who) \subseteq signature',
         p \in {"markSigned", "recordSigned"} => call[c].who \in signature',
         p \in Inviting =>
           \A q \in Earlier(envelope, call[c].who) : status'[q] # "PENDING",
         p \in Closing => Required(envelope) \subseteq signature'
  PROVE  CallInv(c)'
<1>1. call'[c] = Running(p, call[c].who, call[c].goal, call[c].wasInPerson)
  BY GotoCall
<1>2. /\ call'[c].pc = p
      /\ call'[c].who = call[c].who
  BY <1>1 DEF Running
<1>3. envelope' = envelope
  BY DEF Grows
<1> QED BY <1>2, <1>3 DEF CallInv, Inviting, Cleared, Closing, Goal

(* The call that has just read its recipient may go to the turn check or,  *)
(* in a parallel request, straight to its goal.                            *)
LEMMA EnterTurnCallInv ==
  ASSUME TypeOK, NEW c \in Calls, NEW s \in Required(envelope), NEW g \in Goal,
         NEW b \in BOOLEAN, EnterTurn(c, s, g, b), UNCHANGED request,
         g = "sign" => status[s] # "PENDING"
  PROVE  CallInv(c)'
<1> DEFINE p == IF envelope.mode = "SEQUENTIAL" THEN "turn" ELSE g
<1>1. call'[c] = Running(p, s, g, b)
  BY EnterCall DEF EnterTurn
<1>2. call'[c].pc = p /\ call'[c].who = s /\ call'[c].goal = g
  BY <1>1 DEF Running
<1>3. UNCHANGED <<envelope, status, signature>>
  BY DEF request
<1>4. CASE envelope.mode = "SEQUENTIAL"
  BY <1>2, <1>3, <1>4 DEF CallInv, Inviting, Cleared, Closing, Goal
<1>5. CASE envelope.mode # "SEQUENTIAL"
  <2>1. Earlier(envelope, s) = {}
    BY <1>5 DEF Earlier
  <2> QED BY <1>2, <1>3, <1>5, <2>1 DEF CallInv, Inviting, Cleared, Closing, Goal
<1> QED BY <1>4, <1>5

LEMMA EnterOtherCallInv ==
  ASSUME TypeOK, NEW c \in Calls, NEW p \in {"cancel", "expire"},
         Enter(c, p, Nobody, "idle", FALSE)
  PROVE  CallInv(c)'
<1>1. call'[c] = Running(p, Nobody, "idle", FALSE)
  BY DEF Enter, TypeOK
<1>2. call'[c].pc = p
  BY <1>1 DEF Running
<1> QED BY <1>2 DEF CallInv, Inviting, Cleared, Closing, Goal

LEMMA BeginCallInv ==
  ASSUME TypeOK, NEW c \in Calls, Begin(c)
  PROVE  CallInv(c)' /\ \A d \in Calls \ {c} : call'[d] = call[d]
<1>1. CASE Cancel(c)
  BY <1>1, EnterOtherCallInv, EnterCall DEF Cancel
<1>2. CASE EnterExpire(c)
  BY <1>2, EnterOtherCallInv, EnterCall DEF EnterExpire
<1>3. ASSUME NEW s \in Required(envelope), NEW g \in Goal, NEW b \in BOOLEAN,
             EnterTurn(c, s, g, b), g = "sign" => status[s] # "PENDING"
      PROVE  CallInv(c)' /\ \A d \in Calls \ {c} : call'[d] = call[d]
  <2>1. UNCHANGED request
    BY BeginReads
  <2> QED BY <1>3, <2>1, EnterTurnCallInv, EnterCall DEF EnterTurn
<1>4. ASSUME NEW s \in Signers,
             OpenSession(c, s) \/ Sign(c, s) \/ Decline(c, s) \/ HandOver(c, s)
      PROVE  \/ EnterExpire(c)
             \/ \E q \in Required(envelope), g \in Goal, b \in BOOLEAN :
                  EnterTurn(c, q, g, b) /\ (g = "sign" => status[q] # "PENDING")
  <2>1. (s \in inPerson) \in BOOLEAN
    OBVIOUS
  <2>2. CASE OpenSession(c, s)
    BY <2>2 DEF OpenSession, Goal
  <2>3. CASE Sign(c, s)
    BY <2>1, <2>3 DEF Sign, Goal, Invited
  <2>4. CASE Decline(c, s)
    BY <2>4 DEF Decline, Goal
  <2>5. CASE HandOver(c, s)
    BY <2>5 DEF HandOver, Goal
  <2> QED BY <1>4, <2>2, <2>3, <2>4, <2>5
<1> QED BY <1>1, <1>2, <1>3, <1>4 DEF Begin

(* One step of a running call keeps what the call itself relies on.        *)
LEMMA ContinueCallInv ==
  ASSUME IInv, NEW c \in Calls, Continue(c), Grows
  PROVE  CallInv(c)' /\ \A d \in Calls \ {c} : call'[d] = call[d]
<1> DEFINE who == call[c].who
<1>0. TypeOK /\ CallInv(c)
  BY DEF IInv
<1> DEFINE Kept == CallInv(c)' /\ \A d \in Calls \ {c} : call'[d] = call[d]
<1>a. ASSUME Goto(c, "idle") PROVE Kept
  BY <1>0, <1>a, GotoCall, IdleCall
<1>b. ASSUME NEW p \in Pc \ ({"idle", "turn", "sign"} \cup Cleared \cup Inviting \cup Closing),
             Goto(c, p)
      PROVE Kept
  <2>1. p \in Pc \ {"idle", "turn", "sign"} /\ p \notin {"markSigned", "recordSigned"}
    BY <1>b DEF Cleared
  <2>2. CallInv(c)'
    BY <1>0, <1>b, <2>1, GotoCallInv
  <2> QED BY <1>0, <1>b, <2>2, GotoCall
<1>c. ASSUME NEW p \in Closing, Required(envelope) \subseteq signature, Goto(c, p)
      PROVE Kept
  <2>1. /\ p \in Pc \ {"idle", "turn", "sign"}
        /\ p \notin Cleared \cup Inviting \cup {"markSigned", "recordSigned"}
    BY <1>c DEF Closing, Pc, Cleared, Inviting, Goal
  <2>2. Required(envelope) \subseteq signature'
    BY <1>c DEF Grows
  <2>3. CallInv(c)'
    BY <1>0, <1>c, <2>1, <2>2, GotoCallInv
  <2> QED BY <1>0, <1>c, <2>3, GotoCall
<1>d. ASSUME NEW p \in Cleared \ {"sign"}, Goto(c, p), call[c].pc \in Cleared,
             p \in {"markSigned", "recordSigned"} => who \in signature'
      PROVE Kept
  <2>1. p \in Pc \ ({"idle", "turn", "sign"} \cup Closing \cup Inviting)
    BY <1>d DEF Closing, Pc, Cleared, Inviting, Goal
  <2>2. who \in Required(envelope) /\ Earlier(envelope, who) \subseteq signature'
    BY <1>0, <1>d DEF CallInv, Grows
  <2> QED BY <1>0, <1>d, <2>1, <2>2, GotoCall, GotoCallInv
<1>1. CASE CheckTurn(c)
  <2>1. CASE ~CanSignerAct(who)
    BY <1>1, <1>a, <2>1 DEF CheckTurn
  <2>2. CASE CanSignerAct(who)
    <3>1. who \in Required(envelope) /\ call[c].goal \in Goal
      BY <1>0, <1>1 DEF CheckTurn, At, CallInv
    <3>2. Earlier(envelope, who) \subseteq signature
      BY <2>2 DEF CanSignerAct, Earlier, Required, IInv, RowInv
    <3>3. UNCHANGED <<envelope, status, signature>>
      BY <1>1 DEF CheckTurn, request
    <3>4. CASE call[c].goal # "sign"
      <4>1. call[c].goal \in Pc \ {"idle", "turn", "sign"}
        BY <3>1, <3>4 DEF Pc, Goal
      <4>2. call[c].goal \notin Inviting \cup Closing \cup {"markSigned", "recordSigned"}
        BY <3>1 DEF Inviting, Closing, Goal
      <4> QED BY <1>0, <1>1, <2>2, <3>1, <3>2, <3>3, <4>1, <4>2, GotoCall,
                 GotoCallInv DEF CheckTurn
    <3>5. CASE call[c].goal = "sign"
      <4>1. Goto(c, "sign")
        BY <1>1, <2>2, <3>5 DEF CheckTurn
      <4>2. call'[c] = Running("sign", who, "sign", call[c].wasInPerson)
        BY <1>0, <3>5, <4>1, GotoCall
      <4>3. call'[c].pc = "sign" /\ call'[c].who = who
        BY <4>2 DEF Running
      <4>4. status[who] # "PENDING"
        BY <1>0, <1>1, <3>5 DEF CheckTurn, At, CallInv
      <4>5. CallInv(c)'
        BY <3>1, <3>2, <3>3, <4>3, <4>4 DEF CallInv, Inviting, Closing
      <4> QED BY <1>0, <4>1, <4>5, GotoCall
    <3> QED BY <3>4, <3>5
  <2> QED BY <2>1, <2>2
<1>2. CASE CreateMarkDocument(c) \/ CreateRecord(c) \/ CreateEnqueue(c)
  <2>1. PICK p \in {"recordCreated", "enqueueAll", "idle"} : Goto(c, p)
    BY <1>2 DEF CreateMarkDocument, CreateRecord, CreateEnqueue, SetDocument,
                Record, QueueInvite
  <2> QED BY <1>a, <1>b, <2>1 DEF Pc, Cleared, Inviting, Closing, Goal
<1>3. CASE Promote(c) \/ View(c) \/ MarkDeclined(c) \/ MarkInPerson(c)
  <2>1. /\ call[c].pc \in Cleared
        /\ \E p \in {"view", "recordViewed", "recordDeclined", "recordHandedOver"} : Goto(c, p)
    BY <1>3 DEF Promote, View, MarkDeclined, MarkInPerson, SetStatus, At, Cleared, Goal
  <2> QED BY <1>d, <2>1 DEF Cleared, Goal
<1>4. CASE CollectSignature(c)
  <2>1. CASE who \in signature
    BY <1>4, <1>a, <2>1 DEF CollectSignature
  <2>2. CASE who \notin signature
    <3>1. Goto(c, "markSigned") /\ call[c].pc \in Cleared /\ who \in signature'
      BY <1>4, <2>2 DEF CollectSignature, At, Cleared, Goal
    <3> QED BY <1>d, <3>1 DEF Cleared, Goal
  <2> QED BY <2>1, <2>2
<1>5. CASE MarkSigned(c)
  <2>1. Goto(c, "recordSigned") /\ call[c].pc = "markSigned"
    BY <1>5 DEF MarkSigned, SetStatus, At
  <2>2. who \in signature'
    BY <1>0, <2>1 DEF CallInv, Grows
  <2> QED BY <1>d, <2>1, <2>2 DEF Cleared, Goal
<1>6. CASE AdvanceWorkflow(c)
  <2>1. CASE AllSigned
    <3>1. Required(envelope) \subseteq signature
      BY <2>1 DEF AllSigned, Required, IInv, RowInv
    <3>2. Goto(c, "complete")
      BY <1>6, <2>1 DEF AdvanceWorkflow
    <3> QED BY <1>c, <3>1, <3>2 DEF Closing
  <2>2. CASE Goto(c, "idle")
    BY <1>a, <2>2
  <2>3. ASSUME NEW s \in Waiting, \A t \in Waiting : s <= t,
               call' = [call EXCEPT ![c] = Running("inviteNext", s, "idle", FALSE)]
        PROVE  Kept
    <3>1. /\ call'[c] = Running("inviteNext", s, "idle", FALSE)
          /\ \A d \in Calls \ {c} : call'[d] = call[d]
      BY <1>0, <2>3 DEF TypeOK
    <3>2. call'[c].pc = "inviteNext" /\ call'[c].who = s
      BY <3>1 DEF Running
    <3>3. UNCHANGED <<envelope, status, signature>>
      BY <1>6 DEF AdvanceWorkflow, request
    <3>4. s \in Required(envelope)
      BY DEF Waiting
    <3>5. ASSUME NEW p \in Earlier(envelope, s) PROVE status[p] # "PENDING"
      <4>1. p \in Required(envelope) /\ p < s /\ p \in Int /\ s \in Int
        BY <3>4, <3>5 DEF Earlier, Required, Signers
      <4>2. p \notin Waiting
        BY <2>3, <4>1
      <4> QED BY <4>1, <4>2 DEF Waiting
    <3>6. CallInv(c)'
      BY <3>2, <3>3, <3>4, <3>5 DEF CallInv, Inviting, Cleared, Closing, Goal
    <3> QED BY <3>1, <3>6
  <2> QED BY <1>6, <2>1, <2>2, <2>3 DEF AdvanceWorkflow
<1>7. CASE InviteNext(c)
  <2>1. Goto(c, "enqueueInvite") /\ call[c].pc = "inviteNext"
    BY <1>7 DEF InviteNext, SetStatus, At
  <2>2. /\ who \in Required(envelope)
        /\ \A q \in Earlier(envelope, who) : status[q] # "PENDING"
    BY <1>0, <2>1 DEF CallInv, Inviting
  <2>3. \A q \in Earlier(envelope, who) : status'[q] # "PENDING"
    BY <2>2 DEF Grows, Earlier, Required
  <2> QED BY <1>0, <2>1, <2>2, <2>3, GotoCall, GotoCallInv
          DEF Pc, Cleared, Closing, Goal
<1>8. CASE CompleteRequest(c) \/ CompleteDocument(c) \/ RecordCompleted(c)
  <2>1. /\ call[c].pc \in Closing
        /\ \E p \in Closing : Goto(c, p)
    BY <1>8 DEF CompleteRequest, CompleteDocument, RecordCompleted, SetRequest,
                SetDocument, Record, At, Closing
  <2>2. Required(envelope) \subseteq signature
    BY <1>0, <2>1 DEF CallInv
  <2> QED BY <1>c, <2>1, <2>2
<1>9. CASE \/ RecordViewed(c) \/ RejectSignature(c) \/ EnqueueInvite(c)
           \/ QueueCompletionMail(c) \/ PauseRequest(c) \/ RecordCancelled(c)
           \/ RecordHandedOver(c) \/ RecordExpired(c)
  <2>1. Goto(c, "idle")
    BY <1>9 DEF RecordViewed, RejectSignature, EnqueueInvite, QueueInvite,
                QueueCompletionMail, PauseRequest, RecordCancelled,
                RecordHandedOver, RecordExpired, Record, SetRequest
  <2> QED BY <1>a, <2>1
<1>10. CASE \/ RecordSigned(c) \/ RecordDeclined(c) \/ CancelRequest(c)
            \/ CancelDocument(c) \/ ExpireRequest(c)
  <2>1. PICK p \in {"advance", "pause", "idle", "cancelDocument",
                    "recordCancelled", "recordExpired"} : Goto(c, p)
    BY <1>10 DEF RecordSigned, RecordDeclined, CancelRequest, CancelDocument,
                 ExpireRequest, Record, SetRequest, SetDocument
  <2> QED BY <1>a, <1>b, <2>1 DEF Pc, Cleared, Inviting, Closing, Goal
<1> QED BY <1>1, <1>2, <1>3, <1>4, <1>5, <1>6, <1>7, <1>8, <1>9, <1>10
        DEF Continue

-----------------------------------------------------------------------------
(***************************************************************************)
(* The inductive invariant.                                                *)
(***************************************************************************)

LEMMA CallsStep ==
  ASSUME IInv, [Next]_vars
  PROVE  \A d \in Calls : CallInv(d)'
<1>0. TypeOK /\ Grows /\ \A d \in Calls : CallInv(d)
  BY StepGrows DEF IInv
<1>1. ASSUME NEW c \in Calls,
             CallInv(c)' /\ \A d \in Calls \ {c} : call'[d] = call[d]
      PROVE  \A d \in Calls : CallInv(d)'
  BY <1>0, <1>1, CallInvKept
<1>2. ASSUME NEW c \in Calls, Fail(c)
      PROVE  CallInv(c)' /\ \A d \in Calls \ {c} : call'[d] = call[d]
  BY <1>0, <1>2, GotoCall, IdleCall DEF Fail
<1>3. ASSUME UNCHANGED call PROVE \A d \in Calls : CallInv(d)'
  BY <1>0, <1>3, CallInvKept
<1> QED BY <1>0, <1>1, <1>2, <1>3, BeginCallInv, ContinueCallInv
        DEF Next, DeadlinePasses, vars

LEMMA RowStep ==
  ASSUME IInv, NEW c \in Calls, Continue(c), Grows
  PROVE  RowInv'
<1> DEFINE who == call[c].who
<1>0. TypeOK /\ RowInv /\ CallInv(c)
  BY DEF IInv
<1>1. CASE UNCHANGED <<envelope, status, signature>>
  BY <1>0, <1>1 DEF RowInv
<1>2. CASE Promote(c) \/ View(c) \/ InviteNext(c) \/ MarkDeclined(c)
  <2>1. PICK value \in {"INVITED", "VIEWED", "DECLINED"} :
          /\ status' = [status EXCEPT ![who] = value]
          /\ UNCHANGED <<envelope, signature>>
    BY <1>2 DEF Promote, View, InviteNext, MarkDeclined, SetStatus
  <2>2. \A s \in Signers : status'[s] = "SIGNED" => status[s] = "SIGNED"
    BY <1>0, <2>1 DEF TypeOK
  <2> QED BY <1>0, <2>1, <2>2 DEF RowInv, Grows, TypeOK
<1>3. CASE CollectSignature(c)
  <2>1. /\ who \in Required(envelope)
        /\ Earlier(envelope, who) \subseteq signature
        /\ status[who] # "PENDING"
    BY <1>0, <1>3 DEF CollectSignature, At, CallInv, Cleared, Goal
  <2>2. signature' = signature \cup {who} /\ UNCHANGED <<envelope, status>>
    BY <1>3 DEF CollectSignature
  <2> QED BY <1>0, <2>1, <2>2 DEF RowInv
<1>4. CASE MarkSigned(c)
  <2>1. who \in signature
    BY <1>0, <1>4 DEF MarkSigned, SetStatus, At, CallInv
  <2>2. /\ status' = [status EXCEPT ![who] = "SIGNED"]
        /\ UNCHANGED <<envelope, signature>>
    BY <1>4 DEF MarkSigned, SetStatus
  <2> QED BY <1>0, <2>1, <2>2 DEF RowInv, TypeOK
<1> QED BY <1>1, <1>2, <1>3, <1>4, Writers

(* The awaits that write the trail.                                        *)
LEMMA Recorders ==
  ASSUME NEW c \in Calls, Continue(c)
  PROVE  \/ trail' = trail
         \/ RecordViewed(c) \/ RecordSigned(c) \/ RecordDeclined(c)
         \/ RecordHandedOver(c) \/ RecordCompleted(c)
         \/ \E type \in EventType \ {"SIGNED"} : trail' = trail \cup {<<type, Nobody>>}
BY DEF Continue, CheckTurn, CreateMarkDocument, CreateRecord, CreateEnqueue,
       Promote, View, RejectSignature, CollectSignature, MarkSigned,
       AdvanceWorkflow, InviteNext, EnqueueInvite, CompleteRequest,
       CompleteDocument, QueueCompletionMail, MarkDeclined, PauseRequest,
       CancelRequest, CancelDocument, RecordCancelled, MarkInPerson,
       ExpireRequest, RecordExpired, Record, SetRequest, SetDocument,
       SetStatus, QueueInvite, request, EventType

(* A recipient's own event is written by a call that canSignerAct let      *)
(* through, and a SIGNED event by one that collected the signature.        *)
LEMMA OwnEvent ==
  ASSUME IInv, NEW c \in Calls, Continue(c), NEW s \in Signers,
         NEW type \in EventType, <<type, s>> \in trail' \ trail
  PROVE  /\ s \in Required(envelope)
         /\ Earlier(envelope, s) \subseteq signature
         /\ type = "SIGNED" => s \in signature
<1>0. CallInv(c) /\ s # Nobody
  BY DEF IInv, Signers, Nobody
<1>1. CASE \E t \in EventType \ {"SIGNED"} : trail' = trail \cup {<<t, Nobody>>}
  BY <1>0, <1>1
<1>2. CASE RecordCompleted(c)
  BY <1>0, <1>2 DEF RecordCompleted, Record
<1>3. CASE RecordViewed(c) \/ RecordSigned(c) \/ RecordDeclined(c) \/ RecordHandedOver(c)
  <2>1. s = call[c].who /\ call[c].pc \in Cleared
    BY <1>3 DEF RecordViewed, RecordSigned, RecordDeclined, RecordHandedOver,
                Record, At, Cleared
  <2>2. type = "SIGNED" => call[c].pc = "recordSigned"
    BY <1>3 DEF RecordViewed, RecordSigned, RecordDeclined, RecordHandedOver,
                Record, At
  <2> QED BY <1>0, <2>1, <2>2 DEF CallInv
<1> QED BY <1>1, <1>2, <1>3, Recorders

LEMMA InOrderStep ==
  ASSUME IInv, NEW c \in Calls, Continue(c), Grows, RowInv'
  PROVE  InOrder'
<1> SUFFICES ASSUME NEW s \in Signers, Acted(s)'
             PROVE  s \in Required(envelope)' /\ Earlier(envelope, s)' \subseteq signature'
  BY DEF InOrder
<1>1. envelope' = envelope /\ signature \subseteq signature'
  BY DEF Grows
<1>2. CASE s \in signature'
  BY <1>2 DEF RowInv
<1>3. CASE Acted(s)
  BY <1>1, <1>3 DEF IInv, InOrder
<1>4. ASSUME NEW type \in EventType, <<type, s>> \in trail' \ trail
      PROVE  s \in Required(envelope) /\ Earlier(envelope, s) \subseteq signature
  BY <1>4, OwnEvent
<1> QED BY <1>1, <1>2, <1>3, <1>4 DEF Acted

LEMMA SignedHasRowStep ==
  ASSUME IInv, NEW c \in Calls, Continue(c), Grows, RowInv'
  PROVE  SignedHasRow'
<1>1. ASSUME NEW s \in Signers, <<"SIGNED", s>> \in trail' PROVE s \in signature'
  <2>1. CASE <<"SIGNED", s>> \in trail
    BY <2>1 DEF IInv, SignedHasRow, Grows
  <2>2. CASE <<"SIGNED", s>> \notin trail
    BY <1>1, <2>2, OwnEvent DEF EventType, Grows
  <2> QED BY <2>1, <2>2
<1> QED BY <1>1 DEF SignedHasRow, RowInv

(* The awaits that report the request complete.                            *)
LEMMA Reporters ==
  ASSUME NEW c \in Calls, Continue(c)
  PROVE  \/ /\ reqStatus' = reqStatus \/ reqStatus' \in {"IN_PROGRESS", "CANCELLED", "EXPIRED"}
            /\ docStatus' = docStatus \/ docStatus' \in {"AWAITING_SIGNATURE", "CANCELLED"}
            /\ completionMail' = completionMail
         \/ CompleteRequest(c) \/ CompleteDocument(c) \/ QueueCompletionMail(c)
BY DEF Continue, CheckTurn, CreateMarkDocument, CreateRecord, CreateEnqueue,
       Promote, View, RecordViewed, RejectSignature, CollectSignature,
       MarkSigned, RecordSigned, AdvanceWorkflow, InviteNext, EnqueueInvite,
       RecordCompleted, MarkDeclined, RecordDeclined, PauseRequest,
       CancelRequest, CancelDocument, RecordCancelled, MarkInPerson,
       RecordHandedOver, ExpireRequest, RecordExpired, Record, SetRequest,
       SetDocument, SetStatus, QueueInvite, request

LEMMA CompleteStep ==
  ASSUME IInv, NEW c \in Calls, Continue(c), Grows
  PROVE  CompleteMeansAllSigned'
<1>0. /\ Required(envelope)' = Required(envelope)
      /\ signature \subseteq signature'
  BY DEF Grows
<1>1. CASE Required(envelope) \subseteq signature
  BY <1>0, <1>1 DEF CompleteMeansAllSigned
<1>2. CASE ~(Required(envelope) \subseteq signature)
  <2>1. call[c].pc \notin Closing
    BY <1>2 DEF IInv, CallInv
  <2>2. ~ReportedComplete
    BY <1>2 DEF IInv, CompleteMeansAllSigned
  <2>3. CompletedEvent \notin trail'
    <3>1. CASE RecordSigned(c)
      <4>1. call[c].who # Nobody
        BY <3>1 DEF RecordSigned, Record, At, IInv, CallInv, Cleared, Required,
                    Signers, Nobody
      <4> QED BY <2>2, <3>1, <4>1 DEF RecordSigned, Record, ReportedComplete, CompletedEvent
    <3>2. CASE RecordCompleted(c)
      BY <2>1, <3>2 DEF RecordCompleted, Record, At, Closing
    <3>3. CASE ~RecordSigned(c) /\ ~RecordCompleted(c)
      BY <2>2, <3>3, Recorders DEF ReportedComplete, CompletedEvent, RecordViewed,
         RecordDeclined, RecordHandedOver, Record
    <3> QED BY <3>1, <3>2, <3>3
  <2>4. ~CompleteRequest(c) /\ ~CompleteDocument(c) /\ ~QueueCompletionMail(c)
    BY <2>1 DEF CompleteRequest, CompleteDocument, QueueCompletionMail,
                SetRequest, SetDocument, At, Closing
  <2>5. reqStatus' # "COMPLETED" /\ docStatus' # "COMPLETED"
    BY <2>2, <2>4, Reporters DEF ReportedComplete
  <2>6. ~completionMail'
    BY <2>2, <2>4, Reporters, Zenon DEF ReportedComplete
  <2> QED BY <2>3, <2>5, <2>6 DEF CompleteMeansAllSigned, ReportedComplete, CompletedEvent
<1> QED BY <1>1, <1>2

(* The awaits that queue an invitation.                                    *)
LEMMA Inviters ==
  ASSUME NEW c \in Calls, Continue(c)
  PROVE  \/ mailed' = mailed
         \/ EnqueueInvite(c) /\ mailed' = mailed \cup {call[c].who}
         \/ \E s \in InvitedAtCreation(envelope) : mailed' = mailed \cup {s}
BY DEF Continue, CheckTurn, CreateMarkDocument, CreateRecord, CreateEnqueue,
       Promote, View, RecordViewed, RejectSignature, CollectSignature,
       MarkSigned, RecordSigned, AdvanceWorkflow, InviteNext, EnqueueInvite,
       CompleteRequest, CompleteDocument, RecordCompleted,
       QueueCompletionMail, MarkDeclined, RecordDeclined, PauseRequest,
       CancelRequest, CancelDocument, RecordCancelled, MarkInPerson,
       RecordHandedOver, ExpireRequest, RecordExpired, Record, SetRequest,
       SetDocument, SetStatus, QueueInvite, request

(* Those released at creation wait for nobody.                             *)
LEMMA FirstWaitsForNobody ==
  ASSUME NEW e, NEW s \in InvitedAtCreation(e)
  PROVE  Earlier(e, s) = {}
BY DEF InvitedAtCreation, Earlier, Required, Signers

LEMMA ReleasedStep ==
  ASSUME IInv, NEW c \in Calls, Continue(c), Grows
  PROVE  ReleasedInOrder'
<1> DEFINE who == call[c].who
<1>0. /\ TypeOK /\ RowInv /\ CallInv(c) /\ ReleasedInOrder
      /\ envelope' = envelope
      /\ \A p \in Signers : status[p] # "PENDING" => status'[p] # "PENDING"
  BY DEF IInv, Grows
<1> SUFFICES ASSUME NEW s \in Required(envelope), Released(s)',
                    NEW p \in Earlier(envelope, s)
             PROVE  status[p] # "PENDING"
  BY <1>0 DEF ReleasedInOrder, Earlier, Required
<1>1. CASE Released(s)
  BY <1>0, <1>1 DEF ReleasedInOrder
<1>2. CASE status[s] = "PENDING" /\ status'[s] # "PENDING"
  <2>1. CASE Promote(c) \/ View(c) \/ MarkSigned(c) \/ MarkDeclined(c)
    <3>1. call[c].pc \in Cleared /\ \E v : status' = [status EXCEPT ![who] = v]
      BY <2>1 DEF Promote, View, MarkSigned, MarkDeclined, SetStatus, At,
                  Cleared, Goal
    <3>2. s = who
      BY <1>0, <1>2, <3>1 DEF TypeOK, Required
    <3> QED BY <1>0, <3>1, <3>2 DEF CallInv, RowInv
  <2>2. CASE InviteNext(c)
    <3>1. s = who /\ call[c].pc \in Inviting
      BY <1>0, <1>2, <2>2 DEF InviteNext, SetStatus, At, Inviting, TypeOK
    <3> QED BY <1>0, <3>1 DEF CallInv
  <2>3. CASE CollectSignature(c) \/ UNCHANGED <<envelope, status, signature>>
    BY <1>2, <2>3 DEF CollectSignature
  <2> QED BY <2>1, <2>2, <2>3, Writers
<1>3. CASE s \in mailed' \ mailed
  <2>1. CASE EnqueueInvite(c) /\ s = who
    BY <1>0, <2>1 DEF EnqueueInvite, At, CallInv, Inviting
  <2>2. CASE s \in InvitedAtCreation(envelope)
    BY <2>2, FirstWaitsForNobody
  <2> QED BY <1>3, <2>1, <2>2, Inviters
<1> QED BY <1>1, <1>2, <1>3 DEF Released

LEMMA InitInv == Init => IInv
<1> SUFFICES ASSUME Init PROVE IInv
  OBVIOUS
<1>1. TypeOK
  BY InitType
<1>2. RowInv /\ InOrder /\ SignedHasRow /\ CompleteMeansAllSigned
  BY DEF Init, RowInv, InOrder, Acted, SignedHasRow, CompleteMeansAllSigned,
         ReportedComplete, CompletedEvent
<1>3. ReleasedInOrder
  BY FirstWaitsForNobody DEF Init, ReleasedInOrder, Released, Required
<1>4. ASSUME NEW c \in Calls PROVE CallInv(c)
  <2>1. call[c].pc \in {"idle", "markDocument"}
    BY DEF Init, Idle, Running
  <2> QED BY <2>1 DEF CallInv, Cleared, Inviting, Closing, Goal
<1> QED BY <1>1, <1>2, <1>3, <1>4 DEF IInv

LEMMA NextInv == IInv /\ [Next]_vars => IInv'
<1> SUFFICES ASSUME IInv, [Next]_vars PROVE IInv'
  OBVIOUS
<1>0. TypeOK /\ \A c \in Calls : CallInv(c)
  BY DEF IInv
<1>1. TypeOK' /\ Grows /\ \A c \in Calls : CallInv(c)'
  BY <1>0, NextType, StepGrows, CallsStep
<1>2. CASE UNCHANGED request
  <2>1. RowInv' /\ InOrder' /\ SignedHasRow'
    BY <1>2 DEF IInv, request, RowInv, InOrder, Acted, SignedHasRow
  <2>2. CompleteMeansAllSigned' /\ ReleasedInOrder'
    BY <1>2 DEF IInv, request, CompleteMeansAllSigned, ReportedComplete,
                CompletedEvent, ReleasedInOrder, Released
  <2> QED BY <1>1, <2>1, <2>2 DEF IInv
<1>3. ASSUME NEW c \in Calls, Continue(c) PROVE IInv'
  <2>1. RowInv'
    BY <1>1, <1>3, RowStep
  <2>2. InOrder' /\ SignedHasRow'
    BY <1>1, <1>3, <2>1, InOrderStep, SignedHasRowStep
  <2>3. CompleteMeansAllSigned' /\ ReleasedInOrder'
    BY <1>1, <1>3, CompleteStep, ReleasedStep
  <2> QED BY <1>1, <2>1, <2>2, <2>3 DEF IInv
<1>4. ASSUME NEW c \in Calls, Begin(c) PROVE UNCHANGED request
  BY <1>4, BeginReads
<1> QED BY <1>2, <1>3, <1>4 DEF Next, Fail, DeadlinePasses, vars, request

LEMMA Invariance == Spec => []IInv
BY InitInv, NextInv, PTL DEF Spec

-----------------------------------------------------------------------------
(***************************************************************************)
(* The results.                                                            *)
(***************************************************************************)

(* Every row and every call keeps its type, in particular a call is about  *)
(* a recipient of this request wherever it writes that recipient's row.    *)
THEOREM TypeCorrect == Spec => []TypeOK
BY Invariance, PTL DEF IInv

(* No recipient signs, views, declines or is handed the device before all  *)
(* earlier recipients of a sequential request have signed, and no CC does, *)
(* whatever calls interleave and whichever of them die.                    *)
THEOREM SequentialOrder == Spec => []InOrder
BY Invariance, PTL DEF IInv

(* The request is COMPLETED, and its sender told so, only with every       *)
(* required signature on file (advanceWorkflow).                           *)
THEOREM CompletionIsEarned == Spec => []CompleteMeansAllSigned
BY Invariance, PTL DEF IInv

(* advanceWorkflow and publicSession release recipients in routing order.  *)
THEOREM RoutingOrder == Spec => []ReleasedInOrder
BY Invariance, PTL DEF IInv

(* SIGNED, in the status or in the trail, always has its signature row.    *)
THEOREM SignedIsBacked == Spec => []SignedHasRow
BY Invariance, PTL DEF IInv

-----------------------------------------------------------------------------
(***************************************************************************)
(* SigningRequest implements SignatureLedger: signature.create of a new    *)
(* row is Collect, the completion event is Close, every other await is a   *)
(* stutter.                                                                *)
(***************************************************************************)

LEMMA InitRefines == Init => Ledger!LedgerInit
BY DEF Init, Ledger!LedgerInit, CompletedEvent

(* Steps that neither write a row nor complete the request stutter.        *)
LEMMA StutterRefines ==
  ASSUME UNCHANGED <<envelope, signature>>,
         CompletedEvent \in trail' <=> CompletedEvent \in trail
  PROVE  UNCHANGED Ledger!ledgerVars
BY DEF Ledger!ledgerVars, CompletedEvent

LEMMA CollectRefines ==
  ASSUME IInv, NEW c \in Calls, CollectSignature(c)
  PROVE  [Ledger!LedgerNext]_(Ledger!ledgerVars)
<1> DEFINE who == call[c].who
<1>1. /\ signature' = signature \cup {who}
      /\ UNCHANGED <<envelope, trail>>
  BY DEF CollectSignature
<1>2. who \in Required(envelope) /\ Earlier(envelope, who) \subseteq signature
  BY DEF CollectSignature, At, IInv, CallInv, Cleared, Goal
<1>3. CASE who \in signature
  <2>1. UNCHANGED Ledger!ledgerVars
    BY <1>1, <1>3, StutterRefines
  <2> QED BY <2>1
<1>4. CASE who \notin signature
  <2>1. Ledger!Collect(who)
    BY <1>1, <1>2, <1>4 DEF Ledger!Collect, Ledger!Required, Ledger!Earlier,
       Ledger!Signers, Required, Earlier, Signers, CompletedEvent
  <2>2. who \in Ledger!Signers
    BY <1>2 DEF Required, Signers, Ledger!Signers
  <2> QED BY <2>1, <2>2 DEF Ledger!LedgerNext
<1> QED BY <1>3, <1>4

LEMMA StepRefines ==
  ASSUME IInv, [Next]_vars
  PROVE  [Ledger!LedgerNext]_(Ledger!ledgerVars)
<1>1. CASE UNCHANGED request
  BY <1>1, StutterRefines DEF request
<1>2. ASSUME NEW c \in Calls, Continue(c)
      PROVE  [Ledger!LedgerNext]_(Ledger!ledgerVars)
  <2>1. CASE CollectSignature(c)
    BY <2>1, CollectRefines
  <2>2. CASE RecordCompleted(c)
    <3>1. Required(envelope) \subseteq signature
      BY <2>2 DEF RecordCompleted, Record, At, IInv, CallInv, Closing
    <3>2. Ledger!Close
      BY <2>2, <3>1 DEF RecordCompleted, Record, Ledger!Close,
         Ledger!Required, Ledger!Signers, Required, Signers, CompletedEvent
    <3> QED BY <3>2 DEF Ledger!LedgerNext
  <2>3. CASE ~CollectSignature(c) /\ ~RecordCompleted(c)
    <3>1. UNCHANGED <<envelope, signature>>
      BY <1>2, <2>3, Writers DEF Promote, View, MarkSigned, InviteNext,
         MarkDeclined, SetStatus
    <3>2. ASSUME RecordSigned(c) PROVE call[c].who # Nobody
      BY <3>2 DEF RecordSigned, Record, At, IInv, CallInv, Cleared, Required,
                  Signers, Nobody
    <3>3. CompletedEvent \in trail' <=> CompletedEvent \in trail
      BY <1>2, <2>3, <3>2, Recorders DEF CompletedEvent, RecordViewed,
         RecordSigned, RecordDeclined, RecordHandedOver, Record
    <3> QED BY <3>1, <3>3, StutterRefines
  <2> QED BY <2>1, <2>2, <2>3
<1>3. ASSUME NEW c \in Calls, Begin(c) PROVE UNCHANGED request
  BY <1>3, BeginReads
<1> QED BY <1>1, <1>2, <1>3 DEF Next, Fail, DeadlinePasses, vars, request

(* The handlers, interleaved at every await, keep the promise of the       *)
(* ledger: signatures only accumulate, in order, and completion is         *)
(* reported only over a full ledger.                                       *)
THEOREM RequestImplementsLedger == Spec => ImplementsLedger
BY Invariance, InitRefines, StepRefines, PTL
   DEF Spec, ImplementsLedger, Ledger!LedgerSpec

-----------------------------------------------------------------------------
(***************************************************************************)
(* Any number of calls at once.  A closed request can be revived only by a *)
(* call that was already past its check when the request closed.           *)
(***************************************************************************)
Cancelling == {"idle", "cancel", "cancelDocument", "recordCancelled"}

(* Closed, and every call that is in flight is cancelling it.              *)
Settled == ~Active /\ \A c \in Calls : call[c].pc \in Cancelling

(* What a settled request still goes through is being cancelled.           *)
OnlyCancelled ==
  /\ UNCHANGED <<envelope, status, signature, inPerson, mailed, completionMail>>
  /\ reqStatus' \in {reqStatus, "CANCELLED"}
  /\ docStatus' \in {docStatus, "CANCELLED"}
  /\ trail' \subseteq trail \cup {<<"CANCELLED", Nobody>>}

(* Where a step takes the call that runs.                                  *)
LEMMA GotoFields ==
  ASSUME TypeOK, NEW c \in Calls, NEW p, Goto(c, p)
  PROVE  /\ call'[c].pc = p
         /\ p # "idle" => call'[c].who = call[c].who /\ call'[c].goal = call[c].goal
<1>1. call'[c] = IF p = "idle" THEN Idle
                 ELSE Running(p, call[c].who, call[c].goal, call[c].wasInPerson)
  BY GotoCall
<1> QED BY <1>1 DEF Running, Idle

LEMMA EnterFields ==
  ASSUME TypeOK, NEW c \in Calls, NEW p, NEW s, NEW g, NEW b, Enter(c, p, s, g, b)
  PROVE  /\ call[c].pc = "idle"
         /\ call'[c].pc = p /\ call'[c].who = s /\ call'[c].goal = g
<1>1. call'[c] = Running(p, s, g, b)
  BY EnterCall
<1> QED BY <1>1 DEF Running, Enter, At

LEMMA BeginFields ==
  ASSUME TypeOK, NEW c \in Calls, Begin(c)
  PROVE  /\ call[c].pc = "idle"
         /\ UNCHANGED <<request, overdue, faults>>
         /\ \/ call'[c].pc = "cancel" /\ reqStatus # "COMPLETED"
            \/ call'[c].pc = "expire" /\ Active
            \/ \E s \in Required(envelope), g \in Goal :
                 /\ Active
                 /\ call'[c].pc = IF envelope.mode = "SEQUENTIAL" THEN "turn" ELSE g
                 /\ call'[c].who = s /\ call'[c].goal = g
                 /\ g = "promote" => status[s] = "PENDING"
                 /\ g = "view" => status[s] = "INVITED"
                 /\ g \in {"sign", "decline"} => Invited(s)
<1>1. CASE Cancel(c)
  BY <1>1, EnterFields, BeginReads DEF Cancel
<1>2. CASE EnterExpire(c) /\ ~Cancel(c)
  <2>1. Active
    BY <1>2 DEF Begin, OpenSession, Sign, Decline, HandOver
  <2> QED BY <1>2, <2>1, EnterFields, BeginReads DEF EnterExpire
<1>3. ASSUME NEW s \in Signers, NEW g \in Goal, NEW b, EnterTurn(c, s, g, b)
      PROVE  /\ call[c].pc = "idle"
             /\ call'[c].pc = IF envelope.mode = "SEQUENTIAL" THEN "turn" ELSE g
             /\ call'[c].who = s /\ call'[c].goal = g
  BY <1>3, EnterFields DEF EnterTurn
<1>4. ASSUME NEW s \in Signers, ~EnterExpire(c),
             OpenSession(c, s) \/ Sign(c, s) \/ Decline(c, s) \/ HandOver(c, s)
      PROVE  /\ Active /\ s \in Required(envelope)
             /\ \E g \in Goal, b \in BOOLEAN :
                  /\ EnterTurn(c, s, g, b)
                  /\ g = "promote" => status[s] = "PENDING"
                  /\ g = "view" => status[s] = "INVITED"
                  /\ g \in {"sign", "decline"} => Invited(s)
  <2>1. CASE OpenSession(c, s)
    BY <1>4, <2>1 DEF OpenSession, Goal
  <2>2. CASE Sign(c, s)
    <3>1. (s \in inPerson) \in BOOLEAN
      OBVIOUS
    <3> QED BY <1>4, <2>2, <3>1 DEF Sign, Goal
  <2>3. CASE Decline(c, s)
    BY <1>4, <2>3 DEF Decline, Goal
  <2>4. CASE HandOver(c, s)
    BY <1>4, <2>4 DEF HandOver, Goal
  <2> QED BY <1>4, <2>1, <2>2, <2>3, <2>4
<1>5. CASE ~Cancel(c) /\ ~EnterExpire(c)
  <2>1. PICK s \in Signers :
          OpenSession(c, s) \/ Sign(c, s) \/ Decline(c, s) \/ HandOver(c, s)
    BY <1>5 DEF Begin
  <2>2. /\ Active /\ s \in Required(envelope)
        /\ \E g \in Goal, b \in BOOLEAN :
             /\ EnterTurn(c, s, g, b)
             /\ g = "promote" => status[s] = "PENDING"
             /\ g = "view" => status[s] = "INVITED"
             /\ g \in {"sign", "decline"} => Invited(s)
    BY <1>4, <1>5, <2>1
  <2> QED BY <1>3, <2>2, BeginReads
<1> QED BY <1>1, <1>2, <1>5, BeginReads

LEMMA SettledStep ==
  ASSUME TypeOK, Settled, [Next]_vars
  PROVE  Settled' /\ OnlyCancelled
<1>a. ASSUME NEW c \in Calls, NEW p \in Cancelling, Goto(c, p)
      PROVE  \A d \in Calls : call'[d].pc \in Cancelling
  BY <1>a, GotoCall, GotoFields DEF Settled
<1>1. ASSUME NEW c \in Calls, Continue(c) PROVE Settled' /\ OnlyCancelled
  <2>1. CancelRequest(c) \/ CancelDocument(c) \/ RecordCancelled(c)
    BY <1>1 DEF Settled, Cancelling, Continue, CheckTurn, CreateMarkDocument,
       CreateRecord, CreateEnqueue, Promote, View, RecordViewed, RejectSignature,
       CollectSignature, MarkSigned, RecordSigned, AdvanceWorkflow, InviteNext,
       EnqueueInvite, CompleteRequest, CompleteDocument, RecordCompleted,
       QueueCompletionMail, MarkDeclined, RecordDeclined, PauseRequest,
       MarkInPerson, RecordHandedOver, ExpireRequest, RecordExpired, Record,
       SetRequest, SetDocument, SetStatus, At, Goal
  <2>2. \A d \in Calls : call'[d].pc \in Cancelling
    BY <1>a, <2>1 DEF CancelRequest, CancelDocument, RecordCancelled, SetRequest,
       SetDocument, Record, Cancelling
  <2>3. OnlyCancelled /\ ~Active'
    BY <2>1 DEF CancelRequest, CancelDocument, RecordCancelled, SetRequest,
       SetDocument, Record, OnlyCancelled, Settled, Active
  <2> QED BY <2>2, <2>3 DEF Settled
<1>2. ASSUME NEW c \in Calls, Begin(c) PROVE Settled' /\ OnlyCancelled
  <2>1. UNCHANGED request
    BY <1>2, BeginReads
  <2>2. Enter(c, "cancel", Nobody, "idle", FALSE)
    BY <1>2 DEF Begin, Cancel, OpenSession, Sign, Decline, HandOver, Settled
  <2>3. call'[c].pc = "cancel" /\ \A d \in Calls \ {c} : call'[d] = call[d]
    BY <2>2, EnterFields, EnterCall
  <2>4. \A d \in Calls : call'[d].pc \in Cancelling
    BY <2>3 DEF Settled, Cancelling
  <2> QED BY <2>1, <2>4 DEF Settled, Active, OnlyCancelled, request
<1>3. ASSUME NEW c \in Calls, Fail(c) PROVE Settled' /\ OnlyCancelled
  <2>1. UNCHANGED request /\ Goto(c, "idle")
    BY <1>3 DEF Fail
  <2> QED BY <1>a, <2>1 DEF Settled, Cancelling, Active, OnlyCancelled, request
<1>4. ASSUME UNCHANGED <<request, call>> PROVE Settled' /\ OnlyCancelled
  BY <1>4 DEF Settled, Active, OnlyCancelled, request
<1> QED BY <1>1, <1>2, <1>3, <1>4 DEF Next, DeadlinePasses, vars, request

(* Once a request is completed, cancelled or expired and the calls then in *)
(* flight have ended, it is closed for good, whatever calls follow and     *)
(* however they interleave and die: no recipient moves, signs or is        *)
(* invited, nothing is announced but a cancellation (cancel takes an       *)
(* expired or cancelled request too), and it does not become active again. *)
THEOREM ClosedForGood ==
  Spec => [](Settled => []Settled) /\ [][Settled => OnlyCancelled]_vars
<1>1. TypeOK /\ Settled /\ [Next]_vars => Settled'
  BY SettledStep
<1>2. TypeOK /\ [Next]_vars => [Settled => OnlyCancelled]_vars
  BY SettledStep
<1> QED BY TypeCorrect, <1>1, <1>2, PTL DEF Spec

-----------------------------------------------------------------------------
(***************************************************************************)
(* One call at a time, that may die half-way: routing after a decline.     *)
(***************************************************************************)
OneAtATime == \A c, d \in Calls : c = d

(* The recipient's status is as the call read it until the call writes it, *)
(* and all earlier recipients have still signed.                           *)
ReaderInv(c) ==
  LET pc == call[c].pc
      who == call[c].who
      For(goal) == pc = goal \/ (pc = "turn" /\ call[c].goal = goal)
  IN  /\ For("promote") \/ pc = "inviteNext" => status[who] = "PENDING"
      /\ For("view") => status[who] = "INVITED"
      /\ For("sign") \/ For("decline") \/ pc = "markSigned" => Invited(who)
      /\ pc = "recordSigned" => status[who] = "SIGNED"
      /\ pc = "recordDeclined" => status[who] = "DECLINED"
      /\ pc \in Cleared => CanSignerAct(who)

(* Once a decline of a sequential request is in the trail the recipient    *)
(* stays DECLINED, all earlier ones stay SIGNED, and no call is past the   *)
(* check that could release anybody.                                       *)
Releasing == {"promote", "sign", "markSigned", "recordSigned", "advance",
              "inviteNext"}

DeclineInv ==
  envelope.mode = "SEQUENTIAL" =>
    \A s \in Signers : <<"DECLINED", s>> \in trail =>
      /\ status[s] = "DECLINED" /\ CanSignerAct(s)
      /\ \A c \in Calls : call[c].pc \notin Releasing

-----------------------------------------------------------------------------
(* A decline is announced in the trail by its own call.                    *)
LEMMA Announcers ==
  ASSUME NEW c \in Calls, Continue(c)
  PROVE  \A s \in Signers : <<"DECLINED", s>> \in trail' \ trail =>
           RecordDeclined(c) /\ s = call[c].who
<1>1. CASE trail' = trail
  BY <1>1
<1>2. CASE RecordDeclined(c)
  BY <1>2 DEF RecordDeclined, Record
<1>3. CASE \/ RecordCompleted(c) \/ RecordSigned(c) \/ RecordViewed(c)
           \/ RecordHandedOver(c) \/ CreateRecord(c) \/ RecordCancelled(c)
           \/ RecordExpired(c)
  BY <1>3 DEF RecordCompleted, RecordSigned, RecordViewed, RecordHandedOver,
     CreateRecord, RecordCancelled, RecordExpired, Record
<1> QED BY <1>1, <1>2, <1>3
        DEF Continue, CheckTurn, CreateMarkDocument, CreateEnqueue, Promote, View,
            RejectSignature, CollectSignature, MarkSigned, AdvanceWorkflow,
            InviteNext, EnqueueInvite, CompleteRequest, CompleteDocument,
            QueueCompletionMail, MarkDeclined, PauseRequest, CancelRequest,
            CancelDocument, MarkInPerson, ExpireRequest, SetRequest, SetDocument,
            SetStatus, QueueInvite, request

-----------------------------------------------------------------------------
(* A write of the recipient's own status leaves the earlier ones alone.    *)
LEMMA OwnStatus ==
  ASSUME TypeOK, NEW c \in Calls, NEW who \in Signers, call[c].who = who,
         NEW p, NEW value, NEW next, SetStatus(c, p, value, next)
  PROVE  /\ status'[who] = value
         /\ \A s \in Signers \ {who} : status'[s] = status[s]
         /\ CanSignerAct(who) => CanSignerAct(who)'
<1>1. /\ status' = [status EXCEPT ![who] = value]
      /\ status \in [Signers -> SignerStatus] /\ envelope' = envelope
  BY DEF SetStatus, TypeOK
<1>2. /\ status'[who] = value
      /\ \A s \in Signers \ {who} : status'[s] = status[s]
  BY <1>1
<1>3. ASSUME NEW q \in Earlier(envelope, who) PROVE q \in Signers \ {who}
  BY DEF Earlier, Required, Signers
<1> QED BY <1>1, <1>2, <1>3 DEF CanSignerAct

(* The awaits that write a recipient's status find it as it was read, so   *)
(* they never overwrite SIGNED or DECLINED.                                *)
LEMMA StatusMoves ==
  ASSUME TypeOK, NEW c \in Calls, CallInv(c), ReaderInv(c), Continue(c),
         NEW s \in Signers, status[s] \in {"SIGNED", "DECLINED"}
  PROVE  status'[s] = status[s]
<1> DEFINE who == call[c].who
<1>1. ASSUME NEW p, NEW value, NEW next, SetStatus(c, p, value, next),
             status[who] \notin {"SIGNED", "DECLINED"}
      PROVE  status'[s] = status[s]
  BY <1>1 DEF SetStatus, TypeOK
<1>2. CASE Promote(c)
  BY <1>1, <1>2 DEF Promote, SetStatus, At, ReaderInv
<1>3. CASE View(c)
  BY <1>1, <1>3 DEF View, SetStatus, At, ReaderInv
<1>4. CASE MarkSigned(c)
  BY <1>1, <1>4 DEF MarkSigned, SetStatus, At, ReaderInv, Invited
<1>5. CASE InviteNext(c)
  BY <1>1, <1>5 DEF InviteNext, SetStatus, At, ReaderInv
<1>6. CASE MarkDeclined(c)
  BY <1>1, <1>6 DEF MarkDeclined, SetStatus, At, ReaderInv, Invited
<1>7. CASE CollectSignature(c)
  BY <1>7 DEF CollectSignature
<1> QED BY <1>2, <1>3, <1>4, <1>5, <1>6, <1>7, Writers

LEMMA ReaderStep ==
  ASSUME TypeOK, NEW c \in Calls, CallInv(c), ReaderInv(c), Continue(c), Grows
  PROVE  ReaderInv(c)'
<1> DEFINE who == call[c].who
<1>a. \A p \in Pc : Goto(c, p) =>
        /\ call'[c].pc = p
        /\ p # "idle" => call'[c].who = call[c].who /\ call'[c].goal = call[c].goal
  BY GotoFields
<1>b. envelope' = envelope
  BY DEF Grows
<1>1. CASE call'[c].pc \notin {"turn", "inviteNext"} \cup Cleared
  BY <1>1 DEF ReaderInv, Cleared, Goal
<1>2. CASE CheckTurn(c)
  BY <1>a, <1>2 DEF CheckTurn, At, CallInv, ReaderInv, Cleared, Goal, Pc, Invited,
     CanSignerAct, request
<1>3. CASE MarkSigned(c) \/ Promote(c) \/ View(c) \/ MarkDeclined(c)
  <2>1. /\ call[c].pc \in Cleared /\ who \in Signers
        /\ CanSignerAct(who)
    BY <1>3 DEF MarkSigned, Promote, View, MarkDeclined, SetStatus, At, CallInv,
       ReaderInv, Cleared, Goal, Required
  <2>2. PICK w \in Signers : call[c].who = w
    BY <2>1
  <2>a. ASSUME NEW p, NEW value, NEW next \in Pc \ {"idle"},
               SetStatus(c, p, value, next)
        PROVE  /\ CanSignerAct(w)' /\ call'[c].who = w
               /\ call'[c].pc = next /\ status'[w] = value
    <3>1. Goto(c, next)
      BY <2>a DEF SetStatus
    <3> QED BY <1>a, <2>a, <2>1, <2>2, <3>1, OwnStatus
  <2>3. /\ CanSignerAct(w)' /\ call'[c].who = w
        /\ \/ call'[c].pc = "recordSigned" /\ status'[w] = "SIGNED"
           \/ call'[c].pc = "view" /\ status'[w] = "INVITED"
           \/ call'[c].pc = "recordViewed"
           \/ call'[c].pc = "recordDeclined" /\ status'[w] = "DECLINED"
    <3>1. CASE MarkSigned(c)
      BY <2>a, <3>1 DEF MarkSigned, Pc
    <3>2. CASE Promote(c)
      BY <2>a, <3>2 DEF Promote, Pc, Goal
    <3>3. CASE View(c)
      BY <2>a, <3>3 DEF View, Pc
    <3>4. CASE MarkDeclined(c)
      BY <2>a, <3>4 DEF MarkDeclined, Pc
    <3> QED BY <1>3, <3>1, <3>2, <3>3, <3>4
  <2> QED BY <2>3 DEF ReaderInv, CanSignerAct
<1>4. CASE CollectSignature(c) \/ MarkInPerson(c)
  <2>1. /\ status' = status /\ CanSignerAct(who)
        /\ call'[c].pc = "idle" \/ call'[c].who = who
        /\ \/ call'[c].pc \in {"idle", "recordHandedOver"}
           \/ call'[c].pc = "markSigned" /\ Invited(who)
    BY <1>a, <1>4 DEF CollectSignature, MarkInPerson, At, ReaderInv, Cleared, Goal, Pc
  <2> QED BY <1>b, <2>1 DEF ReaderInv, Cleared, Goal, Invited, CanSignerAct
<1>5. CASE AdvanceWorkflow(c)
  <2>1. CASE Goto(c, "complete") \/ Goto(c, "idle")
    BY <1>1, <1>a, <2>1 DEF Pc, Cleared, Goal
  <2>2. ASSUME NEW s \in Waiting,
               call' = [call EXCEPT ![c] = Running("inviteNext", s, "idle", FALSE)]
        PROVE  ReaderInv(c)'
    <3>1. call'[c] = Running("inviteNext", s, "idle", FALSE)
      BY <2>2 DEF TypeOK
    <3>2. call'[c].pc = "inviteNext" /\ call'[c].who = s /\ status'[s] = "PENDING"
      BY <1>5, <2>2, <3>1 DEF Running, Waiting, AdvanceWorkflow, request
    <3> QED BY <3>2 DEF ReaderInv, Cleared, Goal
  <2> QED BY <1>5, <2>1, <2>2 DEF AdvanceWorkflow
<1>6. CASE \/ CreateMarkDocument(c) \/ CreateRecord(c) \/ CreateEnqueue(c)
           \/ RecordViewed(c) \/ RejectSignature(c) \/ RecordSigned(c)
           \/ InviteNext(c) \/ EnqueueInvite(c)
           \/ CompleteRequest(c) \/ CompleteDocument(c) \/ RecordCompleted(c)
           \/ QueueCompletionMail(c)
           \/ RecordDeclined(c) \/ PauseRequest(c)
           \/ CancelRequest(c) \/ CancelDocument(c) \/ RecordCancelled(c)
           \/ RecordHandedOver(c) \/ ExpireRequest(c) \/ RecordExpired(c)
  <2>1. \E p \in Pc \ ({"turn", "inviteNext"} \cup Cleared) : Goto(c, p)
    BY <1>6 DEF CreateMarkDocument, CreateRecord, CreateEnqueue, RecordViewed,
       RejectSignature, RecordSigned, InviteNext, EnqueueInvite, CompleteRequest,
       CompleteDocument, RecordCompleted, QueueCompletionMail, RecordDeclined,
       PauseRequest, CancelRequest, CancelDocument, RecordCancelled,
       RecordHandedOver, ExpireRequest, RecordExpired, Record, SetRequest,
       SetDocument, SetStatus, QueueInvite, Pc, Cleared, Goal
  <2> QED BY <1>1, <1>a, <2>1
<1> QED BY <1>2, <1>3, <1>4, <1>5, <1>6 DEF Continue

-----------------------------------------------------------------------------
(* After a decline canSignerAct lets no call through that could release    *)
(* anybody.                                                                *)
LEMMA DeclineBlocks ==
  ASSUME NEW who \in Required(envelope), CanSignerAct(who),
         status[who] \in {"PENDING", "INVITED", "VIEWED"},
         NEW s \in Required(envelope), status[s] = "DECLINED", CanSignerAct(s),
         envelope.mode = "SEQUENTIAL"
  PROVE  FALSE
<1>1. who \in Int /\ s \in Int
  BY DEF Required, Signers
<1>2. CASE s < who
  BY <1>2 DEF CanSignerAct, Earlier
<1>3. CASE who < s
  BY <1>3 DEF CanSignerAct, Earlier
<1> QED BY <1>1, <1>2, <1>3

LEMMA DeclineStep ==
  ASSUME OneAtATime, IInv, NEW c \in Calls, ReaderInv(c), DeclineInv, Continue(c),
         Grows
  PROVE  DeclineInv'
<1> DEFINE who == call[c].who
<1>0. TypeOK /\ CallInv(c) /\ \A d \in Calls : d = c
  BY DEF OneAtATime, IInv
<1>a. \A p \in Pc : Goto(c, p) => call'[c].pc = p
  BY <1>0, GotoFields
<1> SUFFICES ASSUME envelope.mode = "SEQUENTIAL", NEW s \in Signers,
                    <<"DECLINED", s>> \in trail'
             PROVE  /\ status'[s] = "DECLINED" /\ CanSignerAct(s)'
                    /\ call'[c].pc \notin Releasing
  BY <1>0 DEF DeclineInv, Grows
<1>1. CASE <<"DECLINED", s>> \in trail
  <2>1. /\ status[s] = "DECLINED" /\ CanSignerAct(s)
        /\ call[c].pc \notin Releasing
    BY <1>1 DEF DeclineInv
  <2>2. s \in Required(envelope)
    BY <1>1 DEF IInv, InOrder, Acted, EventType
  <2>3. status'[s] = "DECLINED"
    BY <1>0, <2>1, StatusMoves
  <2>4. CanSignerAct(s)'
    <3>1. \A q \in Earlier(envelope, s) : q \in Signers /\ status[q] = "SIGNED"
      BY <2>1 DEF CanSignerAct, Earlier, Required
    <3>2. \A q \in Earlier(envelope, s) : status'[q] = "SIGNED"
      BY <1>0, <3>1, StatusMoves
    <3> QED BY <3>2 DEF CanSignerAct, Grows
  <2>5. CASE CheckTurn(c)
    <3>1. who \in Required(envelope) /\ call[c].goal \in Goal
      BY <1>0, <2>5 DEF CheckTurn, At, CallInv
    <3>2. call[c].goal \notin {"promote", "sign"} \/ ~CanSignerAct(who)
      <4>1. call[c].goal \in {"promote", "sign"} =>
              status[who] \in {"PENDING", "INVITED", "VIEWED"}
        BY <2>5 DEF CheckTurn, At, ReaderInv, Invited
      <4> QED BY <2>1, <2>2, <3>1, <4>1, DeclineBlocks
    <3>3. call'[c].pc \in Goal \ {"promote", "sign"} \/ call'[c].pc = "idle"
      BY <1>a, <2>5, <3>1, <3>2 DEF CheckTurn, Pc
    <3> QED BY <2>3, <2>4, <3>3 DEF Releasing, Goal
  <2>6. CASE \/ CreateMarkDocument(c) \/ CreateRecord(c) \/ CreateEnqueue(c)
             \/ View(c) \/ RecordViewed(c) \/ EnqueueInvite(c)
             \/ CompleteRequest(c) \/ CompleteDocument(c) \/ RecordCompleted(c)
             \/ QueueCompletionMail(c)
             \/ MarkDeclined(c) \/ RecordDeclined(c) \/ PauseRequest(c)
             \/ CancelRequest(c) \/ CancelDocument(c) \/ RecordCancelled(c)
             \/ MarkInPerson(c) \/ RecordHandedOver(c)
             \/ ExpireRequest(c) \/ RecordExpired(c)
    <3>1. \E p \in Pc \ Releasing : Goto(c, p)
      BY <2>6 DEF CreateMarkDocument, CreateRecord, CreateEnqueue, View,
         RecordViewed, EnqueueInvite, CompleteRequest, CompleteDocument,
         RecordCompleted, QueueCompletionMail, MarkDeclined, RecordDeclined,
         PauseRequest, CancelRequest, CancelDocument, RecordCancelled, MarkInPerson,
         RecordHandedOver, ExpireRequest, RecordExpired, Record, SetRequest,
         SetDocument, SetStatus, QueueInvite, Pc, Releasing
    <3> QED BY <1>a, <2>3, <2>4, <3>1
  <2>7. CASE \/ Promote(c) \/ RejectSignature(c) \/ CollectSignature(c)
             \/ MarkSigned(c) \/ RecordSigned(c) \/ AdvanceWorkflow(c)
             \/ InviteNext(c)
    BY <2>1, <2>7 DEF Promote, RejectSignature, CollectSignature, MarkSigned,
       RecordSigned, AdvanceWorkflow, InviteNext, SetStatus, Record, At, Releasing
  <2> QED BY <2>5, <2>6, <2>7 DEF Continue
<1>2. CASE <<"DECLINED", s>> \notin trail
  <2>1. RecordDeclined(c) /\ s = who
    BY <1>0, <1>2, Announcers
  <2>2. status[s] = "DECLINED" /\ CanSignerAct(s)
    BY <2>1 DEF RecordDeclined, Record, At, ReaderInv, Cleared
  <2>3. UNCHANGED <<envelope, status>> /\ call'[c].pc \in {"pause", "idle"}
    BY <1>a, <2>1 DEF RecordDeclined, Record, Pc
  <2> QED BY <2>2, <2>3 DEF CanSignerAct, Releasing
<1> QED BY <1>1, <1>2

-----------------------------------------------------------------------------
SerialInv == DeclineInv /\ \A c \in Calls : ReaderInv(c)

LEMMA InitSerialInv == Init => SerialInv
<1> SUFFICES ASSUME Init PROVE SerialInv
  OBVIOUS
<1>1. DeclineInv
  BY DEF Init, DeclineInv
<1>2. \A c \in Calls : call[c].pc \in {"markDocument", "idle"}
  BY DEF Init, Running, Idle
<1> QED BY <1>1, <1>2 DEF SerialInv, ReaderInv, Goal, Cleared

(* A call that begins has just read what it relies on.                     *)
LEMMA BeginSerial ==
  ASSUME OneAtATime, TypeOK, SerialInv, NEW c \in Calls, Begin(c)
  PROVE  SerialInv'
<1>1. /\ call[c].pc = "idle" /\ \A d \in Calls : d = c
      /\ UNCHANGED <<envelope, status, trail>>
  BY BeginFields DEF OneAtATime, request
<1>2. CASE call'[c].pc \in {"cancel", "expire"}
  <2>1. ReaderInv(c)'
    BY <1>1, <1>2 DEF ReaderInv, Goal, Cleared
  <2>2. DeclineInv'
    BY <1>1, <1>2 DEF SerialInv, DeclineInv, CanSignerAct, Releasing
  <2> QED BY <1>1, <2>1, <2>2 DEF SerialInv
<1>3. CASE call'[c].pc \notin {"cancel", "expire"}
  <2>1. PICK s \in Required(envelope), g \in Goal :
          /\ call'[c].pc = IF envelope.mode = "SEQUENTIAL" THEN "turn" ELSE g
          /\ call'[c].who = s /\ call'[c].goal = g
          /\ g = "promote" => status[s] = "PENDING"
          /\ g = "view" => status[s] = "INVITED"
          /\ g \in {"sign", "decline"} => Invited(s)
    BY <1>3, BeginFields
  <2>2. envelope.mode # "SEQUENTIAL" => CanSignerAct(s)'
    BY <1>1 DEF CanSignerAct, Earlier
  <2>3. ReaderInv(c)'
    BY <1>1, <2>1, <2>2 DEF ReaderInv, Goal, Cleared, Invited, CanSignerAct
  <2>4. DeclineInv'
    BY <1>1, <2>1 DEF SerialInv, DeclineInv, CanSignerAct, Releasing
  <2> QED BY <1>1, <2>3, <2>4 DEF SerialInv
<1> QED BY <1>2, <1>3

LEMMA SerialStep ==
  ASSUME OneAtATime, IInv, SerialInv, [Next]_vars
  PROVE  SerialInv'
<1>0. TypeOK /\ Grows /\ \A c \in Calls : CallInv(c)
  BY StepGrows DEF IInv
<1>1. ASSUME NEW c \in Calls, Continue(c) PROVE SerialInv'
  BY <1>0, <1>1, ReaderStep, DeclineStep DEF SerialInv, OneAtATime
<1>2. ASSUME NEW c \in Calls, Begin(c) PROVE SerialInv'
  BY <1>0, <1>2, BeginSerial
<1>3. ASSUME NEW c \in Calls, Fail(c) PROVE SerialInv'
  <2>1. /\ call'[c].pc = "idle" /\ \A d \in Calls : d = c
        /\ UNCHANGED <<envelope, status, trail>>
    BY <1>0, <1>3, GotoFields DEF Fail, OneAtATime, request
  <2>2. ReaderInv(c)'
    BY <2>1 DEF ReaderInv, Goal, Cleared
  <2>3. DeclineInv'
    BY <2>1 DEF SerialInv, DeclineInv, CanSignerAct, Releasing
  <2> QED BY <2>1, <2>2, <2>3 DEF SerialInv
<1>4. ASSUME UNCHANGED <<request, call>> PROVE SerialInv'
  <2>1. UNCHANGED <<envelope, status, trail, call>>
    BY <1>4 DEF request
  <2>2. DeclineInv'
    BY <2>1 DEF SerialInv, DeclineInv, CanSignerAct
  <2>3. ASSUME NEW c \in Calls PROVE ReaderInv(c)'
    BY <2>1 DEF SerialInv, ReaderInv, Invited, CanSignerAct
  <2> QED BY <2>2, <2>3 DEF SerialInv
<1> QED BY <1>1, <1>2, <1>3, <1>4 DEF Next, DeadlinePasses, vars, request

LEMMA SerialInvariance ==
  ASSUME OneAtATime
  PROVE  Spec => [](IInv /\ SerialInv)
<1>1. IInv /\ SerialInv /\ [Next]_vars => SerialInv'
  BY SerialStep
<1> QED BY InitSerialInv, Invariance, <1>1, PTL DEF Spec

(* One call at a time never activates another recipient of a sequential    *)
(* request once a decline is in its trail.                                 *)
THEOREM DeclineIsFinal ==
  ASSUME OneAtATime
  PROVE  Spec => DeclineStopsRouting
<1> DEFINE Stops == \A s, t \in Signers :
                      envelope.mode = "SEQUENTIAL" /\ <<"DECLINED", s>> \in trail
                        /\ status[t] = "PENDING" => status'[t] = "PENDING"
<1>1. IInv /\ SerialInv /\ [Next]_vars => [Stops]_vars
  <2> SUFFICES ASSUME IInv, SerialInv, [Next]_vars,
                      NEW s \in Signers, NEW t \in Signers,
                      envelope.mode = "SEQUENTIAL", <<"DECLINED", s>> \in trail,
                      status[t] = "PENDING"
               PROVE  status'[t] = "PENDING"
    OBVIOUS
  <2>1. ASSUME NEW c \in Calls, Continue(c) PROVE status'[t] = "PENDING"
    <3>1. call[c].pc \notin Releasing /\ ReaderInv(c)
      BY DEF SerialInv, DeclineInv
    <3>2. ~Promote(c) /\ ~CollectSignature(c) /\ ~MarkSigned(c) /\ ~InviteNext(c)
      BY <3>1 DEF Promote, CollectSignature, MarkSigned, InviteNext, SetStatus, At,
         Releasing
    <3>3. View(c) \/ MarkDeclined(c) => call[c].who # t
      BY <3>1 DEF View, MarkDeclined, SetStatus, At, ReaderInv, Invited
    <3>4. View(c) \/ MarkDeclined(c) => status'[t] = status[t]
      BY <3>3 DEF View, MarkDeclined, SetStatus, IInv, TypeOK
    <3> QED BY <2>1, <3>2, <3>4, Writers
  <2> QED BY <2>1, BeginReads DEF Next, Fail, DeadlinePasses, vars, request
<1> QED BY SerialInvariance, <1>1, PTL DEF Spec, DeclineStopsRouting

=============================================================================
