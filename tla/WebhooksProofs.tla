--------------------------- MODULE WebhooksProofs ---------------------------
(***************************************************************************)
(* Proofs about Webhooks.                                                  *)
(*                                                                         *)
(* The delivery log is written long after the read and the POST it         *)
(* records, by any of the workers.  What carries the properties is that a  *)
(* delivery's job is held by one worker at a time (HoldInv), and what that *)
(* worker still knows at each of its awaits: that the subscriber accepted  *)
(* (AcceptInv), that nobody will post the event again (OnceInv), how many  *)
(* attempts the row has (CountInv) and what it says (LogInv).              *)
(***************************************************************************)
EXTENDS Webhooks, FiniteSetTheorems, TLAPS

(* A worker between the read of a delivery and the write of its outcome,   *)
(* and up to the end of its job.                                           *)
Unrecorded == {"disabled", "post", "delivered", "refused", "broken"}
Delivering == Unrecorded \cup {"done", "thrown"}
Holds(w, d) == worker[w].pc \in Delivering /\ worker[w].row = d

(* A success and an endpoint have their time, and a sweep looks at what    *)
(* was registered.                                                         *)
StampInv ==
  /\ \A d \in Rows : row[d].status = "DELIVERED" => row[d].lastAttemptAt \in Time
  /\ \A e \in Endpoints :
       endpoint[e].status # "absent" => endpoint[e].createdAt \in Time
  /\ \A w \in Workers : \A e \in worker[w].todo : endpoint[e].status # "absent"

(* A row, its job and the loop that queues it.                             *)
QueueInv ==
  /\ \A d \in Rows : row[d].status = "absent" => job[d].state = "absent"
  /\ \A d \in Rows : row[d].status = "absent" <=> row[d].endpoint = None
  /\ \A d \in Rows : job[d].state = "absent" =>
       /\ row[d].status \in {"absent", "PENDING", "removed"}
       /\ row[d].attempts = 0 /\ job[d].tries = 0 /\ accepted[d] = 0
  /\ \A d \in Rows :
       job[d].state \in {"waiting", "active"} => job[d].tries < MaxAttempts
  /\ fanout.row # None =>
       job[fanout.row].state = "absent" /\ row[fanout.row].status # "absent"

(* A delivery's job is held by one worker at a time.                       *)
HoldInv ==
  /\ \A w \in Workers : worker[w].pc \in Delivering =>
       worker[w].row \in Rows /\ job[worker[w].row].state = "active"
  /\ \A v, w \in Workers :
       worker[v].pc \in Delivering /\ Holds(w, worker[v].row) => v = w
  /\ \A w \in Workers : worker[w].pc \notin Delivering => worker[w].row = None
  /\ \A w \in Workers : worker[w].pc \in {"count", "disable", "notify"} =>
       worker[w].target \in Endpoints

(* A worker that stands before the DELIVERED update has had its 2xx.       *)
AcceptInv ==
  \A w \in Workers : worker[w].pc = "delivered" => accepted[worker[w].row] > 0

(* Nobody posts d again unless something fails.                            *)
Spent(d) ==
  \/ job[d].state \in {"completed", "failed"}
  \/ ~Exists(d) /\ \A w \in Workers : Holds(w, d) => worker[w].pc # "post"
  \/ \E w \in Workers : Holds(w, d) /\ worker[w].pc \in {"delivered", "done"}

OnceInv ==
  \A d \in Rows : accepted[d] <= faults \/ (accepted[d] = faults + 1 /\ Spent(d))

(* The attempts of the row, the tries of the queue, and the count that a   *)
(* worker has in hand.                                                     *)
CountInv ==
  \A d \in Rows : Exists(d) =>
    /\ job[d].state \in {"waiting", "completed", "failed"} =>
         /\ row[d].attempts <= job[d].tries + faults
         /\ job[d].tries <= row[d].attempts + faults
    /\ \A w \in Workers : Holds(w, d) =>
         LET recorded == IF worker[w].pc \in Unrecorded THEN row[d].attempts
                         ELSE row[d].attempts - 1
         IN  /\ recorded <= job[d].tries + faults
             /\ job[d].tries <= recorded + faults
             /\ worker[w].pc \in Unrecorded => worker[w].attempts = row[d].attempts + 1

(* What the row says when its worker is about to end the job.              *)
LogInv ==
  \A d \in Rows, w \in Workers : faults = 0 /\ Exists(d) /\ Holds(w, d) =>
    /\ worker[w].pc = "done" =>
         row[d].status = IF accepted[d] > 0 THEN "DELIVERED" ELSE "FAILED"
    /\ worker[w].pc = "thrown" => row[d].status = "FAILED"

(* A delivery is accepted once at most for each of its tries, and once for *)
(* each try that a crash cut short.                                        *)
Posting(w, d) == Holds(w, d) /\ worker[w].pc = "post"

SentInv ==
  \A d \in Rows :
    /\ accepted[d] + lost[d] <= job[d].tries + faults + 1
    /\ job[d].state # "active" \/ (\E w \in Workers : Posting(w, d)) =>
         accepted[d] + lost[d] <= job[d].tries + faults

IInv ==
  /\ TypeOK /\ StampInv /\ QueueInv /\ HoldInv
  /\ DeliveredMeansAccepted /\ AcceptInv /\ OnceInv
  /\ SentInv /\ CountInv /\ LogAgreesWithQueue /\ LogInv

-----------------------------------------------------------------------------
(* A set of timestamps has a latest.                                       *)
LEMMA Latest ==
  ASSUME NEW S \in SUBSET Time, S # {}
  PROVE  \E t \in S : \A s \in S : s <= t
<1> DEFINE T == {MaxTime - s : s \in S}
<1>1. T \subseteq Nat /\ T # {}
  <2>1. \A s \in S : MaxTime - s \in Nat
    BY WebhookAssumption DEF Time
  <2> QED BY <2>1
<1>2. PICK x \in T : \A y \in T : ~(<<y, x>> \in OpToRel(<, Nat))
  <2> HIDE DEF T
  <2> QED BY <1>1, NatLessThanWellFounded, WFMin
<1>3. \A y \in T : ~(y < x)
  BY <1>1, <1>2 DEF OpToRel
<1>4. PICK t \in S : x = MaxTime - t
  OBVIOUS
<1>5. ASSUME NEW s \in S PROVE s <= t
  <2>1. ~(MaxTime - s < MaxTime - t)
    BY <1>3, <1>4
  <2> QED BY <2>1, WebhookAssumption DEF Time
<1> QED BY <1>5

(* The last success of an endpoint, or its registration, is a time.        *)
LEMMA LastSuccessIsTime ==
  ASSUME StampInv, NEW e \in Endpoints, endpoint[e].status # "absent"
  PROVE  LastSuccess(e) \in Time
<1> DEFINE S == {row[d].lastAttemptAt : d \in Delivered(e)}
                   \cup (IF Delivered(e) = {} THEN {endpoint[e].createdAt} ELSE {})
<1>1. S \in SUBSET Time /\ S # {}
  BY DEF StampInv, Delivered
<1>2. PICK t \in S : \A s \in S : s <= t
  <2> HIDE DEF S
  <2> QED BY <1>1, Latest
<1>3. \E u \in Time : u \in S /\ \A d \in Delivered(e) : row[d].lastAttemptAt <= u
  BY <1>1, <1>2
<1> QED BY <1>3 DEF LastSuccess

-----------------------------------------------------------------------------
LEMMA Init_IInv == Init => IInv
<1> SUFFICES ASSUME Init PROVE IInv
  OBVIOUS
<1> USE WebhookAssumption
<1>1. TypeOK
  <2>1. NoEndpoint \in EndpointType /\ NoRow \in RowType
    BY DEF NoEndpoint, EndpointType, EndpointStatus, NoRow, RowType, DeliveryStatus
  <2>2. [state |-> "absent", tries |-> 0] \in JobType /\ NoFanout \in FanoutType
    BY DEF JobType, JobState, NoFanout, FanoutType
  <2>3. Idle \in WorkerType /\ 0 \in Time
    BY DEF Idle, WorkerType, Pc, Time
  <2>4. /\ endpoint \in [Endpoints -> EndpointType] /\ row \in [Rows -> RowType]
        /\ job \in [Rows -> JobType] /\ worker \in [Workers -> WorkerType]
        /\ accepted \in [Rows -> Nat] /\ lost \in [Rows -> Nat]
    BY <2>1, <2>2, <2>3 DEF Init
  <2>5. /\ fanout \in FanoutType /\ sweepJob \in BOOLEAN /\ clock \in Time
        /\ notices \in SUBSET (Endpoints \X Time) /\ faults \in 0..MaxFaults
    <3>1. faults \in 0..MaxFaults
      BY DEF Init
    <3>2. notices \in SUBSET (Endpoints \X Time)
      BY DEF Init
    <3> QED BY <2>2, <2>3, <3>1, <3>2 DEF Init
  <2> QED BY <2>4, <2>5 DEF TypeOK
<1>2. StampInv /\ HoldInv /\ AcceptInv
  BY DEF Init, StampInv, HoldInv, AcceptInv, Holds, Delivering, Unrecorded,
     Idle, NoEndpoint, NoRow
<1>3. QueueInv /\ DeliveredMeansAccepted
  BY DEF Init, QueueInv, DeliveredMeansAccepted, NoRow, NoFanout
<1>4. OnceInv /\ CountInv /\ LogAgreesWithQueue /\ LogInv
  BY DEF Init, OnceInv, CountInv, LogAgreesWithQueue, LogInv, Exists, NoRow
<1>5. SentInv
  BY DEF Init, SentInv
<1> QED BY <1>1, <1>2, <1>3, <1>4, <1>5 DEF IInv

-----------------------------------------------------------------------------
(***************************************************************************)
(* Types.                                                                  *)
(***************************************************************************)
(* A worker that only moves on, or is through, keeps its type.             *)
LEMMA Moves ==
  ASSUME worker \in [Workers -> WorkerType], NEW w \in Workers
  PROVE  /\ \A pc \in Pc : Goto(w, pc) => worker' \in [Workers -> WorkerType]
         /\ worker' = [worker EXCEPT ![w] = Idle] => worker' \in [Workers -> WorkerType]
<1>1. ASSUME NEW pc \in Pc, Goto(w, pc) PROVE worker' \in [Workers -> WorkerType]
  BY <1>1 DEF Goto, WorkerType
<1>2. Idle \in WorkerType
  BY WebhookAssumption DEF Idle, WorkerType, Pc, Time, None
<1> QED BY <1>1, <1>2

LEMMA OperatorTypes ==
  ASSUME TypeOK, Operate \/ Emit \/ Fan \/ LoseFanout \/ Tick \/ SweepDue
  PROVE  TypeOK'
<1> USE WebhookAssumption DEF TypeOK
<1>1. ASSUME NEW e \in Endpoints, Create(e) PROVE TypeOK'
  <2>1. endpoint' \in [Endpoints -> EndpointType]
    <3>1. [endpoint[e] EXCEPT !.status = "active", !.createdAt = clock] \in EndpointType
      <4>1. endpoint[e] \in EndpointType /\ clock \in Time
        OBVIOUS
      <4> QED BY ONLY <4>1 DEF EndpointType, EndpointStatus
    <3>2. endpoint' = [endpoint EXCEPT ![e] =
                         [endpoint[e] EXCEPT !.status = "active", !.createdAt = clock]]
      BY <1>1 DEF Create, EndpointType
    <3> QED BY <3>1, <3>2
  <2> QED BY <1>1, <2>1 DEF Create
<1>2. ASSUME NEW e \in Endpoints, NEW active \in BOOLEAN, SetActive(e, active)
      PROVE  TypeOK'
  <2>1. endpoint' \in [Endpoints -> EndpointType]
    <3>1. PICK s \in {"active", "off"}, t \in {Never, clock} :
            endpoint' = [endpoint EXCEPT ![e].status = s, ![e].disabledAt = t]
      BY <1>2 DEF SetActive
    <3>2. [endpoint[e] EXCEPT !.status = s, !.disabledAt = t] \in EndpointType
      BY <3>1 DEF EndpointType, EndpointStatus
    <3>3. endpoint' = [endpoint EXCEPT ![e] =
                         [endpoint[e] EXCEPT !.status = s, !.disabledAt = t]]
      BY <3>1 DEF EndpointType
    <3> QED BY <3>2, <3>3
  <2> QED BY <1>2, <2>1 DEF SetActive
<1>3. ASSUME NEW e \in Endpoints, Remove(e) PROVE TypeOK'
  <2>1. endpoint' \in [Endpoints -> EndpointType]
    BY <1>3 DEF Remove, EndpointType, EndpointStatus
  <2>2. row' \in [Rows -> RowType]
    <3>1. \A d \in Rows : [row[d] EXCEPT !.status = "removed"] \in RowType
      BY DEF RowType, DeliveryStatus
    <3> QED BY <1>3, <3>1 DEF Remove
  <2> QED BY <1>3, <2>1, <2>2 DEF Remove
<1>4. ASSUME NEW e \in Endpoints, Ping(e) PROVE TypeOK'
  BY <1>4 DEF Ping, FanoutType
<1>5. CASE Emit
  BY <1>5 DEF Emit, FanoutType
<1>6. CASE WriteRow
  <2> PICK e \in fanout.todo :
        IF Registered(e)
        THEN \E d \in Rows :
               /\ row' = [row EXCEPT ![d].endpoint = e, ![d].status = "PENDING"]
               /\ fanout' = [todo |-> fanout.todo \ {e}, row |-> d]
        ELSE fanout' = NoFanout /\ UNCHANGED row
    BY <1>6 DEF WriteRow
  <2>1. e \in Endpoints
    BY DEF FanoutType
  <2>2. CASE Registered(e)
    <3> PICK d \in Rows :
          /\ row' = [row EXCEPT ![d].endpoint = e, ![d].status = "PENDING"]
          /\ fanout' = [todo |-> fanout.todo \ {e}, row |-> d]
      BY <2>2
    <3>1. row' \in [Rows -> RowType]
      <4>1. [row[d] EXCEPT !.endpoint = e, !.status = "PENDING"] \in RowType
        <5>1. row[d] \in RowType
          OBVIOUS
        <5> QED BY ONLY <2>1, <5>1 DEF RowType, DeliveryStatus
      <4>2. row' = [row EXCEPT ![d] = [row[d] EXCEPT !.endpoint = e, !.status = "PENDING"]]
        BY DEF RowType
      <4> QED BY <4>1, <4>2
    <3>2. fanout' \in FanoutType
      BY <2>1 DEF FanoutType
    <3> QED BY <1>6, <3>1, <3>2 DEF WriteRow
  <2>3. CASE ~Registered(e)
    BY <1>6, <2>3 DEF WriteRow, FanoutType, NoFanout
  <2> QED BY <2>2, <2>3
<1>7. CASE QueueDelivery
  <2>1. fanout.row \in Rows
    BY <1>7 DEF QueueDelivery, FanoutType
  <2>2. [job[fanout.row] EXCEPT !.state = "waiting"] \in JobType
    <3>1. job[fanout.row] \in JobType
      BY <2>1
    <3> QED BY ONLY <3>1 DEF JobType, JobState
  <2>3. job' = [job EXCEPT ![fanout.row] = [job[fanout.row] EXCEPT !.state = "waiting"]]
    BY <1>7, <2>1 DEF QueueDelivery, JobType
  <2>4. job' \in [Rows -> JobType]
    BY <2>2, <2>3
  <2>5. fanout' \in FanoutType
    BY <1>7 DEF QueueDelivery, FanoutType
  <2> QED BY <1>7, <2>4, <2>5 DEF QueueDelivery
<1>8. CASE LoseFanout
  BY <1>8 DEF LoseFanout, FanoutType, NoFanout
<1>9. CASE Tick
  BY <1>9 DEF Tick, Time
<1>10. CASE SweepDue
  BY <1>10 DEF SweepDue
<1> QED BY <1>1, <1>2, <1>3, <1>4, <1>5, <1>6, <1>7, <1>8, <1>9, <1>10
        DEF Operate, Fan

LEMMA WorkTypes ==
  ASSUME TypeOK, StampInv, QueueInv, HoldInv, NEW w \in Workers, Work(w)
  PROVE  TypeOK'
<1> USE WebhookAssumption
<1>a. /\ worker \in [Workers -> WorkerType]
      /\ worker[w] \in WorkerType
      /\ row \in [Rows -> RowType]
      /\ job \in [Rows -> JobType]
      /\ accepted \in [Rows -> Nat] /\ lost \in [Rows -> Nat]
      /\ clock \in Time
      /\ worker[w].pc \in Delivering => worker[w].row \in Rows
      /\ worker[w].pc \in {"count", "disable", "notify"} => worker[w].target \in Endpoints
  BY DEF TypeOK, HoldInv
<1>b. /\ \A pc \in Pc : Goto(w, pc) => worker' \in [Workers -> WorkerType]
      /\ worker' = [worker EXCEPT ![w] = Idle] => worker' \in [Workers -> WorkerType]
  BY <1>a, Moves
<1>1. ASSUME NEW d \in Rows, StartDelivery(w, d) PROVE TypeOK'
  <2>1. job' \in [Rows -> JobType]
    <3>1. PICK s \in {"active", "completed"} :
            job' = [job EXCEPT ![d].state = s]
      BY <1>1 DEF StartDelivery
    <3>2. [job[d] EXCEPT !.state = s] \in JobType
      BY <1>a DEF JobType, JobState
    <3>3. job' = [job EXCEPT ![d] = [job[d] EXCEPT !.state = s]]
      BY <1>a, <3>1 DEF JobType
    <3> QED BY <1>a, <3>2, <3>3
  <2>2. ASSUME NEW pc \in {"post", "disabled"}
        PROVE  [Idle EXCEPT !.pc = pc, !.row = d, !.attempts = row[d].attempts + 1]
                 \in WorkerType
    <3>1. row[d].attempts + 1 \in Nat /\ 0 \in Time
      BY <1>a DEF RowType, Time
    <3> QED BY <3>1 DEF WorkerType, Idle, Pc
  <2>3. worker' \in [Workers -> WorkerType]
    BY <1>1, <1>a, <2>2 DEF StartDelivery
  <2> QED BY <1>1, <2>1, <2>3 DEF StartDelivery, TypeOK
<1>2. CASE Post(w)
  <2>1. accepted' \in [Rows -> Nat] /\ lost' \in [Rows -> Nat]
    BY <1>2, <1>a DEF Post, Delivering, Unrecorded
  <2>2. worker' \in [Workers -> WorkerType]
    BY <1>2, <1>b DEF Post, Pc
  <2> QED BY <1>2, <2>1, <2>2 DEF Post, TypeOK
<1>3. ASSUME NEW pc \in Unrecorded, NEW status \in {"DELIVERED", "FAILED"},
             NEW next \in {"done", "thrown"}, NEW otherwise \in {"broken", "thrown"},
             UpdateRow(w, pc, status, next, otherwise)
      PROVE  TypeOK'
  <2>1. worker[w].row \in Rows /\ worker[w].attempts \in Nat
    BY <1>3, <1>a DEF UpdateRow, Delivering, WorkerType
  <2>2. row' \in [Rows -> RowType]
    <3> DEFINE d == worker[w].row
               next_row == [row[d] EXCEPT !.status = status, !.lastAttemptAt = clock,
                                          !.attempts = worker[w].attempts]
    <3>1. next_row \in RowType
      <4>1. row[d] \in RowType /\ clock \in Time /\ status \in DeliveryStatus
        BY <1>a, <2>1 DEF DeliveryStatus
      <4> QED BY ONLY <2>1, <4>1 DEF RowType
    <3>2. row' = row \/ row' = [row EXCEPT ![d] = next_row]
      BY <1>3, <1>a, <2>1 DEF UpdateRow, RowType
    <3> QED BY <1>a, <3>1, <3>2
  <2>3. worker' \in [Workers -> WorkerType]
    BY <1>3, <1>b DEF UpdateRow, Pc
  <2> QED BY <1>3, <2>2, <2>3 DEF UpdateRow, TypeOK
<1>4. CASE RecordDisabled(w) \/ RecordDelivered(w) \/ RecordRefused(w) \/ RecordBroken(w)
  BY <1>3, <1>4
  DEF RecordDisabled, RecordDelivered, RecordRefused, RecordBroken, Unrecorded
<1>5. CASE Settle(w)
  <2>1. job' \in [Rows -> JobType]
    <3>1. worker[w].row \in Rows /\ job[worker[w].row].state = "active"
      BY <1>5 DEF Settle, HoldInv, Delivering
    <3>2. job[worker[w].row].tries + 1 \in 0..MaxAttempts
      BY <1>a, <3>1 DEF QueueInv, JobType
    <3> QED BY <1>5, <1>a, <3>1, <3>2 DEF Settle, JobType, JobState
  <2>2. worker' \in [Workers -> WorkerType]
    BY <1>5, <1>b DEF Settle
  <2> QED BY <1>5, <2>1, <2>2 DEF Settle, TypeOK
<1>6. CASE StartSweep(w)
  <2>1. [Idle EXCEPT !.pc = "sweep", !.now = clock,
                     !.todo = {e \in Endpoints : Active(e)}] \in WorkerType
    <3>1. 0 \in Time
      BY DEF Time
    <3> QED BY <1>a, <3>1 DEF WorkerType, Idle, Pc
  <2>2. worker' \in [Workers -> WorkerType]
    BY <1>6, <1>a, <2>1 DEF StartSweep
  <2> QED BY <1>6, <2>2 DEF StartSweep, TypeOK
<1>7. CASE FinishSweep(w)
  BY <1>7, <1>b DEF FinishSweep, TypeOK
<1>8. CASE SweepWindow(w)
  <2> PICK e \in worker[w].todo :
        LET rest == [worker[w] EXCEPT !.todo = @ \ {e}]
        IN  \/ worker' = [worker EXCEPT ![w] = rest]
            \/ worker' = [worker EXCEPT ![w] =
                 [rest EXCEPT !.pc = "count", !.target = e, !.since = LastSuccess(e)]]
    BY <1>8 DEF SweepWindow
  <2>1. e \in Endpoints /\ LastSuccess(e) \in Time
    BY <1>a, LastSuccessIsTime DEF StampInv, WorkerType
  <2>2. worker' \in [Workers -> WorkerType]
    <3>1. [worker[w] EXCEPT !.todo = @ \ {e}] \in WorkerType
      BY <1>a DEF WorkerType
    <3>2. [[worker[w] EXCEPT !.todo = @ \ {e}] EXCEPT
             !.pc = "count", !.target = e, !.since = LastSuccess(e)] \in WorkerType
      BY <2>1, <3>1 DEF WorkerType, Pc
    <3> QED BY <1>a, <3>1, <3>2
  <2> QED BY <1>8, <2>2 DEF SweepWindow, TypeOK
<1>9. CASE SweepCount(w)
  BY <1>9, <1>b DEF SweepCount, Pc, TypeOK
<1>10. CASE SweepDisable(w)
  <2>1. worker[w].target \in Endpoints /\ worker[w].now \in Time
    BY <1>10, <1>a DEF SweepDisable, WorkerType
  <2>2. endpoint' \in [Endpoints -> EndpointType]
    BY <1>10, <2>1 DEF SweepDisable, TypeOK, EndpointType, EndpointStatus
  <2>3. worker' \in [Workers -> WorkerType]
    BY <1>10, <1>b DEF SweepDisable, Pc
  <2> QED BY <1>10, <2>2, <2>3 DEF SweepDisable, TypeOK
<1>11. CASE SweepNotify(w)
  <2>1. worker[w].target \in Endpoints /\ worker[w].now \in Time
    BY <1>11, <1>a DEF SweepNotify, WorkerType
  <2> QED BY <1>11, <1>b, <2>1 DEF SweepNotify, Pc, TypeOK
<1> QED BY <1>1, <1>2, <1>4, <1>5, <1>6, <1>7, <1>8, <1>9, <1>10, <1>11 DEF Work

-----------------------------------------------------------------------------
(***************************************************************************)
(* What a step does to the deliveries: nothing, or one of the steps that   *)
(* the following lemmas go through.                                        *)
(***************************************************************************)
Still(w) ==
  IF worker[w].pc \in Delivering THEN worker'[w] = worker[w]
  ELSE worker'[w].pc \notin Delivering /\ worker'[w].row = None

Quiet ==
  /\ UNCHANGED <<row, job, accepted, lost>>
  /\ faults' \in {faults, faults + 1}
  /\ fanout'.row \in {fanout.row, None}
  /\ \A w \in Workers : Still(w)

(* The database refuses the write of an outcome.                           *)
Refused(w) ==
  /\ \/ worker[w].pc \in {"delivered", "refused"} /\ Goto(w, "broken")
     \/ worker[w].pc \in {"disabled", "broken"} /\ Goto(w, "thrown")
  /\ faults' = faults + 1
  /\ UNCHANGED <<row, job, accepted, lost, fanout>>

(* A worker dies with a delivery in hand.                                  *)
Dropped(w) ==
  /\ worker[w].pc \in Delivering
  /\ worker' = [worker EXCEPT ![w] = Idle]
  /\ job' = [job EXCEPT ![worker[w].row].state = "waiting"]
  /\ faults' = faults + 1
  /\ UNCHANGED <<row, accepted, lost, fanout>>

Recorded(w) ==
  \/ RecordDisabled(w) \/ RecordDelivered(w) \/ RecordRefused(w) \/ RecordBroken(w)

Delivers(w) ==
  \/ \E d \in Rows : StartDelivery(w, d)
  \/ Post(w) \/ Recorded(w) \/ Settle(w) \/ Refused(w) \/ Dropped(w)

LEMMA SweepIsQuiet ==
  ASSUME TypeOK, HoldInv, NEW w \in Workers,
         \/ StartSweep(w) \/ FinishSweep(w) \/ SweepWindow(w) \/ SweepCount(w)
         \/ SweepDisable(w) \/ SweepNotify(w)
         \/ worker[w].pc \notin Delivering /\ (WriteFails(w) \/ Crash(w))
  PROVE  Quiet
<1>a. /\ worker \in [Workers -> WorkerType]
      /\ \A v \in Workers : worker[v].pc \notin Delivering => worker[v].row = None
      /\ None \notin Rows
  BY DEF TypeOK, HoldInv, None, Rows
<1>b. ASSUME worker[w].pc \notin Delivering,
             \/ \E pc \in Pc \ Delivering : Goto(w, pc)
             \/ worker' = [worker EXCEPT ![w] = Idle]
      PROVE  \A v \in Workers : Still(v)
  BY <1>a, <1>b DEF Still, Goto, Idle, Delivering, Unrecorded, WorkerType
<1>1. CASE StartSweep(w)
  BY <1>1, <1>a DEF StartSweep, Quiet, Still, Idle, Delivering, Unrecorded
<1>2. CASE FinishSweep(w)
  BY <1>2, <1>b DEF FinishSweep, Quiet, Delivering, Unrecorded
<1>3. CASE SweepWindow(w)
  <2> DEFINE rest(e) == [worker[w] EXCEPT !.todo = @ \ {e}]
             found(e) == [rest(e) EXCEPT !.pc = "count", !.target = e,
                                         !.since = LastSuccess(e)]
  <2>1. PICK e \in worker[w].todo : \/ worker' = [worker EXCEPT ![w] = rest(e)]
                                    \/ worker' = [worker EXCEPT ![w] = found(e)]
    BY <1>3 DEF SweepWindow
  <2>2. /\ worker[w].pc = "sweep" /\ worker[w].row = None
        /\ worker[w] \in WorkerType
    BY <1>3, <1>a DEF SweepWindow, Delivering, Unrecorded
  <2>3. /\ rest(e).pc = "sweep" /\ rest(e).row = None
        /\ found(e).pc = "count" /\ found(e).row = None
    BY <2>2 DEF WorkerType
  <2>4. \A v \in Workers : Still(v)
    <3> HIDE DEF rest, found
    <3> QED BY <1>a, <2>1, <2>2, <2>3 DEF Still, Delivering, Unrecorded
  <2> QED BY <1>3, <2>4 DEF SweepWindow, Quiet
<1>4. CASE SweepCount(w)
  BY <1>4, <1>b DEF SweepCount, Quiet, Delivering, Unrecorded, Pc
<1>5. CASE SweepDisable(w)
  BY <1>5, <1>b DEF SweepDisable, Quiet, Delivering, Unrecorded, Pc
<1>6. CASE SweepNotify(w)
  BY <1>6, <1>b DEF SweepNotify, Quiet, Delivering, Unrecorded, Pc
<1>7. CASE worker[w].pc \notin Delivering /\ WriteFails(w)
  BY <1>7, <1>b DEF WriteFails, Quiet, Delivering, Unrecorded
<1>8. CASE worker[w].pc \notin Delivering /\ Crash(w)
  BY <1>8, <1>a, <1>b DEF Crash, Quiet
<1> QED BY <1>1, <1>2, <1>3, <1>4, <1>5, <1>6, <1>7, <1>8

LEMMA Effects ==
  ASSUME TypeOK, HoldInv, [Next]_vars
  PROVE  \/ Quiet
         \/ WriteRow
         \/ QueueDelivery
         \/ \E e \in Endpoints : Remove(e)
         \/ \E w \in Workers : Delivers(w)
<1>a. /\ \A w \in Workers : worker[w].pc \notin Delivering => worker[w].row = None
      /\ \A w \in Workers : worker[w].pc \in Delivering => worker[w].row \in Rows
      /\ None \notin Rows
  BY DEF HoldInv, None, Rows
<1>b. worker' = worker => \A w \in Workers : Still(w)
  BY <1>a DEF Still
<1>1. ASSUME NEW e \in Endpoints, NEW active \in BOOLEAN,
             Create(e) \/ Ping(e) \/ SetActive(e, active)
      PROVE  Quiet
  BY <1>1, <1>b DEF Create, Ping, SetActive, Quiet
<1>2. CASE Emit \/ LoseFanout \/ Tick \/ SweepDue \/ UNCHANGED vars
  BY <1>2, <1>b DEF Emit, LoseFanout, NoFanout, Tick, SweepDue, Quiet, vars
<1>3. ASSUME NEW w \in Workers, Work(w) PROVE Quiet \/ Delivers(w)
  BY <1>3, SweepIsQuiet DEF Work, Delivers, Recorded
<1>4. ASSUME NEW w \in Workers, WriteFails(w) PROVE Quiet \/ Delivers(w)
  <2>1. CASE worker[w].pc \in Delivering
    BY <1>4, <2>1 DEF WriteFails, Delivers, Refused, Delivering, Unrecorded
  <2> QED BY <1>4, <2>1, SweepIsQuiet
<1>5. ASSUME NEW w \in Workers, Crash(w) PROVE Quiet \/ Delivers(w)
  <2>1. CASE worker[w].pc \in Delivering
    BY <1>5, <2>1, <1>a DEF Crash, Delivers, Dropped
  <2> QED BY <1>5, <2>1, SweepIsQuiet
<1> QED BY <1>1, <1>2, <1>3, <1>4, <1>5 DEF Next, Operate, Fan

LEMMA TypeStep ==
  ASSUME TypeOK, StampInv, QueueInv, HoldInv, [Next]_vars
  PROVE  TypeOK'
<1>1. ASSUME NEW w \in Workers, WriteFails(w) PROVE TypeOK'
  <2>1. worker' \in [Workers -> WorkerType]
    BY <1>1, Moves DEF WriteFails, TypeOK, Pc
  <2>2. faults' \in 0..MaxFaults
    BY <1>1, WebhookAssumption DEF WriteFails, TypeOK
  <2> QED BY <1>1, <2>1, <2>2 DEF WriteFails, TypeOK
<1>2. ASSUME NEW w \in Workers, Crash(w) PROVE TypeOK'
  <2>1. worker' \in [Workers -> WorkerType]
    BY <1>2, Moves DEF Crash, TypeOK
  <2>2. faults' \in 0..MaxFaults
    BY <1>2, WebhookAssumption DEF Crash, TypeOK
  <2>3. job' \in [Rows -> JobType]
    BY <1>2 DEF Crash, TypeOK, JobType, JobState
  <2> QED BY <1>2, <2>1, <2>2, <2>3 DEF Crash, TypeOK
<1>3. CASE UNCHANGED vars
  BY <1>3 DEF vars, TypeOK
<1> QED BY <1>1, <1>2, <1>3, OperatorTypes, WorkTypes DEF Next

-----------------------------------------------------------------------------
(***************************************************************************)
(* The steps, pointwise.                                                   *)
(***************************************************************************)
LEMMA WriteRowEffect ==
  ASSUME TypeOK, WriteRow
  PROVE  /\ UNCHANGED <<endpoint, job, sweepJob, worker, notices, accepted, lost,
                        clock, faults>>
         /\ \/ UNCHANGED row /\ fanout'.row = None
            \/ \E d \in Rows :
                 /\ row[d].status = "absent" /\ row'[d].status = "PENDING"
                 /\ row'[d].endpoint \in Endpoints
                 /\ row'[d].attempts = row[d].attempts
                 /\ row'[d].lastAttemptAt = row[d].lastAttemptAt
                 /\ \A x \in Rows : x # d => row'[x] = row[x]
                 /\ fanout'.row = d
<1> PICK e \in fanout.todo :
      IF Registered(e)
      THEN \E d \in Rows :
             /\ row[d].status = "absent"
             /\ row' = [row EXCEPT ![d].endpoint = e, ![d].status = "PENDING"]
             /\ fanout' = [todo |-> fanout.todo \ {e}, row |-> d]
      ELSE fanout' = NoFanout /\ UNCHANGED row
  BY DEF WriteRow
<1>1. e \in Endpoints /\ row \in [Rows -> RowType]
  BY DEF TypeOK, FanoutType
<1>2. CASE Registered(e)
  <2> PICK d \in Rows :
        /\ row[d].status = "absent"
        /\ row' = [row EXCEPT ![d].endpoint = e, ![d].status = "PENDING"]
        /\ fanout' = [todo |-> fanout.todo \ {e}, row |-> d]
    BY <1>2
  <2>1. /\ row'[d].status = "PENDING" /\ row'[d].endpoint = e
        /\ row'[d].attempts = row[d].attempts
        /\ row'[d].lastAttemptAt = row[d].lastAttemptAt
        /\ \A x \in Rows : x # d => row'[x] = row[x]
    BY <1>1 DEF RowType
  <2> QED BY <1>1, <2>1 DEF WriteRow
<1>3. CASE ~Registered(e)
  BY <1>3 DEF WriteRow, NoFanout
<1> QED BY <1>2, <1>3

LEMMA QueueEffect ==
  ASSUME TypeOK, QueueDelivery
  PROVE  LET d == fanout.row
         IN  /\ UNCHANGED <<row, worker, accepted, lost, faults>>
             /\ d \in Rows /\ fanout'.row = None
             /\ job'[d].state = "waiting" /\ job'[d].tries = job[d].tries
             /\ \A x \in Rows : x # d => job'[x] = job[x]
BY DEF QueueDelivery, TypeOK, FanoutType, JobType

LEMMA RemoveEffect ==
  ASSUME TypeOK, NEW e \in Endpoints, Remove(e)
  PROVE  /\ UNCHANGED <<job, fanout, sweepJob, worker, notices, accepted, lost,
                        clock, faults>>
         /\ \A d \in Rows :
              \/ row'[d] = row[d]
              \/ /\ row[d].endpoint = e /\ row[d].endpoint # None
                 /\ row'[d].status = "removed"
                 /\ row'[d].endpoint = row[d].endpoint
                 /\ row'[d].attempts = row[d].attempts
                 /\ row'[d].lastAttemptAt = row[d].lastAttemptAt
<1>1. row \in [Rows -> RowType] /\ e # None
  BY DEF TypeOK, Endpoints, None
<1> QED BY <1>1 DEF Remove, RowType

LEMMA StartEffect ==
  ASSUME TypeOK, NEW w \in Workers, NEW d \in Rows, StartDelivery(w, d)
  PROVE  /\ UNCHANGED <<row, accepted, lost, fanout, faults>>
         /\ worker[w].pc = "idle"
         /\ job[d].state = "waiting" /\ job'[d].tries = job[d].tries
         /\ \A x \in Rows : x # d => job'[x] = job[x]
         /\ \A v \in Workers : v # w => worker'[v] = worker[v]
         /\ Exists(d) => /\ job'[d].state = "active"
                         /\ worker'[w].pc \in {"post", "disabled"}
                         /\ worker'[w].row = d
                         /\ worker'[w].attempts = row[d].attempts + 1
         /\ ~Exists(d) => job'[d].state = "completed" /\ worker' = worker
<1>1. job \in [Rows -> JobType] /\ worker \in [Workers -> WorkerType]
  BY DEF TypeOK
<1>2. CASE Exists(d)
  <2>1. PICK pc \in {"post", "disabled"} : worker' = [worker EXCEPT ![w] =
               [Idle EXCEPT !.pc = pc, !.row = d, !.attempts = row[d].attempts + 1]]
    BY <1>2 DEF StartDelivery
  <2>2. job' = [job EXCEPT ![d].state = "active"]
    BY <1>2 DEF StartDelivery
  <2>3. /\ worker'[w].pc = pc /\ worker'[w].row = d
        /\ worker'[w].attempts = row[d].attempts + 1
        /\ \A v \in Workers : v # w => worker'[v] = worker[v]
    BY <1>1, <2>1 DEF Idle
  <2>4. /\ job'[d].state = "active" /\ job'[d].tries = job[d].tries
        /\ \A x \in Rows : x # d => job'[x] = job[x]
    BY <1>1, <2>2 DEF JobType
  <2> QED BY <1>2, <2>3, <2>4 DEF StartDelivery
<1>3. CASE ~Exists(d)
  BY <1>1, <1>3 DEF StartDelivery, JobType
<1> QED BY <1>2, <1>3

LEMMA RecordEffect ==
  ASSUME TypeOK, HoldInv, NEW w \in Workers, Recorded(w)
  PROVE  LET d == worker[w].row
         IN  /\ UNCHANGED <<job, accepted, lost, fanout, faults>>
             /\ worker[w].pc \in Unrecorded \ {"post"} /\ d \in Rows
             /\ worker'[w].row = d /\ worker'[w].attempts = worker[w].attempts
             /\ \A v \in Workers : v # w => worker'[v] = worker[v]
             /\ \A x \in Rows : x # d => row'[x] = row[x]
             /\ Exists(d) =>
                  /\ row'[d].attempts = worker[w].attempts
                  /\ row'[d].lastAttemptAt = clock
                  /\ row'[d].endpoint = row[d].endpoint
                  /\ row'[d].status = IF worker[w].pc = "delivered" THEN "DELIVERED"
                                      ELSE "FAILED"
                  /\ worker'[w].pc = IF worker[w].pc \in {"delivered", "disabled"}
                                     THEN "done" ELSE "thrown"
             /\ ~Exists(d) =>
                  row'[d] = row[d] /\ worker'[w].pc \in {"broken", "thrown"}
<1>1. PICK pc \in Unrecorded \ {"post"}, status \in {"DELIVERED", "FAILED"},
           next \in {"done", "thrown"}, otherwise \in {"broken", "thrown"} :
        /\ UpdateRow(w, pc, status, next, otherwise)
        /\ status = IF pc = "delivered" THEN "DELIVERED" ELSE "FAILED"
        /\ next = IF pc \in {"delivered", "disabled"} THEN "done" ELSE "thrown"
  BY DEF Recorded, RecordDisabled, RecordDelivered, RecordRefused, RecordBroken,
     Unrecorded
<1>2. /\ row \in [Rows -> RowType] /\ worker \in [Workers -> WorkerType]
      /\ worker[w].pc = pc /\ worker[w].row \in Rows
  BY <1>1 DEF UpdateRow, TypeOK, HoldInv, Delivering
<1>3. \A p \in Pc : Goto(w, p) =>
        /\ worker'[w].pc = p /\ worker'[w].row = worker[w].row
        /\ worker'[w].attempts = worker[w].attempts
        /\ \A v \in Workers : v # w => worker'[v] = worker[v]
  BY <1>2 DEF Goto, WorkerType
<1>4. next \in Pc /\ otherwise \in Pc
  BY DEF Pc
<1>5. CASE Exists(worker[w].row)
  <2>1. Goto(w, next)
    BY <1>1, <1>5 DEF UpdateRow
  <2>2. row' = [row EXCEPT ![worker[w].row].status = status,
                           ![worker[w].row].attempts = worker[w].attempts,
                           ![worker[w].row].lastAttemptAt = clock]
    BY <1>1, <1>5 DEF UpdateRow
  <2>3. /\ row'[worker[w].row].attempts = worker[w].attempts
        /\ row'[worker[w].row].lastAttemptAt = clock
        /\ row'[worker[w].row].endpoint = row[worker[w].row].endpoint
        /\ row'[worker[w].row].status = status
        /\ \A x \in Rows : x # worker[w].row => row'[x] = row[x]
    BY <1>2, <2>2 DEF RowType
  <2> QED BY <1>1, <1>2, <1>3, <1>4, <1>5, <2>1, <2>3 DEF UpdateRow
<1>6. CASE ~Exists(worker[w].row)
  BY <1>1, <1>2, <1>3, <1>4, <1>6 DEF UpdateRow
<1> QED BY <1>5, <1>6

LEMMA PostEffect ==
  ASSUME TypeOK, HoldInv, NEW w \in Workers, Post(w)
  PROVE  LET d == worker[w].row
         IN  /\ UNCHANGED <<row, job, fanout, faults>>
             /\ worker[w].pc = "post" /\ d \in Rows
             /\ worker'[w].pc \in {"delivered", "refused", "broken"}
             /\ worker'[w].row = d /\ worker'[w].attempts = worker[w].attempts
             /\ \A v \in Workers : v # w => worker'[v] = worker[v]
             /\ \A x \in Rows : x # d => accepted'[x] = accepted[x]
             /\ accepted'[d] = IF worker'[w].pc = "delivered" THEN accepted[d] + 1
                               ELSE accepted[d]
             /\ \A x \in Rows : x # d => lost'[x] = lost[x]
             /\ \/ lost'[d] = lost[d]
                \/ worker'[w].pc # "delivered" /\ lost'[d] = lost[d] + 1
<1>1. /\ worker \in [Workers -> WorkerType]
      /\ accepted \in [Rows -> Nat] /\ lost \in [Rows -> Nat]
      /\ worker[w].pc = "post" /\ worker[w].row \in Rows
  BY DEF Post, TypeOK, HoldInv, Delivering, Unrecorded
<1>2. PICK pc \in {"delivered", "refused", "broken"} :
        /\ Goto(w, pc)
        /\ accepted' = IF pc = "delivered"
                       THEN [accepted EXCEPT ![worker[w].row] = @ + 1] ELSE accepted
        /\ \/ lost' = lost
           \/ pc # "delivered" /\ lost' = [lost EXCEPT ![worker[w].row] = @ + 1]
  BY DEF Post
<1>3. /\ worker'[w].pc = pc /\ worker'[w].row = worker[w].row
      /\ worker'[w].attempts = worker[w].attempts
      /\ \A v \in Workers : v # w => worker'[v] = worker[v]
  BY <1>1, <1>2 DEF Goto, WorkerType
<1> QED BY <1>1, <1>2, <1>3 DEF Post

LEMMA RefusedEffect ==
  ASSUME TypeOK, HoldInv, NEW w \in Workers, Refused(w)
  PROVE  /\ UNCHANGED <<row, job, accepted, lost, fanout>> /\ faults' = faults + 1
         /\ worker[w].pc \in Unrecorded \ {"post"} /\ worker[w].row \in Rows
         /\ worker'[w].pc = IF worker[w].pc \in {"delivered", "refused"}
                            THEN "broken" ELSE "thrown"
         /\ worker'[w].row = worker[w].row
         /\ worker'[w].attempts = worker[w].attempts
         /\ \A v \in Workers : v # w => worker'[v] = worker[v]
<1>1. /\ worker \in [Workers -> WorkerType] /\ worker[w].row \in Rows
      /\ worker[w].pc \in Unrecorded \ {"post"}
  BY DEF Refused, TypeOK, HoldInv, Delivering, Unrecorded
<1>2. Goto(w, IF worker[w].pc \in {"delivered", "refused"} THEN "broken" ELSE "thrown")
  BY DEF Refused
<1> QED BY <1>1, <1>2 DEF Refused, Goto, WorkerType

LEMMA EndEffect ==
  ASSUME TypeOK, QueueInv, HoldInv, NEW w \in Workers, Settle(w) \/ Dropped(w)
  PROVE  LET d == worker[w].row
         IN  /\ UNCHANGED <<row, accepted, lost, fanout>>
             /\ worker[w].pc \in Delivering /\ d \in Rows
             /\ worker'[w] = Idle
             /\ \A v \in Workers : v # w => worker'[v] = worker[v]
             /\ \A x \in Rows : x # d => job'[x] = job[x]
             /\ job[d].state = "active"
             /\ \/ /\ faults' = faults /\ job'[d].tries = job[d].tries + 1
                   /\ \/ worker[w].pc = "done" /\ job'[d].state = "completed"
                      \/ /\ worker[w].pc = "thrown"
                         /\ job'[d].state \in {"waiting", "failed"}
                         /\ job'[d].state = "waiting" => job'[d].tries < MaxAttempts
                \/ /\ faults' = faults + 1 /\ job'[d].tries = job[d].tries
                   /\ job'[d].state = "waiting"
<1>1. /\ worker \in [Workers -> WorkerType] /\ job \in [Rows -> JobType]
      /\ worker[w].pc \in Delivering /\ worker[w].row \in Rows
      /\ job[worker[w].row].state = "active"
  BY DEF Settle, Dropped, TypeOK, HoldInv, Delivering
<1>2. CASE Settle(w)
  BY <1>1, <1>2 DEF Settle, JobType
<1>3. CASE Dropped(w)
  BY <1>1, <1>3 DEF Dropped, JobType
<1> QED BY <1>2, <1>3

-----------------------------------------------------------------------------
(***************************************************************************)
(* The sweep.                                                              *)
(***************************************************************************)
(* What a step makes of a worker that sweeps, or of one that does not.     *)
LEMMA Sweeping ==
  ASSUME TypeOK, HoldInv, [Next]_vars, NEW w \in Workers
  PROVE  \/ worker'[w] = worker[w]
         \/ /\ worker'[w].pc \in {"idle"} \cup Delivering
            /\ worker'[w].todo \subseteq worker[w].todo
            /\ worker[w].pc = "notify" => faults' = faults + 1
         \/ StartSweep(w) \/ SweepWindow(w) \/ SweepCount(w) \/ SweepDisable(w)
         \/ SweepNotify(w)
<1> DEFINE Sweeps(v) == \/ StartSweep(v) \/ SweepWindow(v) \/ SweepCount(v)
                        \/ SweepDisable(v) \/ SweepNotify(v)
           Leaves == /\ worker'[w].pc \in {"idle"} \cup Delivering
                     /\ worker'[w].todo \subseteq worker[w].todo
                     /\ worker[w].pc = "notify" => faults' = faults + 1
           Good == worker'[w] = worker[w] \/ Leaves \/ Sweeps(w)
<1>a. worker \in [Workers -> WorkerType]
  BY DEF TypeOK
<1>1. ASSUME NEW v \in Workers, NEW d \in Rows, StartDelivery(v, d) PROVE Good
  <2>1. CASE Exists(d)
    <3>1. PICK pc \in {"post", "disabled"} :
            worker' = [worker EXCEPT ![v] = [Idle EXCEPT !.pc = pc, !.row = d,
                                               !.attempts = row[d].attempts + 1]]
      BY <1>1, <2>1 DEF StartDelivery
    <3>2. v # w => worker'[w] = worker[w]
      BY <1>a, <3>1
    <3>3. v = w => worker'[w] = [Idle EXCEPT !.pc = pc, !.row = d,
                                             !.attempts = row[d].attempts + 1]
      BY <1>a, <3>1
    <3>4. v = w => worker[w].pc = "idle"
      BY <1>1 DEF StartDelivery
    <3> QED BY <3>2, <3>3, <3>4 DEF Idle, Delivering, Unrecorded
  <2>2. CASE ~Exists(d)
    BY <1>1, <2>2 DEF StartDelivery
  <2> QED BY <2>1, <2>2
<1>2. ASSUME NEW v \in Workers, NEW pc \in Delivering, Goto(v, pc),
             worker[v].pc \in Delivering \/ faults' = faults + 1
      PROVE  Good
  BY <1>2, <1>a DEF Goto, WorkerType, Delivering, Unrecorded
<1>3. ASSUME NEW v \in Workers, worker' = [worker EXCEPT ![v] = Idle],
             worker[v].pc # "notify" \/ faults' = faults + 1
      PROVE  Good
  BY <1>3, <1>a DEF Idle
<1>4. ASSUME NEW v \in Workers, Post(v) \/ Recorded(v) PROVE Good
  BY <1>4, <1>2 DEF Post, Recorded, RecordDisabled, RecordDelivered, RecordRefused,
     RecordBroken, UpdateRow, Delivering, Unrecorded
<1>5. ASSUME NEW v \in Workers,
             Settle(v) \/ FinishSweep(v) \/ Crash(v) \/ WriteFails(v)
      PROVE  Good
  BY <1>5, <1>2, <1>3 DEF Settle, FinishSweep, Crash, WriteFails, Delivering, Unrecorded
<1>6. ASSUME NEW v \in Workers, Sweeps(v) PROVE Good
  <2>1. v # w => worker'[w] = worker[w]
    <3>1. CASE \E pc \in Pc : Goto(v, pc)
      BY <1>a, <3>1 DEF Goto
    <3>2. CASE \E x : worker' = [worker EXCEPT ![v] = x]
      BY <1>a, <3>2
    <3>3. CASE StartSweep(v) \/ SweepWindow(v)
      BY <3>2, <3>3 DEF StartSweep, SweepWindow
    <3>4. CASE SweepCount(v) \/ SweepDisable(v) \/ SweepNotify(v)
      BY <3>1, <3>2, <3>4 DEF SweepCount, SweepDisable, SweepNotify, Pc
    <3> QED BY <1>6, <3>3, <3>4
  <2> QED BY <1>6, <2>1
<1>7. ASSUME Operate \/ Emit \/ Fan \/ LoseFanout \/ Tick \/ SweepDue \/ UNCHANGED vars
      PROVE  UNCHANGED worker
  BY <1>7 DEF Operate, Create, Remove, Ping, SetActive, Emit, Fan, WriteRow,
     QueueDelivery, LoseFanout, Tick, SweepDue, vars
<1> QED BY <1>1, <1>4, <1>5, <1>6, <1>7 DEF Next, Work, Recorded

LEMMA SweepEffect ==
  ASSUME TypeOK, NEW w \in Workers
  PROVE  /\ StartSweep(w) =>
              /\ worker'[w].pc = "sweep" /\ worker'[w].now = clock
              /\ worker'[w].todo = {e \in Endpoints : Active(e)}
              /\ UNCHANGED <<endpoint, clock>>
         /\ SweepWindow(w) => \E e \in worker[w].todo :
              /\ worker[w].pc = "sweep" /\ worker'[w].now = worker[w].now
              /\ worker'[w].todo \subseteq worker[w].todo
              /\ \/ worker'[w].pc = "sweep"
                 \/ /\ worker'[w].pc = "count" /\ worker'[w].target = e
                    /\ worker'[w].since = LastSuccess(e)
                    /\ ~(worker[w].now - LastSuccess(e) < Window)
              /\ UNCHANGED <<endpoint, row, clock>>
         /\ SweepCount(w) \/ SweepNotify(w)
              \/ (SweepDisable(w) /\ Registered(worker[w].target)) =>
              /\ worker'[w].todo = worker[w].todo /\ worker'[w].now = worker[w].now
              /\ worker'[w].target = worker[w].target
              /\ worker'[w].since = worker[w].since
         /\ SweepDisable(w) =>
              /\ worker[w].pc = "disable"
              /\ IF Registered(worker[w].target) THEN worker'[w].pc = "notify"
                 ELSE worker'[w] = Idle
<1>a. worker \in [Workers -> WorkerType]
  BY DEF TypeOK
<1>1. ASSUME StartSweep(w)
      PROVE  /\ worker'[w].pc = "sweep" /\ worker'[w].now = clock
             /\ worker'[w].todo = {e \in Endpoints : Active(e)}
             /\ UNCHANGED <<endpoint, clock>>
  BY <1>1, <1>a DEF StartSweep, Idle
<1>2. ASSUME SweepWindow(w)
      PROVE  \E e \in worker[w].todo :
               /\ worker[w].pc = "sweep" /\ worker'[w].now = worker[w].now
               /\ worker'[w].todo \subseteq worker[w].todo
               /\ \/ worker'[w].pc = "sweep"
                  \/ /\ worker'[w].pc = "count" /\ worker'[w].target = e
                     /\ worker'[w].since = LastSuccess(e)
                     /\ ~(worker[w].now - LastSuccess(e) < Window)
               /\ UNCHANGED <<endpoint, row, clock>>
  <2> DEFINE rest(e) == [worker[w] EXCEPT !.todo = @ \ {e}]
             found(e) == [rest(e) EXCEPT !.pc = "count", !.target = e,
                                         !.since = LastSuccess(e)]
  <2>1. PICK e \in worker[w].todo :
          \/ worker' = [worker EXCEPT ![w] = rest(e)]
          \/ /\ worker' = [worker EXCEPT ![w] = found(e)]
             /\ ~(worker[w].now - LastSuccess(e) < Window)
    BY <1>2 DEF SweepWindow
  <2>2. worker[w].pc = "sweep" /\ worker[w] \in WorkerType
    BY <1>2, <1>a DEF SweepWindow
  <2>3. /\ rest(e).pc = "sweep" /\ rest(e).now = worker[w].now
        /\ rest(e).todo = worker[w].todo \ {e}
        /\ found(e).pc = "count" /\ found(e).now = worker[w].now
        /\ found(e).todo = worker[w].todo \ {e}
        /\ found(e).target = e /\ found(e).since = LastSuccess(e)
    BY <2>2 DEF WorkerType
  <2>4. UNCHANGED <<endpoint, row, clock>>
    BY <1>2 DEF SweepWindow
  <2>5. /\ worker'[w] = rest(e)
           \/ (worker'[w] = found(e) /\ ~(worker[w].now - LastSuccess(e) < Window))
    <3> HIDE DEF rest, found
    <3> QED BY <1>a, <2>1
  <2> HIDE DEF rest, found
  <2> QED BY <2>2, <2>3, <2>4, <2>5
<1>3. ASSUME NEW pc \in Pc, Goto(w, pc)
      PROVE  /\ worker'[w].todo = worker[w].todo /\ worker'[w].now = worker[w].now
             /\ worker'[w].target = worker[w].target
             /\ worker'[w].since = worker[w].since
             /\ worker'[w].pc = pc
  BY <1>3, <1>a DEF Goto, WorkerType
<1>4. ASSUME \/ SweepCount(w) \/ SweepNotify(w)
             \/ SweepDisable(w) /\ Registered(worker[w].target)
      PROVE  /\ worker'[w].todo = worker[w].todo /\ worker'[w].now = worker[w].now
             /\ worker'[w].target = worker[w].target
             /\ worker'[w].since = worker[w].since
  BY <1>3, <1>4 DEF SweepCount, SweepNotify, SweepDisable, Pc
<1>5. ASSUME SweepDisable(w)
      PROVE  /\ worker[w].pc = "disable"
             /\ IF Registered(worker[w].target) THEN worker'[w].pc = "notify"
                ELSE worker'[w] = Idle
  BY <1>3, <1>5, <1>a DEF SweepDisable, Pc
<1> QED BY <1>1, <1>2, <1>4, <1>5

-----------------------------------------------------------------------------
(***************************************************************************)
(* The queue and who holds what.                                           *)
(***************************************************************************)
LEMMA QueueStep ==
  ASSUME TypeOK, QueueInv, HoldInv, [Next]_vars
  PROVE  QueueInv'
<1>a. /\ None \notin Rows /\ None \notin Endpoints /\ MaxAttempts \in Nat \ {0}
      /\ fanout.row \in Rows \cup {None} /\ job \in [Rows -> JobType]
  BY WebhookAssumption DEF TypeOK, None, Rows, Endpoints, FanoutType
<1>b. \A w \in Workers : worker[w].pc \in Delivering =>
        worker[w].row \in Rows /\ job[worker[w].row].state = "active"
  BY DEF HoldInv
<1>1. CASE Quiet
  BY <1>1 DEF Quiet, QueueInv
<1>2. CASE WriteRow
  BY <1>2, <1>a, WriteRowEffect DEF QueueInv
<1>3. CASE QueueDelivery
  BY <1>3, <1>a, QueueEffect DEF QueueInv
<1>4. ASSUME NEW e \in Endpoints, Remove(e) PROVE QueueInv'
  <2>1. /\ UNCHANGED <<job, fanout, accepted>>
        /\ \A d \in Rows : \/ row'[d] = row[d]
                           \/ /\ row[d].endpoint # None /\ row'[d].status = "removed"
                              /\ row'[d].endpoint = row[d].endpoint
                              /\ row'[d].attempts = row[d].attempts
    BY <1>4, RemoveEffect
  <2> QED BY <2>1, <1>a DEF QueueInv
<1>5. ASSUME NEW w \in Workers, NEW d \in Rows, StartDelivery(w, d) PROVE QueueInv'
  <2>1. /\ UNCHANGED <<row, accepted, fanout>>
        /\ job[d].state = "waiting" /\ job'[d].tries = job[d].tries
        /\ job'[d].state \in {"active", "completed"}
        /\ \A x \in Rows : x # d => job'[x] = job[x]
    BY <1>5, StartEffect
  <2> QED BY <2>1, <1>a DEF QueueInv
<1>6. ASSUME NEW w \in Workers, Post(w) PROVE QueueInv'
  BY <1>6, <1>b, PostEffect DEF QueueInv, Delivering, Unrecorded
<1>7. ASSUME NEW w \in Workers, Recorded(w) PROVE QueueInv'
  BY <1>7, <1>a, <1>b, RecordEffect DEF QueueInv, Delivering, Exists
<1>8. ASSUME NEW w \in Workers, Settle(w) \/ Dropped(w) PROVE QueueInv'
  <2> DEFINE d == worker[w].row
  <2>1. /\ UNCHANGED <<row, accepted, fanout>> /\ d \in Rows
        /\ \A x \in Rows : x # d => job'[x] = job[x]
        /\ job[d].state = "active"
        /\ job'[d].state \in {"waiting", "completed", "failed"}
        /\ job'[d].state = "waiting" =>
             job'[d].tries < MaxAttempts \/ job'[d].tries = job[d].tries
    BY <1>8, EndEffect
  <2> QED BY <2>1, <1>a DEF QueueInv
<1>9. ASSUME NEW w \in Workers, Refused(w) PROVE QueueInv'
  BY <1>9 DEF Refused, QueueInv
<1> QED BY <1>1, <1>2, <1>3, <1>4, <1>5, <1>6, <1>7, <1>8, <1>9, Effects
        DEF Delivers

(* The target of a sweep is one of the endpoints it went to look at.       *)
LEMMA TargetStep ==
  ASSUME TypeOK, HoldInv, [Next]_vars, NEW w \in Workers,
         worker'[w].pc \in {"count", "disable", "notify"}
  PROVE  worker'[w].target \in Endpoints
<1>a. /\ worker[w].pc \in {"count", "disable", "notify"} => worker[w].target \in Endpoints
      /\ worker[w].todo \subseteq Endpoints
  BY DEF TypeOK, HoldInv, WorkerType
<1>1. CASE SweepWindow(w)
  BY <1>1, <1>a, SweepEffect
<1>2. CASE SweepCount(w) \/ SweepDisable(w) \/ SweepNotify(w)
  BY <1>2, <1>a, SweepEffect DEF SweepCount, SweepNotify, Idle
<1>3. CASE StartSweep(w)
  BY <1>3, SweepEffect
<1> QED BY <1>1, <1>2, <1>3, <1>a, Sweeping DEF Delivering, Unrecorded

LEMMA HoldStep ==
  ASSUME TypeOK, QueueInv, HoldInv, [Next]_vars
  PROVE  HoldInv'
<1> DEFINE Exclusive ==
      /\ \A w \in Workers : worker[w].pc \in Delivering =>
           worker[w].row \in Rows /\ job[worker[w].row].state = "active"
      /\ \A v, w \in Workers :
           worker[v].pc \in Delivering /\ Holds(w, worker[v].row) => v = w
      /\ \A w \in Workers : worker[w].pc \notin Delivering => worker[w].row = None
<1>a. /\ worker \in [Workers -> WorkerType] /\ None \notin Rows
  BY DEF TypeOK, None, Rows
<1>b. Exclusive
  BY DEF HoldInv
<1>1. ASSUME Quiet PROVE Exclusive'
  <2>1. \A w \in Workers : worker'[w].pc \in Delivering => worker'[w] = worker[w]
    BY <1>1 DEF Quiet, Still
  <2>2. \A w \in Workers : worker'[w].pc \notin Delivering => worker'[w].row = None
    BY <1>1 DEF Quiet, Still
  <2>3. UNCHANGED job
    BY <1>1 DEF Quiet
  <2> QED BY <1>b, <2>1, <2>2, <2>3 DEF Holds
<1>2. ASSUME WriteRow \/ \E e \in Endpoints : Remove(e) PROVE Exclusive'
  <2>1. UNCHANGED <<worker, job>>
    BY <1>2, WriteRowEffect, RemoveEffect
  <2> QED BY <1>b, <2>1 DEF Holds
<1>3. ASSUME QueueDelivery PROVE Exclusive'
  <2>1. /\ UNCHANGED worker /\ fanout.row \in Rows
        /\ job[fanout.row].state = "absent"
        /\ \A x \in Rows : x # fanout.row => job'[x] = job[x]
    BY <1>3, QueueEffect, <1>a DEF QueueInv
  <2> QED BY <1>b, <2>1 DEF Holds
<1>4. ASSUME NEW w \in Workers, NEW d \in Rows, StartDelivery(w, d) PROVE Exclusive'
  <2>1. /\ job[d].state = "waiting"
        /\ \A x \in Rows : x # d => job'[x] = job[x]
        /\ \A v \in Workers : v # w => worker'[v] = worker[v]
    BY <1>4, StartEffect
  <2>2. CASE Exists(d)
    <3>1. /\ worker'[w].pc \in Delivering /\ worker'[w].row = d
          /\ job'[d].state = "active"
      BY <1>4, <2>2, StartEffect DEF Delivering, Unrecorded
    <3> QED BY <1>b, <2>1, <3>1 DEF Holds
  <2>3. CASE ~Exists(d)
    <3>1. worker' = worker
      BY <1>4, <2>3, StartEffect
    <3> QED BY <1>b, <2>1, <3>1 DEF Holds
  <2> QED BY <2>2, <2>3
<1>5. ASSUME NEW w \in Workers, Post(w) \/ Recorded(w) \/ Refused(w) PROVE Exclusive'
  <2>1. /\ UNCHANGED job
        /\ worker[w].pc \in Delivering /\ worker'[w].pc \in Delivering
        /\ worker'[w].row = worker[w].row
        /\ \A v \in Workers : v # w => worker'[v] = worker[v]
    BY <1>5, PostEffect, RecordEffect, RefusedEffect DEF Delivering, Unrecorded
  <2> QED BY <1>b, <2>1 DEF Holds
<1>6. ASSUME NEW w \in Workers, Settle(w) \/ Dropped(w) PROVE Exclusive'
  <2>1. /\ worker[w].pc \in Delivering
        /\ worker'[w].pc \notin Delivering /\ worker'[w].row = None
        /\ \A v \in Workers : v # w => worker'[v] = worker[v]
        /\ \A x \in Rows : x # worker[w].row => job'[x] = job[x]
    BY <1>6, EndEffect DEF Idle, Delivering, Unrecorded
  <2> QED BY <1>b, <2>1 DEF Holds
<1>7. Exclusive'
  BY <1>1, <1>2, <1>3, <1>4, <1>5, <1>6, Effects DEF Delivers
<1> QED BY <1>7, TargetStep DEF HoldInv

-----------------------------------------------------------------------------
(***************************************************************************)
(* What the log, the counts and the subscriber say.                        *)
(***************************************************************************)
LEMMA AcceptStep ==
  ASSUME TypeOK, QueueInv, HoldInv, DeliveredMeansAccepted, AcceptInv, [Next]_vars
  PROVE  DeliveredMeansAccepted' /\ AcceptInv'
<1>a. /\ accepted \in [Rows -> Nat]
      /\ \A w \in Workers : worker[w].pc \in Delivering => worker[w].row \in Rows
  BY DEF TypeOK, HoldInv
<1> USE DEF DeliveredMeansAccepted, AcceptInv
<1>1. CASE Quiet
  BY <1>1 DEF Quiet, Still, Delivering, Unrecorded
<1>2. CASE WriteRow
  BY <1>2, WriteRowEffect
<1>3. CASE QueueDelivery
  BY <1>3, QueueEffect
<1>4. ASSUME NEW e \in Endpoints, Remove(e)
      PROVE  DeliveredMeansAccepted' /\ AcceptInv'
  <2>1. /\ UNCHANGED <<worker, accepted>>
        /\ \A d \in Rows : row'[d] = row[d] \/ row'[d].status = "removed"
    BY <1>4, RemoveEffect
  <2> QED BY <2>1
<1>5. ASSUME NEW w \in Workers, NEW d \in Rows, StartDelivery(w, d)
      PROVE  DeliveredMeansAccepted' /\ AcceptInv'
  BY <1>5, StartEffect
<1>6. ASSUME NEW w \in Workers, Post(w) PROVE DeliveredMeansAccepted' /\ AcceptInv'
  <2>1. /\ UNCHANGED row
        /\ \A d \in Rows : accepted'[d] >= accepted[d]
        /\ worker'[w].pc = "delivered" => accepted'[worker'[w].row] > 0
        /\ \A v \in Workers : v # w => worker'[v] = worker[v]
    BY <1>6, <1>a, PostEffect
  <2>2. accepted' \in [Rows -> Nat]
    BY <1>6, <1>a DEF Post, Delivering, Unrecorded
  <2>3. \A v \in Workers : v # w /\ worker[v].pc = "delivered" => worker[v].row \in Rows
    BY <1>a DEF Delivering, Unrecorded
  <2> QED BY <1>a, <2>1, <2>2, <2>3
<1>7. ASSUME NEW w \in Workers, Recorded(w)
      PROVE  DeliveredMeansAccepted' /\ AcceptInv'
  BY <1>7, RecordEffect DEF Exists
<1>8. ASSUME NEW w \in Workers, Settle(w) \/ Dropped(w)
      PROVE  DeliveredMeansAccepted' /\ AcceptInv'
  BY <1>8, EndEffect DEF Idle
<1>9. ASSUME NEW w \in Workers, Refused(w)
      PROVE  DeliveredMeansAccepted' /\ AcceptInv'
  BY <1>9, RefusedEffect
<1> QED BY <1>1, <1>2, <1>3, <1>4, <1>5, <1>6, <1>7, <1>8, <1>9, Effects
        DEF Delivers

LEMMA OnceStep ==
  ASSUME TypeOK, QueueInv, HoldInv, OnceInv, [Next]_vars
  PROVE  OnceInv'
<1>a. /\ accepted \in [Rows -> Nat] /\ faults \in Nat
      /\ \A w \in Workers : worker[w].pc \in Delivering =>
           worker[w].row \in Rows /\ job[worker[w].row].state = "active"
      /\ \A v, w \in Workers :
           worker[v].pc \in Delivering /\ Holds(w, worker[v].row) => v = w
  BY DEF TypeOK, HoldInv
<1>0. ASSUME faults' = faults + 1, UNCHANGED accepted PROVE OnceInv'
  BY <1>0, <1>a DEF OnceInv
<1>1. CASE Quiet
  <2>1. CASE faults' = faults
    <3>1. /\ UNCHANGED <<row, job, accepted>>
          /\ \A w \in Workers, d \in Rows : Holds(w, d)' <=> Holds(w, d)
          /\ \A w \in Workers, d \in Rows : Holds(w, d) => worker'[w] = worker[w]
      BY <1>1 DEF Quiet, Still, Holds
    <3> QED BY <2>1, <3>1 DEF OnceInv, Spent, Exists
  <2> QED BY <1>0, <1>1, <2>1 DEF Quiet
<1>2. CASE WriteRow
  <2>1. \A x \in Rows : row'[x] = row[x] \/ accepted[x] = 0
    BY <1>2, WriteRowEffect DEF QueueInv
  <2>2. UNCHANGED <<job, worker, accepted, faults>>
    BY <1>2, WriteRowEffect
  <2> QED BY <1>a, <2>1, <2>2 DEF OnceInv, Spent, Exists, Holds
<1>3. CASE QueueDelivery
  <2>1. /\ UNCHANGED <<row, worker, accepted, faults>>
        /\ \A x \in Rows : job'[x] = job[x] \/ accepted[x] = 0
    BY <1>3, QueueEffect DEF QueueInv, None, Rows
  <2> QED BY <1>a, <2>1 DEF OnceInv, Spent, Exists, Holds
<1>4. ASSUME NEW e \in Endpoints, Remove(e) PROVE OnceInv'
  <2>1. /\ UNCHANGED <<job, worker, accepted, faults>>
        /\ \A d \in Rows : row'[d] = row[d] \/ row'[d].status = "removed"
    BY <1>4, RemoveEffect
  <2>2. \A d \in Rows : Spent(d) => Spent(d)'
    BY <2>1 DEF Spent, Exists, Holds
  <2> QED BY <2>1, <2>2 DEF OnceInv
<1>5. ASSUME NEW w \in Workers, NEW d \in Rows, StartDelivery(w, d) PROVE OnceInv'
  <2>1. /\ UNCHANGED <<row, accepted, faults>>
        /\ worker[w].pc \notin Delivering /\ job[d].state = "waiting"
        /\ \A x \in Rows : x # d => job'[x] = job[x]
        /\ \A v \in Workers : v # w => worker'[v] = worker[v]
        /\ worker'[w].row = d \/ worker' = worker
        /\ ~Exists(d) => job'[d].state = "completed"
    BY <1>5, StartEffect DEF Delivering, Unrecorded
  <2>2. ASSUME NEW x \in Rows, x # d, Spent(x) PROVE Spent(x)'
    BY <2>1, <2>2 DEF Spent, Holds, Exists
  <2>3. CASE Exists(d)
    <3>1. ~Spent(d)
      BY <1>a, <2>1, <2>3 DEF Spent, Holds
    <3> QED BY <2>1, <2>2, <3>1 DEF OnceInv
  <2>4. CASE ~Exists(d)
    BY <2>1, <2>2, <2>4 DEF OnceInv, Spent
  <2> QED BY <2>3, <2>4
<1>6. ASSUME NEW w \in Workers, Post(w) PROVE OnceInv'
  <2> PICK d \in Rows : d = worker[w].row
    BY <1>6, PostEffect
  <2>1. /\ UNCHANGED <<row, job, faults>>
        /\ worker[w].pc = "post" /\ d \in Rows /\ Holds(w, d)
        /\ worker'[w].pc \in {"delivered", "refused", "broken"} /\ worker'[w].row = d
        /\ \A v \in Workers : v # w => worker'[v] = worker[v]
        /\ \A x \in Rows : x # d => accepted'[x] = accepted[x]
        /\ accepted'[d] = IF worker'[w].pc = "delivered" THEN accepted[d] + 1
                          ELSE accepted[d]
    BY <1>6, PostEffect DEF Holds, Delivering, Unrecorded
  <2>2. ~Spent(d)
    BY <1>a, <2>1 DEF Spent, Delivering, Unrecorded
  <2>3. worker'[w].pc = "delivered" => Spent(d)'
    BY <2>1 DEF Spent, Holds, Delivering, Unrecorded
  <2>4. ASSUME NEW x \in Rows, x # d, Spent(x) PROVE Spent(x)'
    BY <2>1, <2>4 DEF Spent, Holds, Exists
  <2>5. accepted[d] <= faults
    BY <2>1, <2>2 DEF OnceInv
  <2>6. accepted'[d] <= faults \/ (accepted'[d] = faults + 1 /\ Spent(d)')
    BY <1>a, <2>1, <2>3, <2>5
  <2> QED BY <2>1, <2>4, <2>6 DEF OnceInv
<1>7. ASSUME NEW w \in Workers, Recorded(w) PROVE OnceInv'
  <2> PICK d \in Rows : d = worker[w].row
    BY <1>7, RecordEffect
  <2>1. /\ UNCHANGED <<job, accepted, faults>>
        /\ worker[w].pc \in Unrecorded \ {"post"} /\ d \in Rows
        /\ worker'[w].row = d /\ worker'[w].pc \in {"done", "broken", "thrown"}
        /\ \A v \in Workers : v # w => worker'[v] = worker[v]
        /\ \A x \in Rows : x # d => row'[x] = row[x]
        /\ Exists(d) /\ worker[w].pc = "delivered" => worker'[w].pc = "done"
        /\ ~Exists(d) => row'[d] = row[d]
    BY <1>7, RecordEffect
  <2>2. job[d].state = "active" /\ Holds(w, d)
    BY <1>a, <2>1 DEF Holds, Delivering
  <2>3. \A v \in Workers : Holds(v, d) => v = w
    BY <1>a, <2>2 DEF Holds
  <2>4. Holds(w, d)' /\ \A v \in Workers : Holds(v, d)' => v = w
    BY <2>1, <2>3 DEF Holds, Delivering, Unrecorded
  <2>5. ASSUME NEW x \in Rows, x # d, Spent(x) PROVE Spent(x)'
    BY <2>1, <2>5 DEF Spent, Holds, Exists
  <2>6. Spent(d) => Spent(d)'
    <3>1. CASE Exists(d)
      BY <2>1, <2>2, <2>3, <2>4, <3>1 DEF Spent, Unrecorded
    <3>2. CASE ~Exists(d)
      BY <2>1, <2>4, <3>2 DEF Spent, Exists
    <3> QED BY <3>1, <3>2
  <2> QED BY <2>1, <2>5, <2>6 DEF OnceInv
<1>8. ASSUME NEW w \in Workers, Settle(w) PROVE OnceInv'
  <2> PICK d \in Rows : d = worker[w].row
    BY <1>8, EndEffect
  <2>1. /\ UNCHANGED <<row, accepted, faults>>
        /\ worker[w].pc \in {"done", "thrown"}
        /\ worker'[w].pc \notin Delivering
        /\ \A v \in Workers : v # w => worker'[v] = worker[v]
        /\ \A x \in Rows : x # d => job'[x] = job[x]
        /\ worker[w].pc = "done" => job'[d].state = "completed"
    <3>1. UNCHANGED faults /\ worker[w].pc \in {"done", "thrown"} /\ faults # faults + 1
      BY <1>8, <1>a DEF Settle
    <3>2. worker'[w].pc \notin Delivering
      BY <1>8, EndEffect DEF Idle, Delivering, Unrecorded
    <3> QED BY <1>8, <3>1, <3>2, EndEffect
  <2>2. job[d].state = "active" /\ Holds(w, d)
    BY <1>a, <2>1 DEF Holds, Delivering
  <2>3. \A v \in Workers : Holds(v, d) => v = w
    BY <1>a, <2>2 DEF Holds
  <2>4. \A v \in Workers : ~Holds(v, d)'
    BY <2>1, <2>3 DEF Holds
  <2>5. ASSUME NEW x \in Rows, x # d, Spent(x) PROVE Spent(x)'
    BY <2>1, <2>5 DEF Spent, Holds, Exists
  <2>6. Spent(d) => Spent(d)'
    BY <2>1, <2>2, <2>3, <2>4 DEF Spent, Exists
  <2> QED BY <2>1, <2>5, <2>6 DEF OnceInv
<1>9. ASSUME NEW w \in Workers, Refused(w) \/ Dropped(w) PROVE OnceInv'
  BY <1>0, <1>9 DEF Refused, Dropped
<1> QED BY <1>1, <1>2, <1>3, <1>4, <1>5, <1>6, <1>7, <1>8, <1>9, Effects
        DEF Delivers

(* What leaves a row's job and answers alone, and lets nobody post it, keeps *)
(* its count.                                                              *)
SentKept(d) ==
  /\ job'[d] = job[d] /\ accepted'[d] = accepted[d] /\ lost'[d] = lost[d]
  /\ faults' \in {faults, faults + 1}
  /\ \A w \in Workers : Posting(w, d)' => Posting(w, d)

Count(d) ==
  /\ accepted[d] + lost[d] <= job[d].tries + faults + 1
  /\ job[d].state # "active" \/ (\E w \in Workers : Posting(w, d)) =>
       accepted[d] + lost[d] <= job[d].tries + faults

LEMMA SentStep ==
  ASSUME TypeOK, QueueInv, HoldInv, SentInv, [Next]_vars
  PROVE  SentInv'
<1>a. /\ accepted \in [Rows -> Nat] /\ lost \in [Rows -> Nat] /\ faults \in Nat
      /\ \A d \in Rows : job[d].tries \in Nat
      /\ \A w \in Workers : worker[w].pc \in Delivering =>
           worker[w].row \in Rows /\ job[worker[w].row].state = "active"
      /\ \A v, w \in Workers :
           worker[v].pc \in Delivering /\ Holds(w, worker[v].row) => v = w
  BY WebhookAssumption DEF TypeOK, HoldInv, JobType
<1>b. SentInv <=> \A d \in Rows : Count(d)
  BY DEF SentInv, Count
<1>c. ASSUME NEW d \in Rows, SentKept(d) PROVE Count(d)'
  <2>1. Count(d)
    BY <1>b
  <2>2. \A w \in Workers : Posting(w, d)' => Posting(w, d)
    BY <1>c DEF SentKept
  <2>3. accepted[d] \in Nat /\ lost[d] \in Nat /\ job[d].tries \in Nat
    BY <1>a
  <2> QED BY <1>a, <1>c, <2>1, <2>2, <2>3 DEF Count, SentKept
<1>1. CASE Quiet
  <2>1. ASSUME NEW d \in Rows PROVE SentKept(d)
    BY <1>1 DEF Quiet, Still, SentKept, Posting, Holds, Delivering, Unrecorded
  <2> QED BY <1>b, <1>c, <2>1 DEF SentInv, Count
<1>2. CASE WriteRow \/ \E e \in Endpoints : Remove(e)
  <2>1. UNCHANGED <<job, worker, accepted, lost, faults>>
    BY <1>2, WriteRowEffect, RemoveEffect
  <2>2. ASSUME NEW d \in Rows PROVE SentKept(d)
    BY <2>1 DEF SentKept, Posting, Holds
  <2> QED BY <1>b, <1>c, <2>2 DEF SentInv, Count
<1>3. CASE QueueDelivery
  <2> PICK d \in Rows : d = fanout.row
    BY <1>3, QueueEffect
  <2>1. /\ UNCHANGED <<worker, accepted, lost, faults>>
        /\ job'[d].tries = job[d].tries /\ \A x \in Rows : x # d => job'[x] = job[x]
        /\ job[d].state = "absent"
    BY <1>3, QueueEffect DEF QueueInv, None, Rows
  <2>2. ASSUME NEW x \in Rows, x # d PROVE SentKept(x)
    BY <2>1, <2>2 DEF SentKept, Posting, Holds
  <2>3. Count(d)'
    BY <1>a, <1>b, <2>1 DEF Count
  <2> QED BY <1>c, <2>2, <2>3 DEF SentInv, Count
<1>4. ASSUME NEW w \in Workers, NEW d \in Rows, StartDelivery(w, d) PROVE SentInv'
  <2>1. /\ UNCHANGED <<accepted, lost, faults>>
        /\ job[d].state = "waiting" /\ job'[d].tries = job[d].tries
        /\ \A x \in Rows : x # d => job'[x] = job[x]
        /\ \A v \in Workers : v # w => worker'[v] = worker[v]
        /\ worker'[w].row = d \/ worker' = worker
    BY <1>4, StartEffect
  <2>2. ASSUME NEW x \in Rows, x # d PROVE SentKept(x)
    BY <2>1, <2>2 DEF SentKept, Posting, Holds
  <2>3. Count(d)'
    BY <1>a, <1>b, <2>1 DEF Count
  <2> QED BY <1>c, <2>2, <2>3 DEF SentInv, Count
<1>5. ASSUME NEW w \in Workers, Post(w) PROVE SentInv'
  <2> PICK d \in Rows : d = worker[w].row
    BY <1>5, PostEffect
  <2>1. /\ UNCHANGED <<job, faults>>
        /\ worker[w].pc = "post" /\ worker'[w].pc # "post"
        /\ worker'[w].row = d
        /\ \A v \in Workers : v # w => worker'[v] = worker[v]
        /\ \A x \in Rows : x # d => accepted'[x] = accepted[x] /\ lost'[x] = lost[x]
    BY <1>5, PostEffect
  <2>2. \/ accepted'[d] = accepted[d] + 1 /\ lost'[d] = lost[d]
        \/ accepted'[d] = accepted[d] /\ lost'[d] \in {lost[d], lost[d] + 1}
    BY <1>5, PostEffect
  <2>3. Posting(w, d) /\ job[d].state = "active"
    BY <1>a, <2>1 DEF Posting, Holds, Delivering, Unrecorded
  <2>4. \A v \in Workers : ~Posting(v, d)'
    BY <1>a, <2>1, <2>3 DEF Posting, Holds
  <2>5. accepted[d] + lost[d] <= job[d].tries + faults
    BY <1>b, <2>3 DEF Count
  <2>6. accepted'[d] + lost'[d] <= job'[d].tries + faults' + 1
    BY <1>a, <2>1, <2>2, <2>5
  <2>7. ASSUME NEW x \in Rows, x # d PROVE SentKept(x)
    BY <2>1, <2>7 DEF SentKept, Posting, Holds
  <2> QED BY <1>c, <2>1, <2>3, <2>4, <2>6, <2>7 DEF SentInv, Count
<1>6. ASSUME NEW w \in Workers, Recorded(w) \/ Refused(w) PROVE SentInv'
  <2>1. /\ UNCHANGED <<job, accepted, lost>> /\ faults' \in {faults, faults + 1}
        /\ worker'[w].pc # "post"
        /\ \A v \in Workers : v # w => worker'[v] = worker[v]
    <3>1. CASE Recorded(w)
      <4>1. worker'[w].pc \in {"done", "thrown", "broken"}
        BY <3>1, RecordEffect
      <4> QED BY <3>1, <4>1, RecordEffect
    <3>2. CASE Refused(w)
      BY <3>2, RefusedEffect
    <3> QED BY <1>6, <3>1, <3>2
  <2>2. ASSUME NEW d \in Rows PROVE SentKept(d)
    BY <2>1 DEF SentKept, Posting, Holds
  <2> QED BY <1>c, <2>2 DEF SentInv, Count
<1>7. ASSUME NEW w \in Workers, Settle(w) \/ Dropped(w) PROVE SentInv'
  <2> PICK d \in Rows : d = worker[w].row
    BY <1>7, EndEffect
  <2>1. /\ UNCHANGED <<accepted, lost>>
        /\ worker'[w].pc # "post"
        /\ \A v \in Workers : v # w => worker'[v] = worker[v]
        /\ \A x \in Rows : x # d => job'[x] = job[x]
        /\ \/ faults' = faults /\ job'[d].tries = job[d].tries + 1
           \/ faults' = faults + 1 /\ job'[d].tries = job[d].tries
    BY <1>7, EndEffect DEF Idle
  <2>2. accepted[d] + lost[d] <= job[d].tries + faults + 1
    BY <1>b DEF Count
  <2>3. accepted'[d] + lost'[d] <= job'[d].tries + faults'
    BY <1>a, <2>1, <2>2
  <2>4. /\ faults' \in {faults, faults + 1}
        /\ job'[d].tries \in Nat /\ faults' \in Nat
    BY <1>a, <2>1
  <2>5. Count(d)'
    BY <1>a, <2>1, <2>3, <2>4 DEF Count
  <2>6. ASSUME NEW x \in Rows, x # d PROVE SentKept(x)
    BY <2>1, <2>4, <2>6 DEF SentKept, Posting, Holds
  <2> QED BY <1>c, <2>5, <2>6 DEF SentInv, Count
<1> QED BY <1>1, <1>2, <1>3, <1>4, <1>5, <1>6, <1>7, Effects DEF Delivers

LEMMA CountStep ==
  ASSUME TypeOK, QueueInv, HoldInv, CountInv, [Next]_vars
  PROVE  CountInv'
<1>a. /\ faults \in Nat
      /\ \A d \in Rows : row[d].attempts \in Nat /\ job[d].tries \in Nat
      /\ \A w \in Workers : worker[w].pc \in Delivering =>
           worker[w].row \in Rows /\ job[worker[w].row].state = "active"
      /\ \A v, w \in Workers :
           worker[v].pc \in Delivering /\ Holds(w, worker[v].row) => v = w
  BY DEF TypeOK, HoldInv, RowType, JobType
<1> DEFINE Unheld(d) == job[d].state \in {"waiting", "completed", "failed"} =>
                          /\ row[d].attempts <= job[d].tries + faults
                          /\ job[d].tries <= row[d].attempts + faults
           Seen(w, d) == IF worker[w].pc \in Unrecorded THEN row[d].attempts
                         ELSE row[d].attempts - 1
           Held(w, d) == Holds(w, d) =>
                           /\ Seen(w, d) <= job[d].tries + faults
                           /\ job[d].tries <= Seen(w, d) + faults
                           /\ worker[w].pc \in Unrecorded =>
                                worker[w].attempts = row[d].attempts + 1
           Counted(d) == Exists(d) => Unheld(d) /\ \A w \in Workers : Held(w, d)
<1>b. CountInv <=> \A d \in Rows : Counted(d)
  BY DEF CountInv
<1>c. CountInv' <=> \A d \in Rows : Counted(d)'
  BY DEF CountInv
<1>d. ASSUME NEW d \in Rows, Exists(d)' => Exists(d),
             Exists(d)' => row'[d].attempts = row[d].attempts,
             job'[d] = job[d], faults' \in {faults, faults + 1},
             \A w \in Workers :
               Holds(w, d)' => worker'[w] = worker[w]
      PROVE  Counted(d)'
  BY <1>a, <1>b, <1>d DEF Holds
<1>1. CASE Quiet
  BY <1>1, <1>c, <1>d DEF Quiet, Still, Holds, Exists
<1>2. CASE WriteRow
  <2>1. /\ UNCHANGED <<job, worker, faults>>
        /\ \A x \in Rows : \/ row'[x] = row[x]
                           \/ /\ job[x].state = "absent"
                              /\ \A w \in Workers : ~Holds(w, x)
    BY <1>2, <1>a, WriteRowEffect DEF QueueInv, Holds
  <2>2. ASSUME NEW x \in Rows PROVE Counted(x)'
    <3>1. CASE row'[x] = row[x]
      BY <1>d, <2>1, <3>1 DEF Exists
    <3>2. CASE job[x].state = "absent" /\ \A w \in Workers : ~Holds(w, x)
      BY <2>1, <3>2 DEF Holds
    <3> QED BY <2>1, <3>1, <3>2
  <2> QED BY <1>c, <2>2
<1>3. CASE QueueDelivery
  <2>1. PICK d \in Rows :
          /\ UNCHANGED <<row, worker, faults>>
          /\ job[d].state = "absent"
          /\ job'[d].tries = job[d].tries
          /\ \A x \in Rows : x # d => job'[x] = job[x]
    BY <1>3, QueueEffect DEF QueueInv, None, Rows
  <2>2. \A x \in Rows : x # d => Counted(x)'
    BY <1>d, <2>1 DEF Exists
  <2>3. /\ row[d].attempts = 0 /\ job[d].tries = 0
        /\ \A w \in Workers : ~Holds(w, d)
    BY <1>a, <2>1 DEF QueueInv, Holds
  <2>4. Counted(d)'
    BY <1>a, <2>1, <2>3 DEF Holds
  <2> QED BY <1>c, <2>2, <2>4
<1>4. ASSUME NEW e \in Endpoints, Remove(e) PROVE CountInv'
  <2>1. /\ UNCHANGED <<job, worker, faults>>
        /\ \A d \in Rows : row'[d] = row[d] \/ row'[d].status = "removed"
    BY <1>4, RemoveEffect
  <2> QED BY <1>c, <1>d, <2>1 DEF Exists
<1>5. ASSUME NEW w \in Workers, NEW d \in Rows, StartDelivery(w, d) PROVE CountInv'
  <2>1. /\ UNCHANGED <<row, faults>>
        /\ worker[w].pc \notin Delivering
        /\ job[d].state = "waiting" /\ job'[d].tries = job[d].tries
        /\ \A x \in Rows : x # d => job'[x] = job[x]
        /\ \A v \in Workers : v # w => worker'[v] = worker[v]
        /\ Exists(d) => /\ job'[d].state = "active"
                        /\ worker'[w].pc \in Unrecorded /\ worker'[w].row = d
                        /\ worker'[w].attempts = row[d].attempts + 1
        /\ ~Exists(d) => worker' = worker
    BY <1>5, StartEffect DEF Delivering, Unrecorded
  <2>2. \A x \in Rows : x # d => Counted(x)'
    BY <1>d, <2>1 DEF Exists, Holds
  <2>3. ASSUME Exists(d) PROVE Counted(d)'
    <3>1. \A v \in Workers : Holds(v, d)' => v = w
      BY <1>a, <2>1 DEF Holds
    <3> QED BY <1>a, <1>b, <2>1, <2>3, <3>1
  <2>4. ~Exists(d) => Counted(d)'
    BY <2>1 DEF Exists
  <2> QED BY <1>c, <2>2, <2>3, <2>4
<1>6. ASSUME NEW w \in Workers, NEW d \in Rows, d = worker[w].row,
             worker[w].pc \in Delivering, worker'[w].row \in {d, None},
             \A v \in Workers : v # w => worker'[v] = worker[v],
             \A x \in Rows : x # d => row'[x] = row[x] /\ job'[x] = job[x],
             faults' \in {faults, faults + 1},
             Counted(d)'
      PROVE  CountInv'
  <2>1. \A x \in Rows : x # d => Counted(x)'
    BY <1>d, <1>6 DEF Exists, Holds, None, Rows
  <2> QED BY <1>c, <1>6, <2>1
<1>e. ASSUME NEW w \in Workers, NEW d \in Rows, d = worker[w].row,
             worker[w].pc \in Delivering, worker'[w].row \in {d, None},
             \A v \in Workers : v # w => worker'[v] = worker[v]
      PROVE  /\ Holds(w, d) /\ job[d].state = "active"
             /\ \A v \in Workers : Holds(v, d)' => v = w
  BY <1>a, <1>e DEF Holds
<1>7. ASSUME NEW w \in Workers, Post(w) PROVE CountInv'
  <2> PICK d \in Rows : d = worker[w].row
    BY <1>7, PostEffect
  <2>1. /\ UNCHANGED <<row, job, faults>>
        /\ worker[w].pc \in Unrecorded /\ worker'[w].pc \in Unrecorded
        /\ worker'[w].row = d /\ worker'[w].attempts = worker[w].attempts
        /\ \A v \in Workers : v # w => worker'[v] = worker[v]
    BY <1>7, PostEffect DEF Unrecorded
  <2>2. Holds(w, d) /\ \A v \in Workers : Holds(v, d)' => v = w
    BY <1>e, <2>1 DEF Delivering
  <2>3. Exists(d)' => Exists(d) /\ Unheld(d)'
    BY <1>b, <2>1 DEF Exists
  <2>4. Exists(d) => Held(w, d)'
    BY <1>b, <2>1, <2>2
  <2>5. Counted(d)'
    BY <2>2, <2>3, <2>4
  <2> QED BY <1>6, <2>1, <2>5 DEF Delivering
<1>8. ASSUME NEW w \in Workers, Recorded(w) PROVE CountInv'
  <2> PICK d \in Rows : d = worker[w].row
    BY <1>8, RecordEffect
  <2>1. /\ UNCHANGED <<job, faults>>
        /\ worker[w].pc \in Unrecorded
        /\ worker'[w].row = d
        /\ \A v \in Workers : v # w => worker'[v] = worker[v]
        /\ \A x \in Rows : x # d => row'[x] = row[x]
        /\ Exists(d) => /\ row'[d].attempts = worker[w].attempts
                        /\ worker'[w].pc \notin Unrecorded
        /\ ~Exists(d) => row'[d] = row[d]
    BY <1>8, RecordEffect DEF Unrecorded
  <2>2. /\ Holds(w, d) /\ job[d].state = "active"
        /\ \A v \in Workers : Holds(v, d)' => v = w
    BY <1>e, <2>1 DEF Delivering
  <2>3. Counted(d)'
    <3>1. CASE Exists(d)
      BY <1>a, <1>b, <2>1, <2>2, <3>1
    <3>2. CASE ~Exists(d)
      BY <2>1, <3>2 DEF Exists
    <3> QED BY <3>1, <3>2
  <2> QED BY <1>6, <2>1, <2>3 DEF Delivering
<1>9. ASSUME NEW w \in Workers, Refused(w) PROVE CountInv'
  <2> PICK d \in Rows : d = worker[w].row
    BY <1>9, RefusedEffect
  <2>1. /\ UNCHANGED <<row, job>> /\ faults' = faults + 1
        /\ worker[w].pc \in Unrecorded
        /\ worker'[w].row = d /\ worker'[w].attempts = worker[w].attempts
        /\ \A v \in Workers : v # w => worker'[v] = worker[v]
    BY <1>9, RefusedEffect
  <2>2. /\ Holds(w, d) /\ job[d].state = "active"
        /\ \A v \in Workers : Holds(v, d)' => v = w
    BY <1>e, <2>1 DEF Delivering
  <2>3. Exists(d)' => Exists(d)
    BY <2>1 DEF Exists
  <2>4. Counted(d)'
    BY <1>a, <1>b, <2>1, <2>2, <2>3
  <2> QED BY <1>6, <2>1, <2>4 DEF Delivering
<1>10. ASSUME NEW w \in Workers, Settle(w) \/ Dropped(w) PROVE CountInv'
  <2> PICK d \in Rows : d = worker[w].row
    BY <1>10, EndEffect
  <2>1. /\ UNCHANGED row
        /\ worker[w].pc \in Delivering
        /\ worker'[w].pc \notin Delivering /\ worker'[w].row = None
        /\ \A v \in Workers : v # w => worker'[v] = worker[v]
        /\ \A x \in Rows : x # d => job'[x] = job[x]
        /\ \/ /\ faults' = faults /\ job'[d].tries = job[d].tries + 1
              /\ worker[w].pc \in {"done", "thrown"}
           \/ faults' = faults + 1 /\ job'[d].tries = job[d].tries
    BY <1>10, EndEffect DEF Idle, Delivering, Unrecorded
  <2>2. /\ Holds(w, d)
        /\ \A v \in Workers : ~Holds(v, d)'
    BY <1>e, <2>1 DEF Holds, None, Rows
  <2>3. Exists(d)' => Exists(d) /\ Held(w, d)
    BY <1>b, <2>1 DEF Exists
  <2>4. Exists(d)' => Unheld(d)'
    BY <1>a, <2>1, <2>2, <2>3 DEF Unrecorded
  <2>5. Counted(d)'
    BY <2>2, <2>4
  <2> QED BY <1>6, <2>1, <2>5
<1> QED BY <1>1, <1>2, <1>3, <1>4, <1>5, <1>7, <1>8, <1>9, <1>10, Effects
        DEF Delivers

LEMMA LogStep ==
  ASSUME TypeOK, QueueInv, HoldInv, AcceptInv, OnceInv, LogAgreesWithQueue, LogInv,
         [Next]_vars
  PROVE  LogAgreesWithQueue' /\ LogInv'
<1>a. /\ faults \in Nat /\ accepted \in [Rows -> Nat]
      /\ \A d \in Rows : job[d].tries \in Nat
      /\ \A w \in Workers : worker[w].pc \in Delivering =>
           worker[w].row \in Rows /\ job[worker[w].row].state = "active"
      /\ \A v, w \in Workers :
           worker[v].pc \in Delivering /\ Holds(w, worker[v].row) => v = w
  BY DEF TypeOK, HoldInv, JobType
<1> DEFINE Ended(d) ==
             /\ job[d].state = "failed" => row[d].status = "FAILED"
             /\ job[d].state = "waiting" =>
                  row[d].status = IF job[d].tries = 0 THEN "PENDING" ELSE "FAILED"
             /\ job[d].state = "completed" =>
                  row[d].status = IF accepted[d] > 0 THEN "DELIVERED" ELSE "FAILED"
           Ending(w, d) == Holds(w, d) =>
             /\ worker[w].pc = "done" =>
                  row[d].status = IF accepted[d] > 0 THEN "DELIVERED" ELSE "FAILED"
             /\ worker[w].pc = "thrown" => row[d].status = "FAILED"
           Good(d) == faults = 0 /\ Exists(d) =>
                        Ended(d) /\ \A w \in Workers : Ending(w, d)
<1>b. \A d \in Rows : Good(d)
  BY DEF LogAgreesWithQueue, LogInv
<1>c. (\A d \in Rows : Good(d)') => LogAgreesWithQueue' /\ LogInv'
  BY DEF LogAgreesWithQueue, LogInv
<1>d. ASSUME NEW d \in Rows, faults' = 0 => faults = 0,
             row'[d] = row[d] \/ ~Exists(d)', job'[d] = job[d],
             job[d].state \in {"absent", "active"} \/ accepted'[d] = accepted[d],
             \A w \in Workers : Holds(w, d)' =>
               worker'[w] = worker[w] /\ accepted'[d] = accepted[d]
      PROVE  Good(d)'
  BY <1>b, <1>d DEF Holds, Exists
<1>e. ASSUME faults' = faults + 1 PROVE \A d \in Rows : Good(d)'
  BY <1>a, <1>e
<1>1. CASE Quiet
  <2>1. CASE faults' = faults
    BY <1>1, <1>c, <1>d, <2>1 DEF Quiet, Still, Holds
  <2> QED BY <1>1, <1>c, <1>e, <2>1 DEF Quiet
<1>2. CASE WriteRow
  <2>1. /\ UNCHANGED <<job, worker, accepted, faults>>
        /\ \A x \in Rows : \/ row'[x] = row[x]
                           \/ /\ job[x].state = "absent"
                              /\ \A w \in Workers : ~Holds(w, x)
    BY <1>2, <1>a, WriteRowEffect DEF QueueInv, Holds
  <2>2. ASSUME NEW x \in Rows PROVE Good(x)'
    <3>1. CASE row'[x] = row[x]
      BY <1>d, <2>1, <3>1 DEF Holds
    <3>2. CASE job[x].state = "absent" /\ \A w \in Workers : ~Holds(w, x)
      BY <2>1, <3>2 DEF Holds
    <3> QED BY <2>1, <3>1, <3>2
  <2> QED BY <1>c, <2>2
<1>3. CASE QueueDelivery
  <2>1. PICK d \in Rows :
          /\ UNCHANGED <<row, worker, accepted, faults>>
          /\ job[d].state = "absent"
          /\ job'[d].state = "waiting" /\ job'[d].tries = job[d].tries
          /\ \A x \in Rows : x # d => job'[x] = job[x]
    BY <1>3, QueueEffect DEF QueueInv, None, Rows
  <2>2. \A x \in Rows : x # d => Good(x)'
    BY <1>d, <2>1 DEF Holds
  <2>3. /\ Exists(d) => row[d].status = "PENDING"
        /\ job[d].tries = 0
        /\ \A w \in Workers : ~Holds(w, d)
    BY <1>a, <2>1 DEF QueueInv, Holds, Exists
  <2>4. Good(d)'
    BY <2>1, <2>3 DEF Holds, Exists
  <2> QED BY <1>c, <2>2, <2>4
<1>4. ASSUME NEW e \in Endpoints, Remove(e) PROVE LogAgreesWithQueue' /\ LogInv'
  <2>1. /\ UNCHANGED <<job, worker, accepted, faults>>
        /\ \A d \in Rows : row'[d] = row[d] \/ row'[d].status = "removed"
    BY <1>4, RemoveEffect
  <2>2. \A d \in Rows : row'[d] = row[d] \/ ~Exists(d)'
    BY <2>1 DEF Exists
  <2> QED BY <1>c, <1>d, <2>1, <2>2 DEF Holds
<1>5. ASSUME NEW w \in Workers, NEW d \in Rows, StartDelivery(w, d)
      PROVE  LogAgreesWithQueue' /\ LogInv'
  <2>1. /\ UNCHANGED <<row, accepted, faults>>
        /\ worker[w].pc \notin Delivering
        /\ job[d].state = "waiting"
        /\ \A x \in Rows : x # d => job'[x] = job[x]
        /\ \A v \in Workers : v # w => worker'[v] = worker[v]
        /\ Exists(d) => /\ job'[d].state = "active"
                        /\ worker'[w].pc \in Unrecorded /\ worker'[w].row = d
        /\ ~Exists(d) => worker' = worker
    BY <1>5, StartEffect DEF Delivering, Unrecorded
  <2>2. \A x \in Rows : x # d => Good(x)'
    BY <1>d, <2>1 DEF Holds
  <2>3. ASSUME Exists(d) PROVE Good(d)'
    <3>1. \A v \in Workers : Holds(v, d)' => v = w
      BY <1>a, <2>1 DEF Holds
    <3> QED BY <2>1, <2>3, <3>1 DEF Unrecorded
  <2>4. ~Exists(d) => Good(d)'
    BY <2>1 DEF Exists
  <2> QED BY <1>c, <2>2, <2>3, <2>4
<1>f. ASSUME NEW w \in Workers, NEW d \in Rows, d = worker[w].row,
             worker[w].pc \in Delivering, worker'[w].row \in {d, None},
             \A v \in Workers : v # w => worker'[v] = worker[v]
      PROVE  /\ Holds(w, d) /\ job[d].state = "active"
             /\ \A v \in Workers : Holds(v, d)' => v = w
  BY <1>a, <1>f DEF Holds
<1>6. ASSUME NEW w \in Workers, NEW d \in Rows, d = worker[w].row,
             worker[w].pc \in Delivering, worker'[w].row \in {d, None},
             \A v \in Workers : v # w => worker'[v] = worker[v],
             \A x \in Rows : x # d => /\ row'[x] = row[x] /\ job'[x] = job[x]
                                      /\ accepted'[x] = accepted[x],
             faults' = faults,
             Good(d)'
      PROVE  LogAgreesWithQueue' /\ LogInv'
  <2>1. \A x \in Rows : x # d => Good(x)'
    BY <1>d, <1>6 DEF Holds, None, Rows
  <2> QED BY <1>c, <1>6, <2>1
<1>7. ASSUME NEW w \in Workers, Post(w) PROVE LogAgreesWithQueue' /\ LogInv'
  <2> PICK d \in Rows : d = worker[w].row
    BY <1>7, PostEffect
  <2>1. /\ UNCHANGED <<row, job, faults>>
        /\ worker[w].pc = "post"
        /\ worker'[w].pc \in {"delivered", "refused", "broken"} /\ worker'[w].row = d
        /\ \A v \in Workers : v # w => worker'[v] = worker[v]
        /\ \A x \in Rows : x # d => accepted'[x] = accepted[x]
    BY <1>7, PostEffect
  <2>2. /\ job[d].state = "active" /\ \A v \in Workers : Holds(v, d)' => v = w
    BY <1>f, <2>1 DEF Delivering, Unrecorded
  <2>3. Good(d)'
    BY <2>1, <2>2
  <2> QED BY <1>6, <2>1, <2>3 DEF Delivering, Unrecorded
<1>8. ASSUME NEW w \in Workers, Recorded(w) PROVE LogAgreesWithQueue' /\ LogInv'
  <2> PICK d \in Rows : d = worker[w].row
    BY <1>8, RecordEffect
  <2>1. /\ UNCHANGED <<job, accepted, faults>>
        /\ worker[w].pc \in Unrecorded
        /\ worker'[w].row = d
        /\ \A v \in Workers : v # w => worker'[v] = worker[v]
        /\ \A x \in Rows : x # d => row'[x] = row[x]
        /\ Exists(d) =>
             /\ row'[d].status = IF worker[w].pc = "delivered" THEN "DELIVERED"
                                 ELSE "FAILED"
             /\ worker'[w].pc \in {"done", "thrown"}
             /\ worker'[w].pc = "thrown" => worker[w].pc # "delivered"
        /\ ~Exists(d) => row'[d] = row[d]
    BY <1>8, RecordEffect DEF Unrecorded
  <2>2. /\ Holds(w, d) /\ job[d].state = "active"
        /\ \A v \in Workers : Holds(v, d) => v = w
        /\ \A v \in Workers : Holds(v, d)' => v = w
    BY <1>a, <1>f, <2>1 DEF Delivering, Holds
  <2>3. worker[w].pc = "delivered" => accepted[d] > 0
    BY DEF AcceptInv
  <2>4. faults = 0 /\ Exists(d) /\ worker[w].pc # "delivered" => ~(accepted[d] > 0)
    <3>1. SUFFICES ASSUME faults = 0, Exists(d), worker[w].pc # "delivered"
                   PROVE  ~Spent(d)
      BY <1>a DEF OnceInv
    <3> QED BY <2>1, <2>2, <3>1 DEF Spent, Unrecorded
  <2>5. Good(d)'
    <3>1. CASE Exists(d)
      BY <2>1, <2>2, <2>3, <2>4, <3>1
    <3>2. CASE ~Exists(d)
      BY <2>1, <3>2 DEF Exists
    <3> QED BY <3>1, <3>2
  <2> QED BY <1>6, <2>1, <2>5 DEF Delivering
<1>9. ASSUME NEW w \in Workers, Settle(w) \/ Dropped(w)
      PROVE  LogAgreesWithQueue' /\ LogInv'
  <2> PICK d \in Rows : d = worker[w].row
    BY <1>9, EndEffect
  <2>1. /\ UNCHANGED <<row, accepted>>
        /\ worker[w].pc \in Delivering
        /\ worker'[w].pc \notin Delivering /\ worker'[w].row = None
        /\ \A v \in Workers : v # w => worker'[v] = worker[v]
        /\ \A x \in Rows : x # d => job'[x] = job[x]
        /\ \/ /\ faults' = faults /\ job'[d].tries = job[d].tries + 1
              /\ \/ worker[w].pc = "done" /\ job'[d].state = "completed"
                 \/ worker[w].pc = "thrown" /\ job'[d].state \in {"waiting", "failed"}
           \/ faults' = faults + 1
    BY <1>9, EndEffect DEF Idle, Delivering, Unrecorded
  <2>2. /\ Holds(w, d) /\ \A v \in Workers : ~Holds(v, d)'
    BY <1>f, <2>1 DEF Holds, None, Rows
  <2>3. CASE faults' = faults
    <3>1. Exists(d)' /\ faults = 0 => Exists(d) /\ Ending(w, d)
      BY <1>b, <2>1 DEF Exists
    <3>2. Exists(d)' /\ faults = 0 => Ended(d)'
      BY <1>a, <2>1, <2>2, <2>3, <3>1
    <3>3. Good(d)'
      BY <2>2, <2>3, <3>2
    <3> QED BY <1>6, <2>1, <2>3, <3>3
  <2>4. CASE faults' = faults + 1
    BY <1>c, <1>e, <2>4
  <2> QED BY <2>1, <2>3, <2>4
<1>10. ASSUME NEW w \in Workers, Refused(w) PROVE LogAgreesWithQueue' /\ LogInv'
  BY <1>10, <1>c, <1>e DEF Refused
<1> QED BY <1>1, <1>2, <1>3, <1>4, <1>5, <1>7, <1>8, <1>9, <1>10, Effects
        DEF Delivers

-----------------------------------------------------------------------------
(***************************************************************************)
(* Endpoints: their timestamps, and who is told that one is off.           *)
(***************************************************************************)
(* Only the operator and a sweep write an endpoint.                        *)
LEMMA EndpointEffect ==
  ASSUME TypeOK, HoldInv, [Next]_vars, NEW e \in Endpoints
  PROVE  /\ endpoint[e].status # "absent" =>
              endpoint'[e].status # "absent"
              /\ endpoint'[e].createdAt = endpoint[e].createdAt
         /\ endpoint'[e].status # "absent" /\ endpoint[e].status = "absent" =>
              endpoint'[e].createdAt = clock
         /\ endpoint[e].status = "removed" => endpoint'[e].status = "removed"
         /\ endpoint'[e].status = "swept" =>
              \/ /\ endpoint[e].status = "swept"
                 /\ endpoint'[e].disabledAt = endpoint[e].disabledAt
              \/ \E w \in Workers :
                   /\ SweepDisable(w) /\ worker[w].target = e /\ Registered(e)
                   /\ endpoint'[e].disabledAt = worker[w].now
<1>a. endpoint \in [Endpoints -> EndpointType]
  BY DEF TypeOK
<1>1. ASSUME NEW x \in Endpoints, Create(x) PROVE endpoint' = endpoint \/
        /\ endpoint[x].status = "absent"
        /\ endpoint'[x].status = "active" /\ endpoint'[x].createdAt = clock
        /\ \A y \in Endpoints : y # x => endpoint'[y] = endpoint[y]
  BY <1>1, <1>a DEF Create, EndpointType
<1>2. ASSUME NEW x \in Endpoints, NEW active \in BOOLEAN,
             SetActive(x, active) \/ Remove(x)
      PROVE  /\ Registered(x)
             /\ endpoint'[x].status \in {"active", "off", "removed"}
             /\ endpoint'[x].createdAt = endpoint[x].createdAt
             /\ \A y \in Endpoints : y # x => endpoint'[y] = endpoint[y]
  <2>1. CASE SetActive(x, active)
    BY <2>1, <1>a DEF SetActive, Registered, EndpointType
  <2>2. CASE Remove(x)
    BY <2>2, <1>a DEF Remove, Registered, EndpointType
  <2> QED BY <1>2, <2>1, <2>2
<1>3. ASSUME NEW w \in Workers, SweepDisable(w), endpoint' # endpoint
      PROVE  /\ Registered(worker[w].target) /\ worker[w].target \in Endpoints
             /\ endpoint'[worker[w].target].createdAt
                  = endpoint[worker[w].target].createdAt
             /\ endpoint'[worker[w].target].status = "swept"
             /\ endpoint'[worker[w].target].disabledAt = worker[w].now
             /\ \A y \in Endpoints : y # worker[w].target => endpoint'[y] = endpoint[y]
  <2>1. worker[w].target \in Endpoints
    BY <1>3 DEF SweepDisable, HoldInv
  <2> QED BY <1>3, <1>a, <2>1 DEF SweepDisable, EndpointType
<1>4. \/ UNCHANGED endpoint
      \/ \E x \in Endpoints :
           Create(x) \/ Remove(x) \/ \E active \in BOOLEAN : SetActive(x, active)
      \/ \E w \in Workers : SweepDisable(w)
  <2>1. Operate => \/ UNCHANGED endpoint
                   \/ \E x \in Endpoints :
                        Create(x) \/ Remove(x) \/ \E active \in BOOLEAN : SetActive(x, active)
    BY DEF Operate, Ping
  <2>2. Emit \/ Fan \/ LoseFanout \/ Tick \/ SweepDue \/ UNCHANGED vars =>
          UNCHANGED endpoint
    BY DEF Emit, Fan, WriteRow, QueueDelivery, LoseFanout, Tick, SweepDue, vars
  <2>3. ASSUME NEW w \in Workers, Work(w) PROVE UNCHANGED endpoint \/ SweepDisable(w)
    BY <2>3 DEF Work, StartDelivery, Post, RecordDisabled, RecordDelivered,
       RecordRefused, RecordBroken, UpdateRow, Settle, StartSweep, FinishSweep,
       SweepWindow, SweepCount, SweepNotify
  <2>4. ASSUME NEW w \in Workers, WriteFails(w) \/ Crash(w) PROVE UNCHANGED endpoint
    BY <2>4 DEF WriteFails, Crash
  <2> QED BY <2>1, <2>2, <2>3, <2>4 DEF Next
<1>5. CASE UNCHANGED endpoint
  BY <1>5
<1>6. CASE \E x \in Endpoints : Create(x)
  BY <1>1, <1>5, <1>6
<1>7. CASE \E x \in Endpoints :
             Remove(x) \/ \E active \in BOOLEAN : SetActive(x, active)
  BY <1>2, <1>7 DEF Registered
<1>8. CASE \E w \in Workers : SweepDisable(w)
  BY <1>3, <1>5, <1>8 DEF Registered
<1> QED BY <1>4, <1>5, <1>6, <1>7, <1>8

LEMMA StampStep ==
  ASSUME TypeOK, QueueInv, HoldInv, StampInv, [Next]_vars
  PROVE  StampInv'
<1>1. ASSUME NEW d \in Rows, row'[d].status = "DELIVERED"
      PROVE  row'[d].lastAttemptAt \in Time
  <2>a. row[d].status = "DELIVERED" => row[d].lastAttemptAt \in Time
    BY DEF StampInv
  <2>b. clock \in Time /\ row \in [Rows -> RowType]
    BY DEF TypeOK
  <2>1. CASE UNCHANGED row
    BY <1>1, <2>a, <2>1
  <2>2. CASE WriteRow
    BY <1>1, <2>a, <2>2, WriteRowEffect
  <2>3. CASE \E e \in Endpoints : Remove(e)
    BY <1>1, <2>a, <2>b, <2>3 DEF Remove, RowType
  <2>4. ASSUME NEW w \in Workers, Recorded(w) PROVE row'[d].lastAttemptAt \in Time
    BY <1>1, <2>a, <2>b, <2>4, RecordEffect
  <2> QED BY <2>1, <2>2, <2>3, <2>4, Effects
          DEF Quiet, QueueDelivery, Delivers, StartDelivery, Post, Settle, Refused, Dropped
<1>2. ASSUME NEW e \in Endpoints, endpoint'[e].status # "absent"
      PROVE  endpoint'[e].createdAt \in Time
  BY <1>2, EndpointEffect DEF StampInv, TypeOK
<1>3. ASSUME NEW w \in Workers, NEW e \in worker'[w].todo
      PROVE  endpoint'[e].status # "absent"
  <2>1. e \in worker[w].todo \/ (e \in Endpoints /\ Active(e))
    BY <1>3, Sweeping, SweepEffect DEF Idle
  <2>2. e \in Endpoints /\ endpoint[e].status # "absent"
    BY <2>1 DEF StampInv, Active, TypeOK, WorkerType
  <2> QED BY <2>2, EndpointEffect
<1> QED BY <1>1, <1>2, <1>3 DEF StampInv

-----------------------------------------------------------------------------
(***************************************************************************)
(* What a sweep read of an endpoint when it turns the endpoint off.  Other *)
(* workers deliver meanwhile, so neither the last success nor the failures *)
(* need be what it read; but a delivery that was tried after the success   *)
(* it read stays tried after it, as a failure or as a newer success.       *)
(***************************************************************************)
TriedAfter(e, since) ==
  {d \in Rows : /\ row[d].endpoint = e
                /\ row[d].status \in {"DELIVERED", "FAILED"}
                /\ row[d].lastAttemptAt > since}

PastInv == \A d \in Rows : row[d].lastAttemptAt <= clock

DeadInv ==
  \A w \in Workers :
    LET e == worker[w].target
    IN  /\ worker[w].pc \in {"sweep", "count", "disable", "notify"} =>
             worker[w].now <= clock
        /\ worker[w].pc \in {"count", "disable"} =>
             /\ endpoint[e].status # "absent"
             /\ worker[w].now - worker[w].since >= Window
        /\ worker[w].pc = "disable" /\ Registered(e) =>
             Cardinality(TriedAfter(e, worker[w].since)) >= MinFailures

(* The last success is the latest of the successes, or the registration.   *)
SuccessDated ==
  \A e \in Endpoints : StampInv /\ endpoint[e].status # "absent" =>
    /\ LastSuccess(e) \in Time
    /\ IF Delivered(e) = {} THEN LastSuccess(e) = endpoint[e].createdAt
       ELSE /\ \E d \in Delivered(e) : LastSuccess(e) = row[d].lastAttemptAt
            /\ \A d \in Delivered(e) : row[d].lastAttemptAt <= LastSuccess(e)

LEMMA LastSuccessIs == SuccessDated
<1> SUFFICES ASSUME NEW e \in Endpoints, StampInv, endpoint[e].status # "absent"
             PROVE  /\ LastSuccess(e) \in Time
                    /\ IF Delivered(e) = {} THEN LastSuccess(e) = endpoint[e].createdAt
                       ELSE /\ \E d \in Delivered(e) : LastSuccess(e) = row[d].lastAttemptAt
                            /\ \A d \in Delivered(e) : row[d].lastAttemptAt <= LastSuccess(e)
  BY DEF SuccessDated
<1> DEFINE S == {row[d].lastAttemptAt : d \in Delivered(e)}
                   \cup (IF Delivered(e) = {} THEN {endpoint[e].createdAt} ELSE {})
<1>1. S \in SUBSET Time /\ S # {}
  BY DEF StampInv, Delivered
<1>2. PICK t \in S : \A s \in S : s <= t
  <2> HIDE DEF S
  <2> QED BY <1>1, Latest
<1>3. \E u \in Time : u \in S /\ \A d \in Delivered(e) : row[d].lastAttemptAt <= u
  BY <1>1, <1>2
<1>4. /\ LastSuccess(e) \in Time /\ LastSuccess(e) \in S
      /\ \A d \in Delivered(e) : row[d].lastAttemptAt <= LastSuccess(e)
  BY <1>3 DEF LastSuccess
<1> QED BY <1>4

(* What a step makes of a row.                                             *)
LEMMA RowEffect ==
  ASSUME TypeOK, HoldInv, [Next]_vars, NEW d \in Rows
  PROVE  \/ row'[d] = row[d]
         \/ /\ row[d].status = "absent"
            /\ row'[d].lastAttemptAt = row[d].lastAttemptAt
         \/ /\ \E e \in Endpoints : Remove(e) /\ row[d].endpoint = e
            /\ row'[d].lastAttemptAt = row[d].lastAttemptAt
         \/ /\ row'[d].endpoint = row[d].endpoint
            /\ row'[d].status \in {"DELIVERED", "FAILED"}
            /\ row'[d].lastAttemptAt = clock
<1>1. CASE Quiet \/ QueueDelivery
  BY <1>1 DEF Quiet, QueueDelivery
<1>2. CASE WriteRow
  BY <1>2, WriteRowEffect
<1>3. CASE \E e \in Endpoints : Remove(e)
  BY <1>3, RemoveEffect
<1>4. ASSUME NEW w \in Workers, Recorded(w)
      PROVE  \/ row'[d] = row[d]
             \/ /\ row'[d].endpoint = row[d].endpoint
                /\ row'[d].status \in {"DELIVERED", "FAILED"}
                /\ row'[d].lastAttemptAt = clock
  BY <1>4, RecordEffect
<1> QED BY <1>1, <1>2, <1>3, <1>4, Effects
        DEF Delivers, StartDelivery, Post, Settle, Refused, Dropped

LEMMA ClockEffect ==
  ASSUME TypeOK, [Next]_vars
  PROVE  clock' \in {clock, clock + 1}
<1>1. Tick => clock' = clock + 1
  BY DEF Tick
<1>2. Operate \/ Emit \/ Fan \/ LoseFanout \/ SweepDue \/ UNCHANGED vars =>
        UNCHANGED clock
  BY DEF Operate, Create, SetActive, Remove, Ping, Emit, Fan, WriteRow,
     QueueDelivery, LoseFanout, SweepDue, vars
<1>3. ASSUME NEW x \in Workers, Work(x) PROVE UNCHANGED clock
  BY <1>3 DEF Work, StartDelivery, Post, RecordDisabled, RecordDelivered, RecordRefused,
     RecordBroken, UpdateRow, Settle, StartSweep, FinishSweep, SweepWindow, SweepCount,
     SweepDisable, SweepNotify
<1>4. ASSUME NEW x \in Workers, WriteFails(x) \/ Crash(x) PROVE UNCHANGED clock
  BY <1>4 DEF WriteFails, Crash
<1> QED BY <1>1, <1>2, <1>3, <1>4 DEF Next

(* Nothing was tried later than now.                                       *)
LEMMA PastStep ==
  ASSUME TypeOK, HoldInv, PastInv, [Next]_vars
  PROVE  PastInv'
<1> SUFFICES ASSUME NEW d \in Rows PROVE row'[d].lastAttemptAt <= clock'
  BY DEF PastInv
<1>1. row[d].lastAttemptAt \in Int /\ clock \in Int
  BY WebhookAssumption DEF TypeOK, RowType, Time, Never
<1>2. row[d].lastAttemptAt <= clock /\ clock' \in {clock, clock + 1}
  BY ClockEffect DEF PastInv
<1>3. row'[d].lastAttemptAt \in {row[d].lastAttemptAt, clock}
  BY RowEffect
<1> QED BY <1>1, <1>2, <1>3

(* A delivery tried after a moment stays so while its endpoint is there.   *)
LEMMA TriedKept ==
  ASSUME TypeOK, HoldInv, PastInv, [Next]_vars, NEW e \in Endpoints, Registered(e)',
         NEW since \in Time
  PROVE  TriedAfter(e, since) \subseteq TriedAfter(e, since)'
<1> SUFFICES ASSUME NEW d \in TriedAfter(e, since) PROVE d \in TriedAfter(e, since)'
  OBVIOUS
<1>1. /\ d \in Rows /\ row[d].endpoint = e
      /\ row[d].status \in {"DELIVERED", "FAILED"}
      /\ row[d].lastAttemptAt > since
  BY DEF TriedAfter
<1>2. /\ row[d].lastAttemptAt \in Int /\ clock \in Int /\ since \in Int
      /\ row[d].lastAttemptAt <= clock
  BY <1>1, WebhookAssumption DEF TypeOK, RowType, Time, Never, PastInv
<1>3. ~Remove(e)
  BY DEF Remove, Registered, TypeOK, EndpointType
<1>4. \/ row'[d] = row[d]
      \/ /\ row'[d].endpoint = e
         /\ row'[d].status \in {"DELIVERED", "FAILED"}
         /\ row'[d].lastAttemptAt = clock
  BY <1>1, <1>3, RowEffect
<1>5. clock > since
  BY <1>1, <1>2
<1> QED BY <1>1, <1>4, <1>5 DEF TriedAfter

LEMMA RowSets ==
  ASSUME NEW S \in SUBSET Rows, NEW T \in SUBSET Rows, S \subseteq T
  PROVE  /\ Cardinality(S) \in Nat /\ Cardinality(T) \in Nat
         /\ Cardinality(S) <= Cardinality(T)
<1>1. IsFiniteSet(Rows)
  BY WebhookAssumption, FS_Interval DEF Rows
<1>2. IsFiniteSet(S) /\ IsFiniteSet(T)
  BY <1>1, FS_Subset
<1> QED BY <1>2, FS_Subset, FS_CardinalityType

LEMMA DeadStep ==
  ASSUME TypeOK, StampInv, QueueInv, HoldInv, PastInv, DeadInv, [Next]_vars
  PROVE  DeadInv'
<1> SUFFICES ASSUME NEW w \in Workers
             PROVE  (LET e == worker[w].target
                     IN  /\ worker[w].pc \in {"sweep", "count", "disable", "notify"} =>
                              worker[w].now <= clock
                         /\ worker[w].pc \in {"count", "disable"} =>
                              /\ endpoint[e].status # "absent"
                              /\ worker[w].now - worker[w].since >= Window
                         /\ worker[w].pc = "disable" /\ Registered(e) =>
                              Cardinality(TriedAfter(e, worker[w].since))
                                >= MinFailures)'
  BY DEF DeadInv
<1> PICK e : e = worker[w].target
  OBVIOUS
<1>a. /\ worker[w] \in WorkerType /\ clock \in Time
      /\ worker[w].pc \in {"count", "disable"} => e \in Endpoints
  BY DEF TypeOK, HoldInv
<1>b. clock' \in {clock, clock + 1}
  BY ClockEffect
<1>c. clock' \in Time /\ worker[w].now \in Time /\ \A t \in Time : t \in Int
  BY <1>a, TypeStep, WebhookAssumption DEF TypeOK, WorkerType, Time
<1>1. CASE worker'[w] = worker[w]
  <2>1. worker[w].pc \in {"sweep", "count", "disable", "notify"} =>
          worker[w].now <= clock'
    BY <1>a, <1>b, <1>c DEF DeadInv
  <2>2. worker[w].pc \in {"count", "disable"} =>
          /\ endpoint'[e].status # "absent"
          /\ worker[w].now - worker[w].since >= Window
    BY <1>a, EndpointEffect DEF DeadInv
  <2>3. ASSUME worker[w].pc = "disable", Registered(e)'
        PROVE  Cardinality(TriedAfter(e, worker[w].since)') >= MinFailures
    <3>1. e \in Endpoints /\ endpoint[e].status # "absent" /\ worker[w].since \in Time
      BY <1>a, <2>3 DEF DeadInv, WorkerType
    <3>2. Registered(e)
      <4>1. endpoint[e].status \in EndpointStatus
        BY <3>1 DEF TypeOK, EndpointType
      <4>2. endpoint[e].status = "removed" => endpoint'[e].status = "removed"
        BY <3>1, EndpointEffect
      <4> QED BY <2>3, <3>1, <4>1, <4>2 DEF Registered, EndpointStatus
    <3>3. PICK since \in Time : since = worker[w].since
      BY <3>1
    <3>4. TriedAfter(e, since) \subseteq TriedAfter(e, since)'
      BY <2>3, <3>1, TriedKept
    <3>5. TriedAfter(e, since) \in SUBSET Rows /\ TriedAfter(e, since)' \in SUBSET Rows
      BY DEF TriedAfter
    <3>6. Cardinality(TriedAfter(e, since)) >= MinFailures
      BY <2>3, <3>2, <3>3 DEF DeadInv
    <3>7. /\ Cardinality(TriedAfter(e, since)) \in Nat
          /\ Cardinality(TriedAfter(e, since)') \in Nat
          /\ Cardinality(TriedAfter(e, since)) <= Cardinality(TriedAfter(e, since)')
      BY <3>4, <3>5, RowSets
    <3>8. TriedAfter(e, worker[w].since)' = TriedAfter(e, since)'
      BY <1>1, <3>3
    <3>9. Cardinality(TriedAfter(e, since)') >= MinFailures
      BY <3>6, <3>7, WebhookAssumption
    <3> QED BY <1>1, <3>3, <3>9 DEF TriedAfter
  <2>4. worker[w].pc = "disable" /\ Registered(e)' =>
          Cardinality(TriedAfter(e, worker[w].since))' >= MinFailures
    BY <1>1, <2>3 DEF TriedAfter
  <2> QED BY <1>1, <2>1, <2>2, <2>4
<1>2. CASE SweepWindow(w)
  <2>1. PICK x \in worker[w].todo :
          /\ worker[w].pc = "sweep" /\ worker'[w].now = worker[w].now
          /\ \/ worker'[w].pc = "sweep"
             \/ /\ worker'[w].pc = "count" /\ worker'[w].target = x
                /\ worker'[w].since = LastSuccess(x)
                /\ ~(worker[w].now - LastSuccess(x) < Window)
          /\ UNCHANGED <<endpoint, row, clock>>
    BY <1>2, SweepEffect
  <2>2. x \in Endpoints /\ endpoint[x].status # "absent" /\ LastSuccess(x) \in Time
    BY <1>a, LastSuccessIsTime DEF StampInv, WorkerType
  <2>3. worker[w].now <= clock
    BY <2>1 DEF DeadInv
  <2>4. worker'[w].pc = "count" => worker'[w].now - worker'[w].since >= Window
    BY <1>c, <2>1, <2>2, WebhookAssumption
  <2> QED BY <2>1, <2>2, <2>3, <2>4
<1>3. CASE SweepCount(w)
  <2>1. /\ worker[w].pc = "count" /\ worker'[w].now = worker[w].now
        /\ worker'[w].target = e /\ worker'[w].since = worker[w].since
        /\ UNCHANGED <<endpoint, row, clock>>
    BY <1>3, SweepEffect DEF SweepCount
  <2>2. PICK since : since = worker[w].since
    OBVIOUS
  <2>3. worker'[w].pc = "disable" => ~(Cardinality(FailedAfter(e, since)) < MinFailures)
    BY <1>3, <2>2 DEF SweepCount, Goto, TypeOK, WorkerType
  <2>4. /\ FailedAfter(e, since) \subseteq TriedAfter(e, since)
        /\ TriedAfter(e, since) \in SUBSET Rows /\ FailedAfter(e, since) \in SUBSET Rows
    BY DEF FailedAfter, TriedAfter
  <2>5. /\ Cardinality(FailedAfter(e, since)) \in Nat
        /\ Cardinality(TriedAfter(e, since)) \in Nat
        /\ Cardinality(FailedAfter(e, since)) <= Cardinality(TriedAfter(e, since))
    BY <2>4, RowSets
  <2>6. worker'[w].pc = "disable" => Cardinality(TriedAfter(e, since)) >= MinFailures
    BY <2>3, <2>5, WebhookAssumption
  <2>7. TriedAfter(worker[w].target, worker[w].since)' = TriedAfter(e, since)
    BY <2>1, <2>2 DEF TriedAfter
  <2>8. /\ worker[w].now <= clock
        /\ endpoint[e].status # "absent"
        /\ worker[w].now - worker[w].since >= Window
    BY <2>1 DEF DeadInv
  <2> QED BY <2>1, <2>6, <2>7, <2>8
<1>4. CASE worker'[w].pc \notin {"sweep", "count", "disable", "notify"}
  BY <1>4
<1>5. CASE StartSweep(w)
  BY <1>5, <1>c, SweepEffect
<1>6. CASE SweepDisable(w) \/ SweepNotify(w)
  <2>1. CASE worker'[w] = Idle
    BY <2>1 DEF Idle
  <2>2. CASE worker'[w] # Idle
    <3>1. /\ worker[w].pc \in {"disable", "notify"}
          /\ worker'[w].pc \in {"sweep", "notify"}
      BY <1>a, <1>6, <2>2, SweepEffect DEF SweepNotify, Goto, TypeOK, WorkerType
    <3>2. worker'[w].now = worker[w].now
      BY <1>6, <2>2, SweepEffect
    <3>3. worker[w].now <= clock
      BY <3>1 DEF DeadInv
    <3> QED BY <1>b, <1>a, <1>c, <3>1, <3>2, <3>3
  <2> QED BY <2>1, <2>2
<1> QED BY <1>1, <1>2, <1>3, <1>4, <1>5, <1>6, Sweeping DEF Delivering, Unrecorded

-----------------------------------------------------------------------------
(***************************************************************************)
(* The theorems.                                                           *)
(***************************************************************************)
LEMMA IInvStep == IInv /\ [Next]_vars => IInv'
<1> SUFFICES ASSUME IInv, [Next]_vars PROVE IInv'
  OBVIOUS
<1> USE DEF IInv
<1>1. TypeOK' /\ StampInv' /\ QueueInv' /\ HoldInv'
  BY TypeStep, StampStep, QueueStep, HoldStep
<1>2. DeliveredMeansAccepted' /\ AcceptInv' /\ OnceInv'
  BY AcceptStep, OnceStep
<1>3. SentInv' /\ CountInv' /\ LogAgreesWithQueue' /\ LogInv'
  BY SentStep, CountStep, LogStep
<1> QED BY <1>1, <1>2, <1>3

LEMMA Invariance == Spec => []IInv
BY Init_IInv, IInvStep, PTL DEF Spec

(* Every variable keeps its type.                                          *)
THEOREM TypeCorrect == Spec => []TypeOK
<1>1. IInv => TypeOK
  BY DEF IInv
<1> QED BY <1>1, Invariance, PTL

(* However workers, retries, crashes and removed endpoints interleave, a   *)
(* row says DELIVERED only of an event the subscriber accepted.            *)
THEOREM DeliveredIsAccepted == Spec => []DeliveredMeansAccepted
<1>1. IInv => DeliveredMeansAccepted
  BY DEF IInv
<1> QED BY <1>1, Invariance, PTL

(* The subscriber is answered for an event once, and once more at most for *)
(* every crash or refused write; and however many answers are lost, it     *)
(* accepts no more often than the queue tries, for any number of workers   *)
(* and tries.                                                              *)
THEOREM AcceptedAtMostOnce == Spec => []AcceptedOnce
<1>1. IInv => AcceptedOnce
  <2> SUFFICES ASSUME IInv, NEW d \in Rows
               PROVE  /\ accepted[d] <= 1 + faults
                      /\ accepted[d] + lost[d] <= MaxAttempts + faults
    BY DEF AcceptedOnce
  <2>1. /\ accepted[d] \in Nat /\ lost[d] \in Nat /\ faults \in Nat
        /\ job[d].tries \in 0..MaxAttempts /\ MaxAttempts \in Nat
    BY WebhookAssumption DEF IInv, TypeOK, JobType
  <2>2. accepted[d] <= 1 + faults
    BY <2>1 DEF IInv, OnceInv
  <2>3. CASE job[d].state = "active"
    <3>1. job[d].tries < MaxAttempts
      BY <2>3 DEF IInv, QueueInv
    <3>2. accepted[d] + lost[d] <= job[d].tries + faults + 1
      BY DEF IInv, SentInv
    <3> QED BY <2>1, <2>2, <3>1, <3>2
  <2>4. CASE job[d].state # "active"
    <3>1. accepted[d] + lost[d] <= job[d].tries + faults
      BY <2>4 DEF IInv, SentInv
    <3> QED BY <2>1, <2>2, <3>1
  <2> QED BY <2>3, <2>4
<1> QED BY <1>1, Invariance, PTL

(* The attempts that the log counts are the tries that the queue counts,   *)
(* but for the crashes and refused writes.                                 *)
THEOREM AttemptsAreRecorded == Spec => []EveryAttemptRecorded
<1>1. IInv => EveryAttemptRecorded
  BY DEF IInv, CountInv, EveryAttemptRecorded
<1> QED BY <1>1, Invariance, PTL

(* Without a crash or refused write, the log and the queue tell the same   *)
(* story of every delivery that no worker holds.                           *)
THEOREM LogIsTheQueues == Spec => []LogAgreesWithQueue
<1>1. IInv => LogAgreesWithQueue
  BY DEF IInv
<1> QED BY <1>1, Invariance, PTL

(* However many workers deliver while a sweep decides, it turns off only   *)
(* an endpoint that had no success in the window and enough failures       *)
(* since, or one that has had a success since the sweep read the last.     *)
THEOREM SweptIsDead == Spec => SweepOnlyDead
<1>1. Init => PastInv /\ DeadInv
  BY DEF Init, PastInv, DeadInv, Idle, NoRow, Never
<1>2. IInv /\ PastInv /\ DeadInv /\ [Next]_vars => PastInv' /\ DeadInv'
  BY PastStep, DeadStep DEF IInv
<1>3. IInv /\ PastInv /\ DeadInv /\ [Next]_vars =>
        [\A e \in Endpoints :
           endpoint[e].status = "active" /\ endpoint'[e].status = "swept" =>
             \/ /\ clock - LastSuccess(e) >= Window
                /\ Cardinality(FailedAfter(e, LastSuccess(e))) >= MinFailures
             \/ \E w \in Workers : /\ worker[w].pc = "disable"
                                   /\ worker[w].target = e
                                   /\ LastSuccess(e) > worker[w].since]_vars
  <2> SUFFICES ASSUME IInv, DeadInv, [Next]_vars, NEW e \in Endpoints,
                      endpoint[e].status = "active", endpoint'[e].status = "swept"
               PROVE  \/ /\ clock - LastSuccess(e) >= Window
                         /\ Cardinality(FailedAfter(e, LastSuccess(e))) >= MinFailures
                      \/ \E w \in Workers : /\ worker[w].pc = "disable"
                                            /\ worker[w].target = e
                                            /\ LastSuccess(e) > worker[w].since
    OBVIOUS
  <2>1. PICK w \in Workers :
          SweepDisable(w) /\ worker[w].target = e /\ Registered(e)
    BY EndpointEffect DEF IInv
  <2>2. worker[w].pc = "disable"
    BY <2>1 DEF SweepDisable
  <2>3. PICK since : since = worker[w].since
    OBVIOUS
  <2>4. /\ worker[w].now <= clock
        /\ worker[w].now - since >= Window
        /\ Cardinality(TriedAfter(e, since)) >= MinFailures
    BY <2>1, <2>2, <2>3 DEF DeadInv
  <2>5. /\ LastSuccess(e) \in Time
        /\ \A d \in Delivered(e) : row[d].lastAttemptAt <= LastSuccess(e)
    BY LastSuccessIs DEF SuccessDated, IInv
  <2>6. /\ worker[w].now \in Int /\ since \in Int /\ clock \in Int
        /\ LastSuccess(e) \in Int
        /\ \A d \in Rows : row[d].lastAttemptAt \in Int
    BY <2>3, <2>5, WebhookAssumption DEF IInv, TypeOK, WorkerType, RowType, Time, Never
  <2>7. CASE LastSuccess(e) > since
    BY <2>1, <2>2, <2>3, <2>7
  <2>8. CASE LastSuccess(e) <= since
    <3>1. TriedAfter(e, since) \subseteq FailedAfter(e, LastSuccess(e))
      <4> SUFFICES ASSUME NEW d \in TriedAfter(e, since)
                   PROVE  d \in FailedAfter(e, LastSuccess(e))
        OBVIOUS
      <4>1. /\ d \in Rows /\ row[d].endpoint = e
            /\ row[d].status \in {"DELIVERED", "FAILED"} /\ row[d].lastAttemptAt > since
        BY DEF TriedAfter
      <4>2. row[d].lastAttemptAt > LastSuccess(e)
        BY <2>6, <2>8, <4>1
      <4>3. row[d].status # "DELIVERED"
        <5>1. d \in Delivered(e) => row[d].lastAttemptAt <= LastSuccess(e)
          BY <2>5
        <5> QED BY <2>6, <4>1, <4>2, <5>1 DEF Delivered
      <4> QED BY <4>1, <4>2, <4>3 DEF FailedAfter
    <3>2. /\ TriedAfter(e, since) \in SUBSET Rows
          /\ FailedAfter(e, LastSuccess(e)) \in SUBSET Rows
      BY DEF TriedAfter, FailedAfter
    <3>3. Cardinality(FailedAfter(e, LastSuccess(e))) >= MinFailures
      BY <2>4, <3>1, <3>2, RowSets, WebhookAssumption
    <3>4. clock - LastSuccess(e) >= Window
      BY <2>4, <2>6, <2>8, WebhookAssumption
    <3> QED BY <3>3, <3>4
  <2> QED BY <2>6, <2>7, <2>8
<1> QED BY <1>1, <1>2, <1>3, Invariance, PTL DEF Spec, SweepOnlyDead
=============================================================================
