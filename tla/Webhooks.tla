------------------------------ MODULE Webhooks ------------------------------
(***************************************************************************)
(* The outbound webhooks of one organization: WebhooksService, the worker  *)
(* of the webhooks queue and the sweep that disables dead endpoints.       *)
(*                                                                         *)
(* A delivery row is one event for one endpoint; its job is retried by the *)
(* queue.  Each await of a handler is one step.  An endpoint that is not   *)
(* active is "off" or "swept", after who turned it off; the code keeps     *)
(* only active = false.                                                    *)
(*                                                                         *)
(* Left out: payloads, secrets and signatures, the checks on an endpoint's *)
(* URL, the error texts, and who in the organization is notified: it may   *)
(* have nobody to notify.                                                  *)
(***************************************************************************)
EXTENDS Integers, FiniteSets

CONSTANTS
  NumEndpoints,  \* webhook endpoints that can be registered (bound)
  NumRows,       \* delivery rows that can be written (bound)
  Workers,       \* workers of the queue, one per API replica
  MaxAttempts,   \* tries of a job before the queue gives up
  Window,        \* autoDisableAfterDays, in ticks of the clock
  MinFailures,   \* autoDisableMinFailures
  MaxTime,       \* last tick of the clock (bound)
  MaxFaults      \* crashes and database errors (bound)

ASSUME WebhookAssumption ==
  /\ NumEndpoints \in Nat /\ NumRows \in Nat
  /\ MaxTime \in Nat /\ MaxFaults \in Nat
  /\ MaxAttempts \in Nat \ {0}
  /\ Window \in Nat \ {0}
  /\ MinFailures \in Nat \ {0}

VARIABLES
  endpoint,      \* WebhookEndpoint
  row,           \* WebhookDelivery
  job,           \* the queue's job delivery-<id> of each row
  fanout,        \* an emit or a ping that is still queueing
  sweepJob,      \* the repeatable job sweep-endpoints is waiting
  worker,        \* what each worker is doing
  notices,       \* webhook.endpoint_disabled notifications: <<endpoint, disabledAt>>
  accepted,      \* 2xx answers of the subscriber that arrived, by row
  lost,          \* 2xx answers that were lost or came after the timeout, by row
  clock,
  faults

vars == <<endpoint, row, job, fanout, sweepJob, worker, notices, accepted, lost,
          clock, faults>>

Endpoints == 1..NumEndpoints
Rows == 1..NumRows
None == 0        \* no endpoint, no row
Time == 0..MaxTime
Never == -1      \* a null timestamp

EndpointStatus == {"absent", "active", "off", "swept", "removed"}
DeliveryStatus == {"absent", "PENDING", "DELIVERED", "FAILED", "removed"}
JobState == {"absent", "waiting", "active", "completed", "failed"}
Pc == {"idle", "disabled", "post", "delivered", "refused", "broken", "done",
       "thrown", "sweep", "count", "disable", "notify"}

EndpointType == [status : EndpointStatus, createdAt : Time \cup {Never},
                 disabledAt : Time \cup {Never}]
RowType == [endpoint : Endpoints \cup {None}, status : DeliveryStatus,
            attempts : Nat, lastAttemptAt : Time \cup {Never}]
JobType == [state : JobState, tries : 0..MaxAttempts]
FanoutType == [todo : SUBSET Endpoints, row : Rows \cup {None}]
WorkerType == [pc : Pc, row : Rows \cup {None}, attempts : Nat,
               target : Endpoints \cup {None}, todo : SUBSET Endpoints,
               now : Time, since : Time]

Idle == [pc |-> "idle", row |-> None, attempts |-> 0, target |-> None,
         todo |-> {}, now |-> 0, since |-> 0]
NoEndpoint == [status |-> "absent", createdAt |-> Never, disabledAt |-> Never]
NoRow == [endpoint |-> None, status |-> "absent", attempts |-> 0,
          lastAttemptAt |-> Never]
NoFanout == [todo |-> {}, row |-> None]

Active(e) == endpoint[e].status = "active"
Registered(e) == endpoint[e].status \in {"active", "off", "swept"}
Exists(d) == row[d].status \in {"PENDING", "DELIVERED", "FAILED"}

Init ==
  /\ endpoint = [e \in Endpoints |-> NoEndpoint]
  /\ row = [d \in Rows |-> NoRow]
  /\ job = [d \in Rows |-> [state |-> "absent", tries |-> 0]]
  /\ fanout = NoFanout
  /\ sweepJob = FALSE
  /\ worker = [w \in Workers |-> Idle]
  /\ notices = {}
  /\ accepted = [d \in Rows |-> 0]
  /\ lost = [d \in Rows |-> 0]
  /\ clock = 0
  /\ faults = 0

(***************************************************************************)
(* The operator's calls: create, setActive and remove.                     *)
(***************************************************************************)
Create(e) ==
  /\ endpoint[e].status = "absent"
  /\ endpoint' = [endpoint EXCEPT ![e].status = "active", ![e].createdAt = clock]
  /\ UNCHANGED <<row, job, fanout, sweepJob, worker, notices, accepted, lost,
                 clock, faults>>

SetActive(e, active) ==
  /\ Registered(e)
  /\ endpoint' = [endpoint EXCEPT
                    ![e].status = IF active THEN "active" ELSE "off",
                    ![e].disabledAt = IF active THEN Never ELSE clock]
  /\ UNCHANGED <<row, job, fanout, sweepJob, worker, notices, accepted, lost,
                 clock, faults>>

(* The deliveries cascade with their endpoint.                             *)
Remove(e) ==
  /\ Registered(e)
  /\ endpoint' = [endpoint EXCEPT ![e].status = "removed"]
  /\ row' = [d \in Rows |-> IF row[d].endpoint = e
                            THEN [row[d] EXCEPT !.status = "removed"]
                            ELSE row[d]]
  /\ UNCHANGED <<job, fanout, sweepJob, worker, notices, accepted, lost, clock, faults>>

(***************************************************************************)
(* emit and ping, and the enqueue loop they share.                         *)
(***************************************************************************)
(* The event goes to the active endpoints subscribed to it.                *)
Emit ==
  /\ fanout = NoFanout
  /\ \E subscribed \in SUBSET Endpoints :
       LET targets == {e \in subscribed : Active(e)}
       IN  /\ targets # {}
           /\ fanout' = [todo |-> targets, row |-> None]
  /\ UNCHANGED <<endpoint, row, job, sweepJob, worker, notices, accepted, lost,
                 clock, faults>>

(* A ping goes out to an endpoint that is turned off as well.              *)
Ping(e) ==
  /\ fanout = NoFanout
  /\ Registered(e)
  /\ fanout' = [todo |-> {e}, row |-> None]
  /\ UNCHANGED <<endpoint, row, job, sweepJob, worker, notices, accepted, lost,
                 clock, faults>>

(* webhookDelivery.create: a row for an endpoint removed meanwhile is      *)
(* refused, and the rest of the loop is lost with it.                      *)
WriteRow ==
  /\ fanout.row = None
  /\ \E e \in fanout.todo :
       IF Registered(e)
       THEN \E d \in Rows :
              /\ row[d].status = "absent"
              /\ \A x \in 1..(d - 1) : row[x].status # "absent"
              /\ row' = [row EXCEPT ![d].endpoint = e, ![d].status = "PENDING"]
              /\ fanout' = [todo |-> fanout.todo \ {e}, row |-> d]
       ELSE fanout' = NoFanout /\ UNCHANGED row
  /\ UNCHANGED <<endpoint, job, sweepJob, worker, notices, accepted, lost, clock, faults>>

QueueDelivery ==
  /\ fanout.row # None
  /\ job' = [job EXCEPT ![fanout.row].state = "waiting"]
  /\ fanout' = [fanout EXCEPT !.row = None]
  /\ UNCHANGED <<endpoint, row, sweepJob, worker, notices, accepted, lost, clock, faults>>

(* The database or the queue refuses a step of the loop, or the API stops. *)
LoseFanout ==
  /\ fanout # NoFanout
  /\ faults < MaxFaults
  /\ faults' = faults + 1
  /\ fanout' = NoFanout
  /\ UNCHANGED <<endpoint, row, job, sweepJob, worker, notices, accepted, lost, clock>>

(***************************************************************************)
(* deliver, run by a worker, and what the queue makes of its outcome.      *)
(***************************************************************************)
Goto(w, pc) == worker' = [worker EXCEPT ![w].pc = pc]

\* Slip: a delivery for an endpoint that is off is dropped without a word.
StartDeliverySkips(w, d) ==
  /\ worker[w].pc = "idle"
  /\ job[d].state = "waiting"
  /\ IF Exists(d) /\ Active(row[d].endpoint)
     THEN /\ job' = [job EXCEPT ![d].state = "active"]
          /\ worker' = [worker EXCEPT ![w] =
               [Idle EXCEPT !.pc = "post", !.row = d,
                            !.attempts = row[d].attempts + 1]]
     ELSE /\ job' = [job EXCEPT ![d].state = "completed"]
          /\ UNCHANGED worker
  /\ UNCHANGED <<endpoint, row, fanout, sweepJob, notices, accepted, lost, clock, faults>>

StartDelivery(w, d) ==
  /\ worker[w].pc = "idle"
  /\ job[d].state = "waiting"
  /\ IF Exists(d)
     THEN /\ job' = [job EXCEPT ![d].state = "active"]
          /\ worker' = [worker EXCEPT ![w] =
               [Idle EXCEPT !.pc = IF Active(row[d].endpoint) THEN "post" ELSE "disabled",
                            !.row = d, !.attempts = row[d].attempts + 1]]
     ELSE /\ job' = [job EXCEPT ![d].state = "completed"]
          /\ UNCHANGED worker
  /\ UNCHANGED <<endpoint, row, fanout, sweepJob, notices, accepted, lost, clock, faults>>

(* One POST: a 2xx; another answer; no answer, the POST itself lost; or a   *)
(* 2xx that is lost or comes after the timeout, which deliver cannot tell  *)
(* from the POST that was lost.                                            *)
Post(w) ==
  /\ worker[w].pc = "post"
  /\ \/ /\ Goto(w, "delivered")
        /\ accepted' = [accepted EXCEPT ![worker[w].row] = @ + 1]
        /\ UNCHANGED lost
     \/ Goto(w, "refused") /\ UNCHANGED <<accepted, lost>>
     \/ Goto(w, "broken") /\ UNCHANGED <<accepted, lost>>
     \/ /\ Goto(w, "broken")
        /\ lost' = [lost EXCEPT ![worker[w].row] = @ + 1]
        /\ UNCHANGED accepted
  /\ UNCHANGED <<endpoint, row, job, fanout, sweepJob, notices, clock, faults>>

(* webhookDelivery.update from the state pc: next when it succeeds, and    *)
(* otherwise, when the row is gone, the state its exception leads to.      *)
UpdateRow(w, pc, status, next, otherwise) ==
  LET d == worker[w].row
  IN  /\ worker[w].pc = pc
      /\ IF Exists(d)
         THEN /\ row' = [row EXCEPT
                    ![d].status = status,
                    ![d].attempts = worker[w].attempts,
                    ![d].lastAttemptAt = clock]
              /\ Goto(w, next)
         ELSE Goto(w, otherwise) /\ UNCHANGED row
      /\ UNCHANGED <<endpoint, job, fanout, sweepJob, notices, accepted, lost,
                     clock, faults>>

RecordDisabled(w) == UpdateRow(w, "disabled", "FAILED", "done", "thrown")

\* Slip: the success throws like the rest.
RecordDeliveredThrows(w) ==
  UpdateRow(w, "delivered", "DELIVERED", "thrown", "broken")

RecordDelivered(w) == UpdateRow(w, "delivered", "DELIVERED", "done", "broken")

\* Slip: any answer counts as a success (response.ok is not asked).
RecordRefusedAsDelivered(w) ==
  UpdateRow(w, "refused", "DELIVERED", "done", "broken")

RecordRefused(w) == UpdateRow(w, "refused", "FAILED", "thrown", "broken")

\* Slip: a transport error is not written, or written without its status.
RecordBrokenUnwritten(w) ==
  /\ worker[w].pc = "broken"
  /\ Goto(w, "thrown")
  /\ UNCHANGED <<endpoint, row, job, fanout, sweepJob, notices, accepted, lost,
                 clock, faults>>
RecordBrokenUnmarked(w) == UpdateRow(w, "broken", "PENDING", "thrown", "thrown")

RecordBroken(w) == UpdateRow(w, "broken", "FAILED", "thrown", "thrown")

(* The queue completes the job, retries it, or gives it up.                *)
Settle(w) ==
  LET d == worker[w].row
      tries == job[d].tries + 1
  IN  /\ worker[w].pc \in {"done", "thrown"}
      /\ worker' = [worker EXCEPT ![w] = Idle]
      /\ job' = [job EXCEPT ![d] =
                   [tries |-> tries,
                    state |-> IF worker[w].pc = "done" THEN "completed"
                              ELSE IF tries < MaxAttempts THEN "waiting"
                              ELSE "failed"]]
      /\ UNCHANGED <<endpoint, row, fanout, sweepJob, notices, accepted, lost,
                     clock, faults>>

(***************************************************************************)
(* sweepUnhealthyEndpoints.                                                *)
(***************************************************************************)
Delivered(e) == {d \in Rows : row[d].endpoint = e /\ row[d].status = "DELIVERED"}

(* The time of the last success, or of the registration.  deliveredAt is   *)
(* written together with lastAttemptAt, and read of DELIVERED rows only.   *)
LastSuccess(e) ==
  CHOOSE t \in Time :
    /\ t \in {row[d].lastAttemptAt : d \in Delivered(e)}
              \cup (IF Delivered(e) = {} THEN {endpoint[e].createdAt} ELSE {})
    /\ \A d \in Delivered(e) : row[d].lastAttemptAt <= t

FailedAfter(e, since) ==
  {d \in Rows : /\ row[d].endpoint = e
                /\ row[d].status = "FAILED"
                /\ row[d].lastAttemptAt > since}

StartSweep(w) ==
  /\ worker[w].pc = "idle"
  /\ sweepJob
  /\ sweepJob' = FALSE
  /\ worker' = [worker EXCEPT ![w] =
                  [Idle EXCEPT !.pc = "sweep", !.now = clock,
                               !.todo = {e \in Endpoints : Active(e)}]]
  /\ UNCHANGED <<endpoint, row, job, fanout, notices, accepted, lost, clock, faults>>

FinishSweep(w) ==
  /\ worker[w].pc = "sweep"
  /\ worker[w].todo = {}
  /\ worker' = [worker EXCEPT ![w] = Idle]
  /\ UNCHANGED <<endpoint, row, job, fanout, sweepJob, notices, accepted, lost,
                 clock, faults>>

SweepWindow(w) ==
  /\ worker[w].pc = "sweep"
  /\ \E e \in worker[w].todo :
       LET rest == [worker[w] EXCEPT !.todo = @ \ {e}]
           since == LastSuccess(e)
       IN  worker' = [worker EXCEPT ![w] =
             IF worker[w].now - since < Window THEN rest
             ELSE [rest EXCEPT !.pc = "count", !.target = e, !.since = since]]
  /\ UNCHANGED <<endpoint, row, job, fanout, sweepJob, notices, accepted, lost,
                 clock, faults>>

\* Slip: failures from before the last success count as well.
SweepCountEver(w) ==
  /\ worker[w].pc = "count"
  /\ Goto(w, IF Cardinality(FailedAfter(worker[w].target, Never)) < MinFailures
             THEN "sweep" ELSE "disable")
  /\ UNCHANGED <<endpoint, row, job, fanout, sweepJob, notices, accepted, lost,
                 clock, faults>>

SweepCount(w) ==
  /\ worker[w].pc = "count"
  /\ Goto(w, IF Cardinality(FailedAfter(worker[w].target, worker[w].since))
                < MinFailures
             THEN "sweep" ELSE "disable")
  /\ UNCHANGED <<endpoint, row, job, fanout, sweepJob, notices, accepted, lost,
                 clock, faults>>

(* The update throws when the endpoint was removed; the queue then runs    *)
(* the whole sweep again.                                                  *)
SweepDisable(w) ==
  /\ worker[w].pc = "disable"
  /\ IF Registered(worker[w].target)
     THEN /\ endpoint' = [endpoint EXCEPT
                 ![worker[w].target].status = "swept",
                 ![worker[w].target].disabledAt = worker[w].now]
          /\ Goto(w, "notify")
          /\ UNCHANGED sweepJob
     ELSE /\ worker' = [worker EXCEPT ![w] = Idle]
          /\ sweepJob' = TRUE
          /\ UNCHANGED endpoint
  /\ UNCHANGED <<row, job, fanout, notices, accepted, lost, clock, faults>>

(* Everyone who can act on it is told, if the organization has anyone.     *)
SweepNotify(w) ==
  /\ worker[w].pc = "notify"
  /\ \/ notices' = notices \cup {<<worker[w].target, worker[w].now>>}
     \/ UNCHANGED notices
  /\ Goto(w, "sweep")
  /\ UNCHANGED <<endpoint, row, job, fanout, sweepJob, accepted, lost, clock, faults>>

(***************************************************************************)
(* The environment: the clock, the scheduler of the repeatable sweep, a    *)
(* write that the database refuses, and a worker that dies; the queue then *)
(* gives the job it held to another.                                       *)
(***************************************************************************)
Tick ==
  /\ clock < MaxTime
  /\ clock' = clock + 1
  /\ UNCHANGED <<endpoint, row, job, fanout, sweepJob, worker, notices, accepted, lost,
                 faults>>

SweepDue ==
  /\ sweepJob' = TRUE
  /\ UNCHANGED <<endpoint, row, job, fanout, worker, notices, accepted, lost,
                 clock, faults>>

WriteFails(w) ==
  /\ faults < MaxFaults
  /\ faults' = faults + 1
  /\ \/ /\ worker[w].pc \in {"delivered", "refused"}
        /\ Goto(w, "broken")
        /\ UNCHANGED sweepJob
     \/ /\ worker[w].pc \in {"disabled", "broken"}
        /\ Goto(w, "thrown")
        /\ UNCHANGED sweepJob
     \/ /\ worker[w].pc \in {"disable", "notify"}
        /\ worker' = [worker EXCEPT ![w] = Idle]
        /\ sweepJob' = TRUE
  /\ UNCHANGED <<endpoint, row, job, fanout, notices, accepted, lost, clock>>

Crash(w) ==
  /\ worker[w].pc # "idle"
  /\ faults < MaxFaults
  /\ faults' = faults + 1
  /\ worker' = [worker EXCEPT ![w] = Idle]
  /\ IF worker[w].row = None
     THEN sweepJob' = TRUE /\ UNCHANGED job
     ELSE job' = [job EXCEPT ![worker[w].row].state = "waiting"] /\ UNCHANGED sweepJob
  /\ UNCHANGED <<endpoint, row, fanout, notices, accepted, lost, clock>>

Operate ==
  \E e \in Endpoints :
    \/ Create(e) \/ Remove(e) \/ Ping(e)
    \/ \E active \in BOOLEAN : SetActive(e, active)

Fan == WriteRow \/ QueueDelivery

Work(w) ==
  \/ \E d \in Rows : StartDelivery(w, d)
  \/ Post(w) \/ RecordDisabled(w) \/ RecordDelivered(w) \/ RecordRefused(w)
  \/ RecordBroken(w) \/ Settle(w)
  \/ StartSweep(w) \/ FinishSweep(w) \/ SweepWindow(w) \/ SweepCount(w)
  \/ SweepDisable(w) \/ SweepNotify(w)

Next ==
  \/ Operate \/ Emit \/ Fan \/ LoseFanout \/ Tick \/ SweepDue
  \/ \E w \in Workers : Work(w) \/ WriteFails(w) \/ Crash(w)

Spec == Init /\ [][Next]_vars

(* The event loop runs the enqueue loop on, a worker finishes what it      *)
(* holds, and the queue is first in, first out: no job waits for ever      *)
(* behind sweeps.  Nobody is obliged to emit.                              *)
FairSpec ==
  /\ Spec
  /\ WF_vars(Fan)
  /\ \A w \in Workers : WF_vars(Work(w))
  /\ \A d \in Rows : SF_vars(\E w \in Workers : StartDelivery(w, d))
-----------------------------------------------------------------------------
(***************************************************************************)
(* Properties.                                                             *)
(***************************************************************************)
TypeOK ==
  /\ endpoint \in [Endpoints -> EndpointType]
  /\ row \in [Rows -> RowType]
  /\ job \in [Rows -> JobType]
  /\ fanout \in FanoutType
  /\ sweepJob \in BOOLEAN
  /\ worker \in [Workers -> WorkerType]
  /\ notices \in SUBSET (Endpoints \X Time)
  /\ accepted \in [Rows -> Nat]
  /\ lost \in [Rows -> Nat]
  /\ clock \in Time
  /\ faults \in 0..MaxFaults

(* A row says DELIVERED only of an event the subscriber accepted: retries, *)
(* crashes and a removed endpoint never turn an error into a success.      *)
DeliveredMeansAccepted ==
  \A d \in Rows : row[d].status = "DELIVERED" => accepted[d] > 0

(* An answer that arrived ends the deliveries of its event: the subscriber *)
(* is answered for it once, and once more at most for every crash or       *)
(* refused write.  An answer that is lost is retried, and the subscriber   *)
(* may accept the event again, but no more often than the queue tries.     *)
AcceptedOnce ==
  \A d \in Rows : /\ accepted[d] <= 1 + faults
                  /\ accepted[d] + lost[d] <= MaxAttempts + faults

(* Every attempt is recorded in WebhookDelivery (docs/Webhooks.md): when   *)
(* no worker holds the job, the row counts the tries the queue counts, but *)
(* for the crashes and refused writes.                                     *)
EveryAttemptRecorded ==
  \A d \in Rows :
    Exists(d) /\ job[d].state \in {"waiting", "completed", "failed"} =>
      /\ row[d].attempts <= job[d].tries + faults
      /\ job[d].tries <= row[d].attempts + faults

(* The delivery log agrees with the queue: a job given up or waiting for a *)
(* retry left FAILED, and a completed one DELIVERED if the answer of one   *)
(* of its tries arrived, else FAILED, the endpoint being off at the last.  *)
(* FAILED is what this side knows: with an answer lost, the subscriber may *)
(* have accepted the event.                                                *)
LogAgreesWithQueue ==
  \A d \in Rows : faults = 0 /\ Exists(d) =>
    /\ job[d].state = "failed" => row[d].status = "FAILED"
    /\ job[d].state = "waiting" =>
         row[d].status = IF job[d].tries = 0 THEN "PENDING" ELSE "FAILED"
    /\ job[d].state = "completed" =>
         row[d].status = IF accepted[d] > 0 THEN "DELIVERED" ELSE "FAILED"

(* The sweep turns off only an endpoint without a successful delivery in   *)
(* the whole window and with enough failed ones since (docs/Webhooks.md),  *)
(* whatever other workers deliver, retry or fail between its reads and its *)
(* write; but a success they record in that time comes too late for it.    *)
SweepOnlyDead ==
  [][\A e \in Endpoints :
       endpoint[e].status = "active" /\ endpoint'[e].status = "swept" =>
         \/ /\ clock - LastSuccess(e) >= Window
            /\ Cardinality(FailedAfter(e, LastSuccess(e))) >= MinFailures
         \/ \E w \in Workers : /\ worker[w].pc = "disable"
                               /\ worker[w].target = e
                               /\ LastSuccess(e) > worker[w].since]_vars

(* No delivery stays PENDING: it is delivered, recorded as failed, or      *)
(* removed with its endpoint, unless its fan-out died.                     *)
Resolves ==
  \A d \in Rows :
    row[d].status = "PENDING" ~> row[d].status # "PENDING" \/ faults > 0
=============================================================================
