----------------------------- MODULE Reminders -----------------------------
(***************************************************************************)
(* The reminders of one signing request: those an operator asks for        *)
(* (SignaturesService.remind) and those the signing queue's repeatable job *)
(* finds due (sweepDueReminders).  What becomes of a queued mail is        *)
(* MailWorker.                                                             *)
(*                                                                         *)
(* Each await of a handler is one step.  Signing itself is SigningRequest; *)
(* here a signer's answer is one step.  A reminder's throttle is read from *)
(* the events, its cap from the signer, and both are written only after    *)
(* the mail is queued.                                                     *)
(*                                                                         *)
(* Left out: signers in copy, VIEWED, which counts as INVITED here,        *)
(* remind's choice of one signer, which only makes its list shorter, and   *)
(* the order a call takes its signers in: here it is their signing order.  *)
(***************************************************************************)
EXTENDS Transport, Integers, FiniteSets

CONSTANTS
  Calls,         \* remind() calls that are under way at once: a replica
                 \* serves as many as it is asked for (bound)
  NumSigners,    \* signers of the request, in signing order
  AfterDays,     \* reminders.afterDays, in ticks of the clock
  MaxReminders,  \* reminders.max
  MaxJobs,       \* jobs that can be queued (bound)
  MaxTime        \* last tick of the clock (bound)

ReminderAssumption ==
  /\ NumSigners \in Nat \ {0}
  /\ Workers # {} /\ IsFiniteSet(Workers)
  /\ IsFiniteSet(Calls) /\ Calls \cap Workers = {}
  /\ AfterDays \in Nat \ {0} /\ MaxReminders \in Nat
  /\ MaxJobs \in Nat /\ MaxTime \in Nat /\ MaxFaults \in Nat

VARIABLES
  mode,       \* of the request, which never changes
  request,    \* SigningRequest.status: OPEN when it awaits signatures, ENDED when
              \* it never will again; OVERDUE until a passed deadline is marked
  signer,     \* Signer rows, by orderIndex
  trail,      \* REMINDED events of each signer: how many, and when the last was
  queued,     \* reminders queued, by signer: automatic ones ever, and all of
              \* them, ever and in this tick
  scheduled,  \* the repeatable job is in the queue
  call,       \* what each handler is doing
  clock

envVars == <<mode, smtp, clock, faults>>
vars == <<request, signer, trail, queued, scheduled, call, envVars>>

(* The queue's worker of a replica takes one job at a time, so sweeps are  *)
(* one for each replica; handlers of remind() there are any number.        *)
Handlers == Calls \cup Workers

Signers == 1..NumSigners
Never == -1
Day == 1         \* remind's own throttle, 24 hours

Idle == [pc |-> "idle", automatic |-> FALSE, due |-> {}]

Waiting(s) == signer[s].status = "INVITED"
Total == LET sum[s \in 0..NumSigners] ==
               IF s = 0 THEN 0 ELSE queued[s].ever + sum[s - 1]
         IN  sum[NumSigners]

Init ==
  /\ mode \in {"SEQUENTIAL", "PARALLEL"}
  /\ request = "OPEN"
  /\ signer = [s \in Signers |->
       [status |-> IF mode = "PARALLEL" \/ s = 1 THEN "INVITED" ELSE "PENDING",
        reminderCount |-> 0]]
  /\ trail = [s \in Signers |-> [n |-> 0, last |-> Never]]
  /\ queued = [s \in Signers |-> [automatic |-> 0, ever |-> 0, inTick |-> 0]]
  /\ scheduled = FALSE
  /\ call = [c \in Handlers |-> Idle]
  /\ smtp \in BOOLEAN
  /\ clock = 0
  /\ faults = 0

Goto(c, pc) == call' = [call EXCEPT ![c].pc = pc]

(***************************************************************************)
(* Choosing whom to remind: eligibleReminderTargets.                       *)
(***************************************************************************)
(* canSignerAct.                                                           *)
Turn(s) == mode = "PARALLEL" \/ \A e \in 1..(s - 1) : signer[e].status = "SIGNED"

Candidates(max) ==
  {s \in Signers : Waiting(s) /\ signer[s].reminderCount < max}

\* Slip: the events are read newer-than-now, and none is.
NeverReminded(interval) == {s \in Signers : trail[s].last > clock}

RecentlyReminded(interval) ==
  {s \in Signers : trail[s].n > 0 /\ clock - trail[s].last < interval}

(* remind: refused unless the status says that the request awaits          *)
(* signatures; no cap applies.                                             *)
Remind(c) ==
  /\ call[c].pc = "idle"
  /\ request \in {"OPEN", "OVERDUE"}
  /\ Goto(c, "signers")
  /\ UNCHANGED <<request, signer, trail, scheduled, queued, envVars>>

(* sweepDueReminders, whenever the repeatable job is due: nothing without  *)
(* a transport, nothing past the deadline.                                 *)
StartSweep(w) ==
  /\ call[w].pc = "idle"
  /\ scheduled
  /\ smtp /\ request = "OPEN" /\ \E s \in Signers : Waiting(s)
  /\ call' = [call EXCEPT ![w].pc = "signers", ![w].automatic = TRUE]
  /\ UNCHANGED <<request, signer, trail, scheduled, queued, envVars>>

\* Slip: the cap is compared with > instead of >=.
ReadSignersOverCap(c) ==
  /\ call[c].pc = "signers"
  /\ call' = [call EXCEPT ![c].pc = "events", ![c].due =
       Candidates(IF call[c].automatic THEN MaxReminders + 1 ELSE MaxJobs)]
  /\ UNCHANGED <<request, signer, trail, scheduled, queued, envVars>>

ReadSigners(c) ==
  /\ call[c].pc = "signers"
  /\ call' = [call EXCEPT ![c].pc = "events", ![c].due =
       Candidates(IF call[c].automatic THEN MaxReminders ELSE MaxJobs)]
  /\ UNCHANGED <<request, signer, trail, scheduled, queued, envVars>>

(* The throttle, then canSignerAct for each of the rest, in one step: here *)
(* what canSignerAct reads only ever turns from false to true.             *)
ReadEvents(c) ==
  /\ call[c].pc = "events"
  /\ call' = [call EXCEPT ![c].pc = "queue", ![c].due =
       {s \in @ : /\ s \notin RecentlyReminded(IF call[c].automatic THEN AfterDays
                                              ELSE Day)
                  /\ Turn(s)}]
  /\ UNCHANGED <<request, signer, trail, scheduled, queued, envVars>>

(***************************************************************************)
(* dispatchReminders: for each target the job, then the count, then the    *)
(* event.                                                                  *)
(***************************************************************************)
Target(c) == CHOOSE s \in call[c].due : \A t \in call[c].due : s <= t

QueueReminder(c) ==
  /\ call[c].pc = "queue"
  /\ IF call[c].due = {}
     THEN call' = [call EXCEPT ![c] = Idle] /\ UNCHANGED queued
     ELSE /\ Total < MaxJobs
          /\ queued' = [queued EXCEPT ![Target(c)] =
               [automatic |-> @.automatic + (IF call[c].automatic THEN 1 ELSE 0),
                ever |-> @.ever + 1, inTick |-> @.inTick + 1]]
          /\ Goto(c, "count")
  /\ UNCHANGED <<request, signer, trail, scheduled, envVars>>

CountReminder(c) ==
  /\ call[c].pc = "count"
  /\ signer' = [signer EXCEPT ![Target(c)].reminderCount = @ + 1]
  /\ Goto(c, "event")
  /\ UNCHANGED <<request, trail, scheduled, queued, envVars>>

\* Slip: the event is written once for the call, whoever it reminded.
RecordForAll(c) ==
  /\ call[c].pc = "event"
  /\ trail' = [s \in Signers |-> [n |-> trail[s].n + 1, last |-> clock]]
  /\ call' = [call EXCEPT ![c].pc = "queue", ![c].due = @ \ {Target(c)}]
  /\ UNCHANGED <<request, signer, scheduled, queued, envVars>>

RecordReminder(c) ==
  /\ call[c].pc = "event"
  /\ trail' = [trail EXCEPT ![Target(c)] = [n |-> @.n + 1, last |-> clock]]
  /\ call' = [call EXCEPT ![c].pc = "queue", ![c].due = @ \ {Target(c)}]
  /\ UNCHANGED <<request, signer, scheduled, queued, envVars>>

(***************************************************************************)
(* The scheduler, the signers, and what the request goes through.          *)
(***************************************************************************)
(* onModuleInit: adding the repeatable job again changes nothing.          *)
Schedule ==
  /\ scheduled' = TRUE
  /\ UNCHANGED <<request, signer, trail, call, queued, envVars>>

(* sign by a signer whose turn it is, with advanceWorkflow.                *)
SignerSigns(s) ==
  /\ request = "OPEN" /\ Waiting(s) /\ Turn(s)
  /\ signer' = [t \in Signers |->
       IF t = s THEN [signer[t] EXCEPT !.status = "SIGNED"]
       ELSE IF t = s + 1 /\ signer[t].status = "PENDING"
       THEN [signer[t] EXCEPT !.status = "INVITED"] ELSE signer[t]]
  /\ request' = IF \A t \in Signers : signer'[t].status = "SIGNED"
                THEN "ENDED" ELSE request
  /\ UNCHANGED <<trail, queued, scheduled, call, envVars>>

(* decline: whatever status it writes still awaits signatures.             *)
SignerDeclines(s) ==
  /\ request = "OPEN" /\ Waiting(s) /\ Turn(s)
  /\ signer' = [signer EXCEPT ![s].status = "DECLINED"]
  /\ UNCHANGED <<request, trail, queued, scheduled, call, envVars>>

(* cancel, the deadline, and whoever finds it passed.                      *)
Ends ==
  /\ \/ request # "ENDED" /\ request' = "ENDED"
     \/ request = "OPEN" /\ request' = "OVERDUE"
  /\ UNCHANGED <<signer, trail, scheduled, call, queued, envVars>>

Tick ==
  /\ clock < MaxTime
  /\ clock' = clock + 1
  /\ queued' = [s \in Signers |-> [queued[s] EXCEPT !.inTick = 0]]
  /\ UNCHANGED <<request, signer, trail, scheduled, call, mode, smtp, faults>>

(* A replica stops between a mail and its count or event; elsewhere there  *)
(* is nothing to lose: an operator asks anew, and a sweep is due again.    *)
Crash(c) ==
  /\ call[c].pc \in {"count", "event"}
  /\ faults < MaxFaults
  /\ faults' = faults + 1
  /\ call' = [call EXCEPT ![c] = Idle]
  /\ UNCHANGED <<request, signer, trail, queued, scheduled, mode, smtp, clock>>

Dispatch(c) ==
  \/ ReadSigners(c) \/ ReadEvents(c)
  \/ QueueReminder(c) \/ CountReminder(c) \/ RecordReminder(c)

Outside ==
  \/ Schedule \/ Ends \/ Tick
  \/ \E s \in Signers : SignerSigns(s) \/ SignerDeclines(s)

Next ==
  \/ Outside
  \/ \E c \in Calls : Remind(c)
  \/ \E w \in Workers : StartSweep(w)
  \/ \E c \in Handlers : Dispatch(c) \/ Crash(c)

Spec == Init /\ [][Next]_vars
-----------------------------------------------------------------------------
(***************************************************************************)
(* Properties.                                                             *)
(***************************************************************************)
(* The evidence never claims a reminder that was not queued: the events    *)
(* are counted, and what is counted is queued, whoever dies in between and *)
(* however many callers remind at once.                                    *)
TrailBacked ==
  \A s \in Signers :
    /\ trail[s].n <= signer[s].reminderCount
    /\ signer[s].reminderCount <= queued[s].ever

(* "throttle: one per signer per 24h": the throttle is read before the     *)
(* mail is queued and the event written after it, by operators and sweeps  *)
(* alike, and a replica serves any number of operators between two awaits. *)
(* What holds is that nobody who starts after the event passes it: a       *)
(* signer is reminded in one tick at most once by each handler of those    *)
(* that are under way at once, and once for each crash between the mail    *)
(* and its event.                                                          *)
ThrottleOvershoot ==
  \A s \in Signers : queued[s].inTick <= Cardinality(Handlers) + faults

(* reminders.max bounds the automatic reminders of a signer, and is passed *)
(* by at most one for each other worker that read the count before it rose *)
(* and for each crash between the queueing and the counting.               *)
CapOvershoot ==
  \A s \in Signers :
    queued[s].automatic <= MaxReminders + (Cardinality(Workers) - 1) + faults
=============================================================================
