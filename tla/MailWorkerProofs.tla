-------------------------- MODULE MailWorkerProofs --------------------------
(***************************************************************************)
(* Proofs about MailWorker.                                                *)
(*                                                                         *)
(* A job is held by one worker at a time (HoldInv).  That a mail goes out  *)
(* once follows from what is left to do with a job once its mail has been  *)
(* taken (OnceInv), and how often at most when answers are lost, from the  *)
(* tries (TriesInv, SentInv); that a notification's row tells the truth,   *)
(* from what its worker stands before (NoticeInv).                         *)
(***************************************************************************)
EXTENDS MailWorker, TLAPS

NoticePc == {"record", "nobody", "delivered", "failed"}
Pc == {"idle", "send", "done", "thrown"} \cup NoticePc
JobState == {"absent", "waiting", "active", "completed", "failed"}
NoticeStatus == {"absent", "QUEUED", "SENT", "DELIVERED", "FAILED"}

TypeOK ==
  /\ job \in [Kinds -> [state : JobState, tries : Nat]]
  /\ worker \in [Workers -> [pc : Pc, kind : Kinds \cup {"none"}]]
  /\ mails \in [Kinds -> Nat]
  /\ doubtful \in [Kinds -> Nat]
  /\ notice \in [status : NoticeStatus, recipient : BOOLEAN, read : BOOLEAN]
  /\ smtp \in BOOLEAN
  /\ faults \in Nat

Holds(w, k) == worker[w].pc # "idle" /\ worker[w].kind = k

HoldInv ==
  /\ \A w \in Workers : worker[w].pc # "idle" =>
       worker[w].kind \in Kinds /\ job[worker[w].kind].state = "active"
  /\ \A v, w \in Workers :
       worker[v].pc # "idle" /\ Holds(w, worker[v].kind) => v = w
  /\ \A w \in Workers :
       worker[w].pc \in NoticePc => worker[w].kind = "notification"

(* A job is queued before anything is mailed, and a notification's row is  *)
(* written before its job.                                                 *)
QueueInv ==
  /\ \A k \in Kinds : job[k].state = "absent" => mails[k] = 0
  /\ notice.status = "absent" => job["notification"].state = "absent"

(* The mail of k is not sent again unless something fails.                 *)
Spent(k) ==
  \/ job[k].state \in {"completed", "failed"}
  \/ \E w \in Workers : Holds(w, k) /\ worker[w].pc \in {"delivered", "done"}

OnceInv ==
  \A k \in Kinds : mails[k] <= faults \/ (mails[k] = faults + 1 /\ Spent(k))

(* A job is tried again only while it has tries left.                      *)
TriesInv ==
  \A k \in Kinds :
    /\ job[k].tries <= MaxAttempts
    /\ job[k].state \in {"absent", "waiting", "active"} => job[k].tries < MaxAttempts

(* The present try of k has mailed what it was to mail.                    *)
Past(k) ==
  \E w \in Workers :
    Holds(w, k) /\ worker[w].pc \in {"delivered", "failed", "done", "thrown"}

(* A try sends one mail, whether or not its answer arrives.                *)
SentBy(k, n) == mails[k] + doubtful[k] <= job[k].tries + faults + n

SentInv == \A k \in Kinds : SentBy(k, 0) \/ (SentBy(k, 1) /\ Past(k))

(* What a notification's worker stands before, and what its row says when  *)
(* the worker is about to end the job.                                     *)
NoticeInv ==
  \A w \in Workers : Holds(w, "notification") =>
    /\ worker[w].pc = "nobody" => ~notice.recipient
    /\ worker[w].pc \in {"record", "send", "delivered", "failed"} => notice.recipient
    /\ smtp /\ worker[w].pc = "delivered" => mails["notification"] > 0
    /\ faults = 0 /\ worker[w].pc = "done" =>
         notice.status = IF notice.recipient THEN "DELIVERED" ELSE "FAILED"
    /\ faults = 0 /\ worker[w].pc = "thrown" => notice.status = "FAILED"

IInv ==
  /\ TypeOK /\ HoldInv /\ QueueInv
  /\ OnceInv /\ TriesInv /\ SentInv
  /\ NoticeInv /\ NoticeAgrees
-----------------------------------------------------------------------------
LEMMA Init_IInv == MailWorkerAssumption /\ MailInit => IInv
<1> SUFFICES ASSUME MailWorkerAssumption, MailInit PROVE IInv
  OBVIOUS
<1>1. TypeOK
  BY DEF MailInit, TypeOK, IdleWorker, NoNotice, Pc, NoticePc, JobState, NoticeStatus, Kinds
<1>2. HoldInv /\ NoticeInv
  BY DEF MailInit, HoldInv, NoticeInv, Holds, IdleWorker, NoticePc
<1>3. QueueInv /\ OnceInv /\ NoticeAgrees
  BY DEF MailInit, QueueInv, OnceInv, NoticeAgrees, NoNotice, Kinds
<1>4. TriesInv /\ SentInv
  BY DEF MailWorkerAssumption, MailInit, TriesInv, SentInv, SentBy, Kinds
<1> QED BY <1>1, <1>2, <1>3, <1>4 DEF IInv

-----------------------------------------------------------------------------
(***************************************************************************)
(* The steps, by what they do to jobs, workers and mails.                  *)
(***************************************************************************)
Moved(w) == \A v \in Workers : v # w => worker'[v] = worker[v]

(* A job that nobody has queued yet is.                                    *)
Queues ==
  \E k \in Kinds :
    /\ job[k].state = "absent" /\ job'[k].state = "waiting"
    /\ job'[k].tries = job[k].tries
    /\ \A x \in Kinds : x # k => job'[x] = job[x]
    /\ notice.status = "absent" => k # "notification"
    /\ UNCHANGED <<worker, mails, doubtful, notice, smtp, faults>>

(* A worker takes a job, or finds that it has become pointless.            *)
Starts(w) ==
  \E k \in Kinds :
    /\ worker[w].pc = "idle" /\ job[k].state = "waiting"
    /\ job'[k].tries = job[k].tries
    /\ \A x \in Kinds : x # k => job'[x] = job[x]
    /\ \/ /\ job'[k].state = "active"
          /\ worker'[w].kind = k
          /\ IF k = "notification"
             THEN worker'[w].pc = IF notice.recipient THEN "record" ELSE "nobody"
             ELSE worker'[w].pc = "send"
          /\ Moved(w)
       \/ /\ job'[k].state = "completed" /\ k # "notification"
          /\ worker'[w].pc = "idle" /\ Moved(w)
    /\ UNCHANGED <<mails, doubtful, notice, smtp, faults>>

(* The row of the notification is written.                                 *)
Records(w) ==
  /\ worker[w].pc \in NoticePc
  /\ worker'[w].kind = worker[w].kind
  /\ notice'.recipient = notice.recipient
  /\ \/ worker[w].pc = "nobody" /\ worker'[w].pc = "done" /\ notice'.status = "FAILED"
     \/ worker[w].pc = "record" /\ worker'[w].pc = "send" /\ notice'.status = "SENT"
     \/ /\ worker[w].pc = "delivered" /\ worker'[w].pc = "done"
        /\ notice'.status = "DELIVERED"
     \/ worker[w].pc = "failed" /\ worker'[w].pc = "thrown" /\ notice'.status = "FAILED"
  /\ Moved(w)
  /\ UNCHANGED <<job, mails, doubtful, smtp, faults>>

(* The transport answers, or its answer does not arrive.                                                  *)
Sends(w) ==
  LET k == worker[w].kind
  IN  /\ worker[w].pc = "send"
      /\ worker'[w].kind = k
      /\ \A x \in Kinds : x # k => mails'[x] = mails[x] /\ doubtful'[x] = doubtful[x]
      /\ \/ /\ mails'[k] = IF smtp THEN mails[k] + 1 ELSE mails[k]
            /\ worker'[w].pc = IF k = "notification" THEN "delivered" ELSE "done"
            /\ doubtful'[k] = doubtful[k]
         \/ /\ mails'[k] = mails[k]
            /\ doubtful'[k] \in {doubtful[k], doubtful[k] + 1}
            /\ worker'[w].pc = IF k = "notification" THEN "failed" ELSE "thrown"
      /\ Moved(w)
      /\ UNCHANGED <<job, notice, smtp, faults>>

(* The job ends, is retried, or is given back by a worker that died.       *)
Ends(w) ==
  LET k == worker[w].kind
  IN  /\ worker[w].pc # "idle" /\ worker'[w].pc = "idle"
      /\ \A x \in Kinds : x # k => job'[x] = job[x]
      /\ \/ /\ worker[w].pc = "done" /\ job'[k].state = "completed"
            /\ job'[k].tries = job[k].tries + 1 /\ faults' = faults
         \/ /\ worker[w].pc = "thrown" /\ job'[k].state \in {"waiting", "failed"}
            /\ job'[k].state = "waiting" => job'[k].tries < MaxAttempts
            /\ job'[k].tries = job[k].tries + 1 /\ faults' = faults
         \/ /\ job'[k].state = "waiting"
            /\ job'[k].tries = job[k].tries /\ faults' = faults + 1
      /\ Moved(w)
      /\ UNCHANGED <<mails, doubtful, notice, smtp>>

(* The database refuses a write.                                           *)
Fails(w) ==
  /\ worker[w].pc \in NoticePc
  /\ worker'[w].kind = worker[w].kind
  /\ \/ worker[w].pc \in {"record", "delivered"} /\ worker'[w].pc = "failed"
     \/ worker[w].pc \in {"nobody", "failed"} /\ worker'[w].pc = "thrown"
  /\ faults' = faults + 1
  /\ Moved(w)
  /\ UNCHANGED <<job, mails, doubtful, notice, smtp>>

(* Nothing of it: a notification's row is made, is read by its recipient,  *)
(* or a signer answers.                                                    *)
Elsewhere ==
  /\ notice.status = "absent" => job["notification"].state = "absent"
  /\ \/ notice'.status = notice.status /\ notice'.recipient = notice.recipient
     \/ notice.status = "absent" /\ notice'.status = "QUEUED"
  /\ UNCHANGED <<job, worker, mails, doubtful, smtp, faults>>

LEMMA Effects ==
  ASSUME TypeOK, HoldInv, QueueInv, [MailNext]_mailVars
  PROVE  /\ TypeOK'
         /\ \/ Elsewhere \/ Queues
            \/ \E w \in Workers :
                 Starts(w) \/ Records(w) \/ Sends(w) \/ Ends(w) \/ Fails(w)
<1> DEFINE Goal == /\ TypeOK'
                   /\ \/ Elsewhere \/ Queues
                      \/ \E w \in Workers :
                           Starts(w) \/ Records(w) \/ Sends(w) \/ Ends(w) \/ Fails(w)
<1>a. /\ job \in [Kinds -> [state : JobState, tries : Nat]]
      /\ worker \in [Workers -> [pc : Pc, kind : Kinds \cup {"none"}]]
      /\ mails \in [Kinds -> Nat] /\ doubtful \in [Kinds -> Nat]
      /\ notice \in [status : NoticeStatus, recipient : BOOLEAN, read : BOOLEAN]
      /\ "signing" \in Kinds /\ "completion" \in Kinds /\ "notification" \in Kinds
  BY DEF TypeOK, Kinds
<1>b. ASSUME NEW w \in Workers, NEW pc \in Pc, Proceed(w, pc)
      PROVE  /\ worker' \in [Workers -> [pc : Pc, kind : Kinds \cup {"none"}]]
             /\ worker'[w].pc = pc /\ worker'[w].kind = worker[w].kind
             /\ Moved(w)
  BY <1>a, <1>b DEF Proceed, Moved
<1>c. ASSUME NEW w \in Workers, NEW pc \in Pc, NEW k \in Kinds \cup {"none"},
             worker' = [worker EXCEPT ![w] = [pc |-> pc, kind |-> k]]
      PROVE  /\ worker' \in [Workers -> [pc : Pc, kind : Kinds \cup {"none"}]]
             /\ worker'[w].pc = pc /\ worker'[w].kind = k
             /\ Moved(w)
  BY <1>a, <1>c DEF Moved
<1>d. ASSUME NEW k \in Kinds, NEW state \in JobState,
             job' = [job EXCEPT ![k].state = state]
      PROVE  /\ job' \in [Kinds -> [state : JobState, tries : Nat]]
             /\ job'[k].state = state /\ job'[k].tries = job[k].tries
             /\ \A x \in Kinds : x # k => job'[x] = job[x]
  BY <1>a, <1>d
<1>e. \A w \in Workers : worker[w].pc # "idle" => worker[w].kind \in Kinds
  BY DEF HoldInv
<1>1. CASE UNCHANGED mailVars \/ CreateNotice \/ MarkRead \/ Answered
  <2>1. notice' \in [status : NoticeStatus, recipient : BOOLEAN, read : BOOLEAN]
    <3>1. CASE CreateNotice
      BY <3>1 DEF CreateNotice, NoticeStatus
    <3>2. CASE MarkRead
      BY <3>2, <1>a DEF MarkRead
    <3> QED BY <1>1, <1>a, <3>1, <3>2 DEF mailVars, Answered
  <2>3. TypeOK'
    BY <1>1, <2>1 DEF mailVars, CreateNotice, MarkRead, Answered, TypeOK
  <2>2. Elsewhere
    BY <1>1, <1>a DEF mailVars, CreateNotice, MarkRead, Answered, Elsewhere, QueueInv
  <2> QED BY <2>2, <2>3
<1>2. CASE QueueNotice \/ Completes
  <2>1. PICK k \in Kinds :
          /\ job[k].state = "absent" /\ job' = [job EXCEPT ![k].state = "waiting"]
          /\ notice.status = "absent" => k # "notification"
          /\ UNCHANGED <<worker, mails, doubtful, notice, smtp, faults>>
    BY <1>2, <1>a DEF QueueNotice, Completes
  <2>2. "waiting" \in JobState
    BY DEF JobState
  <2> QED BY <2>1, <2>2, <1>d DEF Queues, TypeOK
<1>3. ASSUME NEW w \in Workers, StartSigning(w) \/ StartCompletion(w) \/ StartNotice(w)
      PROVE  Goal
  <2>1. {"send", "record", "nobody"} \subseteq Pc
        /\ {"active", "completed"} \subseteq JobState
    BY DEF Pc, NoticePc, JobState
  <2>2. CASE StartSigning(w) /\ ~open
    <3>1. job' = [job EXCEPT !["signing"].state = "completed"]
      BY <2>2 DEF StartSigning
    <3>2. worker' = [worker EXCEPT ![w] = [pc |-> "idle", kind |-> "none"]]
      BY <2>2 DEF StartSigning, IdleWorker
    <3>3. /\ worker' \in [Workers -> [pc : Pc, kind : Kinds \cup {"none"}]]
          /\ worker'[w].pc = "idle" /\ Moved(w)
      BY <1>c, <3>2 DEF Pc
    <3> QED BY <2>1, <2>2, <3>1, <3>3, <1>a, <1>d DEF StartSigning, Starts, TypeOK
  <2>3. CASE ~(StartSigning(w) /\ ~open)
    <3>1. PICK k \in Kinds, pc \in {"send", "record", "nobody"} :
            /\ worker[w].pc = "idle" /\ job[k].state = "waiting"
            /\ job' = [job EXCEPT ![k].state = "active"]
            /\ worker' = [worker EXCEPT ![w] = [pc |-> pc, kind |-> k]]
            /\ pc = IF k = "notification"
                    THEN IF notice.recipient THEN "record" ELSE "nobody" ELSE "send"
            /\ UNCHANGED <<mails, doubtful, notice, smtp, faults>>
      BY <1>3, <1>a, <2>3 DEF StartSigning, StartCompletion, StartNotice
    <3>2. pc \in Pc /\ k \in Kinds \cup {"none"} /\ "active" \in JobState
      BY <2>1
    <3>3. /\ worker' \in [Workers -> [pc : Pc, kind : Kinds \cup {"none"}]]
          /\ worker'[w].pc = pc /\ worker'[w].kind = k /\ Moved(w)
      BY <3>1, <3>2, <1>c
    <3>4. /\ job' \in [Kinds -> [state : JobState, tries : Nat]]
          /\ job'[k].state = "active" /\ job'[k].tries = job[k].tries
          /\ \A x \in Kinds : x # k => job'[x] = job[x]
      BY <3>1, <3>2, <1>d
    <3>5. TypeOK'
      BY <3>1, <3>3, <3>4 DEF TypeOK
    <3>6. Starts(w)
      BY <3>1, <3>3, <3>4 DEF Starts
    <3> QED BY <3>5, <3>6
  <2> QED BY <2>2, <2>3
<1>4. ASSUME NEW w \in Workers, NEW pc \in NoticePc, NEW next \in Pc,
             NEW status \in NoticeStatus, Record(w, pc, status, next)
      PROVE  /\ TypeOK'
             /\ worker[w].pc = pc /\ worker'[w].pc = next
             /\ worker'[w].kind = worker[w].kind
             /\ notice'.recipient = notice.recipient /\ notice'.status = status
             /\ Moved(w) /\ UNCHANGED <<job, mails, doubtful, smtp, faults>>
  <2>1. /\ worker[w].pc = pc /\ Proceed(w, next)
        /\ notice' = [notice EXCEPT !.status = status]
        /\ UNCHANGED <<job, mails, doubtful, smtp, faults>>
    BY <1>4 DEF Record
  <2> QED BY <1>a, <1>b, <2>1 DEF TypeOK
<1>5. ASSUME NEW w \in Workers,
             RecordNobody(w) \/ RecordSent(w) \/ RecordDelivered(w) \/ RecordFailed(w)
      PROVE  Goal
  BY <1>4, <1>5 DEF RecordNobody, RecordSent, RecordDelivered, RecordFailed, Records,
     Pc, NoticePc, NoticeStatus
<1>6. ASSUME NEW w \in Workers, Send(w) PROVE Goal
  <2> PICK k \in Kinds : k = worker[w].kind
    BY <1>6, <1>e DEF Send
  <2>1. PICK pc \in {"delivered", "done", "failed", "thrown"} :
          /\ Proceed(w, pc)
          /\ \/ /\ mails' = IF smtp THEN [mails EXCEPT ![k] = @ + 1] ELSE mails
                /\ doubtful' = doubtful
                /\ pc = IF k = "notification" THEN "delivered" ELSE "done"
             \/ /\ mails' = mails
                /\ \/ doubtful' = doubtful
                   \/ doubtful' = [doubtful EXCEPT ![k] = @ + 1]
                /\ pc = IF k = "notification" THEN "failed" ELSE "thrown"
    BY <1>6 DEF Send
  <2>2. /\ worker[w].pc = "send" /\ UNCHANGED <<job, notice, smtp, faults>>
        /\ pc \in Pc
    BY <1>6 DEF Send, Pc, NoticePc
  <2>3. /\ worker' \in [Workers -> [pc : Pc, kind : Kinds \cup {"none"}]]
        /\ worker'[w].pc = pc /\ worker'[w].kind = k /\ Moved(w)
    BY <1>b, <2>1, <2>2
  <2>4. /\ mails' \in [Kinds -> Nat] /\ doubtful' \in [Kinds -> Nat]
        /\ \A x \in Kinds : x # k => mails'[x] = mails[x] /\ doubtful'[x] = doubtful[x]
    BY <1>a, <2>1
  <2>5. \/ /\ mails'[k] = IF smtp THEN mails[k] + 1 ELSE mails[k]
           /\ doubtful'[k] = doubtful[k]
           /\ pc = IF k = "notification" THEN "delivered" ELSE "done"
        \/ /\ mails'[k] = mails[k]
           /\ doubtful'[k] \in {doubtful[k], doubtful[k] + 1}
           /\ pc = IF k = "notification" THEN "failed" ELSE "thrown"
    BY <1>a, <2>1
  <2>6. TypeOK'
    BY <2>2, <2>3, <2>4 DEF TypeOK
  <2> QED BY <2>2, <2>3, <2>4, <2>5, <2>6 DEF Sends
<1>7. ASSUME NEW w \in Workers, Settle(w) \/ Stalls(w) PROVE Goal
  <2> PICK k \in Kinds : k = worker[w].kind
    BY <1>7, <1>e DEF Settle, Stalls
  <2>1. /\ worker' = [worker EXCEPT ![w] = [pc |-> "idle", kind |-> "none"]]
        /\ worker[w].pc # "idle" /\ UNCHANGED <<mails, doubtful, notice, smtp>>
    BY <1>7 DEF Settle, Stalls, IdleWorker
  <2>2. /\ job' \in [Kinds -> [state : JobState, tries : Nat]]
        /\ \A x \in Kinds : x # k => job'[x] = job[x]
        /\ faults' \in Nat
        /\ \/ /\ worker[w].pc = "done" /\ job'[k].state = "completed"
              /\ job'[k].tries = job[k].tries + 1 /\ faults' = faults
           \/ /\ worker[w].pc = "thrown" /\ job'[k].state \in {"waiting", "failed"}
              /\ job'[k].state = "waiting" => job'[k].tries < MaxAttempts
              /\ job'[k].tries = job[k].tries + 1 /\ faults' = faults
           \/ /\ job'[k].state = "waiting"
              /\ job'[k].tries = job[k].tries /\ faults' = faults + 1
    <3>1. CASE Settle(w)
      <4>1. PICK state \in {"completed", "waiting", "failed"} :
              /\ job' = [job EXCEPT ![k] = [tries |-> job[k].tries + 1, state |-> state]]
              /\ \/ worker[w].pc = "done" /\ state = "completed"
                 \/ /\ worker[w].pc = "thrown" /\ state \in {"waiting", "failed"}
                    /\ state = "waiting" => job[k].tries + 1 < MaxAttempts
        BY <3>1 DEF Settle
      <4>2. faults' = faults /\ faults \in Nat
        BY <3>1 DEF Settle, TypeOK
      <4> QED BY <1>a, <4>1, <4>2 DEF JobState
    <3>2. CASE Stalls(w)
      <4>1. job' = [job EXCEPT ![k].state = "waiting"] /\ faults' = faults + 1
        BY <3>2 DEF Stalls
      <4> QED BY <1>a, <4>1 DEF JobState, TypeOK
    <3> QED BY <1>7, <3>1, <3>2
  <2>3. "idle" \in Pc
    BY DEF Pc
  <2> QED BY <1>c, <2>1, <2>2, <2>3 DEF Ends, TypeOK
<1>8. ASSUME NEW w \in Workers, WriteFails(w) PROVE Goal
  <2>1. PICK pc \in {"failed", "thrown"} :
          /\ Proceed(w, pc)
          /\ \/ worker[w].pc \in {"record", "delivered"} /\ pc = "failed"
             \/ worker[w].pc \in {"nobody", "failed"} /\ pc = "thrown"
    BY <1>8 DEF WriteFails
  <2>2. pc \in Pc /\ worker[w].pc \in NoticePc
    BY <2>1 DEF Pc, NoticePc
  <2> QED BY <1>8, <1>b, <2>1, <2>2 DEF WriteFails, Fails, TypeOK
<1> QED BY <1>1, <1>2, <1>3, <1>5, <1>6, <1>7, <1>8 DEF MailNext, Work

-----------------------------------------------------------------------------
LEMMA HoldStep ==
  ASSUME TypeOK, HoldInv, QueueInv, [MailNext]_mailVars
  PROVE  HoldInv'
<1>a. /\ \A w \in Workers : worker[w].pc # "idle" =>
           worker[w].kind \in Kinds /\ job[worker[w].kind].state = "active"
      /\ \A v, w \in Workers :
           worker[v].pc # "idle" /\ Holds(w, worker[v].kind) => v = w
      /\ \A w \in Workers :
           worker[w].pc \in NoticePc => worker[w].kind = "notification"
  BY DEF HoldInv
<1>1. CASE Elsewhere \/ Queues
  <2>1. /\ worker' = worker
        /\ \A k \in Kinds : job[k].state = "active" => job'[k] = job[k]
    BY <1>1 DEF Elsewhere, Queues
  <2> QED BY <1>a, <2>1 DEF HoldInv, Holds
<1>2. ASSUME NEW w \in Workers, Starts(w) PROVE HoldInv'
  <2> PICK k \in Kinds :
        /\ worker[w].pc = "idle" /\ job[k].state = "waiting"
        /\ \A x \in Kinds : x # k => job'[x] = job[x]
        /\ \/ /\ job'[k].state = "active"
              /\ worker'[w].kind = k
              /\ worker'[w].pc \in {"record", "nobody"} => k = "notification"
              /\ worker'[w].pc \in {"record", "nobody", "send"}
              /\ Moved(w)
           \/ worker'[w].pc = "idle" /\ Moved(w)
    BY <1>2 DEF Starts
  <2>1. \A v \in Workers : worker[v].pc # "idle" => worker[v].kind # k
    BY <1>a
  <2> QED BY <1>a, <2>1 DEF HoldInv, Holds, Moved, NoticePc
<1>3. ASSUME NEW w \in Workers, Records(w) \/ Sends(w) \/ Fails(w) PROVE HoldInv'
  <2>1. /\ worker[w].pc # "idle" /\ worker'[w].pc # "idle"
        /\ worker'[w].kind = worker[w].kind
        /\ worker'[w].pc \in NoticePc => worker[w].kind = "notification"
        /\ Moved(w) /\ job' = job
    BY <1>3, <1>a DEF Records, Sends, Fails, NoticePc
  <2> QED BY <1>a, <2>1 DEF HoldInv, Holds, Moved
<1>4. ASSUME NEW w \in Workers, Ends(w) PROVE HoldInv'
  <2>1. /\ worker[w].pc # "idle" /\ worker'[w].pc = "idle" /\ Moved(w)
        /\ \A x \in Kinds : x # worker[w].kind => job'[x] = job[x]
    BY <1>4 DEF Ends
  <2> QED BY <1>a, <2>1 DEF HoldInv, Holds, Moved, NoticePc
<1> QED BY <1>1, <1>2, <1>3, <1>4, Effects

LEMMA QueueStep ==
  ASSUME TypeOK, HoldInv, QueueInv, [MailNext]_mailVars
  PROVE  QueueInv'
<1>a. \A w \in Workers : worker[w].pc # "idle" =>
        worker[w].kind \in Kinds /\ job[worker[w].kind].state = "active"
  BY DEF HoldInv
<1>b. "notification" \in Kinds
  BY DEF Kinds
<1>1. CASE Elsewhere \/ Queues
  BY <1>1, <1>b DEF Elsewhere, Queues, QueueInv
<1>2. ASSUME NEW w \in Workers, Starts(w) PROVE QueueInv'
  BY <1>2, <1>b DEF Starts, QueueInv
<1>3. ASSUME NEW w \in Workers, Records(w) \/ Sends(w) \/ Fails(w) PROVE QueueInv'
  <2>1. CASE Records(w)
    BY <1>a, <2>1 DEF Records, QueueInv, HoldInv, NoticePc
  <2>2. CASE Sends(w) \/ Fails(w)
    BY <1>a, <2>2 DEF Sends, Fails, QueueInv, NoticePc
  <2> QED BY <1>3, <2>1, <2>2
<1>4. ASSUME NEW w \in Workers, Ends(w) PROVE QueueInv'
  BY <1>4, <1>a, <1>b DEF Ends, QueueInv
<1> QED BY <1>1, <1>2, <1>3, <1>4, Effects

LEMMA OnceStep ==
  ASSUME TypeOK, HoldInv, QueueInv, OnceInv, [MailNext]_mailVars
  PROVE  OnceInv'
<1>a. /\ \A w \in Workers : worker[w].pc # "idle" =>
           worker[w].kind \in Kinds /\ job[worker[w].kind].state = "active"
      /\ \A v, w \in Workers :
           worker[v].pc # "idle" /\ Holds(w, worker[v].kind) => v = w
      /\ faults \in Nat /\ mails \in [Kinds -> Nat]
  BY DEF HoldInv, TypeOK
<1>0. ASSUME faults' = faults + 1, UNCHANGED mails PROVE OnceInv'
  BY <1>0, <1>a DEF OnceInv
<1>1. CASE Elsewhere \/ Queues
  <2>1. /\ UNCHANGED <<worker, mails, faults>>
        /\ \A k \in Kinds : job'[k] = job[k] \/ mails[k] = 0
    BY <1>1 DEF Elsewhere, Queues, QueueInv
  <2> QED BY <1>a, <2>1 DEF OnceInv, Spent, Holds
<1>2. ASSUME NEW w \in Workers, Starts(w) PROVE OnceInv'
  <2> PICK k \in Kinds :
        /\ worker[w].pc = "idle" /\ job[k].state = "waiting"
        /\ \A x \in Kinds : x # k => job'[x] = job[x]
        /\ Moved(w) /\ UNCHANGED <<mails, faults>>
    BY <1>2 DEF Starts
  <2>1. ~Spent(k)
    BY <1>a DEF Spent, Holds
  <2>2. ASSUME NEW x \in Kinds, x # k, Spent(x) PROVE Spent(x)'
    BY <2>2 DEF Spent, Holds, Moved
  <2> QED BY <2>1, <2>2 DEF OnceInv
<1>3. ASSUME NEW w \in Workers, Records(w) \/ Sends(w) PROVE OnceInv'
  <2> PICK k \in Kinds : k = worker[w].kind
    BY <1>3, <1>a DEF Records, Sends, NoticePc
  <2>1. /\ worker[w].pc # "idle" /\ worker'[w].pc # "idle"
        /\ worker'[w].kind = k /\ Moved(w) /\ UNCHANGED <<job, faults>>
        /\ \A x \in Kinds : x # k => mails'[x] = mails[x]
    BY <1>3 DEF Records, Sends, NoticePc
  <2>2. /\ job[k].state = "active"
        /\ \A v \in Workers : Holds(v, k) => v = w
    BY <1>a, <2>1
  <2>3. ASSUME NEW x \in Kinds, x # k, Spent(x) PROVE Spent(x)'
    BY <2>1, <2>3 DEF Spent, Holds, Moved
  <2>4. CASE Sends(w)
    <3>1. ~Spent(k)
      BY <2>2, <2>4 DEF Spent, Sends
    <3>2. mails[k] <= faults
      BY <3>1 DEF OnceInv
    <3>3. \/ mails'[k] = mails[k]
          \/ mails'[k] = mails[k] + 1 /\ worker'[w].pc \in {"delivered", "done"}
      BY <2>4 DEF Sends
    <3>4. worker'[w].pc \in {"delivered", "done"} => Spent(k)'
      BY <2>1 DEF Spent, Holds
    <3>5. mails'[k] <= faults \/ (mails'[k] = faults + 1 /\ Spent(k)')
      BY <1>a, <3>2, <3>3, <3>4
    <3> QED BY <2>1, <2>3, <3>5 DEF OnceInv
  <2>5. CASE Records(w)
    <3>1. Spent(k) => worker[w].pc = "delivered"
      BY <2>2, <2>5 DEF Spent, Records, NoticePc
    <3>2. worker[w].pc = "delivered" => worker'[w].pc = "done"
      BY <2>5 DEF Records
    <3>3. Spent(k) => Spent(k)'
      BY <2>1, <3>1, <3>2 DEF Spent, Holds
    <3>4. UNCHANGED mails
      BY <2>5 DEF Records
    <3> QED BY <2>1, <2>3, <3>3, <3>4 DEF OnceInv
  <2> QED BY <1>3, <2>4, <2>5
<1>4. ASSUME NEW w \in Workers, Ends(w) PROVE OnceInv'
  <2> PICK k \in Kinds : k = worker[w].kind
    BY <1>4, <1>a DEF Ends
  <2>1. /\ worker[w].pc # "idle" /\ Moved(w) /\ UNCHANGED mails
        /\ worker'[w].pc = "idle"
        /\ \A x \in Kinds : x # k => job'[x] = job[x]
        /\ \/ worker[w].pc = "done" /\ job'[k].state = "completed" /\ faults' = faults
           \/ worker[w].pc = "thrown" /\ faults' = faults
           \/ faults' = faults + 1
    BY <1>4 DEF Ends
  <2>2. CASE faults' = faults
    <3>1. /\ job[k].state = "active"
          /\ \A v \in Workers : Holds(v, k) => v = w
      BY <1>a, <2>1
    <3>2. worker[w].pc = "thrown" => ~Spent(k)
      BY <3>1 DEF Spent
    <3>3. worker[w].pc = "thrown" \/ Spent(k)'
      BY <1>a, <2>1, <2>2 DEF Spent
    <3>4. ASSUME NEW x \in Kinds, x # k, Spent(x) PROVE Spent(x)'
      BY <2>1, <3>4 DEF Spent, Holds, Moved
    <3> QED BY <2>1, <2>2, <3>2, <3>3, <3>4 DEF OnceInv
  <2> QED BY <1>0, <2>1, <2>2
<1>5. ASSUME NEW w \in Workers, Fails(w) PROVE OnceInv'
  BY <1>0, <1>5 DEF Fails
<1> QED BY <1>1, <1>2, <1>3, <1>4, <1>5, Effects

LEMMA TriesStep ==
  ASSUME MailWorkerAssumption,
         TypeOK, HoldInv, QueueInv, TriesInv, [MailNext]_mailVars
  PROVE  TriesInv'
<1>a. /\ \A w \in Workers : worker[w].pc # "idle" =>
           worker[w].kind \in Kinds /\ job[worker[w].kind].state = "active"
      /\ job \in [Kinds -> [state : JobState, tries : Nat]]
  BY DEF HoldInv, TypeOK
<1>1. CASE Elsewhere
  BY <1>1 DEF Elsewhere, TriesInv
<1>2. CASE Queues
  BY <1>2 DEF Queues, TriesInv
<1>3. ASSUME NEW w \in Workers, Starts(w) PROVE TriesInv'
  BY <1>3 DEF Starts, TriesInv
<1>4. ASSUME NEW w \in Workers, Records(w) \/ Sends(w) \/ Fails(w) PROVE TriesInv'
  <2>1. job' = job
    BY <1>4 DEF Records, Sends, Fails
  <2> QED BY <2>1 DEF TriesInv
<1>5. ASSUME NEW w \in Workers, Ends(w) PROVE TriesInv'
  <2> PICK k \in Kinds : k = worker[w].kind
    BY <1>5, <1>a DEF Ends
  <2>1. job[k].state = "active" /\ job[k].tries < MaxAttempts /\ job[k].tries \in Nat
    BY <1>5, <1>a DEF Ends, TriesInv
  <2>2. /\ \A x \in Kinds : x # k => job'[x] = job[x]
        /\ \/ /\ job'[k].state \in {"completed", "waiting", "failed"}
              /\ job'[k].state = "waiting" => job'[k].tries < MaxAttempts
              /\ job'[k].tries = job[k].tries + 1
           \/ job'[k].state = "waiting" /\ job'[k].tries = job[k].tries
    BY <1>5 DEF Ends
  <2>3. job'[k].tries <= MaxAttempts
    BY <2>1, <2>2 DEF MailWorkerAssumption
  <2> QED BY <2>1, <2>2, <2>3 DEF TriesInv
<1> QED BY <1>1, <1>2, <1>3, <1>4, <1>5, Effects

LEMMA SentStep ==
  ASSUME TypeOK, HoldInv, QueueInv, SentInv, [MailNext]_mailVars
  PROVE  SentInv'
<1>a. /\ \A w \in Workers : worker[w].pc # "idle" =>
           worker[w].kind \in Kinds /\ job[worker[w].kind].state = "active"
      /\ \A v, w \in Workers :
           worker[v].pc # "idle" /\ Holds(w, worker[v].kind) => v = w
      /\ faults \in Nat /\ mails \in [Kinds -> Nat] /\ doubtful \in [Kinds -> Nat]
      /\ job \in [Kinds -> [state : JobState, tries : Nat]]
  BY DEF HoldInv, TypeOK
<1>b. \A k \in Kinds : SentBy(k, 0) => SentBy(k, 1)
  BY <1>a DEF SentBy
(* The jobs whose count and whose worker a step leaves alone.              *)
<1> DEFINE Kept(x) ==
             /\ mails'[x] = mails[x] /\ doubtful'[x] = doubtful[x]
             /\ job'[x].tries = job[x].tries
<1>c. ASSUME NEW x \in Kinds, Kept(x), faults' = faults, Past(x) => Past(x)'
      PROVE  SentBy(x, 0)' \/ (SentBy(x, 1)' /\ Past(x)')
  BY <1>c DEF SentInv, SentBy
<1>d. ASSUME NEW x \in Kinds, Kept(x), faults' = faults + 1
      PROVE  SentBy(x, 0)'
  <2>1. SentBy(x, 1)
    BY <1>b DEF SentInv
  <2> QED BY <1>a, <1>d, <2>1 DEF SentBy
<1>1. CASE Elsewhere \/ Queues
  <2>1. worker' = worker /\ faults' = faults /\ \A x \in Kinds : Kept(x)
    BY <1>1 DEF Elsewhere, Queues
  <2>2. \A x \in Kinds : Past(x) => Past(x)'
    BY <2>1 DEF Past, Holds
  <2> QED BY <1>c, <2>1, <2>2 DEF SentInv
<1>2. ASSUME NEW w \in Workers, Starts(w) PROVE SentInv'
  <2>1. /\ worker[w].pc = "idle" /\ Moved(w) /\ faults' = faults
        /\ \A x \in Kinds : Kept(x)
    BY <1>2 DEF Starts
  <2>2. \A x \in Kinds : Past(x) => Past(x)'
    BY <2>1 DEF Past, Holds, Moved
  <2> QED BY <1>c, <2>1, <2>2 DEF SentInv
<1>3. ASSUME NEW w \in Workers, Records(w) PROVE SentInv'
  <2>1. /\ Moved(w) /\ faults' = faults /\ worker'[w].kind = worker[w].kind
        /\ worker[w].pc \in {"delivered", "failed"} =>
             worker'[w].pc \in {"done", "thrown"}
        /\ worker[w].pc \in NoticePc
        /\ \A x \in Kinds : Kept(x)
    BY <1>3 DEF Records
  <2>2. \A x \in Kinds : Past(x) => Past(x)'
    BY <2>1 DEF Past, Holds, Moved, NoticePc
  <2> QED BY <1>c, <2>1, <2>2 DEF SentInv
<1>4. ASSUME NEW w \in Workers, Sends(w) PROVE SentInv'
  <2> PICK k \in Kinds : k = worker[w].kind
    BY <1>4, <1>a DEF Sends
  <2>1. /\ worker[w].pc = "send" /\ worker'[w].kind = k /\ Moved(w)
        /\ faults' = faults /\ job' = job
        /\ worker'[w].pc \in {"delivered", "failed", "done", "thrown"}
        /\ \A x \in Kinds : x # k => Kept(x)
    BY <1>4 DEF Sends
  <2>2. \A x \in Kinds : x # k /\ Past(x) => Past(x)'
    BY <2>1 DEF Past, Holds, Moved
  <2>3. SentBy(k, 0)
    <3>1. ~Past(k)
      BY <1>a, <2>1 DEF Past, Holds
    <3> QED BY <3>1 DEF SentInv
  <2>4. /\ mails'[k] \in Nat /\ doubtful'[k] \in Nat
        /\ mails'[k] + doubtful'[k] <= mails[k] + doubtful[k] + 1
    BY <1>4, <1>a DEF Sends
  <2>5. SentBy(k, 1)'
    BY <1>a, <2>1, <2>3, <2>4 DEF SentBy
  <2>6. Past(k)'
    BY <2>1 DEF Past, Holds
  <2>7. \A x \in Kinds : x # k => SentBy(x, 0)' \/ (SentBy(x, 1)' /\ Past(x)')
    BY <1>c, <2>1, <2>2
  <2> QED BY <2>5, <2>6, <2>7 DEF SentInv
<1>5. ASSUME NEW w \in Workers, Ends(w) PROVE SentInv'
  <2> PICK k \in Kinds : k = worker[w].kind
    BY <1>5, <1>a DEF Ends
  <2>1. /\ Moved(w) /\ UNCHANGED <<mails, doubtful>>
        /\ \A x \in Kinds : x # k => Kept(x)
        /\ \/ job'[k].tries = job[k].tries + 1 /\ faults' = faults
           \/ Kept(k) /\ faults' = faults + 1
    BY <1>5 DEF Ends
  <2>2. CASE faults' = faults + 1
    <3>1. \A x \in Kinds : Kept(x)
      BY <1>a, <2>1, <2>2
    <3> QED BY <1>d, <2>2, <3>1 DEF SentInv
  <2>3. CASE job'[k].tries = job[k].tries + 1 /\ faults' = faults
    <3>1. SentBy(k, 1)
      BY <1>b DEF SentInv
    <3>2. SentBy(k, 0)'
      BY <1>a, <2>1, <2>3, <3>1 DEF SentBy
    <3>3. \A x \in Kinds : x # k /\ Past(x) => Past(x)'
      BY <2>1 DEF Past, Holds, Moved
    <3>4. \A x \in Kinds : x # k => SentBy(x, 0)' \/ (SentBy(x, 1)' /\ Past(x)')
      BY <1>c, <2>1, <2>3, <3>3
    <3> QED BY <3>2, <3>4 DEF SentInv
  <2> QED BY <2>1, <2>2, <2>3
<1>6. ASSUME NEW w \in Workers, Fails(w) PROVE SentInv'
  <2>1. faults' = faults + 1 /\ \A x \in Kinds : Kept(x)
    BY <1>6 DEF Fails
  <2> QED BY <1>d, <2>1 DEF SentInv
<1> QED BY <1>1, <1>2, <1>3, <1>4, <1>5, <1>6, Effects

LEMMA NoticeStep ==
  ASSUME TypeOK, HoldInv, QueueInv, NoticeInv, NoticeAgrees, [MailNext]_mailVars
  PROVE  NoticeInv' /\ NoticeAgrees'
<1> DEFINE n == "notification"
           Settled == job[n].state \in {"completed", "failed"} /\ faults = 0 =>
                        notice.status = IF job[n].state = "completed"
                                           /\ notice.recipient
                                        THEN "DELIVERED" ELSE "FAILED"
           Taken == smtp /\ notice.status = "DELIVERED" => mails[n] > 0
<1>a. /\ \A w \in Workers : worker[w].pc # "idle" =>
           worker[w].kind \in Kinds /\ job[worker[w].kind].state = "active"
      /\ \A v, w \in Workers :
           worker[v].pc # "idle" /\ Holds(w, worker[v].kind) => v = w
      /\ faults \in Nat /\ mails \in [Kinds -> Nat] /\ n \in Kinds
      /\ \A w \in Workers :
           worker[w].pc \in NoticePc => worker[w].kind = n
  BY DEF HoldInv, TypeOK, Kinds
<1>b. NoticeAgrees <=> Taken /\ Settled
  BY DEF NoticeAgrees
<1>c. NoticeAgrees' <=> Taken' /\ Settled'
  BY DEF NoticeAgrees
<1>1. CASE Elsewhere
  BY <1>1, <1>a, <1>b, <1>c DEF Elsewhere, NoticeInv, Holds
<1>2. CASE Queues
  <2>1. /\ UNCHANGED <<worker, mails, notice, smtp, faults>>
        /\ job'[n] = job[n] \/ job'[n].state = "waiting"
    BY <1>2, <1>a DEF Queues
  <2> QED BY <2>1, <1>b, <1>c DEF NoticeInv, Holds
<1>3. ASSUME NEW w \in Workers, Starts(w) PROVE NoticeInv' /\ NoticeAgrees'
  <2> PICK k \in Kinds :
        /\ worker[w].pc = "idle" /\ job[k].state = "waiting"
        /\ \A x \in Kinds : x # k => job'[x] = job[x]
        /\ \/ /\ job'[k].state = "active"
              /\ worker'[w].kind = k
              /\ IF k = "notification"
                 THEN worker'[w].pc = IF notice.recipient THEN "record" ELSE "nobody"
                 ELSE worker'[w].pc = "send"
              /\ Moved(w)
           \/ /\ job'[k].state = "completed" /\ k # "notification"
              /\ worker'[w].pc = "idle" /\ Moved(w)
        /\ UNCHANGED <<mails, notice, smtp, faults>>
    BY <1>3 DEF Starts
  <2>1. NoticeAgrees'
    BY <1>a, <1>b, <1>c
  <2>2. NoticeInv'
    BY DEF NoticeInv, Holds, Moved
  <2> QED BY <2>1, <2>2
<1>4. ASSUME NEW w \in Workers, worker[w].pc # "idle", worker[w].kind = n
      PROVE  job[n].state = "active" /\ \A v \in Workers : Holds(v, n) => v = w
  BY <1>a, <1>4
<1>5. ASSUME NEW w \in Workers, Records(w) PROVE NoticeInv' /\ NoticeAgrees'
  <2>1. /\ job[n].state = "active" /\ \A v \in Workers : Holds(v, n) => v = w
        /\ Holds(w, n)
    BY <1>4, <1>5, <1>a DEF Records, NoticePc, Holds
  <2>2. UNCHANGED <<job, mails, smtp, faults>> /\ Moved(w)
    BY <1>5 DEF Records
  <2>3. NoticeAgrees'
    BY <1>5, <1>b, <1>c, <2>1, <2>2 DEF Records, NoticeInv
  <2>4. NoticeInv'
    BY <1>5, <2>1, <2>2 DEF Records, NoticeInv, Holds, Moved
  <2> QED BY <2>3, <2>4
<1>6. ASSUME NEW w \in Workers, Sends(w) PROVE NoticeInv' /\ NoticeAgrees'
  <2>1. /\ UNCHANGED <<job, notice, smtp, faults>> /\ Moved(w)
        /\ worker[w].pc = "send" /\ worker'[w].kind = worker[w].kind
        /\ mails'[n] = mails[n] \/ mails'[n] = mails[n] + 1
    BY <1>6, <1>a DEF Sends
  <2>2. NoticeAgrees'
    BY <1>a, <1>b, <1>c, <2>1
  <2>3. CASE worker[w].kind = n
    <3>1. \A v \in Workers : Holds(v, n) => v = w
      BY <1>4, <2>1, <2>3
    <3>2. /\ worker'[w].pc \in {"delivered", "failed"}
          /\ smtp /\ worker'[w].pc = "delivered" => mails'[n] > 0
          /\ notice.recipient
      BY <1>6, <1>a, <2>1, <2>3 DEF Sends, NoticeInv, Holds
    <3> QED BY <2>1, <2>2, <3>1, <3>2 DEF NoticeInv, Holds, Moved
  <2>4. CASE worker[w].kind # n
    <3>1. mails'[n] = mails[n]
      BY <1>6, <1>a, <2>4 DEF Sends
    <3> QED BY <2>1, <2>2, <2>4, <3>1 DEF NoticeInv, Holds, Moved
  <2> QED BY <2>3, <2>4
<1>7. ASSUME NEW w \in Workers, Ends(w) PROVE NoticeInv' /\ NoticeAgrees'
  <2> PICK k \in Kinds : k = worker[w].kind
    BY <1>7, <1>a DEF Ends
  <2>1. /\ worker[w].pc # "idle" /\ worker'[w].pc = "idle" /\ Moved(w)
        /\ UNCHANGED <<mails, notice, smtp>>
        /\ \A x \in Kinds : x # k => job'[x] = job[x]
        /\ \/ worker[w].pc = "done" /\ job'[k].state = "completed" /\ faults' = faults
           \/ /\ worker[w].pc = "thrown" /\ job'[k].state \in {"waiting", "failed"}
              /\ faults' = faults
           \/ job'[k].state = "waiting" /\ faults' = faults + 1
    BY <1>7 DEF Ends
  <2>2. Settled'
    <3>1. CASE k = n
      BY <1>a, <2>1, <3>1 DEF NoticeInv, Holds
    <3>2. CASE k # n
      BY <1>a, <1>b, <2>1, <3>2
    <3> QED BY <3>1, <3>2
  <2>3. Taken'
    BY <1>b, <2>1
  <2>4. NoticeInv'
    BY <1>a, <2>1 DEF NoticeInv, Holds, Moved
  <2> QED BY <1>c, <2>2, <2>3, <2>4
<1>8. ASSUME NEW w \in Workers, Fails(w) PROVE NoticeInv' /\ NoticeAgrees'
  <2>1. /\ UNCHANGED <<job, mails, notice, smtp>> /\ Moved(w) /\ faults' = faults + 1
        /\ worker[w].pc \in NoticePc /\ worker'[w].kind = worker[w].kind
        /\ worker[w].kind = n
        /\ \/ worker[w].pc \in {"record", "delivered"} /\ worker'[w].pc = "failed"
           \/ worker[w].pc \in {"nobody", "failed"} /\ worker'[w].pc = "thrown"
    BY <1>8, <1>a DEF Fails
  <2>2. NoticeAgrees'
    BY <1>a, <1>b, <1>c, <2>1
  <2>3. NoticeInv'
    BY <1>a, <2>1 DEF NoticeInv, Holds, Moved, NoticePc
  <2> QED BY <2>2, <2>3
<1> QED BY <1>1, <1>2, <1>3, <1>5, <1>6, <1>7, <1>8, Effects

-----------------------------------------------------------------------------
LEMMA Invariance == ASSUME MailWorkerAssumption PROVE MailSpec => []IInv
<1>1. IInv /\ [MailNext]_mailVars => IInv'
  BY Effects, HoldStep, QueueStep, OnceStep, TriesStep, SentStep, NoticeStep DEF IInv
<1> QED BY Init_IInv, <1>1, PTL DEF MailSpec

(* A mail the transport confirmed is sent once, and once more at most for  *)
(* every crash or refused write; and with those whose confirmation was     *)
(* lost no mail goes out more often than the queue tries, with any number  *)
(* of workers and tries.                                                   *)
THEOREM SentAtMostOnce ==
  ASSUME MailWorkerAssumption PROVE MailSpec => []MailedOnce
<1>1. IInv => MailedOnce
  <2> SUFFICES ASSUME IInv, NEW k \in Kinds
               PROVE  mails[k] <= 1 + faults /\ mails[k] + doubtful[k] <= MaxAttempts + faults
    BY DEF MailedOnce
  <2>1. /\ mails[k] \in Nat /\ doubtful[k] \in Nat /\ faults \in Nat
        /\ job[k].tries \in Nat /\ MaxAttempts \in Nat
    BY DEF IInv, TypeOK, MailWorkerAssumption
  <2>2. mails[k] <= 1 + faults
    BY <2>1 DEF IInv, OnceInv
  <2>3. SentBy(k, 0) \/ (SentBy(k, 1) /\ job[k].tries < MaxAttempts)
    BY DEF IInv, SentInv, Past, Holds, HoldInv, TriesInv
  <2>4. job[k].tries <= MaxAttempts
    BY DEF IInv, TriesInv
  <2> QED BY <2>1, <2>2, <2>3, <2>4 DEF SentBy
<1> QED BY <1>1, Invariance, PTL

(* Where there is a transport, a notification says DELIVERED only of a     *)
(* mail that it confirmed; and what the queue has finished with, nothing   *)
(* having failed, is DELIVERED or FAILED as its job ended.                 *)
THEOREM NoticeIsTrue ==
  ASSUME MailWorkerAssumption PROVE MailSpec => []NoticeAgrees
<1>1. IInv => NoticeAgrees
  BY DEF IInv
<1> QED BY <1>1, Invariance, PTL
=============================================================================
