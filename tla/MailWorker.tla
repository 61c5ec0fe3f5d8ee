----------------------------- MODULE MailWorker -----------------------------
(***************************************************************************)
(* The mails that are queued and what becomes of them: SigningProcessor    *)
(* (invitations and reminders, the completion mail), NotificationsService  *)
(* with NotificationProcessor, and EmailService.send under both.           *)
(*                                                                         *)
(* One job of each kind; jobs are retried by the queue and taken by any of *)
(* its workers.  A worker reads the rows, then sends, then returns; a      *)
(* notification's row is written before and after the sending.             *)
(*                                                                         *)
(* Left out: what a mail says, branding (its lookup never fails the mail), *)
(* and the choice of TLS options.                                          *)
(***************************************************************************)
EXTENDS Transport, Integers, FiniteSets

CONSTANT
  MaxAttempts   \* tries of a job before the queue gives up

MailWorkerAssumption == MaxAttempts \in Nat \ {0} /\ MaxFaults \in Nat

VARIABLES
  job,        \* the job of each kind
  worker,     \* what each worker is doing
  mails,      \* mails of each kind the transport took, and said so
  doubtful,   \* those it took without its answer arriving
  notice,     \* the Notification row
  open,       \* the signer has not answered and the request is not cancelled
  allSigned   \* every signer has signed

mailVars == <<job, worker, mails, doubtful, notice, open, allSigned, smtp, faults>>

Kinds == {"signing", "completion", "notification"}
IdleWorker == [pc |-> "idle", kind |-> "none"]
NoNotice == [status |-> "absent", recipient |-> FALSE, read |-> FALSE]

MailInit ==
  /\ job = [k \in Kinds |-> [state |-> IF k = "signing" THEN "waiting" ELSE "absent",
                             tries |-> 0]]
  /\ worker = [w \in Workers |-> IdleWorker]
  /\ mails = [k \in Kinds |-> 0]
  /\ doubtful = [k \in Kinds |-> 0]
  /\ notice = NoNotice
  /\ open = TRUE
  /\ allSigned = FALSE
  /\ smtp \in BOOLEAN
  /\ faults = 0

Proceed(w, pc) == worker' = [worker EXCEPT ![w].pc = pc]

(***************************************************************************)
(* Who queues them.                                                        *)
(***************************************************************************)
(* NotificationsService.create: the row, then its job.                     *)
CreateNotice ==
  /\ notice.status = "absent"
  /\ \E recipient \in BOOLEAN :
       notice' = [status |-> "QUEUED", recipient |-> recipient, read |-> FALSE]
  /\ UNCHANGED <<job, worker, mails, doubtful, open, allSigned, smtp, faults>>

QueueNotice ==
  /\ notice.status = "QUEUED"
  /\ job["notification"].state = "absent"
  /\ job' = [job EXCEPT !["notification"].state = "waiting"]
  /\ UNCHANGED <<worker, mails, doubtful, notice, open, allSigned, smtp, faults>>

(* markRead and markAllRead.                                               *)
MarkRead ==
  /\ notice.status # "absent"
  /\ notice' = [notice EXCEPT !.read = TRUE]
  /\ UNCHANGED <<job, worker, mails, doubtful, open, allSigned, smtp, faults>>

\* Slip: the completion mail is queued without its job id.
CompletesAnew ==
  /\ allSigned
  /\ job["completion"].state # "active"
  /\ job' = [job EXCEPT !["completion"] = [state |-> "waiting", tries |-> 0]]
  /\ UNCHANGED <<worker, mails, doubtful, notice, open, allSigned, smtp, faults>>

(* advanceWorkflow once everyone has signed.  Two calls may both find that *)
(* everyone has; the job id completion-<id> keeps one job.                 *)
Completes ==
  /\ allSigned
  /\ job["completion"].state = "absent"
  /\ job' = [job EXCEPT !["completion"].state = "waiting"]
  /\ UNCHANGED <<worker, mails, doubtful, notice, open, allSigned, smtp, faults>>

(* The signer signs, declines, or finds the request cancelled.             *)
Answered ==
  /\ open
  /\ open' = FALSE
  /\ allSigned' \in BOOLEAN
  /\ UNCHANGED <<job, worker, mails, doubtful, notice, smtp, faults>>

(***************************************************************************)
(* process, by kind of job, up to the sending.                             *)
(***************************************************************************)
(* An invitation or reminder that has become pointless is not sent.        *)
StartSigning(w) ==
  /\ worker[w].pc = "idle"
  /\ job["signing"].state = "waiting"
  /\ job' = [job EXCEPT !["signing"].state = IF open THEN "active" ELSE "completed"]
  /\ worker' = [worker EXCEPT ![w] = IF open THEN [pc |-> "send", kind |-> "signing"]
                                     ELSE IdleWorker]
  /\ UNCHANGED <<mails, doubtful, notice, open, allSigned, smtp, faults>>

StartCompletion(w) ==
  /\ worker[w].pc = "idle"
  /\ job["completion"].state = "waiting"
  /\ job' = [job EXCEPT !["completion"].state = "active"]
  /\ worker' = [worker EXCEPT ![w] = [pc |-> "send", kind |-> "completion"]]
  /\ UNCHANGED <<mails, doubtful, notice, open, allSigned, smtp, faults>>

(* Without a recipient the row fails and the job is done.                  *)
StartNotice(w) ==
  /\ worker[w].pc = "idle"
  /\ job["notification"].state = "waiting"
  /\ job' = [job EXCEPT !["notification"].state = "active"]
  /\ worker' = [worker EXCEPT ![w] =
       [pc |-> IF notice.recipient THEN "record" ELSE "nobody",
        kind |-> "notification"]]
  /\ UNCHANGED <<mails, doubtful, notice, open, allSigned, smtp, faults>>

(* notification.update from pc, and on to next.                            *)
Record(w, pc, status, next) ==
  /\ worker[w].pc = pc
  /\ notice' = [notice EXCEPT !.status = status]
  /\ Proceed(w, next)
  /\ UNCHANGED <<job, mails, doubtful, open, allSigned, smtp, faults>>

RecordNobody(w) == Record(w, "nobody", "FAILED", "done")

RecordSent(w) == Record(w, "record", "SENT", "send")
RecordDelivered(w) == Record(w, "delivered", "DELIVERED", "done")

\* Slip: the exception is thrown on without marking the row.
RecordFailedUnmarked(w) ==
  /\ worker[w].pc = "failed"
  /\ Proceed(w, "thrown")
  /\ UNCHANGED <<job, mails, doubtful, notice, open, allSigned, smtp, faults>>

RecordFailed(w) == Record(w, "failed", "FAILED", "thrown")

(***************************************************************************)
(* EmailService.send, and what the queue makes of the handler's outcome.   *)
(***************************************************************************)
(* The transport takes the mail or throws; it may also have taken the mail *)
(* when sendMail throws, its answer being lost or too late.  Without one   *)
(* the mail is skipped and counts as sent.  A notification's handler       *)
(* catches what was thrown.                                                *)
Send(w) ==
  LET k == worker[w].kind
      notifies == k = "notification"
  IN  /\ worker[w].pc = "send"
      /\ \/ /\ mails' = IF smtp THEN [mails EXCEPT ![k] = @ + 1] ELSE mails
            /\ Proceed(w, IF notifies THEN "delivered" ELSE "done")
            /\ UNCHANGED doubtful
         \/ /\ smtp
            /\ \/ UNCHANGED doubtful
               \/ doubtful' = [doubtful EXCEPT ![k] = @ + 1]
            /\ Proceed(w, IF notifies THEN "failed" ELSE "thrown")
            /\ UNCHANGED mails
      /\ UNCHANGED <<job, notice, open, allSigned, smtp, faults>>

Settle(w) ==
  LET k == worker[w].kind
      tries == job[k].tries + 1
  IN  /\ worker[w].pc \in {"done", "thrown"}
      /\ worker' = [worker EXCEPT ![w] = IdleWorker]
      /\ job' = [job EXCEPT ![k] =
           [tries |-> tries,
            state |-> IF worker[w].pc = "done" THEN "completed"
                      ELSE IF tries < MaxAttempts THEN "waiting" ELSE "failed"]]
      /\ UNCHANGED <<mails, doubtful, notice, open, allSigned, smtp, faults>>

(* The database refuses the write of a notification: inside the handler's  *)
(* try it leads to FAILED, elsewhere it is thrown.                         *)
WriteFails(w) ==
  /\ faults < MaxFaults
  /\ faults' = faults + 1
  /\ \/ worker[w].pc \in {"record", "delivered"} /\ Proceed(w, "failed")
     \/ worker[w].pc \in {"nobody", "failed"} /\ Proceed(w, "thrown")
  /\ UNCHANGED <<job, mails, doubtful, notice, open, allSigned, smtp>>

(* A worker dies; the queue gives its job to another.                      *)
Stalls(w) ==
  /\ worker[w].pc # "idle"
  /\ faults < MaxFaults
  /\ faults' = faults + 1
  /\ worker' = [worker EXCEPT ![w] = IdleWorker]
  /\ job' = [job EXCEPT ![worker[w].kind].state = "waiting"]
  /\ UNCHANGED <<mails, doubtful, notice, open, allSigned, smtp>>

Work(w) ==
  \/ StartSigning(w) \/ StartCompletion(w) \/ StartNotice(w)
  \/ RecordNobody(w) \/ RecordSent(w) \/ RecordDelivered(w) \/ RecordFailed(w)
  \/ Send(w) \/ Settle(w)

MailNext ==
  \/ CreateNotice \/ QueueNotice \/ MarkRead \/ Completes \/ Answered
  \/ \E w \in Workers : Work(w) \/ WriteFails(w) \/ Stalls(w)

MailSpec == MailInit /\ [][MailNext]_mailVars
-----------------------------------------------------------------------------
(***************************************************************************)
(* Properties.                                                             *)
(***************************************************************************)
(* Two last signatures, retries and several workers send a mail the        *)
(* transport confirmed only once, and once more at most for every crash or *)
(* refused write.  A mail whose confirmation was lost is sent again, but   *)
(* with those too nobody is mailed more often than the queue tries.        *)
MailedOnce ==
  \A k \in Kinds :
    /\ mails[k] <= 1 + faults
    /\ mails[k] + doubtful[k] <= MaxAttempts + faults

(* The status of a notification is always observable (the comment on       *)
(* NotificationProcessor): where there is a transport, DELIVERED is said   *)
(* only of a mail that it confirmed, and what the queue has finished with  *)
(* is DELIVERED or FAILED.  Without a transport the code writes DELIVERED  *)
(* of a mail nobody sent, against the comment at                           *)
(* notification.processor.ts:60, which says SENT but not DELIVERED.        *)
NoticeAgrees ==
  /\ smtp /\ notice.status = "DELIVERED" => mails["notification"] > 0
  /\ job["notification"].state \in {"completed", "failed"} /\ faults = 0 =>
       notice.status = IF job["notification"].state = "completed"
                          /\ notice.recipient
                       THEN "DELIVERED" ELSE "FAILED"
=============================================================================
