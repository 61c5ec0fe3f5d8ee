------------------------------ MODULE Transport ------------------------------
(***************************************************************************)
(* What Reminders and MailWorker share: the workers of the queues, the     *)
(* configuration of the mail transport, which no step changes.  A fault is *)
(* a crash or a refused write.                                             *)
(***************************************************************************)
EXTENDS Faults

CONSTANT
  Workers       \* API replicas: each answers calls and works the queues

VARIABLE
  smtp          \* SMTP_HOST is set
=============================================================================
