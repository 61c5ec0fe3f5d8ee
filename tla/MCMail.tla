------------------------------- MODULE MCMail -------------------------------
(***************************************************************************)
(* Instances of Reminders and MailWorker for TLC.  The two share no        *)
(* variable that both read and write but the number of faults, so a        *)
(* behaviour is one of the first or one of the second, chosen by part.     *)
(*                                                                         *)
(* Of Reminders there are two instances: "pair", any request with at most  *)
(* two handlers at once and three reminders, and "crowd", the first signer *)
(* of a sequential request, who does not sign, with all handlers at once   *)
(* and as many reminders as MaxJobs.                                       *)
(***************************************************************************)
EXTENDS Reminders, MailWorker, TLC

VARIABLE part

ASSUME ReminderAssumption /\ MailWorkerAssumption

MCInit ==
  /\ part \in {"pair", "crowd", "worker"}
  /\ Init
  /\ part = "crowd" => mode = "SEQUENTIAL"
  /\ part = "worker" => mode = "PARALLEL"
  /\ MailInit

(* Handlers under way after the step.                                      *)
Busy == {c \in Handlers : call'[c].pc # "idle"}

MCNext ==
  /\ \/ part = "pair" /\ Next /\ Cardinality(Busy) <= 2 /\ Total' <= 3
        /\ UNCHANGED <<job, worker, mails, doubtful, notice, open, allSigned>>
     \/ part = "crowd" /\ Next /\ signer'[2] = signer[2]
        /\ UNCHANGED <<job, worker, mails, doubtful, notice, open, allSigned>>
     \/ part = "worker" /\ MailNext
        /\ UNCHANGED <<mode, request, signer, trail, queued, scheduled, call, clock>>
  /\ UNCHANGED part

MCSpec == MCInit /\ [][MCNext]_<<part, vars, mailVars>>

Symmetry == Permutations(Workers) \cup Permutations(Calls)
=============================================================================
