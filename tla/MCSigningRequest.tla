-------------------------- MODULE MCSigningRequest --------------------------
(***************************************************************************)
(* Instances of SigningRequest for TLC: which requests the sender creates. *)
(***************************************************************************)
EXTENDS SigningRequest, TLC

(* Every assignment of roles, in either mode, that does not start with a   *)
(* carbon copy.                                                            *)
FirstSigns == {e \in EnvelopeType : e.sendInvites /\ e.role[1] = "SIGNER"}

(* A signer first, and a recipient that must act last.                     *)
Routed ==
  {e \in FirstSigns : e.role[2] # "SIGNER" /\ e.role[NumSigners] # "CC"}

(* A signer and then an approver, in either mode, invited or not.          *)
SignerThenApprovers ==
  {[mode |-> m,
    role |-> [s \in Signers |-> IF s = 1 THEN "SIGNER" ELSE "APPROVER"],
    sendInvites |-> i] : m \in Mode, i \in BOOLEAN}

(* Three recipients: in sequence and invited they must all act; in         *)
(* parallel the last is a copy, and nobody is mailed.                      *)
Raced ==
  {e \in EnvelopeType :
     /\ e.role[1] = "SIGNER" /\ e.role[2] = "APPROVER"
     /\ e.role[3] = IF e.mode = "SEQUENTIAL" THEN "APPROVER" ELSE "CC"
     /\ e.sendInvites <=> e.mode = "SEQUENTIAL"}

(* The sender cancels the parallel one only.                               *)
CancelsInParallel ==
  envelope.mode = "SEQUENTIAL" => \A c \in Calls : call'[c].pc # "cancel"

CallSymmetry == Permutations(Calls)
=============================================================================
