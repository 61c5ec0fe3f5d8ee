------------------------------ MODULE Envelope ------------------------------
(***************************************************************************)
(* What createRequest fixes once and for all about a signing request: its  *)
(* signing mode, the role of each recipient and whether invitation mails   *)
(* go out.  A recipient is its position after the sort by orderIndex; the  *)
(* code requires the orderIndex values to be unique, so positions and      *)
(* orderIndex values order the recipients alike.                           *)
(***************************************************************************)
EXTENDS Integers

CONSTANTS
  NumSigners,   \* recipients of the request (createRequest takes 1 to 50)
  Envelopes     \* the requests the sender may create

Signers == 1..NumSigners
Nobody == 0     \* the signerId of a request-level event

Mode == {"SEQUENTIAL", "PARALLEL"}
Role == {"SIGNER", "APPROVER", "CC"}
EnvelopeType == [mode : Mode, role : [Signers -> Role], sendInvites : BOOLEAN]

ASSUME NumSignersAssumption == NumSigners \in 1..50
ASSUME EnvelopesAssumption == Envelopes \subseteq EnvelopeType

(* The recipients whose signature the request waits for.                   *)
Required(e) == {s \in Signers : e.role[s] # "CC"}

(* The recipients a sequential recipient waits for.                        *)
Earlier(e, s) ==
  {p \in Required(e) : e.mode = "SEQUENTIAL" /\ p < s}
=============================================================================
