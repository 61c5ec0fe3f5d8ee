--------------------------- MODULE SignatureLedger --------------------------
(***************************************************************************)
(* What a signing request promises, whatever calls race against it: a      *)
(* ledger of signatures that only grows, one per recipient, in the order   *)
(* the sender fixed, and that is closed only once it is full.              *)
(***************************************************************************)
EXTENDS Envelope

VARIABLES
  envelope,    \* the request as created
  collected,   \* recipients whose signature is on the ledger
  completed    \* the sender was told that everyone signed

ledgerVars == <<envelope, collected, completed>>

LedgerInit ==
  /\ envelope \in Envelopes
  /\ collected = {}
  /\ completed = FALSE

Collect(s) ==
  /\ s \in Required(envelope) \ collected
  /\ Earlier(envelope, s) \subseteq collected
  /\ collected' = collected \cup {s}
  /\ UNCHANGED <<envelope, completed>>

Close ==
  /\ Required(envelope) \subseteq collected
  /\ completed' = TRUE
  /\ UNCHANGED <<envelope, collected>>

LedgerNext == Close \/ \E s \in Signers : Collect(s)

LedgerSpec == LedgerInit /\ [][LedgerNext]_ledgerVars
=============================================================================
