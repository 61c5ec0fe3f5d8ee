------------------------------- MODULE Faults -------------------------------
(***************************************************************************)
(* What goes wrong, as far as a model counts it: each component says which *)
(* of its steps are faults.                                                *)
(***************************************************************************)
CONSTANT MaxFaults   \* faults of a behaviour (bound)

VARIABLE faults      \* those so far
=============================================================================
