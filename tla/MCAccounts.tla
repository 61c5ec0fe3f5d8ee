----------------------------- MODULE MCAccounts -----------------------------
(***************************************************************************)
(* Instances of Sessions, Tenancy and Billing for TLC.  None of the three  *)
(* writes what another reads, but for the login that makes an invited user *)
(* ACTIVE (Tenancy.FirstLogin), so a behaviour is one of one component,    *)
(* chosen by part.                                                         *)
(***************************************************************************)
EXTENDS Sessions, Tenancy, Billing, TLC

VARIABLE part

ASSUME SessionAssumption /\ TenancyAssumption /\ BillingAssumption

sessions == <<status, session, cookie, fetch, suspend, ended>>
billing == <<coupon, books, checkout>>

Init ==
  /\ part \in {"sessions", "tenancy", "billing"}
  /\ SessionInit
  /\ TenancyInit
  /\ BillingInit

Next ==
  /\ \/ part = "sessions" /\ SessionNext /\ UNCHANGED <<tenancyVars, billing>>
     \/ part = "tenancy" /\ TenancyNext /\ UNCHANGED <<sessions, billing, faults>>
     \/ part = "billing" /\ BillingNext /\ UNCHANGED <<sessions, tenancyVars>>
  /\ UNCHANGED part

Spec == Init /\ [][Next]_<<part, faults, sessions, tenancyVars, billing>>

Symmetry ==
  Permutations(Users) \cup Permutations(Orgs) \cup Permutations(Calls)
    \cup Permutations(Checkouts)
=============================================================================
