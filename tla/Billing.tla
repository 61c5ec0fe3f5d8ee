------------------------------ MODULE Billing ------------------------------
(***************************************************************************)
(* BillingService.createSubscription and applyCoupon: calls of several     *)
(* organizations, or of two people of one, that subscribe at once with one *)
(* coupon.  Each await is one step; a fault is a call that dies between    *)
(* two of them.                                                            *)
(*                                                                         *)
(* Left out: seats, periods and prices, but for whether anything is due.   *)
(***************************************************************************)
EXTENDS Faults, Integers, FiniteSets, Sequences

CONSTANTS
  Payers,            \* organizations
  Checkouts,         \* calls served at once (bound)
  Plans,             \* paid plans
  MaxRedemptions,    \* Coupon.maxRedemptions
  MaxSubscriptions   \* subscriptions of an organization (bound)

BillingAssumption ==
  /\ MaxRedemptions \in Nat /\ MaxSubscriptions \in Nat /\ MaxFaults \in Nat
  /\ IsFiniteSet(Checkouts) /\ Checkouts # {}
  /\ "absent" \notin Plans

VARIABLES
  redeemedCount,  \* Coupon.redeemedCount
  redeemed,       \* organizations with a CouponRedemption
  plan,           \* BillingAccount.plan, by organization
  subscriptions,  \* Subscription.plan, in the order of creation
  invoices,       \* invoices, by organization
  owed,           \* subscriptions for which something is due, by organization
  checkout        \* what each call is doing

coupon == <<redeemedCount, redeemed>>
books == <<plan, subscriptions, invoices, owed>>
billingVars == <<coupon, books, checkout, faults>>

Nothing == "none"
NoCheckout == [pc |-> "idle", org |-> Nothing, plan |-> Nothing, due |-> FALSE]

BillingInit ==
  /\ redeemedCount = 0
  /\ redeemed = {}
  /\ plan = [o \in Payers |-> "absent"]
  /\ subscriptions = [o \in Payers |-> << >>]
  /\ invoices = [o \in Payers |-> 0]
  /\ owed = [o \in Payers |-> 0]
  /\ checkout = [c \in Checkouts |-> NoCheckout]
  /\ faults = 0

CheckoutAt(c, pc) == checkout' = [checkout EXCEPT ![c].pc = pc]
Conclude(c) == checkout' = [checkout EXCEPT ![c] = NoCheckout]

(* The plan is found and getAccount makes an account where there is none.  *)
StartCheckout(c, o) ==
  /\ checkout[c].pc = "idle"
  /\ plan' = [plan EXCEPT ![o] = IF @ = "absent" THEN "COMMUNITY" ELSE @]
  /\ \E p \in Plans, due \in BOOLEAN, pc \in {"coupon", "subscribe"} :
       checkout' = [checkout EXCEPT ![c] =
         [pc |-> pc, org |-> o, plan |-> p, due |-> due]]
  /\ UNCHANGED <<subscriptions, invoices, owed, faults, coupon>>

(***************************************************************************)
(* applyCoupon.                                                            *)
(***************************************************************************)
\* Slip: the limit is passed by one.
ReadCouponLate(c) ==
  /\ checkout[c].pc = "coupon"
  /\ IF redeemedCount <= MaxRedemptions THEN CheckoutAt(c, "redeem") ELSE Conclude(c)
  /\ UNCHANGED <<faults, coupon, books>>

ReadCoupon(c) ==
  /\ checkout[c].pc = "coupon"
  /\ IF redeemedCount < MaxRedemptions THEN CheckoutAt(c, "redeem") ELSE Conclude(c)
  /\ UNCHANGED <<faults, coupon, books>>

(* Looked for, and then created; the unique key makes the two one.         *)
Redeem(c) ==
  /\ checkout[c].pc = "redeem"
  /\ IF checkout[c].org \in redeemed
     THEN Conclude(c) /\ UNCHANGED redeemed
     ELSE redeemed' = redeemed \cup {checkout[c].org} /\ CheckoutAt(c, "count")
  /\ UNCHANGED <<redeemedCount, faults, books>>

CountRedemption(c) ==
  /\ checkout[c].pc = "count"
  /\ redeemedCount' = redeemedCount + 1
  /\ CheckoutAt(c, "subscribe")
  /\ UNCHANGED <<redeemed, faults, books>>

(***************************************************************************)
(* The rest of createSubscription.                                         *)
(***************************************************************************)
Subscribe(c) ==
  LET o == checkout[c].org
  IN  /\ checkout[c].pc = "subscribe"
      /\ Len(subscriptions[o]) < MaxSubscriptions
      /\ subscriptions' = [subscriptions EXCEPT ![o] = Append(@, checkout[c].plan)]
      /\ owed' = [owed EXCEPT ![o] = IF checkout[c].due THEN @ + 1 ELSE @]
      /\ CheckoutAt(c, IF checkout[c].due THEN "invoice" ELSE "plan")
      /\ UNCHANGED <<plan, invoices, faults, coupon>>

Invoice(c) ==
  /\ checkout[c].pc = "invoice"
  /\ invoices' = [invoices EXCEPT ![checkout[c].org] = @ + 1]
  /\ CheckoutAt(c, "plan")
  /\ UNCHANGED <<plan, subscriptions, owed, faults, coupon>>

SetPlan(c) ==
  /\ checkout[c].pc = "plan"
  /\ plan' = [plan EXCEPT ![checkout[c].org] = checkout[c].plan]
  /\ Conclude(c)
  /\ UNCHANGED <<subscriptions, invoices, owed, faults, coupon>>

(* A call dies between two of its awaits.                                  *)
Fail(c) ==
  /\ checkout[c].pc # "idle"
  /\ faults < MaxFaults
  /\ faults' = faults + 1
  /\ Conclude(c)
  /\ UNCHANGED <<coupon, books>>

Charge(c) ==
  \/ ReadCoupon(c) \/ Redeem(c) \/ CountRedemption(c)
  \/ Subscribe(c) \/ Invoice(c) \/ SetPlan(c)

BillingNext ==
  \E c \in Checkouts :
    Charge(c) \/ Fail(c) \/ \E o \in Payers : StartCheckout(c, o)

BillingSpec == BillingInit /\ [][BillingNext]_billingVars
-----------------------------------------------------------------------------
(***************************************************************************)
(* Properties.                                                             *)
(***************************************************************************)
(* The coupon's count never runs ahead of its redemptions, and the limit   *)
(* is passed by at most one redemption for each other call that read the   *)
(* count before it rose, and for each call that died before raising it.    *)
CouponLedger ==
  /\ redeemedCount <= Cardinality(redeemed)
  /\ Cardinality(redeemed) <= MaxRedemptions + (Cardinality(Checkouts) - 1) + faults

(* When no call is under way and none has failed, every subscription that  *)
(* costs something has its invoice, and the account is on the plan of one  *)
(* of its subscriptions: the last of those that were created at once, in   *)
(* the order in which their calls came to the account.                     *)
AccountFollowsSubscriptions ==
  \A o \in Payers :
    (faults = 0 /\ (\A c \in Checkouts : checkout[c].org # o)) =>
    /\ invoices[o] = owed[o]
    /\ subscriptions[o] # << >> =>
         plan[o] \in {subscriptions[o][i] : i \in DOMAIN subscriptions[o]}

(* The coupon's count and limit hold up to the calls under way, and what   *)
(* was subscribed is invoiced and is the account's plan.                   *)
BillingAgrees == CouponLedger /\ AccountFollowsSubscriptions
=============================================================================
