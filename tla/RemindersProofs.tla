-------------------------- MODULE RemindersProofs --------------------------
(***************************************************************************)
(* Proofs about Reminders, for any number of signers, of replicas, and of  *)
(* handlers that each of them serves.                                      *)
(*                                                                         *)
(* A reminder is queued, counted and recorded in three writes, and who is  *)
(* reminded was decided before the first.  The bounds are counting         *)
(* arguments: they relate what is written to the number of handlers that   *)
(* stand between two of the writes for a signer, or that still have the    *)
(* signer ahead of them on a list made earlier.                            *)
(***************************************************************************)
EXTENDS Reminders, FiniteSetTheorems, WellFoundedInduction, TLAPS

Pc == {"idle", "signers", "events", "queue", "count", "event"}
CallType == [pc : Pc, automatic : BOOLEAN, due : SUBSET Signers]
SignerType == [status : {"PENDING", "INVITED", "SIGNED", "DECLINED"},
               reminderCount : Nat]

TypeOK ==
  /\ signer \in [Signers -> SignerType]
  /\ trail \in [Signers -> [n : Nat, last : Int]]
  /\ queued \in [Signers -> [automatic : Nat, ever : Nat, inTick : Nat]]
  /\ call \in [Handlers -> CallType]
  /\ clock \in Nat
  /\ faults \in Nat

CallInv ==
  \A w \in Handlers :
    /\ call[w].automatic => w \in Workers /\ call[w].pc # "idle"
    /\ call[w].pc \in {"count", "event"} => call[w].due # {}

ClockInv ==
  \A s \in Signers :
    trail[s].last <= clock /\ (trail[s].last = clock => trail[s].n > 0)

(* Where a handler w stands with the reminder of s: its mail is queued and *)
(* not counted, it is counted and not recorded, or it is still to come.    *)
Sends(w, s) == call[w].pc = "count" /\ Target(w) = s
Records(w, s) == call[w].pc = "event" /\ Target(w) = s
Ahead(w, s) ==
  /\ s \in call[w].due
  /\ \/ call[w].pc = "queue"
     \/ call[w].pc \in {"count", "event"} /\ Target(w) # s
AutoSends(w, s) == call[w].automatic /\ Sends(w, s)
AutoAhead(w, s) ==
  /\ call[w].automatic
  /\ Ahead(w, s) \/ (call[w].pc = "events" /\ s \in call[w].due)

Senders(s) == {w \in Handlers : Sends(w, s)}
Recorders(s) == {w \in Handlers : Records(w, s)}
Holders(s) == {w \in Handlers : Sends(w, s) \/ Records(w, s)}
Coming(s) == {w \in Handlers : Ahead(w, s)}
AutoSenders(s) == {w \in Handlers : AutoSends(w, s)}
AutoComing(s) == {w \in Handlers : AutoAhead(w, s)}

(* Each of the three writes is behind the one before it by as many as      *)
(* stand between them, and by those that died there.                       *)
BackedInv ==
  \A s \in Signers :
    /\ trail[s].n + Cardinality(Recorders(s)) <= signer[s].reminderCount
    /\ signer[s].reminderCount + Cardinality(Senders(s)) <= queued[s].ever

(* Until s has an event in this tick, whoever reminded them has not        *)
(* finished or died; from then on, only those are left who chose s before. *)
ThrottleInv ==
  \A s \in Signers :
    IF trail[s].last = clock
    THEN queued[s].inTick + Cardinality(Coming(s)) <= Cardinality(Handlers) + faults
    ELSE queued[s].inTick <= Cardinality(Holders(s)) + faults

(* The same for the cap: until the count has reached it, what was queued   *)
(* is counted, or about to be, or its sender died.                         *)
CapInv ==
  \A s \in Signers :
    IF signer[s].reminderCount < MaxReminders
    THEN queued[s].automatic
           <= signer[s].reminderCount + Cardinality(AutoSenders(s)) + faults
    ELSE queued[s].automatic + Cardinality(AutoComing(s))
           <= MaxReminders + (Cardinality(Workers) - 1) + faults

IInv == TypeOK /\ CallInv /\ ClockInv /\ BackedInv /\ ThrottleInv /\ CapInv
-----------------------------------------------------------------------------
(* Lemmas.                                                                 *)
(***************************************************************************)
(* A nonempty list of signers has a first one, which Target takes.         *)
LEMMA LeastSigner ==
  ASSUME NEW S, S \subseteq Nat, S # {}
  PROVE  \E s \in S : \A t \in S : s <= t
<1>1. PICK s \in S : \A t \in S : <<t, s>> \notin OpToRel(<, Nat)
  BY NatLessThanWellFounded, WFMin
<1>2. ASSUME NEW t \in S
      PROVE  s <= t
  <2>1. s \in Nat /\ t \in Nat /\ <<t, s>> \in Nat \X Nat
    OBVIOUS
  <2>2. t < s => <<t, s>> \in OpToRel(<, Nat)
    BY <2>1 DEF OpToRel
  <2>3. ~ (t < s)
    BY <1>1, <2>2, Zenon
  <2> QED BY <2>1, <2>3
<1> QED BY <1>2

LEMMA TargetInDue ==
  ASSUME ReminderAssumption, TypeOK, NEW w \in Handlers, call[w].due # {}
  PROVE  Target(w) \in call[w].due /\ Target(w) \in Signers
<1>1. call[w].due \subseteq Signers /\ call[w].due \subseteq Nat
  <2>1. Signers \subseteq Nat
    BY DEF Signers, ReminderAssumption
  <2> QED BY <2>1 DEF TypeOK, CallType
<1>2. \E s \in call[w].due : \A t \in call[w].due : s <= t
  BY <1>1, LeastSigner
<1> QED BY <1>1, <1>2 DEF Target

LEMMA Finite ==
  ASSUME ReminderAssumption
  PROVE  /\ IsFiniteSet(Handlers) /\ IsFiniteSet(Workers)
         /\ Cardinality(Handlers) \in Nat /\ Cardinality(Workers) \in Nat
         /\ Cardinality(Workers) >= 1
<1>1. IsFiniteSet(Handlers) /\ IsFiniteSet(Workers)
  BY FS_Union DEF Handlers, ReminderAssumption
<1>2. Cardinality(Workers) # 0
  BY <1>1, FS_EmptySet DEF ReminderAssumption
<1> QED BY <1>1, <1>2, FS_CardinalityType

(* Two sets of handlers that differ by one at most.                        *)
One(b) == IF b THEN 1 ELSE 0

LEMMA OneChanges ==
  ASSUME ReminderAssumption, NEW w \in Handlers,
         NEW A \in SUBSET Handlers, NEW B \in SUBSET Handlers,
         A \ {w} = B \ {w}
  PROVE  /\ Cardinality(A) \in Nat /\ Cardinality(B) \in Nat
         /\ Cardinality(B) = Cardinality(A) + One(w \in B) - One(w \in A)
<1>1. IsFiniteSet(A) /\ IsFiniteSet(B)
  BY Finite, FS_Subset
<1>2. Cardinality(A) \in Nat /\ Cardinality(B) \in Nat
  BY <1>1, FS_CardinalityType
<1>3. Cardinality(A \ {w}) = IF w \in A THEN Cardinality(A) - 1 ELSE Cardinality(A)
  BY <1>1, FS_RemoveElement
<1>4. Cardinality(B \ {w}) = IF w \in B THEN Cardinality(B) - 1 ELSE Cardinality(B)
  BY <1>1, FS_RemoveElement
<1>5. Cardinality(A \ {w}) = Cardinality(B \ {w})
  OBVIOUS
<1>6. CASE w \in A
  BY <1>2, <1>3, <1>4, <1>5, <1>6 DEF One
<1>7. CASE w \notin A
  BY <1>2, <1>3, <1>4, <1>5, <1>7 DEF One
<1> QED BY <1>6, <1>7

LEMMA NoMore ==
  ASSUME ReminderAssumption, NEW A \in SUBSET Handlers
  PROVE  /\ Cardinality(A) \in Nat
         /\ Cardinality(Handlers) \in Nat
         /\ Cardinality(A) <= Cardinality(Handlers)
BY Finite, FS_Subset, FS_CardinalityType

(* A handler cannot both be done with choosing s and have s still to come. *)
LEMMA Apart ==
  ASSUME ReminderAssumption, NEW D \in {Handlers, Workers},
         NEW A \in SUBSET D, NEW B \in SUBSET D, A \cap B = {}
  PROVE  Cardinality(A) + Cardinality(B) <= Cardinality(D)
<1>0. IsFiniteSet(D)
  BY Finite
<1>1. IsFiniteSet(A) /\ IsFiniteSet(B)
  BY <1>0, FS_Subset
<1>2. Cardinality(A \cup B) = Cardinality(A) + Cardinality(B)
  <2>1. /\ Cardinality(A \cup B)
             = Cardinality(A) + Cardinality(B) - Cardinality(A \cap B)
        /\ Cardinality(A \cap B) = 0
        /\ Cardinality(A) \in Nat /\ Cardinality(B) \in Nat
    BY <1>1, FS_Union, FS_EmptySet, FS_CardinalityType
  <2> QED BY <2>1
<1>3. A \cup B \subseteq D
  OBVIOUS
<1> QED BY <1>0, <1>2, <1>3, FS_Subset

(* A step of w moves w alone between the sets of handlers.                 *)
Moves(w) ==
  /\ call' \in [Handlers -> CallType]
  /\ \A v \in Handlers \ {w} : call'[v] = call[v]

Shift(now, then, b, a) ==
  /\ Cardinality(now) \in Nat /\ Cardinality(then) \in Nat
  /\ Cardinality(then) = Cardinality(now) + One(a) - One(b)

LEMMA MoveEffect ==
  ASSUME ReminderAssumption, TypeOK, NEW w \in Handlers, Moves(w),
         NEW s \in Signers
  PROVE  /\ Shift(Senders(s), Senders(s)', Sends(w, s), Sends(w, s)')
         /\ Shift(Recorders(s), Recorders(s)', Records(w, s), Records(w, s)')
         /\ Shift(Holders(s), Holders(s)', Sends(w, s) \/ Records(w, s),
                  Sends(w, s)' \/ Records(w, s)')
         /\ Shift(Coming(s), Coming(s)', Ahead(w, s), Ahead(w, s)')
         /\ Shift(AutoSenders(s), AutoSenders(s)', AutoSends(w, s), AutoSends(w, s)')
         /\ Shift(AutoComing(s), AutoComing(s)', AutoAhead(w, s), AutoAhead(w, s)')
<1>1. ASSUME NEW v \in Handlers \ {w}
      PROVE  /\ Sends(v, s)' = Sends(v, s) /\ Records(v, s)' = Records(v, s)
             /\ Ahead(v, s)' = Ahead(v, s)
             /\ AutoSends(v, s)' = AutoSends(v, s)
             /\ AutoAhead(v, s)' = AutoAhead(v, s)
  <2>1. call'[v] = call[v]
    BY DEF Moves
  <2>2. Target(v)' = Target(v)
    BY <2>1 DEF Target
  <2> QED
    BY <2>1, <2>2 DEF Sends, Records, Ahead, AutoSends, AutoAhead
<1>2. Shift(Senders(s), Senders(s)', Sends(w, s), Sends(w, s)')
  <2>1. Senders(s) \ {w} = Senders(s)' \ {w}
    BY <1>1 DEF Senders
  <2>2. (w \in Senders(s) <=> Sends(w, s)) /\ (w \in Senders(s)' <=> Sends(w, s)')
    BY DEF Senders
  <2>3. Senders(s) \in SUBSET Handlers /\ Senders(s)' \in SUBSET Handlers
    BY DEF Senders
  <2> QED BY <2>1, <2>2, <2>3, OneChanges DEF Shift, One
<1>3. Shift(Recorders(s), Recorders(s)', Records(w, s), Records(w, s)')
  <2>1. Recorders(s) \ {w} = Recorders(s)' \ {w}
    BY <1>1 DEF Recorders
  <2>2. (w \in Recorders(s) <=> Records(w, s)) /\ (w \in Recorders(s)' <=> Records(w, s)')
    BY DEF Recorders
  <2>3. Recorders(s) \in SUBSET Handlers /\ Recorders(s)' \in SUBSET Handlers
    BY DEF Recorders
  <2> QED BY <2>1, <2>2, <2>3, OneChanges DEF Shift, One
<1>4. Shift(Holders(s), Holders(s)', Sends(w, s) \/ Records(w, s),
            Sends(w, s)' \/ Records(w, s)')
  <2>1. Holders(s) \ {w} = Holders(s)' \ {w}
    BY <1>1 DEF Holders
  <2>2. /\ w \in Holders(s) <=> Sends(w, s) \/ Records(w, s)
        /\ w \in Holders(s)' <=> Sends(w, s)' \/ Records(w, s)'
    BY DEF Holders
  <2>3. Holders(s) \in SUBSET Handlers /\ Holders(s)' \in SUBSET Handlers
    BY DEF Holders
  <2> QED BY <2>1, <2>2, <2>3, OneChanges DEF Shift, One
<1>5. Shift(Coming(s), Coming(s)', Ahead(w, s), Ahead(w, s)')
  <2>1. Coming(s) \ {w} = Coming(s)' \ {w}
    BY <1>1 DEF Coming
  <2>2. (w \in Coming(s) <=> Ahead(w, s)) /\ (w \in Coming(s)' <=> Ahead(w, s)')
    BY DEF Coming
  <2>3. Coming(s) \in SUBSET Handlers /\ Coming(s)' \in SUBSET Handlers
    BY DEF Coming
  <2> QED BY <2>1, <2>2, <2>3, OneChanges DEF Shift, One
<1>6. Shift(AutoSenders(s), AutoSenders(s)', AutoSends(w, s), AutoSends(w, s)')
  <2>1. AutoSenders(s) \ {w} = AutoSenders(s)' \ {w}
    BY <1>1 DEF AutoSenders
  <2>2. /\ w \in AutoSenders(s) <=> AutoSends(w, s)
        /\ w \in AutoSenders(s)' <=> AutoSends(w, s)'
    BY DEF AutoSenders
  <2>3. AutoSenders(s) \in SUBSET Handlers /\ AutoSenders(s)' \in SUBSET Handlers
    BY DEF AutoSenders
  <2> QED BY <2>1, <2>2, <2>3, OneChanges DEF Shift, One
<1>7. Shift(AutoComing(s), AutoComing(s)', AutoAhead(w, s), AutoAhead(w, s)')
  <2>1. AutoComing(s) \ {w} = AutoComing(s)' \ {w}
    BY <1>1 DEF AutoComing
  <2>2. /\ w \in AutoComing(s) <=> AutoAhead(w, s)
        /\ w \in AutoComing(s)' <=> AutoAhead(w, s)'
    BY DEF AutoComing
  <2>3. AutoComing(s) \in SUBSET Handlers /\ AutoComing(s)' \in SUBSET Handlers
    BY DEF AutoComing
  <2> QED BY <2>1, <2>2, <2>3, OneChanges DEF Shift, One
<1> QED BY <1>2, <1>3, <1>4, <1>5, <1>6, <1>7
-----------------------------------------------------------------------------
(* The steps of a call.                                                    *)
(***************************************************************************)
LEMMA Init_IInv ==
  ASSUME ReminderAssumption, Init
  PROVE  IInv
<1>1. TypeOK
  BY DEF Init, TypeOK, SignerType, CallType, Pc, Idle, Never
<1>2. CallInv /\ ClockInv
  BY DEF Init, CallInv, ClockInv, Idle, Never
<1>3. ASSUME NEW s \in Signers
      PROVE  /\ Senders(s) = {} /\ Recorders(s) = {}
             /\ AutoSenders(s) = {} /\ AutoComing(s) = {}
  BY DEF Init, Idle, Senders, Recorders, AutoSenders, AutoComing,
         Sends, Records, AutoSends, AutoAhead
<1>4. ASSUME NEW s \in Signers
      PROVE  /\ Cardinality(Senders(s)) = 0 /\ Cardinality(Recorders(s)) = 0
             /\ Cardinality(AutoSenders(s)) = 0 /\ Cardinality(AutoComing(s)) = 0
             /\ trail[s].n = 0 /\ signer[s].reminderCount = 0
             /\ queued[s].automatic = 0 /\ queued[s].ever = 0 /\ faults = 0
  BY <1>3, FS_EmptySet DEF Init
<1>5. BackedInv
  BY <1>4 DEF BackedInv
<1>6. ThrottleInv
  <2>1. ASSUME NEW s \in Signers
        PROVE  Cardinality(Holders(s)) \in Nat
    BY NoMore DEF Holders
  <2> QED BY <2>1 DEF Init, ThrottleInv, Never
<1>7. CapInv
  <2>1. Cardinality(Workers) \in Nat /\ Cardinality(Workers) >= 1
    BY Finite
  <2> QED BY <1>4, <2>1 DEF CapInv, ReminderAssumption
<1> QED BY <1>1, <1>2, <1>5, <1>6, <1>7 DEF IInv

LEMMA GotoEffect ==
  ASSUME TypeOK, NEW w \in Handlers, NEW pc \in Pc, Goto(w, pc)
  PROVE  /\ Moves(w)
         /\ call'[w].pc = pc /\ call'[w].automatic = call[w].automatic
         /\ call'[w].due = call[w].due
<1>1. /\ call' = [call EXCEPT ![w] = [call[w] EXCEPT !.pc = pc]]
      /\ call \in [Handlers -> CallType]
  BY DEF Goto, TypeOK
<1>2. /\ [call[w] EXCEPT !.pc = pc] \in CallType
      /\ [call[w] EXCEPT !.pc = pc].pc = pc
      /\ [call[w] EXCEPT !.pc = pc].automatic = call[w].automatic
      /\ [call[w] EXCEPT !.pc = pc].due = call[w].due
  BY <1>1 DEF CallType
<1> QED BY <1>1, <1>2 DEF Moves

(* Whom the throttle lets through has no event in this tick.               *)
LEMMA Throttled ==
  ASSUME ReminderAssumption, TypeOK, ClockInv, NEW s \in Signers,
         NEW interval \in Nat \ {0}, s \notin RecentlyReminded(interval)
  PROVE  trail[s].last # clock
BY DEF TypeOK, ClockInv, RecentlyReminded

(* Choosing whom to remind: w sends nothing and records nothing.  Who is   *)
(* ahead of it was already, or has no event in this tick; an automatic     *)
(* call puts nobody on its list whose count has reached the cap.           *)
LEMMA ChooseStep ==
  ASSUME ReminderAssumption, IInv, NEW w \in Handlers, Moves(w),
         UNCHANGED <<signer, trail, queued, clock, faults>>,
         call[w].pc \notin {"count", "event"},
         call'[w].pc \notin {"count", "event"},
         call'[w].automatic => w \in Workers /\ call'[w].pc # "idle",
         \A s \in Signers :
           /\ Ahead(w, s)' => Ahead(w, s) \/ trail[s].last # clock
           /\ AutoAhead(w, s)' =>
                AutoAhead(w, s) \/ signer[s].reminderCount < MaxReminders
  PROVE  IInv'
<1>1. TypeOK'
  BY DEF IInv, TypeOK, Moves
<1>2. CallInv' /\ ClockInv'
  BY DEF IInv, CallInv, ClockInv, Moves
<1>3. ASSUME NEW s \in Signers
      PROVE  /\ Cardinality(Senders(s)') = Cardinality(Senders(s))
             /\ Cardinality(Recorders(s)') = Cardinality(Recorders(s))
             /\ Cardinality(Holders(s)') = Cardinality(Holders(s))
             /\ Cardinality(AutoSenders(s)') = Cardinality(AutoSenders(s))
  <2>1. /\ ~Sends(w, s) /\ ~Records(w, s) /\ ~AutoSends(w, s)
        /\ ~Sends(w, s)' /\ ~Records(w, s)' /\ ~AutoSends(w, s)'
    BY DEF Sends, Records, AutoSends
  <2> QED BY <2>1, MoveEffect DEF Shift, One, IInv
<1>4. BackedInv'
  BY <1>3 DEF IInv, BackedInv
<1>5. ThrottleInv'
  <2> SUFFICES ASSUME NEW s \in Signers
               PROVE  IF trail[s].last = clock
                      THEN queued[s].inTick + Cardinality(Coming(s)')
                             <= Cardinality(Handlers) + faults
                      ELSE queued[s].inTick <= Cardinality(Holders(s)') + faults
    BY DEF ThrottleInv
  <2>1. Shift(Coming(s), Coming(s)', Ahead(w, s), Ahead(w, s)')
    BY MoveEffect DEF IInv
  <2>2. /\ queued[s].inTick \in Nat /\ faults \in Nat
        /\ Cardinality(Handlers) \in Nat
    BY NoMore DEF IInv, TypeOK
  <2>3. CASE trail[s].last = clock
    <3>1. Cardinality(Coming(s)') <= Cardinality(Coming(s))
      BY <2>1, <2>3 DEF Shift, One
    <3> QED BY <2>1, <2>2, <2>3, <3>1 DEF IInv, ThrottleInv, Shift
  <2>4. CASE trail[s].last # clock
    BY <1>3, <2>4 DEF IInv, ThrottleInv
  <2> QED BY <2>3, <2>4
<1>6. CapInv'
  <2> SUFFICES ASSUME NEW s \in Signers
               PROVE  IF signer[s].reminderCount < MaxReminders
                      THEN queued[s].automatic
                             <= signer[s].reminderCount
                                  + Cardinality(AutoSenders(s)') + faults
                      ELSE queued[s].automatic + Cardinality(AutoComing(s)')
                             <= MaxReminders + (Cardinality(Workers) - 1) + faults
    BY DEF CapInv
  <2>1. Shift(AutoComing(s), AutoComing(s)', AutoAhead(w, s), AutoAhead(w, s)')
    BY MoveEffect DEF IInv
  <2>2. /\ queued[s].automatic \in Nat /\ faults \in Nat /\ MaxReminders \in Nat
        /\ Cardinality(Workers) \in Nat
    BY Finite DEF IInv, TypeOK, ReminderAssumption
  <2>3. CASE signer[s].reminderCount < MaxReminders
    BY <1>3, <2>3 DEF IInv, CapInv
  <2>4. CASE ~(signer[s].reminderCount < MaxReminders)
    <3>1. Cardinality(AutoComing(s)') <= Cardinality(AutoComing(s))
      BY <2>1, <2>4 DEF Shift, One
    <3> QED BY <2>1, <2>2, <2>4, <3>1 DEF IInv, CapInv, Shift
  <2> QED BY <2>3, <2>4
<1> QED BY <1>1, <1>2, <1>4, <1>5, <1>6 DEF IInv

LEMMA StartStep ==
  ASSUME ReminderAssumption, IInv, NEW w \in Handlers,
         Remind(w) \/ (w \in Workers /\ StartSweep(w))
  PROVE  IInv'
<1>1. /\ Moves(w) /\ call[w].pc = "idle" /\ call'[w].pc = "signers"
      /\ call'[w].automatic => w \in Workers
      /\ UNCHANGED <<signer, trail, queued, clock, faults>>
  <2>1. CASE Remind(w)
    <3>1. Goto(w, "signers") /\ "signers" \in Pc /\ call[w].pc = "idle"
      BY <2>1 DEF Remind, Pc
    <3>2. ~call[w].automatic
      BY <3>1 DEF IInv, CallInv
    <3> QED BY <2>1, <3>1, <3>2, GotoEffect DEF Remind, envVars, IInv
  <2>2. CASE w \in Workers /\ StartSweep(w)
    <3>1. /\ call' = [call EXCEPT ![w] =
                        [call[w] EXCEPT !.pc = "signers", !.automatic = TRUE]]
          /\ call \in [Handlers -> CallType] /\ call[w].pc = "idle"
          /\ UNCHANGED <<signer, trail, queued, clock, faults>>
      BY <2>2 DEF StartSweep, envVars, IInv, TypeOK
    <3>2. /\ [call[w] EXCEPT !.pc = "signers", !.automatic = TRUE] \in CallType
          /\ [call[w] EXCEPT !.pc = "signers", !.automatic = TRUE].pc = "signers"
      BY <3>1 DEF CallType, Pc
    <3>3. call'[w].pc = "signers" /\ Moves(w)
      BY <3>1, <3>2 DEF Moves
    <3> QED BY <2>2, <3>1, <3>3
  <2> QED BY <2>1, <2>2
<1>2. \A s \in Signers : ~Ahead(w, s)' /\ ~AutoAhead(w, s)'
  BY <1>1 DEF Ahead, AutoAhead
<1> QED BY <1>1, <1>2, ChooseStep

LEMMA ReadSignersStep ==
  ASSUME ReminderAssumption, IInv, NEW w \in Handlers, ReadSigners(w)
  PROVE  IInv'
<1>1. PICK max : /\ call' = [call EXCEPT ![w].pc = "events", ![w].due = Candidates(max)]
                 /\ call[w].automatic => max = MaxReminders
  BY DEF ReadSigners
<1>2. /\ call \in [Handlers -> CallType] /\ call[w].pc = "signers"
      /\ UNCHANGED <<signer, trail, queued, clock, faults>>
  BY DEF ReadSigners, envVars, IInv, TypeOK
<1>3. /\ Moves(w) /\ call'[w].pc = "events" /\ call'[w].due = Candidates(max)
      /\ call'[w].automatic = call[w].automatic
  <2>1. /\ [call[w] EXCEPT !.pc = "events", !.due = Candidates(max)] \in CallType
        /\ [call[w] EXCEPT !.pc = "events", !.due = Candidates(max)].pc = "events"
        /\ [call[w] EXCEPT !.pc = "events", !.due = Candidates(max)].due
             = Candidates(max)
        /\ [call[w] EXCEPT !.pc = "events", !.due = Candidates(max)].automatic
             = call[w].automatic
    BY <1>2 DEF CallType, Pc, Candidates
  <2> QED BY <1>1, <1>2, <2>1 DEF Moves
<1>4. ASSUME NEW s \in Signers
      PROVE  /\ ~Ahead(w, s)'
             /\ AutoAhead(w, s)' => signer[s].reminderCount < MaxReminders
  BY <1>1, <1>3 DEF Ahead, AutoAhead, Candidates
<1>5. call'[w].automatic => w \in Workers /\ call[w].pc # "idle"
  BY <1>2, <1>3 DEF IInv, CallInv
<1> QED BY <1>2, <1>3, <1>4, <1>5, ChooseStep

LEMMA ReadEventsStep ==
  ASSUME ReminderAssumption, IInv, NEW w \in Handlers, ReadEvents(w)
  PROVE  IInv'
<1>1. PICK interval \in {AfterDays, Day} :
        call' = [call EXCEPT ![w].pc = "queue", ![w].due =
                   {s \in @ : s \notin RecentlyReminded(interval) /\ Turn(s)}]
  BY DEF ReadEvents
<1> DEFINE list == {s \in call[w].due : s \notin RecentlyReminded(interval) /\ Turn(s)}
<1>2. /\ call \in [Handlers -> CallType] /\ call[w].pc = "events"
      /\ UNCHANGED <<signer, trail, queued, clock, faults>>
      /\ interval \in Nat \ {0}
  BY DEF ReadEvents, envVars, IInv, TypeOK, ReminderAssumption, Day
<1>3. /\ Moves(w) /\ call'[w].pc = "queue" /\ call'[w].due = list
      /\ call'[w].automatic = call[w].automatic
  <2>1. /\ [call[w] EXCEPT !.pc = "queue", !.due = list] \in CallType
        /\ [call[w] EXCEPT !.pc = "queue", !.due = list].pc = "queue"
        /\ [call[w] EXCEPT !.pc = "queue", !.due = list].due = list
        /\ [call[w] EXCEPT !.pc = "queue", !.due = list].automatic = call[w].automatic
    BY <1>2 DEF CallType, Pc
  <2>2. call' = [call EXCEPT ![w] = [call[w] EXCEPT !.pc = "queue", !.due = list]]
    BY <1>1, <1>2
  <2> QED BY <1>2, <2>1, <2>2 DEF Moves
<1>4. ASSUME NEW s \in Signers
      PROVE  /\ Ahead(w, s)' => trail[s].last # clock
             /\ AutoAhead(w, s)' => AutoAhead(w, s)
  <2>1. Ahead(w, s)' => s \in list
    BY <1>3 DEF Ahead
  <2>2. s \in list => trail[s].last # clock
    BY <1>2, Throttled DEF IInv
  <2>3. AutoAhead(w, s)' => call[w].automatic /\ s \in call[w].due
    BY <1>3, <2>1 DEF AutoAhead
  <2> QED BY <1>2, <2>1, <2>2, <2>3 DEF AutoAhead
<1>5. call'[w].automatic => w \in Workers /\ call[w].pc # "idle"
  BY <1>2, <1>3 DEF IInv, CallInv
<1> QED BY <1>2, <1>3, <1>4, <1>5, ChooseStep

(* A handler that is done, or that stops, has nobody ahead of it.          *)
LEMMA IdleEffect ==
  ASSUME TypeOK, NEW w \in Handlers, call' = [call EXCEPT ![w] = Idle]
  PROVE  /\ Moves(w) /\ call'[w].pc = "idle" /\ ~call'[w].automatic
         /\ \A s \in Signers :
              /\ ~Sends(w, s)' /\ ~Records(w, s)' /\ ~Ahead(w, s)'
              /\ ~AutoSends(w, s)' /\ ~AutoAhead(w, s)'
<1>1. /\ Idle \in CallType /\ Idle.pc = "idle" /\ ~Idle.automatic
      /\ call \in [Handlers -> CallType]
  BY DEF Idle, CallType, Pc, TypeOK
<1>2. /\ Moves(w) /\ call'[w].pc = "idle" /\ ~call'[w].automatic
  BY <1>1 DEF Moves
<1> QED BY <1>2 DEF Sends, Records, Ahead, AutoSends, AutoAhead

LEMMA QueueStep ==
  ASSUME ReminderAssumption, IInv, NEW w \in Handlers, QueueReminder(w)
  PROVE  IInv'
<1>a. /\ TypeOK /\ call[w].pc = "queue" /\ call[w] \in CallType
      /\ UNCHANGED <<signer, trail, clock, faults>>
  BY DEF QueueReminder, envVars, IInv, TypeOK
<1>1. CASE call[w].due = {}
  <2>1. call' = [call EXCEPT ![w] = Idle] /\ UNCHANGED queued
    BY <1>1 DEF QueueReminder
  <2> QED BY <1>a, <2>1, IdleEffect, ChooseStep
<1>2. CASE call[w].due # {}
  <2>1. PICK t \in call[w].due \cap Signers : t = Target(w)
    BY <1>a, <1>2, TargetInDue
  <2>2. /\ Moves(w) /\ call'[w].pc = "count" /\ call'[w].due = call[w].due
        /\ call'[w].automatic = call[w].automatic
        /\ queued' = [queued EXCEPT ![t] =
             [automatic |-> @.automatic + (IF call[w].automatic THEN 1 ELSE 0),
              ever |-> @.ever + 1, inTick |-> @.inTick + 1]]
    BY <1>a, <1>2, <2>1, GotoEffect DEF QueueReminder, Pc
  <2>3. Target(w)' = t
    BY <2>1, <2>2 DEF Target
  <2>4. /\ queued' \in [Signers -> [automatic : Nat, ever : Nat, inTick : Nat]]
        /\ \A s \in Signers \ {t} : queued'[s] = queued[s]
        /\ queued'[t].automatic
             = queued[t].automatic + (IF call[w].automatic THEN 1 ELSE 0)
        /\ queued'[t].ever = queued[t].ever + 1
        /\ queued'[t].inTick = queued[t].inTick + 1
    BY <1>a, <2>1, <2>2 DEF TypeOK
  <2>5. TypeOK'
    BY <1>a, <2>2, <2>4 DEF TypeOK, Moves
  <2>6. CallInv' /\ ClockInv'
    BY <1>a, <1>2, <2>2 DEF IInv, CallInv, ClockInv, Moves
  <2>7. ASSUME NEW s \in Signers
        PROVE  /\ Sends(w, s)' <=> s = t
               /\ ~Sends(w, s) /\ ~Records(w, s) /\ ~Records(w, s)'
               /\ Ahead(w, s) <=> s \in call[w].due
               /\ Ahead(w, s)' <=> s \in call[w].due /\ s # t
               /\ AutoSends(w, s)' <=> call[w].automatic /\ s = t
               /\ ~AutoSends(w, s)
               /\ AutoAhead(w, s) <=> call[w].automatic /\ s \in call[w].due
               /\ AutoAhead(w, s)' <=> call[w].automatic /\ s \in call[w].due /\ s # t
    BY <1>a, <2>2, <2>3 DEF Sends, Records, Ahead, AutoSends, AutoAhead
  <2>8. BackedInv'
    <3> SUFFICES ASSUME NEW s \in Signers
                 PROVE  /\ trail[s].n + Cardinality(Recorders(s)') <= signer[s].reminderCount
                        /\ signer[s].reminderCount + Cardinality(Senders(s)')
                             <= queued'[s].ever
      BY <1>a DEF BackedInv
    <3>1. /\ Shift(Senders(s), Senders(s)', Sends(w, s), Sends(w, s)')
          /\ Shift(Recorders(s), Recorders(s)', Records(w, s), Records(w, s)')
      BY <1>a, <2>2, MoveEffect
    <3>2. /\ trail[s].n + Cardinality(Recorders(s)) <= signer[s].reminderCount
          /\ signer[s].reminderCount + Cardinality(Senders(s)) <= queued[s].ever
      BY DEF IInv, BackedInv
    <3>3. signer[s].reminderCount \in Nat /\ queued[s].ever \in Nat
      BY <1>a DEF TypeOK, SignerType
    <3>4. Cardinality(Recorders(s)') = Cardinality(Recorders(s))
      BY <2>7, <3>1 DEF Shift, One
    <3>5. CASE s = t
      BY <2>1, <2>4, <2>7, <3>1, <3>2, <3>3, <3>4, <3>5 DEF Shift, One
    <3>6. CASE s # t
      BY <2>4, <2>7, <3>1, <3>2, <3>3, <3>4, <3>6 DEF Shift, One
    <3> QED BY <3>5, <3>6
  <2>9. ThrottleInv'
    <3> SUFFICES ASSUME NEW s \in Signers
                 PROVE  IF trail[s].last = clock
                        THEN queued'[s].inTick + Cardinality(Coming(s)')
                               <= Cardinality(Handlers) + faults
                        ELSE queued'[s].inTick <= Cardinality(Holders(s)') + faults
      BY <1>a DEF ThrottleInv
    <3>1. /\ Shift(Coming(s), Coming(s)', Ahead(w, s), Ahead(w, s)')
          /\ Shift(Holders(s), Holders(s)', Sends(w, s) \/ Records(w, s),
                   Sends(w, s)' \/ Records(w, s)')
      BY <1>a, <2>2, MoveEffect
    <3>2. IF trail[s].last = clock
          THEN queued[s].inTick + Cardinality(Coming(s)) <= Cardinality(Handlers) + faults
          ELSE queued[s].inTick <= Cardinality(Holders(s)) + faults
      BY DEF IInv, ThrottleInv
    <3>3. queued[s].inTick \in Nat /\ faults \in Nat /\ Cardinality(Handlers) \in Nat
      BY <1>a, NoMore DEF TypeOK
    <3>4. CASE s = t
      <4>1. /\ Cardinality(Coming(s)') = Cardinality(Coming(s)) - 1
            /\ Cardinality(Holders(s)') = Cardinality(Holders(s)) + 1
        BY <2>1, <2>7, <3>1, <3>4 DEF Shift, One
      <4> QED BY <2>4, <3>1, <3>2, <3>3, <3>4, <4>1 DEF Shift
    <3>5. CASE s # t
      <4>1. /\ Cardinality(Coming(s)') = Cardinality(Coming(s))
            /\ Cardinality(Holders(s)') = Cardinality(Holders(s))
        BY <2>7, <3>1, <3>5 DEF Shift, One
      <4> QED BY <2>4, <3>2, <3>5, <4>1
    <3> QED BY <3>4, <3>5
  <2>10. CapInv'
    <3> SUFFICES ASSUME NEW s \in Signers
                 PROVE  IF signer[s].reminderCount < MaxReminders
                        THEN queued'[s].automatic
                               <= signer[s].reminderCount
                                    + Cardinality(AutoSenders(s)') + faults
                        ELSE queued'[s].automatic + Cardinality(AutoComing(s)')
                               <= MaxReminders + (Cardinality(Workers) - 1) + faults
      BY <1>a DEF CapInv
    <3>1. /\ Shift(AutoSenders(s), AutoSenders(s)', AutoSends(w, s), AutoSends(w, s)')
          /\ Shift(AutoComing(s), AutoComing(s)', AutoAhead(w, s), AutoAhead(w, s)')
      BY <1>a, <2>2, MoveEffect
    <3>2. IF signer[s].reminderCount < MaxReminders
          THEN queued[s].automatic
                 <= signer[s].reminderCount + Cardinality(AutoSenders(s)) + faults
          ELSE queued[s].automatic + Cardinality(AutoComing(s))
                 <= MaxReminders + (Cardinality(Workers) - 1) + faults
      BY DEF IInv, CapInv
    <3>3. /\ queued[s].automatic \in Nat /\ faults \in Nat /\ MaxReminders \in Nat
          /\ Cardinality(Workers) \in Nat /\ signer[s].reminderCount \in Nat
      BY <1>a, Finite DEF TypeOK, SignerType, ReminderAssumption
    <3>4. CASE s = t /\ call[w].automatic
      <4>1. /\ Cardinality(AutoSenders(s)') = Cardinality(AutoSenders(s)) + 1
            /\ Cardinality(AutoComing(s)') = Cardinality(AutoComing(s)) - 1
            /\ queued'[s].automatic = queued[s].automatic + 1
        BY <2>1, <2>4, <2>7, <3>1, <3>4 DEF Shift, One
      <4> QED BY <3>1, <3>2, <3>3, <4>1 DEF Shift
    <3>5. CASE ~(s = t /\ call[w].automatic)
      <4>1. /\ Cardinality(AutoSenders(s)') = Cardinality(AutoSenders(s))
            /\ Cardinality(AutoComing(s)') = Cardinality(AutoComing(s))
        BY <2>7, <3>1, <3>5 DEF Shift, One
      <4>2. queued'[s].automatic = queued[s].automatic
        BY <2>4, <3>3, <3>5
      <4> QED BY <3>2, <4>1, <4>2
    <3> QED BY <3>4, <3>5
  <2> QED BY <2>5, <2>6, <2>8, <2>9, <2>10 DEF IInv
<1> QED BY <1>1, <1>2

LEMMA CountStep ==
  ASSUME ReminderAssumption, IInv, NEW w \in Handlers, CountReminder(w)
  PROVE  IInv'
<1>a. /\ TypeOK /\ call[w].pc = "count" /\ call[w] \in CallType
      /\ call[w].due # {} /\ Goto(w, "event")
      /\ UNCHANGED <<trail, queued, clock, faults>>
  BY DEF CountReminder, envVars, IInv, TypeOK, CallInv
<1>1. PICK t \in call[w].due \cap Signers : t = Target(w)
  BY <1>a, TargetInDue
<1>2. /\ Moves(w) /\ call'[w].pc = "event" /\ call'[w].due = call[w].due
      /\ call'[w].automatic = call[w].automatic
  BY <1>a, GotoEffect DEF Pc
<1>3. Target(w)' = t
  BY <1>1, <1>2 DEF Target
<1>4. /\ signer' \in [Signers -> SignerType]
      /\ \A s \in Signers \ {t} : signer'[s] = signer[s]
      /\ signer'[t].reminderCount = signer[t].reminderCount + 1
  <2>1. /\ signer' = [signer EXCEPT ![t].reminderCount = @ + 1]
        /\ signer \in [Signers -> SignerType]
    BY <1>a, <1>1 DEF CountReminder, TypeOK
  <2>2. /\ signer[t] \in SignerType
        /\ signer' = [signer EXCEPT ![t] =
             [signer[t] EXCEPT !.reminderCount = signer[t].reminderCount + 1]]
    BY <2>1
  <2>3. /\ [signer[t] EXCEPT !.reminderCount = signer[t].reminderCount + 1] \in SignerType
        /\ [signer[t] EXCEPT !.reminderCount = signer[t].reminderCount + 1].reminderCount
             = signer[t].reminderCount + 1
    BY <2>2 DEF SignerType
  <2> QED BY <2>1, <2>2, <2>3
<1>5. TypeOK'
  BY <1>a, <1>2, <1>4 DEF TypeOK, Moves
<1>6. CallInv' /\ ClockInv'
  BY <1>a, <1>2 DEF IInv, CallInv, ClockInv, Moves
<1>7. ASSUME NEW s \in Signers
      PROVE  /\ Sends(w, s) <=> s = t
             /\ Records(w, s)' <=> s = t
             /\ ~Sends(w, s)' /\ ~Records(w, s)
             /\ Ahead(w, s)' <=> Ahead(w, s)
             /\ AutoSends(w, s) <=> call[w].automatic /\ s = t
             /\ ~AutoSends(w, s)'
             /\ AutoAhead(w, s)' <=> AutoAhead(w, s)
  BY <1>a, <1>1, <1>2, <1>3 DEF Sends, Records, Ahead, AutoSends, AutoAhead
<1>8. BackedInv'
  <2> SUFFICES ASSUME NEW s \in Signers
               PROVE  /\ trail[s].n + Cardinality(Recorders(s)')
                           <= signer'[s].reminderCount
                      /\ signer'[s].reminderCount + Cardinality(Senders(s)')
                           <= queued[s].ever
    BY <1>a DEF BackedInv
  <2>1. /\ Shift(Senders(s), Senders(s)', Sends(w, s), Sends(w, s)')
        /\ Shift(Recorders(s), Recorders(s)', Records(w, s), Records(w, s)')
    BY <1>a, <1>2, MoveEffect
  <2>2. /\ trail[s].n + Cardinality(Recorders(s)) <= signer[s].reminderCount
        /\ signer[s].reminderCount + Cardinality(Senders(s)) <= queued[s].ever
    BY DEF IInv, BackedInv
  <2>3. signer[s].reminderCount \in Nat /\ queued[s].ever \in Nat /\ trail[s].n \in Nat
    BY <1>a DEF TypeOK, SignerType
  <2>4. CASE s = t
    <3>1. /\ Cardinality(Senders(s)') = Cardinality(Senders(s)) - 1
          /\ Cardinality(Recorders(s)') = Cardinality(Recorders(s)) + 1
      BY <1>7, <2>1, <2>4 DEF Shift, One
    <3> QED BY <1>4, <2>1, <2>2, <2>3, <2>4, <3>1 DEF Shift
  <2>5. CASE s # t
    <3>1. /\ Cardinality(Senders(s)') = Cardinality(Senders(s))
          /\ Cardinality(Recorders(s)') = Cardinality(Recorders(s))
      BY <1>7, <2>1, <2>5 DEF Shift, One
    <3> QED BY <1>4, <2>2, <2>5, <3>1
  <2> QED BY <2>4, <2>5
<1>9. ThrottleInv'
  <2> SUFFICES ASSUME NEW s \in Signers
               PROVE  /\ Cardinality(Coming(s)') = Cardinality(Coming(s))
                      /\ Cardinality(Holders(s)') = Cardinality(Holders(s))
    BY <1>a DEF IInv, ThrottleInv
  <2>1. /\ Shift(Coming(s), Coming(s)', Ahead(w, s), Ahead(w, s)')
        /\ Shift(Holders(s), Holders(s)', Sends(w, s) \/ Records(w, s),
                 Sends(w, s)' \/ Records(w, s)')
    BY <1>a, <1>2, MoveEffect
  <2> QED BY <1>7, <2>1 DEF Shift, One
<1>10. CapInv'
  <2> SUFFICES ASSUME NEW s \in Signers
               PROVE  IF signer'[s].reminderCount < MaxReminders
                      THEN queued[s].automatic
                             <= signer'[s].reminderCount
                                  + Cardinality(AutoSenders(s)') + faults
                      ELSE queued[s].automatic + Cardinality(AutoComing(s)')
                             <= MaxReminders + (Cardinality(Workers) - 1) + faults
    BY <1>a DEF CapInv
  <2>1. /\ Shift(AutoSenders(s), AutoSenders(s)', AutoSends(w, s), AutoSends(w, s)')
        /\ Shift(AutoComing(s), AutoComing(s)', AutoAhead(w, s), AutoAhead(w, s)')
    BY <1>a, <1>2, MoveEffect
  <2>2. IF signer[s].reminderCount < MaxReminders
        THEN queued[s].automatic
               <= signer[s].reminderCount + Cardinality(AutoSenders(s)) + faults
        ELSE queued[s].automatic + Cardinality(AutoComing(s))
               <= MaxReminders + (Cardinality(Workers) - 1) + faults
    BY DEF IInv, CapInv
  <2>3. /\ queued[s].automatic \in Nat /\ faults \in Nat /\ MaxReminders \in Nat
        /\ Cardinality(Workers) \in Nat /\ signer[s].reminderCount \in Nat
    BY <1>a, Finite DEF TypeOK, SignerType, ReminderAssumption
  <2>4. /\ Cardinality(AutoComing(s)') = Cardinality(AutoComing(s))
        /\ Cardinality(AutoSenders(s)') = Cardinality(AutoSenders(s))
             - One(call[w].automatic /\ s = t)
    BY <1>7, <2>1 DEF Shift, One
  <2>5. Cardinality(AutoSenders(s)) + Cardinality(AutoComing(s)) <= Cardinality(Workers)
    <3>1. AutoSenders(s) \cap AutoComing(s) = {}
      BY DEF AutoSenders, AutoComing, AutoSends, AutoAhead, Sends, Ahead
    <3>2. AutoSenders(s) \in SUBSET Workers /\ AutoComing(s) \in SUBSET Workers
      BY DEF AutoSenders, AutoComing, AutoSends, AutoAhead, IInv, CallInv
    <3> QED BY <3>1, <3>2, Apart
  <2>6. CASE s = t
    BY <1>4, <2>1, <2>2, <2>3, <2>4, <2>5, <2>6 DEF Shift, One
  <2>7. CASE s # t
    <3>1. signer'[s] = signer[s]
      BY <1>4, <2>7
    <3>2. Cardinality(AutoSenders(s)') = Cardinality(AutoSenders(s))
      BY <2>1, <2>4, <2>7 DEF Shift, One
    <3> QED BY <2>2, <2>4, <3>1, <3>2
  <2> QED BY <2>6, <2>7
<1> QED BY <1>5, <1>6, <1>8, <1>9, <1>10 DEF IInv

LEMMA RecordStep ==
  ASSUME ReminderAssumption, IInv, NEW w \in Handlers, RecordReminder(w)
  PROVE  IInv'
<1>a. /\ TypeOK /\ call[w].pc = "event" /\ call[w] \in CallType
      /\ call[w].due # {}
      /\ UNCHANGED <<signer, queued, clock, faults>>
  BY DEF RecordReminder, envVars, IInv, TypeOK, CallInv
<1>1. PICK t \in call[w].due \cap Signers : t = Target(w)
  BY <1>a, TargetInDue
<1>2. /\ Moves(w) /\ call'[w].pc = "queue" /\ call'[w].due = call[w].due \ {t}
      /\ call'[w].automatic = call[w].automatic
  <2>1. /\ call' = [call EXCEPT ![w] =
                      [call[w] EXCEPT !.pc = "queue", !.due = call[w].due \ {t}]]
        /\ call \in [Handlers -> CallType]
    BY <1>a, <1>1 DEF RecordReminder, TypeOK
  <2>2. /\ [call[w] EXCEPT !.pc = "queue", !.due = call[w].due \ {t}] \in CallType
        /\ [call[w] EXCEPT !.pc = "queue", !.due = call[w].due \ {t}].pc = "queue"
        /\ [call[w] EXCEPT !.pc = "queue", !.due = call[w].due \ {t}].due
             = call[w].due \ {t}
        /\ [call[w] EXCEPT !.pc = "queue", !.due = call[w].due \ {t}].automatic
             = call[w].automatic
    BY <1>a DEF CallType, Pc
  <2> QED BY <2>1, <2>2 DEF Moves
<1>3. /\ trail' \in [Signers -> [n : Nat, last : Int]]
      /\ \A s \in Signers \ {t} : trail'[s] = trail[s]
      /\ trail'[t].n = trail[t].n + 1 /\ trail'[t].last = clock
      /\ trail[t].n \in Nat
  <2>1. /\ trail' = [trail EXCEPT ![t] = [n |-> @.n + 1, last |-> clock]]
        /\ trail \in [Signers -> [n : Nat, last : Int]] /\ clock \in Int
    BY <1>a, <1>1 DEF RecordReminder, TypeOK
  <2> QED BY <2>1
<1>4. TypeOK'
  BY <1>a, <1>2, <1>3 DEF TypeOK, Moves
<1>5. CallInv' /\ ClockInv'
  <2>1. CallInv'
    BY <1>2 DEF IInv, CallInv, Moves
  <2>2. ASSUME NEW s \in Signers
        PROVE  trail'[s].last <= clock /\ (trail'[s].last = clock => trail'[s].n > 0)
    <3>1. CASE s = t
      BY <1>a, <1>3, <3>1 DEF TypeOK
    <3>2. CASE s # t
      BY <1>3, <3>2 DEF IInv, ClockInv
    <3> QED BY <3>1, <3>2
  <2> QED BY <1>a, <2>1, <2>2 DEF ClockInv
<1>6. ASSUME NEW s \in Signers
      PROVE  /\ ~Sends(w, s) /\ ~Sends(w, s)' /\ ~Records(w, s)'
             /\ Records(w, s) <=> s = t
             /\ Ahead(w, s)' <=> Ahead(w, s)
             /\ ~AutoSends(w, s) /\ ~AutoSends(w, s)'
             /\ AutoAhead(w, s)' <=> AutoAhead(w, s)
  BY <1>a, <1>1, <1>2 DEF Sends, Records, Ahead, AutoSends, AutoAhead
<1>7. ASSUME NEW s \in Signers
      PROVE  /\ Cardinality(Senders(s)') = Cardinality(Senders(s))
             /\ Cardinality(Recorders(s)') = Cardinality(Recorders(s)) - One(s = t)
             /\ Cardinality(Holders(s)') = Cardinality(Holders(s)) - One(s = t)
             /\ Cardinality(Coming(s)') = Cardinality(Coming(s))
             /\ Cardinality(AutoSenders(s)') = Cardinality(AutoSenders(s))
             /\ Cardinality(AutoComing(s)') = Cardinality(AutoComing(s))
             /\ Cardinality(Recorders(s)) \in Nat
  <2>1. /\ Shift(Senders(s), Senders(s)', Sends(w, s), Sends(w, s)')
        /\ Shift(Recorders(s), Recorders(s)', Records(w, s), Records(w, s)')
        /\ Shift(Holders(s), Holders(s)', Sends(w, s) \/ Records(w, s),
                 Sends(w, s)' \/ Records(w, s)')
        /\ Shift(Coming(s), Coming(s)', Ahead(w, s), Ahead(w, s)')
        /\ Shift(AutoSenders(s), AutoSenders(s)', AutoSends(w, s), AutoSends(w, s)')
        /\ Shift(AutoComing(s), AutoComing(s)', AutoAhead(w, s), AutoAhead(w, s)')
    BY <1>a, <1>2, MoveEffect
  <2>2. /\ Cardinality(Senders(s)') = Cardinality(Senders(s))
        /\ Cardinality(AutoSenders(s)') = Cardinality(AutoSenders(s))
    BY <1>6, <2>1 DEF Shift, One
  <2>3. /\ Cardinality(Coming(s)') = Cardinality(Coming(s))
        /\ Cardinality(AutoComing(s)') = Cardinality(AutoComing(s))
    BY <1>6, <2>1 DEF Shift, One
  <2>4. /\ Cardinality(Recorders(s)') = Cardinality(Recorders(s)) - One(s = t)
        /\ Cardinality(Recorders(s)) \in Nat
    BY <1>6, <2>1 DEF Shift, One
  <2>5. Cardinality(Holders(s)') = Cardinality(Holders(s)) - One(s = t)
    BY <1>6, <2>1 DEF Shift, One
  <2> QED BY <2>2, <2>3, <2>4, <2>5
<1>8. BackedInv'
  <2> SUFFICES ASSUME NEW s \in Signers
               PROVE  trail'[s].n + Cardinality(Recorders(s)') <= signer[s].reminderCount
    BY <1>a, <1>7 DEF IInv, BackedInv
  <2>1. trail[s].n + Cardinality(Recorders(s)) <= signer[s].reminderCount
    BY DEF IInv, BackedInv
  <2>2. signer[s].reminderCount \in Nat /\ trail[s].n \in Nat
    BY <1>a DEF TypeOK, SignerType
  <2>3. CASE s = t
    BY <1>3, <1>7, <2>1, <2>2, <2>3 DEF One
  <2>4. CASE s # t
    BY <1>3, <1>7, <2>1, <2>2, <2>4 DEF One
  <2> QED BY <2>3, <2>4
<1>9. ThrottleInv'
  <2> SUFFICES ASSUME NEW s \in Signers
               PROVE  IF trail'[s].last = clock
                      THEN queued[s].inTick + Cardinality(Coming(s)')
                             <= Cardinality(Handlers) + faults
                      ELSE queued[s].inTick <= Cardinality(Holders(s)') + faults
    BY <1>a DEF ThrottleInv
  <2>1. IF trail[s].last = clock
        THEN queued[s].inTick + Cardinality(Coming(s)) <= Cardinality(Handlers) + faults
        ELSE queued[s].inTick <= Cardinality(Holders(s)) + faults
    BY DEF IInv, ThrottleInv
  <2>2. CASE s = t
    <3>1. Cardinality(Holders(s)) + Cardinality(Coming(s)) <= Cardinality(Handlers)
      <4>1. Holders(s) \cap Coming(s) = {}
        BY DEF Holders, Coming, Sends, Records, Ahead
      <4>2. Holders(s) \in SUBSET Handlers /\ Coming(s) \in SUBSET Handlers
        BY DEF Holders, Coming
      <4> QED BY <4>1, <4>2, Apart
    <3>2. /\ queued[s].inTick \in Nat /\ faults \in Nat /\ Cardinality(Handlers) \in Nat
          /\ Cardinality(Coming(s)) \in Nat /\ Cardinality(Holders(s)) \in Nat
      BY <1>a, NoMore DEF TypeOK, Coming, Holders
    <3>3. queued[s].inTick + Cardinality(Coming(s)) <= Cardinality(Handlers) + faults
      BY <2>1, <3>1, <3>2
    <3> QED BY <1>3, <1>7, <2>2, <3>3
  <2>3. CASE s # t
    <3>1. Cardinality(Holders(s)') = Cardinality(Holders(s))
      <4>1. Cardinality(Holders(s)) \in Nat
        BY NoMore DEF Holders
      <4> QED BY <1>7, <2>3, <4>1 DEF One
    <3> QED BY <1>3, <1>7, <2>1, <2>3, <3>1
  <2> QED BY <2>2, <2>3
<1>10. CapInv'
  BY <1>a, <1>7 DEF IInv, CapInv
<1> QED BY <1>4, <1>5, <1>8, <1>9, <1>10 DEF IInv

(* A crash moves a handler out of every set, and is counted.               *)
LEMMA CrashStep ==
  ASSUME ReminderAssumption, IInv, NEW w \in Handlers, Crash(w)
  PROVE  IInv'
<1>a. /\ TypeOK /\ call' = [call EXCEPT ![w] = Idle]
      /\ faults' = faults + 1 /\ faults \in Nat
      /\ UNCHANGED <<signer, trail, queued, clock>>
  BY DEF Crash, IInv, TypeOK
<1>1. /\ Moves(w) /\ call'[w].pc = "idle" /\ ~call'[w].automatic
      /\ \A s \in Signers :
           /\ ~Sends(w, s)' /\ ~Records(w, s)' /\ ~Ahead(w, s)'
           /\ ~AutoSends(w, s)' /\ ~AutoAhead(w, s)'
  BY <1>a, IdleEffect
<1>2. TypeOK' /\ CallInv' /\ ClockInv'
  BY <1>a, <1>1 DEF IInv, TypeOK, CallInv, ClockInv, Moves
<1>3. ASSUME NEW s \in Signers, NEW now, NEW then, NEW b, Shift(now, then, b, FALSE)
      PROVE  /\ Cardinality(now) \in Nat /\ Cardinality(then) \in Nat
             /\ Cardinality(then) <= Cardinality(now)
             /\ Cardinality(now) <= Cardinality(then) + 1
  BY <1>3 DEF Shift, One
<1>4. ASSUME NEW s \in Signers
      PROVE  /\ Shift(Senders(s), Senders(s)', Sends(w, s), FALSE)
             /\ Shift(Recorders(s), Recorders(s)', Records(w, s), FALSE)
             /\ Shift(Holders(s), Holders(s)', Sends(w, s) \/ Records(w, s), FALSE)
             /\ Shift(Coming(s), Coming(s)', Ahead(w, s), FALSE)
             /\ Shift(AutoSenders(s), AutoSenders(s)', AutoSends(w, s), FALSE)
             /\ Shift(AutoComing(s), AutoComing(s)', AutoAhead(w, s), FALSE)
  <2>1. /\ Shift(Senders(s), Senders(s)', Sends(w, s), Sends(w, s)')
        /\ Shift(Recorders(s), Recorders(s)', Records(w, s), Records(w, s)')
        /\ Shift(Holders(s), Holders(s)', Sends(w, s) \/ Records(w, s),
                 Sends(w, s)' \/ Records(w, s)')
        /\ Shift(Coming(s), Coming(s)', Ahead(w, s), Ahead(w, s)')
        /\ Shift(AutoSenders(s), AutoSenders(s)', AutoSends(w, s), AutoSends(w, s)')
        /\ Shift(AutoComing(s), AutoComing(s)', AutoAhead(w, s), AutoAhead(w, s)')
    BY <1>a, <1>1, MoveEffect
  <2> QED BY <1>1, <2>1 DEF Shift, One
<1>5. BackedInv'
  <2> SUFFICES ASSUME NEW s \in Signers
               PROVE  /\ trail[s].n + Cardinality(Recorders(s)') <= signer[s].reminderCount
                      /\ signer[s].reminderCount + Cardinality(Senders(s)')
                           <= queued[s].ever
    BY <1>a DEF BackedInv
  <2>1. /\ trail[s].n + Cardinality(Recorders(s)) <= signer[s].reminderCount
        /\ signer[s].reminderCount + Cardinality(Senders(s)) <= queued[s].ever
    BY DEF IInv, BackedInv
  <2>2. signer[s].reminderCount \in Nat /\ queued[s].ever \in Nat /\ trail[s].n \in Nat
    BY <1>a DEF TypeOK, SignerType
  <2>3. /\ Cardinality(Recorders(s)) \in Nat /\ Cardinality(Recorders(s)') \in Nat
        /\ Cardinality(Recorders(s)') <= Cardinality(Recorders(s))
        /\ Cardinality(Senders(s)) \in Nat /\ Cardinality(Senders(s)') \in Nat
        /\ Cardinality(Senders(s)') <= Cardinality(Senders(s))
    BY <1>3, <1>4
  <2> QED BY <2>1, <2>2, <2>3
<1>6. ThrottleInv'
  <2> SUFFICES ASSUME NEW s \in Signers
               PROVE  IF trail[s].last = clock
                      THEN queued[s].inTick + Cardinality(Coming(s)')
                             <= Cardinality(Handlers) + (faults + 1)
                      ELSE queued[s].inTick <= Cardinality(Holders(s)') + (faults + 1)
    BY <1>a DEF ThrottleInv
  <2>1. IF trail[s].last = clock
        THEN queued[s].inTick + Cardinality(Coming(s)) <= Cardinality(Handlers) + faults
        ELSE queued[s].inTick <= Cardinality(Holders(s)) + faults
    BY DEF IInv, ThrottleInv
  <2>2. queued[s].inTick \in Nat /\ Cardinality(Handlers) \in Nat
    BY <1>a, NoMore DEF TypeOK
  <2>3. /\ Cardinality(Coming(s)) \in Nat /\ Cardinality(Coming(s)') \in Nat
        /\ Cardinality(Coming(s)') <= Cardinality(Coming(s))
        /\ Cardinality(Holders(s)) \in Nat /\ Cardinality(Holders(s)') \in Nat
        /\ Cardinality(Holders(s)) <= Cardinality(Holders(s)') + 1
    BY <1>3, <1>4
  <2> QED BY <1>a, <2>1, <2>2, <2>3
<1>7. CapInv'
  <2> SUFFICES ASSUME NEW s \in Signers
               PROVE  IF signer[s].reminderCount < MaxReminders
                      THEN queued[s].automatic
                             <= signer[s].reminderCount
                                  + Cardinality(AutoSenders(s)') + (faults + 1)
                      ELSE queued[s].automatic + Cardinality(AutoComing(s)')
                             <= MaxReminders + (Cardinality(Workers) - 1) + (faults + 1)
    BY <1>a DEF CapInv
  <2>1. IF signer[s].reminderCount < MaxReminders
        THEN queued[s].automatic
               <= signer[s].reminderCount + Cardinality(AutoSenders(s)) + faults
        ELSE queued[s].automatic + Cardinality(AutoComing(s))
               <= MaxReminders + (Cardinality(Workers) - 1) + faults
    BY DEF IInv, CapInv
  <2>2. /\ queued[s].automatic \in Nat /\ MaxReminders \in Nat
        /\ Cardinality(Workers) \in Nat /\ signer[s].reminderCount \in Nat
    BY <1>a, Finite DEF TypeOK, SignerType, ReminderAssumption
  <2>3. /\ Cardinality(AutoComing(s)) \in Nat /\ Cardinality(AutoComing(s)') \in Nat
        /\ Cardinality(AutoComing(s)') <= Cardinality(AutoComing(s))
        /\ Cardinality(AutoSenders(s)) \in Nat /\ Cardinality(AutoSenders(s)') \in Nat
        /\ Cardinality(AutoSenders(s)) <= Cardinality(AutoSenders(s)') + 1
    BY <1>3, <1>4
  <2> QED BY <1>a, <2>1, <2>2, <2>3
<1> QED BY <1>2, <1>5, <1>6, <1>7 DEF IInv
-----------------------------------------------------------------------------
(* What is not a call: no handler moves, no count changes.                 *)
LEMMA OutsideStep ==
  ASSUME ReminderAssumption, IInv, Outside \/ UNCHANGED vars
  PROVE  IInv'
<1>a. TypeOK
  BY DEF IInv
<1>b. UNCHANGED <<trail, call, faults>>
  BY DEF Outside, Schedule, Ends, Tick, SignerSigns, SignerDeclines, vars, envVars
<1>1. /\ signer' \in [Signers -> SignerType]
      /\ \A s \in Signers : signer'[s].reminderCount = signer[s].reminderCount
  <2>1. CASE UNCHANGED signer
    BY <1>a, <2>1 DEF TypeOK
  <2>2. ASSUME NEW t \in Signers, SignerSigns(t)
        PROVE  /\ signer' \in [Signers -> SignerType]
               /\ \A s \in Signers : signer'[s].reminderCount = signer[s].reminderCount
    <3>1. ASSUME NEW s \in Signers, NEW status \in {"SIGNED", "INVITED"}
          PROVE  /\ [signer[s] EXCEPT !.status = status] \in SignerType
                 /\ [signer[s] EXCEPT !.status = status].reminderCount
                      = signer[s].reminderCount
      BY <1>a DEF TypeOK, SignerType
    <3>2. ASSUME NEW s \in Signers
          PROVE  \/ signer'[s] = signer[s]
                 \/ signer'[s] = [signer[s] EXCEPT !.status = "SIGNED"]
                 \/ signer'[s] = [signer[s] EXCEPT !.status = "INVITED"]
      BY <2>2 DEF SignerSigns
    <3>3. ASSUME NEW s \in Signers
          PROVE  /\ signer'[s] \in SignerType
                 /\ signer'[s].reminderCount = signer[s].reminderCount
      BY <1>a, <3>1, <3>2 DEF TypeOK
    <3>4. signer' = [s \in Signers |-> signer'[s]]
      BY <2>2 DEF SignerSigns
    <3> QED BY <3>3, <3>4
  <2>3. ASSUME NEW t \in Signers, SignerDeclines(t)
        PROVE  /\ signer' \in [Signers -> SignerType]
               /\ \A s \in Signers : signer'[s].reminderCount = signer[s].reminderCount
    <3>1. /\ [signer[t] EXCEPT !.status = "DECLINED"] \in SignerType
          /\ [signer[t] EXCEPT !.status = "DECLINED"].reminderCount
               = signer[t].reminderCount
      BY <1>a DEF TypeOK, SignerType
    <3>2. signer' = [signer EXCEPT ![t] = [signer[t] EXCEPT !.status = "DECLINED"]]
      BY <2>3 DEF SignerDeclines
    <3> QED BY <1>a, <3>1, <3>2 DEF TypeOK
  <2> QED BY <2>1, <2>2, <2>3 DEF Outside, Schedule, Ends, Tick, vars
<1>2. \/ UNCHANGED <<clock, queued>>
      \/ /\ clock' = clock + 1
         /\ queued' = [s \in Signers |-> [queued[s] EXCEPT !.inTick = 0]]
  BY DEF Outside, Schedule, Ends, Tick, SignerSigns, SignerDeclines, vars, envVars
<1>3. /\ clock' \in Nat
      /\ queued' \in [Signers -> [automatic : Nat, ever : Nat, inTick : Nat]]
      /\ \A s \in Signers : /\ queued'[s].automatic = queued[s].automatic
                            /\ queued'[s].ever = queued[s].ever
      /\ \/ UNCHANGED <<clock, queued>>
         \/ clock' = clock + 1 /\ \A s \in Signers : queued'[s].inTick = 0
  BY <1>a, <1>2 DEF TypeOK
<1>4. ASSUME NEW s \in Signers
      PROVE  UNCHANGED <<Senders(s), Recorders(s), Holders(s), Coming(s),
                         AutoSenders(s), AutoComing(s)>>
  <2>1. \A w \in Handlers : Target(w)' = Target(w)
    BY <1>b DEF Target
  <2> QED BY <1>b, <2>1 DEF Senders, Recorders, Holders, Coming, AutoSenders, AutoComing,
                            Sends, Records, Ahead, AutoSends, AutoAhead
<1>5. TypeOK' /\ CallInv'
  BY <1>a, <1>b, <1>1, <1>3 DEF IInv, TypeOK, CallInv
<1>6. ClockInv'
  BY <1>a, <1>b, <1>3 DEF IInv, TypeOK, ClockInv
<1>7. BackedInv'
  BY <1>b, <1>1, <1>3, <1>4 DEF IInv, BackedInv
<1>8. ThrottleInv'
  <2>1. CASE UNCHANGED <<clock, queued>>
    BY <1>b, <1>4, <2>1 DEF IInv, ThrottleInv
  <2>2. CASE clock' = clock + 1 /\ \A s \in Signers : queued'[s].inTick = 0
    <3>1. ASSUME NEW s \in Signers
          PROVE  trail'[s].last # clock'
      BY <1>a, <1>b, <2>2 DEF IInv, ClockInv, TypeOK
    <3>2. ASSUME NEW s \in Signers
          PROVE  0 <= Cardinality(Holders(s)') + faults
      BY <1>a, <1>4, NoMore DEF TypeOK, Holders
    <3> QED BY <1>b, <2>2, <3>1, <3>2 DEF ThrottleInv
  <2> QED BY <1>3, <2>1, <2>2
<1>9. CapInv'
  BY <1>b, <1>1, <1>3, <1>4 DEF IInv, CapInv
<1> QED BY <1>5, <1>6, <1>7, <1>8, <1>9 DEF IInv

LEMMA Invariance ==
  ASSUME ReminderAssumption
  PROVE  Spec => []IInv
<1>1. IInv /\ [Next]_vars => IInv'
  BY OutsideStep, StartStep, ReadSignersStep, ReadEventsStep, QueueStep,
     CountStep, RecordStep, CrashStep
  DEF Next, Dispatch, Handlers
<1>2. Init => IInv
  BY Init_IInv
<1> QED BY <1>1, <1>2, PTL DEF Spec

(* Whoever dies in between, no event without a count and no count without  *)
(* a queued mail.                                                          *)
THEOREM EventsAreBacked ==
  ASSUME ReminderAssumption
  PROVE  Spec => []TrailBacked
<1>1. IInv => TrailBacked
  <2> SUFFICES ASSUME IInv, NEW s \in Signers
               PROVE  /\ trail[s].n <= signer[s].reminderCount
                      /\ signer[s].reminderCount <= queued[s].ever
    BY DEF TrailBacked
  <2>1. Cardinality(Recorders(s)) \in Nat /\ Cardinality(Senders(s)) \in Nat
    BY NoMore DEF Recorders, Senders
  <2>2. signer[s].reminderCount \in Nat /\ queued[s].ever \in Nat /\ trail[s].n \in Nat
    BY DEF IInv, TypeOK, SignerType
  <2> QED BY <2>1, <2>2 DEF IInv, BackedInv
<1> QED BY <1>1, Invariance, PTL

(* Whatever the number of operators that ask at once, of replicas and of   *)
(* signers: a signer is reminded once in the throttle's time by each call  *)
(* or sweep of those that are under way at once, once more for each crash, *)
(* and by nobody who starts later.                                         *)
THEOREM ThrottleBound ==
  ASSUME ReminderAssumption
  PROVE  Spec => []ThrottleOvershoot
<1>1. IInv => ThrottleOvershoot
  <2> SUFFICES ASSUME IInv, NEW s \in Signers
               PROVE  queued[s].inTick <= Cardinality(Handlers) + faults
    BY DEF ThrottleOvershoot
  <2>1. /\ Cardinality(Coming(s)) \in Nat /\ Cardinality(Handlers) \in Nat
        /\ Cardinality(Holders(s)) \in Nat
        /\ Cardinality(Holders(s)) <= Cardinality(Handlers)
    BY NoMore DEF Coming, Holders
  <2>2. queued[s].inTick \in Nat /\ faults \in Nat
    BY DEF IInv, TypeOK
  <2>3. IF trail[s].last = clock
        THEN queued[s].inTick + Cardinality(Coming(s)) <= Cardinality(Handlers) + faults
        ELSE queued[s].inTick <= Cardinality(Holders(s)) + faults
    BY DEF IInv, ThrottleInv
  <2> QED BY <2>1, <2>2, <2>3
<1> QED BY <1>1, Invariance, PTL

(* The cap on automatic reminders likewise: one for each other replica and *)
(* one for each crash.                                                     *)
THEOREM CapBound ==
  ASSUME ReminderAssumption
  PROVE  Spec => []CapOvershoot
<1>1. IInv => CapOvershoot
  <2> SUFFICES ASSUME IInv, NEW s \in Signers
               PROVE  queued[s].automatic
                        <= MaxReminders + (Cardinality(Workers) - 1) + faults
    BY DEF CapOvershoot
  <2>1. /\ Cardinality(AutoComing(s)) \in Nat /\ Cardinality(Workers) \in Nat
        /\ Cardinality(AutoSenders(s)) \in Nat
        /\ Cardinality(AutoSenders(s)) <= Cardinality(Workers)
    <3>1. AutoSenders(s) \subseteq Workers /\ AutoComing(s) \subseteq Workers
      BY DEF IInv, CallInv, AutoSenders, AutoComing, AutoSends, AutoAhead
    <3> QED BY <3>1, Finite, FS_Subset, FS_CardinalityType
  <2>2. /\ queued[s].automatic \in Nat /\ faults \in Nat
        /\ signer[s].reminderCount \in Nat /\ MaxReminders \in Nat
    BY DEF IInv, TypeOK, SignerType, ReminderAssumption
  <2>3. IF signer[s].reminderCount < MaxReminders
        THEN queued[s].automatic
               <= signer[s].reminderCount + Cardinality(AutoSenders(s)) + faults
        ELSE queued[s].automatic + Cardinality(AutoComing(s))
               <= MaxReminders + (Cardinality(Workers) - 1) + faults
    BY DEF IInv, CapInv
  <2> QED BY <2>1, <2>2, <2>3
<1> QED BY <1>1, Invariance, PTL
=============================================================================
