-------------------------- MODULE AccountsProofs --------------------------
(***************************************************************************)
(* Proofs about Sessions, Tenancy and Billing, for any number of users,    *)
(* organizations, fetches and calls.                                       *)
(***************************************************************************)
EXTENDS Sessions, Tenancy, Billing, FiniteSetTheorems, TLAPS

(***************************************************************************)
(* Proofs about Sessions, for any number of fetches and sessions.          *)
(*                                                                         *)
(* A rotation is two writes with an await between them.  What keeps two    *)
(* rotations of one login apart is what the first write establishes for    *)
(* whoever counted it (RotationInv): no session of the login is live, none *)
(* succeeds the revoked one, and no other fetch is between the same two    *)
(* writes.  What keeps the browser logged in is that the token of an       *)
(* answered rotation is known to nobody else until it is in the cookie     *)
(* (AnswerInv).                                                            *)
(***************************************************************************)

Pc == {"idle", "sent", "find", "revoke", "create", "answered"}
Status == {"absent", "ACTIVE", "SUSPENDED", "DEACTIVATED"}

SessionTypeOK ==
  /\ status \in Status
  /\ session \in [Tokens -> [state : {"absent", "live", "revoked"},
                             login : Tokens \cup {None},
                             from : Tokens \cup {None}]]
  /\ cookie \in [refresh : Tokens \cup {None},
                 access : {"none", "fresh", "expired"}]
  /\ fetch \in [Fetches -> [pc : Pc, refresh : Tokens \cup {None},
                            retry : BOOLEAN]]
  /\ suspend \in BOOLEAN
  /\ faults \in Nat

Used(t) == session[t].state # "absent"

(* Only sessions that were created are named, by one another, by the       *)
(* browser and by the fetches.                                             *)
UsedInv ==
  /\ \A t \in Tokens :
       /\ ~Used(t) => session[t] = Absent
       /\ Used(t) => session[t].login \in Tokens
       /\ \A x \in {session[t].login, session[t].from} : x # None => Used(x)
  /\ cookie.refresh # None => Used(cookie.refresh)
  /\ \A f \in Fetches :
       /\ fetch[f].refresh # None => Used(fetch[f].refresh)
       /\ fetch[f].pc \in {"revoke", "create", "answered"} => fetch[f].refresh # None

(* A token has one successor, and none while it is live; a login has one   *)
(* live session.                                                           *)
ChainInv ==
  \A x, y \in Tokens :
    /\ session[x].from # None /\ session[x].from = session[y].from => x = y
    /\ x \in Live => session[y].from # x
    /\ x \in Live /\ y \in Live /\ session[x].login = session[y].login => x = y

(* The fetch that revoked a session is alone in making its successor.      *)
RotationInv ==
  \A f \in Fetches : fetch[f].pc = "create" =>
    LET old == fetch[f].refresh
    IN  /\ old \notin Live
        /\ \A x \in Tokens : session[x].from # old
        /\ \A x \in Live : session[x].login # session[old].login
        /\ \A g \in Fetches : g # f /\ fetch[g].pc = "create"
             => session[fetch[g].refresh].login # session[old].login

(* The successor stays live until it reaches the cookie, unless the login  *)
(* is ended: no other fetch, and not the cookie, names it.                 *)
AnswerInv ==
  \A f \in Fetches : fetch[f].pc = "answered" =>
    LET new == fetch[f].refresh
    IN  /\ new \in Live \/ session[new].login \in ended
        /\ cookie.refresh # new
        /\ \A g \in Fetches : g # f => fetch[g].refresh # new

(* The browser holds the live session, or some fetch is about to bring it  *)
(* the next.                                                               *)
HoldInv ==
  /\ faults = 0 /\ cookie.refresh # None
  /\ session[cookie.refresh].login \notin ended
  => \/ cookie.refresh \in Live
     \/ \E f \in Fetches : fetch[f].pc \in {"create", "answered"}

SessionIInv == SessionTypeOK /\ UsedInv /\ ChainInv /\ RotationInv /\ AnswerInv /\ HoldInv
-----------------------------------------------------------------------------
FetchType == [pc : Pc, refresh : Tokens \cup {None}, retry : BOOLEAN]
SessionType == [state : {"absent", "live", "revoked"},
                login : Tokens \cup {None}, from : Tokens \cup {None}]

LEMMA NoneIsNoToken == None \notin Tokens
BY DEF None, Tokens

LEMMA RecordTypes ==
  ASSUME SessionTypeOK
  PROVE  /\ session \in [Tokens -> SessionType]
         /\ fetch \in [Fetches -> FetchType]
BY DEF SessionTypeOK, SessionType, FetchType

LEMMA SessionInit_IInv == SessionInit => SessionIInv
<1> SUFFICES ASSUME SessionInit
             PROVE  SessionIInv
  OBVIOUS
<1>1. \A t \in Tokens : session[t] = Absent
  BY DEF SessionInit
<1>2. SessionTypeOK
  BY DEF SessionInit, SessionTypeOK, Idle, Absent, Status, Pc
<1>3. UsedInv /\ ChainInv
  BY <1>1 DEF SessionInit, Idle, Absent, UsedInv, ChainInv, Used, Live
<1>4. RotationInv /\ AnswerInv /\ HoldInv
  BY DEF SessionInit, Idle, RotationInv, AnswerInv, HoldInv
<1> QED BY <1>2, <1>3, <1>4 DEF SessionIInv

(* What the steps of a fetch do to it; the other fetches stay as they are. *)
LEMMA GotoEffect ==
  ASSUME SessionTypeOK, NEW f \in Fetches, NEW pc \in Pc, Goto(f, pc)
  PROVE  /\ fetch' \in [Fetches -> FetchType]
         /\ \A g \in Fetches \ {f} : fetch'[g] = fetch[g]
         /\ fetch'[f].pc = pc /\ fetch'[f].refresh = fetch[f].refresh
BY RecordTypes DEF Goto, FetchType

LEMMA SetEffect ==
  ASSUME SessionTypeOK, NEW f \in Fetches, NEW r \in FetchType,
         fetch' = [fetch EXCEPT ![f] = r]
  PROVE  /\ fetch' \in [Fetches -> FetchType]
         /\ \A g \in Fetches \ {f} : fetch'[g] = fetch[g]
         /\ fetch'[f] = r
BY RecordTypes

(* A session ends: nothing else about it changes.                          *)
Ended(W) ==
  /\ session' \in [Tokens -> SessionType]
  /\ \A t \in Tokens :
       /\ t \in W => session'[t].state = "revoked" /\ Used(t)
       /\ t \notin W => session'[t].state = session[t].state
       /\ session'[t].login = session[t].login
       /\ session'[t].from = session[t].from
       /\ session[t] = Absent => session'[t] = Absent

LEMMA RevokeEffect ==
  ASSUME SessionTypeOK, NEW W, \A t \in W \cap Tokens : Used(t),
         session' = Revoke(W)
  PROVE  Ended(W)
<1>1. ASSUME NEW t \in Tokens, t \in W
      PROVE  /\ session'[t] \in SessionType
             /\ session'[t].state = "revoked"
             /\ session'[t].login = session[t].login
             /\ session'[t].from = session[t].from
             /\ session[t] # Absent
  BY <1>1, RecordTypes DEF Revoke, SessionType, Used, Absent
<1>2. ASSUME NEW t \in Tokens, t \notin W
      PROVE  session'[t] = session[t]
  BY <1>2 DEF Revoke
<1>3. session' \in [Tokens -> SessionType]
  BY <1>1, <1>2, RecordTypes DEF Revoke
<1> QED BY <1>1, <1>2, <1>3 DEF Ended

(* A session is created.                                                   *)
Created(t, login, from) ==
  /\ session[t].state = "absent"
  /\ session' \in [Tokens -> SessionType]
  /\ session'[t].state = "live"
  /\ session'[t].login = login /\ session'[t].from = from
  /\ \A x \in Tokens \ {t} : session'[x] = session[x]

LEMMA CreateEffect ==
  ASSUME SessionTypeOK, NEW t \in Tokens, NEW login \in Tokens \cup {None},
         NEW from \in Tokens \cup {None}, CreateSession(t, login, from)
  PROVE  Created(t, login, from)
<1>1. [state |-> "live", login |-> login, from |-> from] \in SessionType
  BY DEF SessionType
<1> QED
  BY <1>1, RecordTypes DEF CreateSession, Unused, Created

LEMMA ChainWhenEnded ==
  ASSUME SessionIInv, NEW W, Ended(W)
  PROVE  ChainInv'
<1>1. Live' \subseteq Live
  BY DEF Live, Ended
<1> QED BY <1>1 DEF SessionIInv, ChainInv, Ended

LEMMA ChainWhenCreated ==
  ASSUME SessionIInv, NEW t \in Tokens, NEW login \in Tokens,
         NEW from \in Tokens \cup {None}, Created(t, login, from),
         from # None =>
           /\ Used(from) /\ from \notin Live
           /\ \A x \in Tokens : session[x].from # from,
         \A x \in Live : session[x].login # login
  PROVE  ChainInv'
<1>a. /\ session[t].from = None /\ t \notin Live
      /\ \A x \in Tokens : session[x].from # t
      /\ from # t /\ t # None
  BY NoneIsNoToken DEF SessionIInv, UsedInv, Used, Created, Absent, Live
<1>b. Live' = Live \cup {t}
  BY DEF Live, Created
<1>c. \A x \in Tokens : x \in Live' => session'[t].from # x
  BY <1>a, <1>b, NoneIsNoToken DEF Created
<1> SUFFICES ASSUME NEW x \in Tokens, NEW y \in Tokens
             PROVE  /\ session'[x].from # None /\ session'[x].from = session'[y].from
                         => x = y
                    /\ x \in Live' => session'[y].from # x
                    /\ x \in Live' /\ y \in Live'
                       /\ session'[x].login = session'[y].login => x = y
  BY DEF ChainInv
<1>1. CASE x # t /\ y # t
  BY <1>1, <1>b DEF SessionIInv, ChainInv, Created
<1>2. CASE x = t /\ y # t
  BY <1>2, <1>a, <1>b DEF Created
<1>3. CASE y = t /\ x # t
  BY <1>3, <1>a, <1>b, <1>c DEF Created
<1>4. CASE x = t /\ y = t
  BY <1>4, <1>a, <1>c
<1> QED BY <1>1, <1>2, <1>3, <1>4

(* The counting form of the two halves of NoFork.                          *)
LEMMA AtMostOne ==
  ASSUME NEW S, \A x, y \in S : x = y
  PROVE  Cardinality(S) <= 1
<1>1. CASE S = {}
  BY <1>1, FS_EmptySet
<1>2. CASE S # {}
  <2>1. PICK x : S = {x}
    BY <1>2
  <2> QED BY <2>1, FS_Singleton
<1> QED BY <1>1, <1>2

LEMMA ChainNeverForks ==
  ASSUME SessionTypeOK, ChainInv
  PROVE  NoFork
<1>1. ASSUME NEW t \in Tokens
      PROVE  Cardinality({x \in Tokens : session[x].from = t}) <= 1
  <2>1. \A x, y \in {x \in Tokens : session[x].from = t} : x = y
    BY NoneIsNoToken DEF ChainInv
  <2> QED BY <2>1, AtMostOne
<1>2. ASSUME NEW l \in Logins
      PROVE  Cardinality({t \in Live : session[t].login = l}) <= 1
  <2>1. \A x, y \in {t \in Live : session[t].login = l} : x = y
    BY DEF ChainInv, Live
  <2> QED BY <2>1, AtMostOne
<1> QED BY <1>1, <1>2 DEF NoFork
-----------------------------------------------------------------------------
(* Steps that leave the sessions as they are, and neither begin a rotation *)
(* nor answer one.                                                         *)
LEMMA Quiet ==
  ASSUME SessionIInv, UNCHANGED <<session, ended>>, SessionTypeOK',
         faults' = faults \/ faults' # 0,
         NEW f \in Fetches,
         \A g \in Fetches \ {f} : fetch'[g] = fetch[g],
         fetch'[f].pc \in {"create", "answered"} => fetch'[f] = fetch[f],
         fetch'[f].pc = "revoke" => fetch'[f].refresh # None,
         fetch'[f].refresh \in {None, fetch[f].refresh, cookie.refresh},
         \/ cookie'.refresh = cookie.refresh
         \/ /\ fetch[f].pc = "answered" /\ cookie'.refresh = fetch[f].refresh
            /\ fetch'[f].pc # "answered",
         fetch[f].pc \in {"create", "answered"} =>
           \/ fetch'[f].pc = fetch[f].pc
           \/ faults' # 0
           \/ fetch[f].pc = "answered" /\ cookie'.refresh = fetch[f].refresh
  PROVE  SessionIInv'
<1>a. UNCHANGED Live
  BY DEF Live
<1>1. UsedInv'
  BY DEF SessionIInv, UsedInv, Used
<1>2. ChainInv'
  BY <1>a DEF SessionIInv, ChainInv
<1>3. RotationInv'
  BY <1>a DEF SessionIInv, RotationInv
<1>4. AnswerInv'
  BY <1>a DEF SessionIInv, UsedInv, AnswerInv
<1>5. HoldInv'
  <2>1. CASE cookie'.refresh = cookie.refresh
    BY <2>1, <1>a DEF SessionIInv, SessionTypeOK, HoldInv, AnswerInv
  <2>2. CASE cookie'.refresh # cookie.refresh
    BY <2>2, <1>a DEF SessionIInv, HoldInv, AnswerInv
  <2> QED BY <2>1, <2>2
<1> QED BY <1>1, <1>2, <1>3, <1>4, <1>5 DEF SessionIInv

LEMMA StartFetchStep ==
  ASSUME SessionIInv, NEW f \in Fetches, StartFetch(f)
  PROVE  SessionIInv'
<1>1. [Idle EXCEPT !.pc = "sent"] \in FetchType
  BY DEF Idle, FetchType, Pc
<1>2. /\ fetch' \in [Fetches -> FetchType]
      /\ \A g \in Fetches \ {f} : fetch'[g] = fetch[g]
      /\ fetch'[f] = [Idle EXCEPT !.pc = "sent"]
  BY <1>1, SetEffect DEF StartFetch, SessionIInv
<1>3. /\ fetch'[f].pc = "sent" /\ fetch'[f].refresh = None
      /\ fetch[f].pc = "idle"
      /\ UNCHANGED <<status, session, cookie, suspend, ended, faults>>
  BY <1>2 DEF StartFetch, Idle
<1>4. SessionTypeOK'
  BY <1>2, <1>3 DEF SessionIInv, SessionTypeOK, FetchType, Tokens
<1> QED BY <1>2, <1>3, <1>4, Quiet

LEMMA AnswerStep ==
  ASSUME SessionIInv, NEW f \in Fetches, Answer(f)
  PROVE  SessionIInv'
<1>a. /\ fetch[f].pc = "sent"
      /\ UNCHANGED <<status, session, cookie, suspend, ended, faults>>
  BY DEF Answer
<1>b. SessionTypeOK /\ cookie.refresh \in Tokens \cup {None}
  BY DEF SessionIInv, SessionTypeOK
<1>1. PICK r \in {Idle, [pc |-> "find", refresh |-> cookie.refresh, retry |-> FALSE]} :
        fetch' = [fetch EXCEPT ![f] = r]
  BY <1>b, RecordTypes DEF Answer
<1>2. /\ r \in FetchType /\ r.pc \in {"idle", "find"}
      /\ r.refresh \in {None, cookie.refresh}
  <2>1. CASE r = Idle
    BY <2>1 DEF Idle, FetchType, Pc
  <2>2. CASE r = [pc |-> "find", refresh |-> cookie.refresh, retry |-> FALSE]
    BY <2>2, <1>b DEF FetchType, Pc
  <2> QED BY <2>1, <2>2
<1>3. /\ fetch' \in [Fetches -> FetchType]
      /\ \A g \in Fetches \ {f} : fetch'[g] = fetch[g]
      /\ fetch'[f] = r
  BY <1>1, <1>2, <1>b, SetEffect
<1>4. SessionTypeOK'
  BY <1>a, <1>b, <1>3 DEF SessionTypeOK, FetchType, Tokens
<1> QED BY <1>a, <1>2, <1>3, <1>4, Quiet

LEMMA FindSessionStep ==
  ASSUME SessionIInv, NEW f \in Fetches, FindSession(f)
  PROVE  SessionIInv'
<1>a. /\ fetch[f].pc = "find"
      /\ UNCHANGED <<status, session, cookie, suspend, ended, faults>>
  BY DEF FindSession
<1>b. SessionTypeOK /\ fetch[f] \in FetchType
  BY RecordTypes DEF SessionIInv
<1>1. PICK r \in {Idle, [fetch[f] EXCEPT !.pc = "revoke"]} :
        /\ fetch' = [fetch EXCEPT ![f] = r]
        /\ r.pc = "revoke" => fetch[f].refresh \in Live
  BY <1>b, RecordTypes DEF FindSession, Idle
<1>2. /\ r \in FetchType /\ r.pc \in {"idle", "revoke"}
      /\ r.refresh \in {None, fetch[f].refresh}
      /\ r.pc = "revoke" => r.refresh # None
  <2>1. CASE r = Idle
    BY <2>1 DEF Idle, FetchType, Pc
  <2>2. CASE r = [fetch[f] EXCEPT !.pc = "revoke"]
    <3>1. /\ r \in FetchType /\ r.pc = "revoke"
          /\ r.refresh = fetch[f].refresh
      BY <2>2, <1>b DEF FetchType, Pc
    <3>2. fetch[f].refresh # None
      BY <1>1, <3>1, NoneIsNoToken DEF Live
    <3> QED BY <3>1, <3>2
  <2> QED BY <2>1, <2>2
<1>3. /\ fetch' \in [Fetches -> FetchType]
      /\ \A g \in Fetches \ {f} : fetch'[g] = fetch[g]
      /\ fetch'[f] = r
  BY <1>1, <1>2, <1>b, SetEffect
<1>4. SessionTypeOK'
  BY <1>a, <1>b, <1>3 DEF SessionTypeOK, FetchType, Tokens
<1> QED BY <1>a, <1>2, <1>3, <1>4, Quiet

LEMMA RetryStep ==
  ASSUME SessionIInv, NEW f \in Fetches, Retry(f)
  PROVE  SessionIInv'
<1>a. /\ fetch[f].pc = "answered" /\ Goto(f, "sent")
      /\ cookie' = [refresh |-> fetch[f].refresh, access |-> "fresh"]
      /\ UNCHANGED <<status, session, suspend, ended, faults>>
  BY DEF Retry, SetAuthCookies
<1>b. SessionTypeOK /\ fetch[f] \in FetchType
  BY RecordTypes DEF SessionIInv
<1>1. /\ fetch' \in [Fetches -> FetchType]
      /\ \A g \in Fetches \ {f} : fetch'[g] = fetch[g]
      /\ fetch'[f].pc = "sent" /\ fetch'[f].refresh = fetch[f].refresh
  BY <1>a, <1>b, GotoEffect DEF Pc
<1>2. SessionTypeOK'
  BY <1>a, <1>b, <1>1 DEF SessionTypeOK, FetchType, Tokens
<1> QED BY <1>a, <1>1, <1>2, Quiet

LEMMA LoseRefreshStep ==
  ASSUME SessionIInv, NEW f \in Fetches, LoseRefresh(f)
  PROVE  SessionIInv'
<1>a. /\ fetch' = [fetch EXCEPT ![f] = Idle] /\ faults' = faults + 1
      /\ UNCHANGED <<status, session, cookie, suspend, ended>>
  BY DEF LoseRefresh
<1>b. SessionTypeOK /\ Idle \in FetchType /\ Idle.pc = "idle" /\ Idle.refresh = None
  BY DEF SessionIInv, Idle, FetchType, Pc
<1>1. /\ fetch' \in [Fetches -> FetchType]
      /\ \A g \in Fetches \ {f} : fetch'[g] = fetch[g]
      /\ fetch'[f] = Idle
  BY <1>a, <1>b, SetEffect
<1>2. faults' \in Nat /\ faults' # 0
  BY <1>a, <1>b DEF SessionTypeOK
<1>3. SessionTypeOK'
  BY <1>a, <1>b, <1>1, <1>2 DEF SessionTypeOK, FetchType, Tokens
<1> QED BY <1>a, <1>b, <1>1, <1>2, <1>3, Quiet
-----------------------------------------------------------------------------
(* The first write of a rotation.                                          *)
LEMMA RevokeOldStep ==
  ASSUME SessionIInv, NEW f \in Fetches, RevokeOld(f)
  PROVE  SessionIInv'
<1> DEFINE old == fetch[f].refresh
<1>a. /\ SessionTypeOK /\ fetch[f] \in FetchType
      /\ fetch[f].pc = "revoke" /\ old \in Tokens /\ Used(old)
      /\ UNCHANGED <<status, cookie, suspend, ended, faults>>
  BY RecordTypes DEF RevokeOld, SessionIInv, UsedInv, FetchType
<1>1. Ended({old})
  <2>1. \A t \in Tokens \ {old} : session'[t] = session[t]
    BY <1>a, RecordTypes DEF RevokeOld
  <2>2. /\ session'[old].state = "revoked"
        /\ session'[old].login = session[old].login
        /\ session'[old].from = session[old].from
        /\ session'[old] \in SessionType
    BY <1>a, RecordTypes DEF RevokeOld, SessionType
  <2>3. session' \in [Tokens -> SessionType]
    BY <1>a, <2>1, <2>2, RecordTypes DEF RevokeOld
  <2> QED BY <1>a, <2>1, <2>2, <2>3 DEF Ended, Used, Absent
<1>2. /\ fetch' \in [Fetches -> FetchType]
      /\ \A g \in Fetches \ {f} : fetch'[g] = fetch[g]
      /\ fetch'[f].pc = IF old \in Live THEN "create" ELSE "idle"
      /\ fetch'[f].refresh = IF old \in Live THEN old ELSE None
  <2>1. CASE old \in Live
    <3>1. fetch' = [fetch EXCEPT ![f] = [fetch[f] EXCEPT !.pc = "create"]]
      BY <1>a, <2>1, RecordTypes DEF RevokeOld
    <3>2. /\ [fetch[f] EXCEPT !.pc = "create"] \in FetchType
          /\ [fetch[f] EXCEPT !.pc = "create"].pc = "create"
          /\ [fetch[f] EXCEPT !.pc = "create"].refresh = old
      BY <1>a DEF FetchType, Pc
    <3> QED BY <1>a, <2>1, <3>1, <3>2, SetEffect
  <2>2. CASE old \notin Live
    <3>1. fetch' = [fetch EXCEPT ![f] = Idle]
      BY <1>a, <2>2, RecordTypes DEF RevokeOld
    <3>2. Idle \in FetchType /\ Idle.pc = "idle" /\ Idle.refresh = None
      BY DEF Idle, FetchType, Pc
    <3> QED BY <1>a, <2>2, <3>1, <3>2, SetEffect
  <2> QED BY <2>1, <2>2
<1>3. SessionTypeOK'
  BY <1>a, <1>1, <1>2 DEF SessionTypeOK, FetchType, SessionType, Ended, Tokens
<1>4. Live' = Live \ {old}
  BY <1>a, <1>1 DEF Ended, Live
<1>5. UsedInv'
  BY <1>a, <1>1, <1>2, NoneIsNoToken DEF SessionIInv, SessionTypeOK, UsedInv, Used, Ended, Absent
<1>6. ChainInv'
  BY <1>1, ChainWhenEnded
<1>7. RotationInv'
  <2>1. ASSUME NEW g \in Fetches, fetch'[g].pc = "create"
        PROVE  /\ fetch'[g].refresh = fetch[g].refresh
               /\ fetch[g].refresh \in Tokens
               /\ g # f => fetch[g].pc = "create"
               /\ g = f => old \in Live
    BY <1>a, <1>2, <2>1, RecordTypes DEF SessionIInv, UsedInv, FetchType
  <2>2. ASSUME NEW g \in Fetches \ {f}, fetch'[g].pc = "create", old \in Live
        PROVE  session[fetch[g].refresh].login # session[old].login
    BY <1>a, <2>1, <2>2 DEF SessionIInv, RotationInv
  <2> SUFFICES ASSUME NEW g \in Fetches, fetch'[g].pc = "create"
               PROVE  LET r == fetch[g].refresh
                      IN  /\ r \notin Live'
                          /\ \A x \in Tokens : session[x].from # r
                          /\ \A x \in Live' : session[x].login # session[r].login
                          /\ \A h \in Fetches : h # g /\ fetch'[h].pc = "create"
                               => session[fetch[h].refresh].login # session[r].login
    <3>1. \A x \in Tokens : session'[x].login = session[x].login
                         /\ session'[x].from = session[x].from
      BY <1>1 DEF Ended
    <3>2. \A x \in Live' : x \in Tokens
      BY DEF Live
    <3> QED BY <2>1, <3>1, <3>2 DEF RotationInv
  <2>3. CASE g = f
    <3>1. old \in Live
      BY <2>1, <2>3
    <3>2. \A x \in Tokens : session[x].from # old
      BY <1>a, <3>1 DEF SessionIInv, ChainInv
    <3>3. \A x \in Live' : session[x].login # session[old].login
      BY <1>a, <1>4, <3>1 DEF SessionIInv, ChainInv, Live
    <3> QED BY <1>4, <2>2, <2>3, <3>1, <3>2, <3>3
  <2>4. CASE g # f
    <3>1. fetch[g].pc = "create"
      BY <2>1, <2>4
    <3>2. \A h \in Fetches \ {f, g} : fetch'[h].pc = "create" => fetch[h].pc = "create"
      BY <2>1
    <3>3. fetch'[f].pc = "create" => session[old].login # session[fetch[g].refresh].login
      BY <2>1, <2>2, <2>4
    <3> QED BY <1>4, <2>4, <3>1, <3>2, <3>3 DEF SessionIInv, RotationInv
  <2> QED BY <2>3, <2>4
<1>8. AnswerInv'
  BY <1>a, <1>1, <1>2, <1>4 DEF SessionIInv, AnswerInv, UsedInv, Ended, SessionTypeOK
<1>9. HoldInv'
  BY <1>a, <1>1, <1>2, <1>4 DEF SessionIInv, HoldInv, Ended, SessionTypeOK
<1> QED BY <1>3, <1>5, <1>6, <1>7, <1>8, <1>9 DEF SessionIInv

(* The second write.                                                       *)
LEMMA CreateNewStep ==
  ASSUME SessionIInv, NEW f \in Fetches, CreateNew(f)
  PROVE  SessionIInv'
<1> DEFINE old == fetch[f].refresh
<1>a. /\ SessionTypeOK /\ fetch[f] \in FetchType
      /\ fetch[f].pc = "create" /\ old \in Tokens /\ Used(old)
      /\ session[old].login \in Tokens
      /\ UNCHANGED <<status, cookie, suspend, ended, faults>>
  BY RecordTypes DEF CreateNew, SessionIInv, UsedInv, FetchType
<1>b. /\ old \notin Live
      /\ \A x \in Tokens : session[x].from # old
      /\ \A x \in Live : session[x].login # session[old].login
      /\ \A g \in Fetches \ {f} : fetch[g].pc = "create"
           => session[fetch[g].refresh].login # session[old].login
  BY <1>a DEF SessionIInv, RotationInv
<1>1. PICK t \in Tokens :
        /\ CreateSession(t, session[old].login, old)
        /\ fetch' = [fetch EXCEPT ![f].pc = "answered", ![f].refresh = t]
  BY DEF CreateNew
<1>2. Created(t, session[old].login, old)
  BY <1>a, <1>1, CreateEffect
<1>3. /\ fetch' \in [Fetches -> FetchType]
      /\ \A g \in Fetches \ {f} : fetch'[g] = fetch[g]
      /\ fetch'[f].pc = "answered" /\ fetch'[f].refresh = t
  BY <1>a, <1>1, RecordTypes DEF FetchType, Pc
<1>4. SessionTypeOK'
  BY <1>a, <1>2, <1>3 DEF SessionTypeOK, FetchType, SessionType, Created, Tokens
<1>5. Live' = Live \cup {t} /\ ~Used(t) /\ t # None
  BY <1>2, NoneIsNoToken DEF Live, Created, Used
<1>6. UsedInv'
  <2>1. \A x \in Tokens : Used(x) => Used(x)'
    BY <1>2 DEF Created, Used
  <2>2. Used(t)'
    BY <1>2 DEF Created, Used
  <2>3. ASSUME NEW x \in Tokens
        PROVE  /\ ~Used(x)' => session'[x] = Absent
               /\ Used(x)' => session'[x].login \in Tokens
               /\ \A y \in {session'[x].login, session'[x].from} : y # None => Used(y)'
    <3>1. CASE x = t
      <4>1. session'[x].login = session[old].login /\ session'[x].from = old
        BY <1>2, <3>1 DEF Created
      <4>2. Used(session[old].login)
        BY <1>a, NoneIsNoToken DEF SessionIInv, UsedInv
      <4> QED BY <1>a, <2>1, <2>2, <3>1, <4>1, <4>2
    <3>2. CASE x # t
      <4>1. session'[x] = session[x]
        BY <1>2, <3>2 DEF Created
      <4>2. /\ ~Used(x) => session[x] = Absent
            /\ Used(x) => session[x].login \in Tokens
            /\ \A y \in {session[x].login, session[x].from} : y # None => Used(y)
        BY DEF SessionIInv, UsedInv
      <4>3. {session[x].login, session[x].from} \subseteq Tokens \cup {None}
        BY <1>a DEF SessionTypeOK
      <4> QED BY <2>1, <4>1, <4>2, <4>3 DEF Used
    <3> QED BY <3>1, <3>2
  <2>4. cookie.refresh # None => session'[cookie.refresh].state # "absent"
    <3>1. cookie.refresh \in Tokens \cup {None} /\ cookie' = cookie
      BY <1>a DEF SessionTypeOK
    <3>2. cookie.refresh # None => session[cookie.refresh].state # "absent"
      BY DEF SessionIInv, UsedInv, Used
    <3> QED BY <2>1, <3>1, <3>2 DEF Used
  <2>5. ASSUME NEW g \in Fetches
        PROVE  /\ fetch'[g].refresh # None => session'[fetch'[g].refresh].state # "absent"
               /\ fetch'[g].pc \in {"revoke", "create", "answered"}
                    => fetch'[g].refresh # None
    <3>1. CASE g = f
      BY <1>3, <1>5, <2>2, <3>1 DEF Used
    <3>2. CASE g # f
      <4>1. fetch'[g] = fetch[g] /\ fetch[g].refresh \in Tokens \cup {None}
        BY <1>3, <3>2, <1>a DEF SessionTypeOK
      <4> QED BY <2>1, <4>1 DEF SessionIInv, UsedInv, Used
    <3> QED BY <3>1, <3>2
  <2> QED BY <1>a, <2>3, <2>4, <2>5 DEF UsedInv, Used
<1>7. ChainInv'
  BY <1>a, <1>b, <1>2, NoneIsNoToken, ChainWhenCreated
<1>8. RotationInv'
  <2>1. ASSUME NEW g \in Fetches, fetch'[g].pc = "create"
        PROVE  /\ g # f /\ fetch'[g] = fetch[g] /\ fetch[g].pc = "create"
               /\ fetch[g].refresh \in Tokens /\ Used(fetch[g].refresh)
               /\ fetch[g].refresh # t
               /\ session'[fetch[g].refresh] = session[fetch[g].refresh]
    <3>1. g # f /\ fetch'[g] = fetch[g] /\ fetch[g].pc = "create"
      BY <1>3, <2>1
    <3>2. fetch[g].refresh \in Tokens /\ Used(fetch[g].refresh)
      BY <3>1, RecordTypes DEF SessionIInv, UsedInv, FetchType
    <3>3. fetch[g].refresh # t
      BY <1>5, <3>2
    <3>4. session'[fetch[g].refresh] = session[fetch[g].refresh]
      BY <1>2, <3>2, <3>3 DEF Created
    <3> QED BY <3>1, <3>2, <3>3, <3>4
  <2> SUFFICES ASSUME NEW g \in Fetches, fetch'[g].pc = "create"
               PROVE  LET r == fetch[g].refresh
                      IN  /\ r \notin Live'
                          /\ \A x \in Tokens : session'[x].from # r
                          /\ \A x \in Live' : session'[x].login # session[r].login
                          /\ \A h \in Fetches : h # g /\ fetch'[h].pc = "create"
                               => session[fetch[h].refresh].login # session[r].login
    BY <2>1 DEF RotationInv
  <2>2. /\ fetch[g].refresh \notin Live
        /\ \A x \in Tokens : session[x].from # fetch[g].refresh
        /\ \A x \in Live : session[x].login # session[fetch[g].refresh].login
        /\ \A h \in Fetches : h # g /\ fetch[h].pc = "create"
             => session[fetch[h].refresh].login # session[fetch[g].refresh].login
    BY <2>1 DEF SessionIInv, RotationInv
  <2>3. session[fetch[g].refresh].login # session[old].login
    BY <1>b, <2>1
  <2>4. fetch[g].refresh # old
    BY <2>3
  <2>5. \A x \in Tokens : session'[x].from # fetch[g].refresh
    BY <1>2, <2>2, <2>4 DEF Created
  <2>6. \A x \in Live' : session'[x].login # session[fetch[g].refresh].login
    BY <1>2, <1>5, <2>2, <2>3 DEF Created, Live
  <2> QED BY <1>5, <2>1, <2>2, <2>5, <2>6
<1>9. AnswerInv'
  <2> SUFFICES ASSUME NEW g \in Fetches, fetch'[g].pc = "answered"
               PROVE  /\ \/ fetch'[g].refresh \in Live'
                         \/ session'[fetch'[g].refresh].login \in ended'
                      /\ cookie'.refresh # fetch'[g].refresh
                      /\ \A h \in Fetches : h # g => fetch'[h].refresh # fetch'[g].refresh
    BY DEF AnswerInv
  <2>1. /\ cookie.refresh # t
        /\ \A h \in Fetches : fetch[h].refresh # t
    BY <1>5 DEF SessionIInv, UsedInv
  <2>2. CASE g = f
    BY <1>a, <1>3, <1>5, <2>1, <2>2
  <2>3. CASE g # f
    <3>1. /\ fetch'[g] = fetch[g] /\ fetch[g].pc = "answered"
          /\ fetch[g].refresh \in Tokens /\ fetch[g].refresh # t
      BY <1>3, <2>1, <2>3, RecordTypes DEF SessionIInv, UsedInv, FetchType
    <3>2. session'[fetch[g].refresh] = session[fetch[g].refresh]
      BY <1>2, <3>1 DEF Created
    <3>3. \A h \in Fetches : h # g => fetch'[h].refresh # fetch[g].refresh
      BY <1>3, <3>1 DEF SessionIInv, AnswerInv
    <3> QED BY <1>a, <1>5, <3>1, <3>2, <3>3 DEF SessionIInv, AnswerInv
  <2> QED BY <2>2, <2>3
<1>10. HoldInv'
  BY <1>a, <1>3 DEF HoldInv
<1> QED BY <1>4, <1>6, <1>7, <1>8, <1>9, <1>10 DEF SessionIInv
-----------------------------------------------------------------------------
(* Sessions end, and with each the login it belongs to.                    *)
LEMMA EndStep ==
  ASSUME SessionIInv, SessionTypeOK', NEW W, Ended(W), UNCHANGED <<fetch, faults>>,
         ended \subseteq ended',
         \A t \in Live \cap W : session[t].login \in ended',
         cookie'.refresh \in {None, cookie.refresh}
  PROVE  SessionIInv'
<1>a. /\ SessionTypeOK
      /\ Live' = Live \ W
      /\ \A x \in Tokens : session'[x].login = session[x].login
                       /\ session'[x].from = session[x].from
                       /\ Used(x)' = Used(x)
  BY DEF Ended, Live, Used, SessionIInv
<1>b. /\ \A x \in Live : x \in Tokens
      /\ cookie.refresh \in Tokens \cup {None}
      /\ \A f \in Fetches : fetch[f].refresh \in Tokens \cup {None}
  BY <1>a DEF SessionTypeOK, Live
<1>1. UsedInv'
  <2>1. ASSUME NEW t \in Tokens
        PROVE  /\ ~Used(t)' => session'[t] = Absent
               /\ Used(t)' => session'[t].login \in Tokens
               /\ \A x \in {session'[t].login, session'[t].from} :
                    x # None => session'[x].state # "absent"
    <3>1. /\ ~Used(t) => session[t] = Absent
          /\ Used(t) => session[t].login \in Tokens
          /\ \A x \in {session[t].login, session[t].from} : x # None => Used(x)
      BY DEF SessionIInv, UsedInv
    <3>2. {session[t].login, session[t].from} \subseteq Tokens \cup {None}
      BY <1>a DEF SessionTypeOK
    <3> QED BY <1>a, <3>1, <3>2 DEF Ended, Used
  <2>2. /\ cookie'.refresh # None => session'[cookie'.refresh].state # "absent"
        /\ \A f \in Fetches :
             /\ fetch'[f].refresh # None => session'[fetch'[f].refresh].state # "absent"
             /\ fetch'[f].pc \in {"revoke", "create", "answered"}
                  => fetch'[f].refresh # None
    BY <1>a, <1>b DEF SessionIInv, UsedInv, Used
  <2> QED BY <2>1, <2>2 DEF UsedInv, Used
<1>2. ChainInv'
  BY ChainWhenEnded
<1>3. RotationInv'
  <2> SUFFICES ASSUME NEW f \in Fetches, fetch[f].pc = "create"
               PROVE  LET old == fetch[f].refresh
                      IN  /\ old \notin Live'
                          /\ \A x \in Tokens : session'[x].from # old
                          /\ \A x \in Live' : session'[x].login # session'[old].login
                          /\ \A g \in Fetches : g # f /\ fetch[g].pc = "create"
                               => session'[fetch[g].refresh].login # session'[old].login
    BY DEF RotationInv
  <2>1. \A g \in Fetches : fetch[g].pc = "create" => fetch[g].refresh \in Tokens
    BY <1>b DEF SessionIInv, UsedInv
  <2> QED BY <1>a, <1>b, <2>1 DEF SessionIInv, RotationInv
<1>4. AnswerInv'
  <2> SUFFICES ASSUME NEW f \in Fetches, fetch[f].pc = "answered"
               PROVE  LET new == fetch[f].refresh
                      IN  /\ new \in Live' \/ session'[new].login \in ended'
                          /\ cookie'.refresh # new
                          /\ \A g \in Fetches : g # f => fetch[g].refresh # new
    BY DEF AnswerInv
  <2>1. fetch[f].refresh \in Tokens /\ fetch[f].refresh # None
    BY <1>b DEF SessionIInv, UsedInv
  <2> QED BY <1>a, <2>1 DEF SessionIInv, AnswerInv
<1>5. HoldInv'
  BY <1>a, <1>b DEF SessionIInv, HoldInv
<1> QED BY <1>1, <1>2, <1>3, <1>4, <1>5 DEF SessionIInv

LEMMA LogoutStep ==
  ASSUME SessionIInv, Logout
  PROVE  SessionIInv'
<1>a. /\ SessionTypeOK /\ cookie.refresh \in Tokens /\ Used(cookie.refresh)
      /\ session' = Revoke({cookie.refresh})
      /\ ended' = ended \cup {session[cookie.refresh].login}
      /\ cookie' = [refresh |-> None, access |-> "none"]
      /\ UNCHANGED <<status, fetch, suspend, faults>>
  BY DEF Logout, SessionIInv, SessionTypeOK, UsedInv
<1>1. Ended({cookie.refresh})
  BY <1>a, RevokeEffect
<1>2. SessionTypeOK'
  BY <1>a, <1>1 DEF SessionTypeOK, Ended, SessionType, Tokens
<1> QED BY <1>a, <1>1, <1>2, EndStep

LEMMA RevokeAllStep ==
  ASSUME SessionIInv, RevokeAll
  PROVE  SessionIInv'
<1> DEFINE W == {t \in Tokens : session[t].state # "absent"}
<1>a. /\ SessionTypeOK
      /\ session' = Revoke(W)
      /\ ended' = ended \cup Logins /\ suspend' = FALSE
      /\ UNCHANGED <<status, cookie, fetch, faults>>
  BY DEF RevokeAll, SessionIInv
<1>1. Ended(W)
  <2>1. \A t \in W \cap Tokens : Used(t)
    BY DEF Used
  <2> QED BY <1>a, <2>1, RevokeEffect
<1>2. SessionTypeOK'
  BY <1>a, <1>1 DEF SessionTypeOK, Ended, SessionType, Tokens
<1>3. \A t \in Live \cap W : session[t].login \in ended'
  BY <1>a, NoneIsNoToken DEF SessionIInv, UsedInv, Used, Logins
<1> QED BY <1>a, <1>1, <1>2, <1>3, EndStep

LEMMA CallbackStep ==
  ASSUME SessionIInv, Callback
  PROVE  SessionIInv'
<1>a. /\ SessionTypeOK
      /\ \A f \in Fetches : fetch[f].pc = "idle"
      /\ UNCHANGED <<fetch, suspend, ended, faults>>
  BY DEF Callback, SessionIInv
<1>1. PICK t \in Tokens : LoginWithIdp(t) /\ SetAuthCookies(t)
  BY DEF Callback
<1>2. Created(t, t, None)
  BY <1>a, <1>1, CreateEffect DEF LoginWithIdp
<1>3. cookie' = [refresh |-> t, access |-> "fresh"] /\ status' = "ACTIVE"
  BY <1>1 DEF LoginWithIdp, SetAuthCookies
<1>4. SessionTypeOK'
  BY <1>a, <1>2, <1>3 DEF SessionTypeOK, SessionType, Created, Tokens, Status
<1>5. Live' = Live \cup {t} /\ ~Used(t) /\ t # None
  BY <1>2, NoneIsNoToken DEF Live, Created, Used
<1>6. UsedInv'
  <2>1. /\ \A x \in Tokens : Used(x) => session'[x].state # "absent"
        /\ session'[t].state # "absent"
    BY <1>2 DEF Created, Used
  <2>2. ASSUME NEW x \in Tokens
        PROVE  /\ session'[x].state = "absent" => session'[x] = Absent
               /\ session'[x].state # "absent" => session'[x].login \in Tokens
               /\ \A y \in {session'[x].login, session'[x].from} :
                    y # None => session'[y].state # "absent"
    <3>1. CASE x = t
      BY <1>2, <2>1, <3>1 DEF Created
    <3>2. CASE x # t
      <4>1. session'[x] = session[x]
        BY <1>2, <3>2 DEF Created
      <4>2. /\ ~Used(x) => session[x] = Absent
            /\ Used(x) => session[x].login \in Tokens
            /\ \A y \in {session[x].login, session[x].from} : y # None => Used(y)
        BY DEF SessionIInv, UsedInv
      <4>3. {session[x].login, session[x].from} \subseteq Tokens \cup {None}
        BY <1>a DEF SessionTypeOK
      <4> QED BY <2>1, <4>1, <4>2, <4>3 DEF Used
    <3> QED BY <3>1, <3>2
  <2>3. ASSUME NEW f \in Fetches, fetch[f].refresh # None
        PROVE  session'[fetch[f].refresh].state # "absent"
    BY <1>a, <2>1, <2>3 DEF SessionIInv, UsedInv, SessionTypeOK
  <2> QED BY <1>a, <1>3, <2>1, <2>2, <2>3 DEF UsedInv, Used
<1>7. ChainInv'
  <2>1. \A x \in Live : session[x].login # t
    BY <1>5 DEF SessionIInv, UsedInv, Live
  <2> QED BY <1>2, <2>1, ChainWhenCreated
<1>8. RotationInv' /\ AnswerInv' /\ HoldInv'
  BY <1>a, <1>3, <1>5 DEF RotationInv, AnswerInv, HoldInv
<1> QED BY <1>4, <1>6, <1>7, <1>8 DEF SessionIInv

(* The status changes, or the access token expires.                        *)
LEMMA OutsideStep ==
  ASSUME SessionIInv, SetUserStatus \/ Expire \/ UNCHANGED sessionVars
  PROVE  SessionIInv'
<1>a. SessionTypeOK
  BY DEF SessionIInv
<1>1. /\ cookie'.refresh = cookie.refresh
      /\ UNCHANGED <<session, fetch, ended, faults>>
  BY <1>a DEF SetUserStatus, Expire, sessionVars, SessionTypeOK
<1>2. SessionTypeOK'
  <2>1. CASE SetUserStatus
    BY <2>1, <1>a DEF SetUserStatus, SessionTypeOK, Status, Tokens
  <2>2. CASE Expire
    BY <2>2, <1>a DEF Expire, SessionTypeOK, Tokens
  <2>3. CASE UNCHANGED sessionVars
    BY <2>3, <1>a DEF sessionVars, SessionTypeOK, Tokens
  <2> QED BY <2>1, <2>2, <2>3
<1>b. UNCHANGED Live
  BY <1>1 DEF Live
<1>3. UsedInv' /\ ChainInv'
  BY <1>1, <1>b DEF SessionIInv, UsedInv, ChainInv, Used
<1>4. RotationInv' /\ AnswerInv' /\ HoldInv'
  BY <1>1, <1>b DEF SessionIInv, RotationInv, AnswerInv, HoldInv
<1> QED BY <1>2, <1>3, <1>4 DEF SessionIInv

LEMMA SessionInvariance == SessionSpec => []SessionIInv
<1>1. SessionIInv /\ [SessionNext]_sessionVars => SessionIInv'
  BY CallbackStep, LogoutStep, OutsideStep, RevokeAllStep, StartFetchStep,
     AnswerStep, FindSessionStep, RevokeOldStep, CreateNewStep, RetryStep,
     LoseRefreshStep
  DEF SessionNext, Refresh
<1> QED BY SessionInit_IInv, <1>1, PTL DEF SessionSpec

(* However many fetches of a page refresh at once, and whatever is lost on *)
(* the way, no token is rotated twice and no login has two live sessions.  *)
THEOREM RotationsNeverFork ==
  SessionSpec => []NoFork
<1>1. SessionIInv => NoFork
  BY ChainNeverForks DEF SessionIInv
<1> QED BY <1>1, SessionInvariance, PTL

(* When nothing failed and nobody ended the login, the page that has no    *)
(* refresh under way holds the live session.                               *)
THEOREM LoginIsKept ==
  SessionSpec => []BrowserHoldsLive
<1>1. SessionIInv => BrowserHoldsLive
  BY DEF SessionIInv, HoldInv, BrowserHoldsLive
<1> QED BY <1>1, SessionInvariance, PTL
-----------------------------------------------------------------------------
(***************************************************************************)
(* Proofs about Tenancy, for any number of users, organizations and calls. *)
(*                                                                         *)
(* A removal checks the role it read and deletes later, by when the member *)
(* may have become an owner.  That no organization loses its last owner so *)
(* is not inductive: the invariant is that one of the owners is not about  *)
(* to be removed (OwnerInv), and that a call works in an organization that *)
(* exists, so that none is waiting to remove the founder of a new one      *)
(* (CallInv).  Nothing here depends on which of the memberships of a user  *)
(* is the oldest.                                                          *)
(***************************************************************************)

TenancyTypeOK ==
  /\ user \in [Users -> {"absent", "INVITED", "ACTIVE"}]
  /\ org \in [Orgs -> {"absent", "ACTIVE", "SUSPENDED"}]
  /\ member \in [Orgs -> [Users -> Roles \cup {"OWNER", Nil}]]
  /\ DOMAIN call = Calls
  /\ \A c \in Calls :
       /\ DOMAIN call[c] = DOMAIN NoCall
       /\ call[c].pc \in {"membership", "delete", "organization"}
            => call[c].target \in Users

(* Nobody is a member of an organization that was never created.           *)
MembersInv ==
  \A o \in Orgs, u \in Users : member[o][u] # Nil => org[o] # "absent"

(* The organization a call was admitted to exists.                         *)
CallInv ==
  \A c \in Calls :
    /\ call[c].pc \in {"invite", "membership", "update", "remove", "delete"}
    /\ call[c].org \in Orgs
    => org[call[c].org] # "absent"

(* The call c is about to delete the membership of u in o.                 *)
Removes(c, o, u) ==
  call[c].pc = "delete" /\ call[c].org = o /\ call[c].target = u

(* An owner stays when every removal under way has been carried out.       *)
OwnerInv ==
  \A o \in Orgs : org[o] # "absent" /\ o \notin demoted =>
    \E u \in Owners(o) : \A c \in Calls : ~Removes(c, o, u)

TenancyIInv == TenancyTypeOK /\ MembersInv /\ CallInv /\ OwnerInv
-----------------------------------------------------------------------------
(* What a step of a call does to the calls: the others stay as they were.  *)
Admits(c, pc, o, m) ==
  call' = [call EXCEPT ![c] = [NoCall EXCEPT !.pc = pc, !.org = o, !.manages = m]]
Targets(c, pc, u) ==
  call' = [call EXCEPT ![c].pc = pc, ![c].target = u, ![c].manages = FALSE]

LEMMA AdmitEffect ==
  ASSUME TenancyTypeOK, NEW c \in Calls, NEW pc, NEW o, NEW m, Admits(c, pc, o, m)
  PROVE  /\ DOMAIN call' = Calls
         /\ \A d \in Calls \ {c} : call'[d] = call[d]
         /\ DOMAIN call'[c] = DOMAIN NoCall
         /\ call'[c].pc = pc /\ call'[c].org = o
BY DEF Admits, TenancyTypeOK, NoCall

LEMMA TargetEffect ==
  ASSUME TenancyTypeOK, NEW c \in Calls, NEW pc, NEW u, Targets(c, pc, u)
  PROVE  /\ DOMAIN call' = Calls
         /\ \A d \in Calls \ {c} : call'[d] = call[d]
         /\ DOMAIN call'[c] = DOMAIN NoCall
         /\ call'[c].pc = pc /\ call'[c].org = call[c].org
         /\ call'[c].target = u
BY DEF Targets, TenancyTypeOK, NoCall

LEMMA DoneEffect ==
  ASSUME TenancyTypeOK, NEW c \in Calls, Done(c)
  PROVE  /\ DOMAIN call' = Calls
         /\ \A d \in Calls \ {c} : call'[d] = call[d]
         /\ call'[c] = NoCall /\ NoCall.pc = "idle"
BY DEF TenancyTypeOK, Done, NoCall

(* Whoever has a permission in an organization has a role there.           *)
LEMMA GrantedToMembers ==
  ASSUME NEW role, NEW permission \in Granted(role)
  PROVE  role # Nil
BY DEF Granted, Nil
LEMMA TenancyInit_IInv ==
  TenancyInit => TenancyIInv
BY DEF TenancyInit, TenancyIInv, TenancyTypeOK, MembersInv, CallInv, OwnerInv, Nil, NoCall

(* A call is admitted, or goes on without writing anything.                *)
LEMMA OnlyCall ==
  ASSUME TenancyIInv, UNCHANGED <<org, member, demoted>>, NEW c \in Calls,
         user' \in [Users -> {"absent", "INVITED", "ACTIVE"}],
         DOMAIN call' = Calls,
         \A d \in Calls \ {c} : call'[d] = call[d],
         DOMAIN call'[c] = DOMAIN NoCall,
         call'[c].pc \in {"membership", "delete", "organization"}
           => call'[c].target \in Users,
         /\ call'[c].pc \in {"invite", "membership", "update", "remove", "delete"}
         /\ call'[c].org \in Orgs
         => org[call'[c].org] # "absent",
         call'[c].pc = "delete" => 
           /\ call'[c].target \in Users
           /\ call'[c].org \in Orgs =>
                member[call'[c].org][call'[c].target] # "OWNER"
  PROVE  TenancyIInv'
<1>1. TenancyTypeOK'
  BY DEF TenancyIInv, TenancyTypeOK
<1>2. MembersInv' /\ CallInv'
  BY DEF TenancyIInv, MembersInv, CallInv
<1>3. OwnerInv'
  <2> SUFFICES ASSUME NEW o \in Orgs, org[o] # "absent", o \notin demoted
               PROVE  \E u \in Owners(o) : \A d \in Calls : ~Removes(d, o, u)'
    BY DEF OwnerInv, Owners
  <2>1. PICK u \in Owners(o) : \A d \in Calls : ~Removes(d, o, u)
    BY DEF TenancyIInv, OwnerInv
  <2>2. ~Removes(c, o, u)'
    BY <2>1 DEF Removes, Owners
  <2>3. ASSUME NEW d \in Calls \ {c}
        PROVE  ~Removes(d, o, u)'
    BY <2>1, <2>3 DEF Removes
  <2> QED BY <2>1, <2>2, <2>3
<1> QED BY <1>1, <1>2, <1>3 DEF TenancyIInv

LEMMA StartStep ==
  ASSUME TenancyIInv, NEW c \in Calls, NEW u \in Users, Start(c, u)
  PROVE  TenancyIInv'
<1>a. TenancyTypeOK /\ user \in [Users -> {"absent", "INVITED", "ACTIVE"}]
  BY DEF TenancyIInv, TenancyTypeOK
<1>b. ASSUME NEW o \in Orgs, NEW x \in Users, member[o][x] # Nil
      PROVE  org[o] # "absent"
  BY <1>b DEF TenancyIInv, MembersInv
<1>1. ASSUME NEW permission, NEW pc \in {"invite", "update", "remove"},
             Admit(c, u, permission, pc)
      PROVE  TenancyIInv'
  <2>1. Role(u) # Nil /\ UNCHANGED <<user, org, member, demoted>>
    BY <1>1, GrantedToMembers DEF Admit, people
  <2>2. Tenant(u) \in Orgs => org[Tenant(u)] # "absent"
    BY <1>b, <2>1 DEF Role
  <2>3. PICK m : Admits(c, pc, Tenant(u), m)
    BY <1>1 DEF Admit, Admits
  <2>4. /\ DOMAIN call' = Calls
        /\ \A d \in Calls \ {c} : call'[d] = call[d]
        /\ DOMAIN call'[c] = DOMAIN NoCall
        /\ call'[c].pc = pc /\ call'[c].org = Tenant(u)
    BY ONLY <1>a, <2>3, AdmitEffect, c \in Calls
  <2> QED BY <1>a, <2>1, <2>2, <2>4, OnlyCall
<1>2. CASE StartByKey(c, u)
  <2>1. PICK o \in Orgs, pc \in {"invite", "update"} :
          /\ member[o][u] # Nil
          /\ Admits(c, pc, o, CanManage("API_KEY"))
    BY <1>2 DEF StartByKey, Admits
  <2>2. /\ DOMAIN call' = Calls
        /\ \A d \in Calls \ {c} : call'[d] = call[d]
        /\ DOMAIN call'[c] = DOMAIN NoCall
        /\ call'[c].pc = pc /\ call'[c].org = o
    BY ONLY <1>a, <2>1, AdmitEffect, c \in Calls
  <2>3. org[o] # "absent" /\ UNCHANGED <<user, org, member, demoted>>
    BY <1>2, <1>b, <2>1 DEF StartByKey, people
  <2> QED BY <1>a, <2>2, <2>3, OnlyCall
<1>3. CASE StartCreateOrganization(c, u)
  <2>1. /\ DOMAIN call' = Calls
        /\ \A d \in Calls \ {c} : call'[d] = call[d]
        /\ DOMAIN call'[c] = DOMAIN NoCall
        /\ call'[c].pc = "organization" /\ call'[c].target = u
        /\ UNCHANGED <<user, org, member, demoted>>
    BY <1>3, <1>a DEF StartCreateOrganization, TenancyTypeOK, NoCall, people
  <2> QED BY <1>a, <2>1, OnlyCall
<1> QED
  BY <1>1, <1>2, <1>3 DEF Start, StartInvite, StartUpdateRole, StartRemove
(* A call that is over: what is left to show is about what it wrote.       *)
LEMMA DoneStep ==
  ASSUME TenancyIInv, NEW c \in Calls, Done(c),
         user' = user,
         org' \in [Orgs -> {"absent", "ACTIVE", "SUSPENDED"}],
         member' \in [Orgs -> [Users -> Roles \cup {"OWNER", Nil}]],
         \A o \in Orgs : org[o] # "absent" => org'[o] # "absent",
         MembersInv',
         \A o \in Orgs : org'[o] # "absent" /\ o \notin demoted' =>
           \E u \in Owners(o)' : \A d \in Calls \ {c} : ~Removes(d, o, u)
  PROVE  TenancyIInv'
<1>1. /\ DOMAIN call' = Calls
      /\ \A d \in Calls \ {c} : call'[d] = call[d]
      /\ DOMAIN call'[c] = DOMAIN NoCall /\ call'[c].pc = "idle"
  BY DoneEffect DEF TenancyIInv
<1>2. TenancyTypeOK'
  BY <1>1 DEF TenancyIInv, TenancyTypeOK
<1>3. CallInv'
  BY <1>1 DEF TenancyIInv, CallInv
<1>4. OwnerInv'
  <2> SUFFICES ASSUME NEW o \in Orgs, org'[o] # "absent", o \notin demoted'
               PROVE  \E u \in Owners(o)' : \A d \in Calls : ~Removes(d, o, u)'
    BY DEF OwnerInv
  <2>1. PICK u \in Owners(o)' : \A d \in Calls \ {c} : ~Removes(d, o, u)
    OBVIOUS
  <2>2. \A d \in Calls : ~Removes(d, o, u)'
    BY <1>1, <2>1 DEF Removes
  <2> QED BY <2>1, <2>2
<1> QED BY <1>2, <1>3, <1>4 DEF TenancyIInv

LEMMA ServeStep ==
  ASSUME TenancyIInv, NEW c \in Calls, Serve(c)
  PROVE  TenancyIInv'
<1>a. /\ TenancyTypeOK
      /\ user \in [Users -> {"absent", "INVITED", "ACTIVE"}]
      /\ org \in [Orgs -> {"absent", "ACTIVE", "SUSPENDED"}]
      /\ member \in [Orgs -> [Users -> Roles \cup {"OWNER", Nil}]]
      /\ call[c].pc \in {"membership", "delete", "organization"}
           => call[c].target \in Users
  BY DEF TenancyIInv, TenancyTypeOK
<1>b. /\ call[c].pc \in {"invite", "membership", "update", "remove", "delete"}
      /\ call[c].org \in Orgs
      => org[call[c].org] # "absent"
  BY DEF TenancyIInv, CallInv
<1>c. \A o \in Orgs, u \in Users : member[o][u] # Nil => org[o] # "absent"
  BY DEF TenancyIInv, MembersInv
<1>d. ASSUME NEW o \in Orgs, org[o] # "absent", o \notin demoted
      PROVE  \E u \in Owners(o) : \A d \in Calls : ~Removes(d, o, u)
  BY <1>d DEF TenancyIInv, OwnerInv
<1>1. CASE CreateOrganization(c)
  <2>1. PICK o \in Orgs :
          /\ org[o] = "absent"
          /\ org' = [org EXCEPT ![o] = "ACTIVE"]
          /\ member' = [member EXCEPT ![o][call[c].target] = "OWNER"]
    BY <1>1 DEF CreateOrganization
  <2>2. /\ call[c].target \in Users /\ Done(c)
        /\ user' = user /\ demoted' = demoted
    BY <1>1, <1>a DEF CreateOrganization
  <2>3. /\ org' \in [Orgs -> {"absent", "ACTIVE", "SUSPENDED"}]
        /\ member' \in [Orgs -> [Users -> Roles \cup {"OWNER", Nil}]]
        /\ \A p \in Orgs : org[p] # "absent" => org'[p] # "absent"
    BY <1>a, <2>1, <2>2
  <2>4. MembersInv'
    BY <1>a, <1>c, <2>1, <2>2 DEF MembersInv
  <2>5. ASSUME NEW p \in Orgs, org'[p] # "absent", p \notin demoted'
        PROVE  \E u \in Owners(p)' : \A d \in Calls \ {c} : ~Removes(d, p, u)
    <3>1. CASE p = o
      <4>1. call[c].target \in Owners(p)'
        BY <1>a, <2>1, <2>2, <3>1 DEF Owners
      <4>2. \A d \in Calls : call[d].pc = "delete" => call[d].org # o
        BY <2>1 DEF TenancyIInv, CallInv
      <4> QED BY <3>1, <4>1, <4>2 DEF Removes
    <3>2. CASE p # o
      <4>1. Owners(p)' = Owners(p) /\ org[p] # "absent" /\ p \notin demoted
        BY <1>a, <2>1, <2>2, <2>5, <3>2 DEF Owners
      <4> QED BY <1>d, <4>1
    <3> QED BY <3>1, <3>2
  <2> QED BY <2>2, <2>3, <2>4, <2>5, DoneStep
<1>2. CASE Invite(c)
  <2>1. PICK u \in Users :
          IF member[call[c].org][u] # Nil
          THEN Done(c) /\ UNCHANGED user
          ELSE /\ user' = [user EXCEPT ![u] =
                            IF @ = "absent" THEN "INVITED" ELSE @]
               /\ call' = [call EXCEPT ![c].pc = "membership", ![c].target = u,
                                       ![c].manages = FALSE]
    BY <1>2 DEF Invite
  <2>2. UNCHANGED <<org, member, demoted>> /\ call[c].pc = "invite"
    BY <1>2 DEF Invite
  <2>3. CASE member[call[c].org][u] # Nil
    BY <1>a, <2>1, <2>2, <2>3, DoneEffect, OnlyCall
  <2>4. CASE ~(member[call[c].org][u] # Nil)
    <3>1. user' \in [Users -> {"absent", "INVITED", "ACTIVE"}]
      BY <1>a, <2>1, <2>4
    <3>2. /\ DOMAIN call' = Calls
          /\ \A d \in Calls \ {c} : call'[d] = call[d]
          /\ DOMAIN call'[c] = DOMAIN NoCall
          /\ call'[c].pc = "membership" /\ call'[c].org = call[c].org
          /\ call'[c].target = u
      <4>1. Targets(c, "membership", u)
        BY <2>1, <2>4 DEF Targets
      <4> QED BY ONLY <1>a, <4>1, TargetEffect, c \in Calls
    <3> QED BY <1>b, <2>2, <3>1, <3>2, OnlyCall
  <2> QED BY <2>3, <2>4
<1>3. CASE CreateMembership(c)
  <2>1. /\ call[c].pc = "membership" /\ call[c].target \in Users /\ Done(c)
        /\ UNCHANGED <<user, org, demoted>>
    BY <1>3, <1>a DEF CreateMembership
  <2>2. /\ member' \in [Orgs -> [Users -> Roles \cup {"OWNER", Nil}]]
        /\ \A o \in Orgs, u \in Users :
             \/ member'[o][u] = member[o][u]
             \/ member[o][u] = Nil /\ o = call[c].org
    <3>1. CASE member[call[c].org][call[c].target] # Nil
      BY <1>3, <1>a, <3>1 DEF CreateMembership
    <3>2. CASE member[call[c].org][call[c].target] = Nil
      <4>1. PICK role \in Roles :
              member' = [member EXCEPT ![call[c].org][call[c].target] = role]
        BY <1>3, <3>2 DEF CreateMembership
      <4> QED BY <1>a, <2>1, <3>2, <4>1
    <3> QED BY <3>1, <3>2
  <2>3. MembersInv'
    BY <1>b, <1>c, <2>1, <2>2 DEF MembersInv
  <2>4. \A o \in Orgs : Owners(o) \subseteq Owners(o)'
    BY <2>2 DEF Owners, Nil
  <2> QED BY <1>a, <1>d, <2>1, <2>2, <2>3, <2>4, DoneStep
<1>4. CASE UpdateRole(c)
  <2>1. /\ call[c].pc = "update" /\ Done(c) /\ UNCHANGED <<user, org>>
    BY <1>4 DEF UpdateRole
  <2>2. CASE ~call[c].manages
    <3>1. UNCHANGED <<member, demoted>>
      BY <1>4, <2>2 DEF UpdateRole
    <3> QED BY <1>a, <2>1, <3>1, DoneEffect, OnlyCall
  <2>3. CASE call[c].manages
    <3>1. PICK u \in Users, role \in Roles :
            /\ member[call[c].org][u] # Nil
            /\ member' = [member EXCEPT ![call[c].org][u] = role]
            /\ demoted' = IF member[call[c].org][u] = "OWNER" /\ role # "OWNER"
                          THEN demoted \cup {call[c].org} ELSE demoted
      BY <1>4, <2>3 DEF UpdateRole
    <3>2. /\ member' \in [Orgs -> [Users -> Roles \cup {"OWNER", Nil}]]
          /\ MembersInv'
      BY <1>a, <1>b, <1>c, <2>1, <3>1 DEF MembersInv
    <3>3. \A o \in Orgs : o \notin demoted' =>
            o \notin demoted /\ Owners(o) \subseteq Owners(o)'
      BY <1>a, <3>1 DEF Owners
    <3> QED BY <1>a, <1>d, <2>1, <3>2, <3>3, DoneStep
  <2> QED BY <2>2, <2>3
<1>5. CASE ReadRemoved(c)
  <2>1. UNCHANGED <<user, org, member, demoted>> /\ call[c].pc = "remove"
    BY <1>5 DEF ReadRemoved, people
  <2>2. PICK u \in Users :
          IF call[c].manages /\ member[call[c].org][u] \notin {Nil, "OWNER"}
          THEN call' = [call EXCEPT ![c].pc = "delete", ![c].target = u,
                                    ![c].manages = FALSE]
          ELSE Done(c)
    BY <1>5 DEF ReadRemoved
  <2>3. CASE Done(c)
    BY <1>a, <2>1, <2>3, DoneEffect, OnlyCall
  <2>4. CASE ~Done(c)
    <3>1. member[call[c].org][u] # "OWNER"
      BY <2>2, <2>4
    <3>2. /\ DOMAIN call' = Calls
          /\ \A d \in Calls \ {c} : call'[d] = call[d]
          /\ DOMAIN call'[c] = DOMAIN NoCall
          /\ call'[c].pc = "delete" /\ call'[c].org = call[c].org
          /\ call'[c].target = u
      <4>1. Targets(c, "delete", u)
        BY <2>2, <2>4 DEF Targets
      <4> QED BY ONLY <1>a, <4>1, TargetEffect, c \in Calls
    <3> QED BY <1>a, <1>b, <2>1, <3>1, <3>2, OnlyCall
  <2> QED BY <2>3, <2>4
<1>6. CASE DeleteMembership(c)
  <2>1. /\ call[c].pc = "delete" /\ call[c].target \in Users /\ Done(c)
        /\ member' = [member EXCEPT ![call[c].org][call[c].target] = Nil]
        /\ UNCHANGED <<user, org, demoted>>
    BY <1>6, <1>a DEF DeleteMembership
  <2>2. /\ member' \in [Orgs -> [Users -> Roles \cup {"OWNER", Nil}]]
        /\ MembersInv'
    BY <1>a, <1>c, <2>1 DEF MembersInv
  <2>3. ASSUME NEW o \in Orgs, org[o] # "absent", o \notin demoted
        PROVE  \E u \in Owners(o)' : \A d \in Calls \ {c} : ~Removes(d, o, u)
    <3>1. PICK u \in Owners(o) : \A d \in Calls : ~Removes(d, o, u)
      BY <1>d, <2>3
    <3>2. u \in Users /\ member[o][u] = "OWNER"
      BY <3>1 DEF Owners
    <3>3. o # call[c].org \/ u # call[c].target
      BY <2>1, <3>1 DEF Removes
    <3>4. member'[o][u] = "OWNER"
      BY <1>a, <2>1, <3>2, <3>3
    <3> QED BY <3>1, <3>2, <3>4 DEF Owners
  <2> QED BY <1>a, <2>1, <2>2, <2>3, DoneStep
<1> QED BY <1>1, <1>2, <1>3, <1>4, <1>5, <1>6 DEF Serve

LEMMA TenancyInvariance ==
  TenancySpec => []TenancyIInv
<1>1. TenancyIInv /\ [TenancyNext]_tenancyVars => TenancyIInv'
  <2> SUFFICES ASSUME TenancyIInv, [TenancyNext]_tenancyVars
               PROVE  TenancyIInv'
    OBVIOUS
  <2>1. ASSUME NEW u \in Users, FirstLogin(u)
        PROVE  TenancyIInv'
    <3>1. user' \in [Users -> {"absent", "INVITED", "ACTIVE"}]
      BY <2>1 DEF FirstLogin, TenancyIInv, TenancyTypeOK
    <3>2. TenancyTypeOK' /\ MembersInv' /\ CallInv'
      BY <2>1, <3>1 DEF FirstLogin, TenancyIInv, TenancyTypeOK, MembersInv, CallInv
    <3>3. OwnerInv'
      BY <2>1 DEF FirstLogin, TenancyIInv, OwnerInv, Owners, Removes
    <3> QED BY <3>2, <3>3 DEF TenancyIInv
  <2>2. ASSUME NEW o \in Orgs, SetOrganizationStatus(o)
        PROVE  TenancyIInv'
    <3>1. /\ org' \in [Orgs -> {"absent", "ACTIVE", "SUSPENDED"}]
          /\ \A p \in Orgs : org'[p] = "absent" <=> org[p] = "absent"
          /\ UNCHANGED <<user, member, joined, demoted, call>>
      BY <2>2 DEF SetOrganizationStatus, TenancyIInv, TenancyTypeOK
    <3>2. TenancyTypeOK' /\ MembersInv' /\ CallInv'
      BY <3>1 DEF TenancyIInv, TenancyTypeOK, MembersInv, CallInv
    <3>3. OwnerInv'
      BY <3>1 DEF TenancyIInv, OwnerInv, Owners, Removes
    <3> QED BY <3>2, <3>3 DEF TenancyIInv
  <2>3. CASE UNCHANGED tenancyVars
    <3>1. TenancyTypeOK' /\ MembersInv' /\ CallInv'
      BY <2>3 DEF tenancyVars, people, TenancyIInv, TenancyTypeOK, MembersInv, CallInv
    <3>2. OwnerInv'
      BY <2>3 DEF tenancyVars, people, TenancyIInv, OwnerInv, Owners, Removes
    <3> QED BY <3>1, <3>2 DEF TenancyIInv
  <2> QED BY <2>1, <2>2, <2>3, StartStep, ServeStep DEF TenancyNext
<1> QED BY TenancyInit_IInv, <1>1, PTL DEF TenancySpec

(* However removals, invitations and new roles interleave, an organization *)
(* none of whose owners was given a lesser role has an owner.              *)
THEOREM OwnersRemain ==
  TenancySpec => []OwnerLostOnlyByDemotion
<1>1. TenancyIInv => OwnerLostOnlyByDemotion
  BY DEF TenancyIInv, OwnerInv, OwnerLostOnlyByDemotion
<1> QED BY <1>1, TenancyInvariance, PTL

(* An organization's members are members of something that exists, and a   *)
(* call that was admitted to a tenant never acts in one that does not.     *)
THEOREM MembersOfWhatExists ==
  TenancySpec => [](MembersInv /\ CallInv)
<1>1. TenancyIInv => MembersInv /\ CallInv
  BY DEF TenancyIInv
<1> QED BY <1>1, TenancyInvariance, PTL
-----------------------------------------------------------------------------
(***************************************************************************)
(* Billing, for any number of organizations, plans and calls.              *)
(*                                                                         *)
(* The coupon is an accounting argument: a redemption that is not counted  *)
(* is either about to be or lost to a fault, and a call that is about to   *)
(* redeem has read a count below the limit, so all of them together pass   *)
(* it by no more than their number (CouponInv).  The books are one, too:   *)
(* what is owed is invoiced or about to be (OwedInv), and the plan is that *)
(* of a subscription, or of one that a call is about to set (PlanInv).     *)
(***************************************************************************)
CheckoutType ==
  [pc : {"idle", "coupon", "redeem", "count", "subscribe", "invoice", "plan"},
   org : Payers \cup {Nothing}, plan : Plans \cup {Nothing}, due : BOOLEAN]

BillingTypeOK ==
  /\ redeemedCount \in Nat
  /\ redeemed \subseteq Payers /\ IsFiniteSet(redeemed)
  /\ plan \in [Payers -> Plans \cup {"absent", "COMMUNITY"}]
  /\ subscriptions \in [Payers -> Seq(Plans)]
  /\ invoices \in [Payers -> Nat] /\ owed \in [Payers -> Nat]
  /\ checkout \in [Checkouts -> CheckoutType]
  /\ \A c \in Checkouts : checkout[c].pc # "idle" =>
       checkout[c].org \in Payers /\ checkout[c].plan \in Plans
  /\ faults \in Nat

At(pc) == {c \in Checkouts : checkout[c].pc = pc}
Invoicing(o) == {c \in At("invoice") : checkout[c].org = o}
Subscribed(o) == {subscriptions[o][i] : i \in DOMAIN subscriptions[o]}

(* The count is behind by the calls that are about to raise it and by      *)
(* those that died before they did; a call that is about to redeem has     *)
(* read a count below the limit.                                           *)
CouponInv ==
  /\ redeemedCount + Cardinality(At("count")) <= Cardinality(redeemed)
  /\ Cardinality(redeemed) <= redeemedCount + Cardinality(At("count")) + faults
  /\ Cardinality(redeemed) + Cardinality(At("redeem")) <=
       MaxRedemptions + (Cardinality(Checkouts) - 1) + faults

(* What is owed and not invoiced is about to be.                           *)
OwedInv ==
  faults = 0 =>
    \A o \in Payers : owed[o] = invoices[o] + Cardinality(Invoicing(o))

(* A call has its subscription before it sets the plan; until some call    *)
(* has, one of them is about to.                                           *)
PlanInv ==
  /\ \A c \in At("invoice") \cup At("plan") :
       checkout[c].plan \in Subscribed(checkout[c].org)
  /\ faults = 0 =>
       \A o \in Payers : subscriptions[o] # << >> =>
         \/ plan[o] \in Subscribed(o)
         \/ \E c \in At("invoice") \cup At("plan") : checkout[c].org = o

BillingIInv == BillingTypeOK /\ CouponInv /\ OwedInv /\ PlanInv

LEMMA BillingInit_IInv == BillingAssumption /\ BillingInit => BillingIInv
<1> SUFFICES ASSUME BillingAssumption, BillingInit PROVE BillingIInv
  OBVIOUS
<1>1. \A pc \in {"count", "redeem", "invoice", "plan"} : At(pc) = {}
  BY DEF BillingInit, At, NoCheckout
<1>2. BillingTypeOK
  BY FS_EmptySet DEF BillingInit, BillingTypeOK, CheckoutType, NoCheckout
<1>3. CouponInv
  <2>1. Cardinality(Checkouts) \in Nat /\ Cardinality(Checkouts) # 0
    BY FS_CardinalityType, FS_EmptySet DEF BillingAssumption
  <2>2. Cardinality(At("count")) = 0 /\ Cardinality(At("redeem")) = 0
    BY <1>1, FS_EmptySet
  <2>3. redeemedCount = 0 /\ Cardinality(redeemed) = 0 /\ faults = 0
    BY FS_EmptySet DEF BillingInit
  <2> QED BY <2>1, <2>2, <2>3 DEF CouponInv, BillingAssumption
<1>4. OwedInv
  <2>1. \A o : Invoicing(o) = {}
    BY <1>1 DEF Invoicing
  <2>2. \A o : Cardinality(Invoicing(o)) = 0
    BY <2>1, FS_EmptySet
  <2>3. \A o \in Payers : owed[o] = 0 /\ invoices[o] = 0
    BY DEF BillingInit
  <2> QED BY <2>2, <2>3 DEF OwedInv
<1>5. PlanInv
  BY <1>1 DEF BillingInit, PlanInv
<1> QED BY <1>2, <1>3, <1>4, <1>5 DEF BillingIInv

Moves(c, next) == checkout' = [checkout EXCEPT ![c] = next]

(* A call that moves joins the calls that are where it goes.               *)
LEMMA CheckoutMoves ==
  ASSUME BillingTypeOK, NEW c \in Checkouts, NEW next \in CheckoutType,
         Moves(c, next),
         next.pc # "idle" => next.org \in Payers /\ next.plan \in Plans
  PROVE  /\ checkout' \in [Checkouts -> CheckoutType]
         /\ checkout'[c] = next
         /\ \A d \in Checkouts \ {c} : checkout'[d] = checkout[d]
         /\ \A d \in Checkouts : checkout'[d].pc # "idle" =>
              checkout'[d].org \in Payers /\ checkout'[d].plan \in Plans
<1>1. /\ checkout' \in [Checkouts -> CheckoutType]
      /\ checkout'[c] = next
      /\ \A d \in Checkouts \ {c} : checkout'[d] = checkout[d]
  BY DEF Moves, BillingTypeOK
<1> QED BY <1>1 DEF BillingTypeOK

LEMMA AtMoves ==
  ASSUME BillingTypeOK, NEW c \in Checkouts, NEW next \in CheckoutType, Moves(c, next)
  PROVE  \A pc : At(pc)' = IF next.pc = pc THEN At(pc) \cup {c} ELSE At(pc) \ {c}
<1>1. checkout'[c] = next /\ \A d \in Checkouts \ {c} : checkout'[d] = checkout[d]
  BY DEF Moves, BillingTypeOK
<1> QED BY <1>1 DEF At

LEMMA AtFinite ==
  ASSUME BillingAssumption
  PROVE  /\ \A pc : IsFiniteSet(At(pc)) /\ Cardinality(At(pc)) \in Nat
         /\ \A o : IsFiniteSet(Invoicing(o)) /\ Cardinality(Invoicing(o)) \in Nat
<1>1. (\A pc : At(pc) \subseteq Checkouts) /\ \A o : Invoicing(o) \subseteq Checkouts
  BY DEF At, Invoicing
<1> QED BY <1>1, FS_Subset, FS_CardinalityType DEF BillingAssumption

(* Adding to a finite set what it has not, and taking away what it has.    *)
LEMMA Counted ==
  ASSUME NEW A, IsFiniteSet(A), NEW c
  PROVE  /\ c \notin A => A \ {c} = A /\ Cardinality(A \cup {c}) = Cardinality(A) + 1
         /\ c \in A => A \cup {c} = A /\ Cardinality(A \ {c}) = Cardinality(A) - 1
BY FS_AddElement, FS_RemoveElement

(* A call that is neither where a count looks, nor goes there.             *)
LEMMA AtKept ==
  ASSUME BillingTypeOK, NEW c \in Checkouts, NEW next \in CheckoutType,
         Moves(c, next)
  PROVE  /\ \A pc : pc \notin {next.pc, checkout[c].pc} => At(pc)' = At(pc)
         /\ "invoice" \notin {next.pc, checkout[c].pc} =>
              \A o : Invoicing(o)' = Invoicing(o)
<1>1. checkout'[c] = next /\ \A d \in Checkouts \ {c} : checkout'[d] = checkout[d]
  BY DEF Moves, BillingTypeOK
<1>2. \A pc : pc \notin {next.pc, checkout[c].pc} => At(pc)' = At(pc)
  BY <1>1 DEF At
<1>3. ASSUME "invoice" \notin {next.pc, checkout[c].pc}, NEW o
      PROVE  Invoicing(o)' = Invoicing(o)
  <2>1. At("invoice")' = At("invoice") /\ c \notin At("invoice")
    BY <1>2, <1>3 DEF At
  <2>2. \A d \in At("invoice") : checkout'[d] = checkout[d]
    BY <1>1, <2>1 DEF At
  <2> QED BY <2>1, <2>2 DEF Invoicing
<1> QED BY <1>2, <1>3

LEMMA CouponKept ==
  ASSUME BillingIInv, UNCHANGED <<coupon, faults>>,
         NEW c \in Checkouts, NEW next \in CheckoutType,
         Moves(c, next),
         {checkout[c].pc, next.pc} \cap {"redeem", "count"} = {}
  PROVE  CouponInv'
<1>1. BillingTypeOK /\ CouponInv
  BY DEF BillingIInv
<1>2. \A pc : pc \notin {next.pc, checkout[c].pc} => At(pc)' = At(pc)
  BY ONLY <1>1, AtKept, c \in Checkouts, next \in CheckoutType, Moves(c, next)
<1>3. At("redeem")' = At("redeem") /\ At("count")' = At("count")
  BY <1>2
<1> QED BY <1>1, <1>3 DEF CouponInv, coupon

LEMMA PlanKept ==
  ASSUME BillingAssumption, BillingIInv, UNCHANGED <<subscriptions, faults>>,
         NEW c \in Checkouts, NEW next \in CheckoutType,
         Moves(c, next),
         {checkout[c].pc, next.pc} \cap {"invoice", "plan"} = {},
         \A o \in Payers : plan'[o] = plan[o] \/ plan[o] = "absent"
  PROVE  PlanInv'
<1>1. At("invoice")' = At("invoice") /\ At("plan")' = At("plan")
  BY AtKept DEF BillingIInv
<1>2. \A d \in At("invoice") \cup At("plan") : checkout'[d] = checkout[d]
  BY DEF Moves, At, BillingIInv, BillingTypeOK
<1>3. \A o : Subscribed(o)' = Subscribed(o)
  BY DEF Subscribed
<1>4. \A o \in Payers : "absent" \notin Subscribed(o)
  BY DEF BillingAssumption, BillingIInv, BillingTypeOK, Subscribed
<1> QED BY <1>1, <1>2, <1>3, <1>4 DEF BillingIInv, PlanInv

LEMMA BooksKept ==
  ASSUME BillingAssumption, BillingIInv, UNCHANGED <<books, faults>>,
         NEW c \in Checkouts, NEW next \in CheckoutType,
         Moves(c, next),
         {checkout[c].pc, next.pc} \cap {"invoice", "plan"} = {}
  PROVE  OwedInv' /\ PlanInv'
<1>1. OwedInv'
  BY AtKept DEF BillingIInv, OwedInv, books
<1> QED BY <1>1, PlanKept DEF books

LEMMA MoveTypes ==
  ASSUME BillingTypeOK, NEW c \in Checkouts,
         NEW pc \in {"redeem", "count", "subscribe", "invoice", "plan"},
         checkout[c].pc # "idle"
  PROVE  LET next == [checkout[c] EXCEPT !.pc = pc]
         IN  /\ next \in CheckoutType /\ next.pc = pc
             /\ next.org = checkout[c].org /\ next.plan = checkout[c].plan
             /\ next.org \in Payers /\ next.plan \in Plans
<1>1. checkout[c] \in CheckoutType
  BY DEF BillingTypeOK
<1>2. [checkout[c] EXCEPT !.pc = pc] \in CheckoutType
  BY <1>1 DEF CheckoutType
<1> QED BY <1>1, <1>2 DEF CheckoutType, BillingTypeOK

LEMMA IdleType == NoCheckout \in CheckoutType /\ NoCheckout.pc = "idle"
BY DEF NoCheckout, CheckoutType

LEMMA StartCheckoutStep ==
  ASSUME BillingAssumption, BillingIInv, NEW c \in Checkouts, NEW o \in Payers,
         StartCheckout(c, o)
  PROVE  BillingIInv'
<1>1. PICK p \in Plans, due \in BOOLEAN, pc \in {"coupon", "subscribe"} :
        checkout' = [checkout EXCEPT ![c] =
                       [pc |-> pc, org |-> o, plan |-> p, due |-> due]]
  BY DEF StartCheckout
<1> DEFINE next == [pc |-> pc, org |-> o, plan |-> p, due |-> due]
<1>2. /\ next \in CheckoutType /\ next.pc = pc /\ next.org = o /\ next.plan = p
      /\ Moves(c, next)
  BY <1>1 DEF Moves, CheckoutType
<1>3. /\ checkout[c].pc = "idle"
      /\ UNCHANGED <<subscriptions, invoices, owed, faults, coupon>>
  BY DEF StartCheckout
<1>4. /\ plan' \in [Payers -> Plans \cup {"absent", "COMMUNITY"}]
      /\ \A x \in Payers : plan'[x] = plan[x] \/ plan[x] = "absent"
  BY DEF StartCheckout, BillingIInv, BillingTypeOK
<1> HIDE DEF next
<1>5. BillingTypeOK'
  BY <1>2, <1>3, <1>4, CheckoutMoves DEF BillingIInv, BillingTypeOK, coupon
<1>6. CouponInv'
  BY <1>2, <1>3, CouponKept
<1>7. OwedInv'
  BY <1>2, <1>3, AtKept DEF BillingIInv, OwedInv
<1>8. PlanInv'
  BY <1>2, <1>3, <1>4, PlanKept
<1> QED BY <1>5, <1>6, <1>7, <1>8 DEF BillingIInv

(* Whoever goes on has read a count below the limit: the redemptions are   *)
(* that many and those of the calls under way or dead.                     *)
LEMMA ReadCouponStep ==
  ASSUME BillingAssumption, BillingIInv, NEW c \in Checkouts, ReadCoupon(c)
  PROVE  BillingIInv'
<1>0. checkout[c].pc = "coupon" /\ UNCHANGED <<faults, coupon, books>>
  BY DEF ReadCoupon
<1>1. CASE redeemedCount < MaxRedemptions
  <2> DEFINE next == [checkout[c] EXCEPT !.pc = "redeem"]
  <2>1. /\ next \in CheckoutType /\ next.pc = "redeem"
        /\ next.org \in Payers /\ next.plan \in Plans
    BY <1>0, MoveTypes DEF BillingIInv
  <2>2. Moves(c, next)
    BY <1>1 DEF ReadCoupon, CheckoutAt, Moves
  <2> HIDE DEF next
  <2>3. BillingTypeOK'
    BY <1>0, <2>1, <2>2, CheckoutMoves DEF BillingIInv, BillingTypeOK, coupon, books
  <2>4. CouponInv'
    <3>1. At("count")' = At("count") /\ At("redeem")' = At("redeem") \cup {c}
      <4>1. BillingTypeOK /\ c \notin At("count")
        BY <1>0 DEF BillingIInv, At
      <4>2. \A pc : At(pc)' = IF next.pc = pc THEN At(pc) \cup {c} ELSE At(pc) \ {c}
        BY ONLY <2>1, <2>2, <4>1, AtMoves, c \in Checkouts
      <4> QED BY <2>1, <4>1, <4>2
    <3>2. /\ c \notin At("redeem") /\ c \notin At("count")
          /\ At("redeem") \cap At("count") = {}
          /\ At("redeem") \cup {c} \cup At("count") \subseteq Checkouts
      BY <1>0 DEF At
    <3>3. Cardinality(At("redeem") \cup {c}) + Cardinality(At("count"))
            <= Cardinality(Checkouts)
      <4>1. IsFiniteSet(At("redeem") \cup {c}) /\ IsFiniteSet(At("count"))
        BY AtFinite, FS_AddElement
      <4>2. (At("redeem") \cup {c}) \cap At("count") = {}
        BY <3>2
      <4>3. Cardinality((At("redeem") \cup {c}) \cup At("count")) =
              Cardinality(At("redeem") \cup {c}) + Cardinality(At("count"))
        <5>1. Cardinality((At("redeem") \cup {c}) \cap At("count")) = 0
          BY <4>2, FS_EmptySet
        <5>2. /\ Cardinality(At("redeem") \cup {c}) \in Nat
              /\ Cardinality(At("count")) \in Nat
          BY <4>1, FS_CardinalityType
        <5>3. Cardinality((At("redeem") \cup {c}) \cup At("count")) =
                Cardinality(At("redeem") \cup {c}) + Cardinality(At("count"))
                  - Cardinality((At("redeem") \cup {c}) \cap At("count"))
          BY <4>1, FS_Union
        <5> QED BY <5>1, <5>2, <5>3
      <4> QED BY <3>2, <4>3, FS_Subset DEF BillingAssumption
    <3>4. /\ Cardinality(At("count")) \in Nat /\ Cardinality(Checkouts) \in Nat
          /\ Cardinality(At("redeem") \cup {c}) \in Nat /\ Cardinality(redeemed) \in Nat
      BY AtFinite, FS_AddElement, FS_CardinalityType
         DEF BillingAssumption, BillingIInv, BillingTypeOK
    <3>5. CouponInv /\ redeemedCount \in Nat /\ faults \in Nat /\ MaxRedemptions \in Nat
      BY DEF BillingAssumption, BillingIInv, BillingTypeOK
    <3>6. UNCHANGED <<redeemedCount, redeemed, faults>>
      BY <1>0 DEF coupon
    <3>7. Cardinality(redeemed) + Cardinality(At("redeem") \cup {c}) <=
            MaxRedemptions + (Cardinality(Checkouts) - 1) + faults
      BY <1>1, <3>3, <3>4, <3>5 DEF CouponInv
    <3> QED BY <3>1, <3>5, <3>6, <3>7 DEF CouponInv
  <2>5. OwedInv' /\ PlanInv'
    BY <1>0, <2>1, <2>2, BooksKept
  <2> QED BY <2>3, <2>4, <2>5 DEF BillingIInv
<1>2. CASE ~(redeemedCount < MaxRedemptions)
  <2>1. Moves(c, NoCheckout)
    BY <1>2 DEF ReadCoupon, Conclude, Moves
  <2>2. BillingTypeOK'
    BY <1>0, <2>1, IdleType, CheckoutMoves DEF BillingIInv, BillingTypeOK, coupon, books
  <2>3. CouponInv' /\ OwedInv' /\ PlanInv'
    BY <1>0, <2>1, IdleType, CouponKept, BooksKept
  <2> QED BY <2>2, <2>3 DEF BillingIInv
<1> QED BY <1>1, <1>2

LEMMA RedeemStep ==
  ASSUME BillingAssumption, BillingIInv, NEW c \in Checkouts, Redeem(c)
  PROVE  BillingIInv'
<1>0. /\ checkout[c].pc = "redeem" /\ UNCHANGED <<redeemedCount, faults, books>>
      /\ c \in At("redeem") /\ c \notin At("count")
  BY DEF Redeem, At
<1>a. /\ Cardinality(At("count")) \in Nat /\ Cardinality(At("redeem")) \in Nat
      /\ Cardinality(At("redeem") \ {c}) = Cardinality(At("redeem")) - 1
      /\ Cardinality(At("count") \cup {c}) = Cardinality(At("count")) + 1
      /\ Cardinality(Checkouts) \in Nat /\ Cardinality(redeemed) \in Nat
  BY <1>0, AtFinite, Counted, FS_CardinalityType
     DEF BillingAssumption, BillingIInv, BillingTypeOK
<1>1. CASE checkout[c].org \in redeemed
  <2>1. Moves(c, NoCheckout) /\ UNCHANGED redeemed
    BY <1>1 DEF Redeem, Conclude, Moves
  <2>2. BillingTypeOK'
    BY <1>0, <2>1, IdleType, CheckoutMoves DEF BillingIInv, BillingTypeOK, books
  <2>3. At("count")' = At("count") /\ At("redeem")' = At("redeem") \ {c}
    <3>1. BillingTypeOK
      BY DEF BillingIInv
    <3>2. \A pc : At(pc)' = IF NoCheckout.pc = pc THEN At(pc) \cup {c} ELSE At(pc) \ {c}
      BY ONLY <2>1, <3>1, IdleType, AtMoves, c \in Checkouts
    <3> QED BY <1>0, <3>2, IdleType
  <2>4. CouponInv'
    <3>1. CouponInv /\ redeemedCount \in Nat /\ faults \in Nat /\ MaxRedemptions \in Nat
      BY DEF BillingAssumption, BillingIInv, BillingTypeOK
    <3>2. Cardinality(At("redeem")') = Cardinality(At("redeem")) - 1
      BY <1>a, <2>3
    <3>3. Cardinality(redeemed) + Cardinality(At("redeem")') <=
            MaxRedemptions + (Cardinality(Checkouts) - 1) + faults
      BY <1>a, <3>1, <3>2 DEF CouponInv
    <3> QED BY <1>0, <2>1, <2>3, <3>1, <3>3 DEF CouponInv
  <2>5. OwedInv' /\ PlanInv'
    BY <1>0, <2>1, IdleType, BooksKept
  <2> QED BY <2>2, <2>4, <2>5 DEF BillingIInv
<1>2. CASE checkout[c].org \notin redeemed
  <2> DEFINE next == [checkout[c] EXCEPT !.pc = "count"]
  <2>1. /\ next \in CheckoutType /\ next.pc = "count"
        /\ next.org \in Payers /\ next.plan \in Plans
    BY <1>0, MoveTypes DEF BillingIInv
  <2>2. Moves(c, next) /\ redeemed' = redeemed \cup {checkout[c].org}
    BY <1>2 DEF Redeem, CheckoutAt, Moves
  <2> HIDE DEF next
  <2>3. /\ IsFiniteSet(redeemed') /\ redeemed' \subseteq Payers
        /\ Cardinality(redeemed') = Cardinality(redeemed) + 1
    <3>1. /\ IsFiniteSet(redeemed) /\ redeemed \subseteq Payers
          /\ checkout[c].org \in Payers
      BY <1>0 DEF BillingIInv, BillingTypeOK
    <3> QED BY <1>2, <2>2, <3>1, Counted, FS_AddElement
  <2>4. BillingTypeOK'
    BY <1>0, <2>1, <2>2, <2>3, CheckoutMoves DEF BillingIInv, BillingTypeOK, books
  <2>5. At("count")' = At("count") \cup {c} /\ At("redeem")' = At("redeem") \ {c}
    <3>1. BillingTypeOK
      BY DEF BillingIInv
    <3>2. \A pc : At(pc)' = IF next.pc = pc THEN At(pc) \cup {c} ELSE At(pc) \ {c}
      BY ONLY <2>1, <2>2, <3>1, AtMoves, c \in Checkouts
    <3> QED BY <2>1, <3>2
  <2>6. CouponInv'
    <3>1. CouponInv /\ redeemedCount \in Nat /\ faults \in Nat /\ MaxRedemptions \in Nat
      BY DEF BillingAssumption, BillingIInv, BillingTypeOK
    <3>2. /\ Cardinality(At("redeem")') = Cardinality(At("redeem")) - 1
          /\ Cardinality(At("count")') = Cardinality(At("count")) + 1
      BY <1>a, <2>5
    <3> QED BY <1>0, <1>a, <2>3, <3>1, <3>2 DEF CouponInv
  <2>7. OwedInv' /\ PlanInv'
    BY <1>0, <2>1, <2>2, BooksKept
  <2> QED BY <2>4, <2>6, <2>7 DEF BillingIInv
<1> QED BY <1>1, <1>2

LEMMA CountStep ==
  ASSUME BillingAssumption, BillingIInv, NEW c \in Checkouts, CountRedemption(c)
  PROVE  BillingIInv'
<1>0. /\ checkout[c].pc = "count" /\ UNCHANGED <<redeemed, faults, books>>
      /\ redeemedCount' = redeemedCount + 1 /\ c \in At("count")
  BY DEF CountRedemption, At
<1> DEFINE next == [checkout[c] EXCEPT !.pc = "subscribe"]
<1>1. /\ next \in CheckoutType /\ next.pc = "subscribe"
      /\ next.org \in Payers /\ next.plan \in Plans
  BY <1>0, MoveTypes DEF BillingIInv
<1>2. Moves(c, next)
  BY DEF CountRedemption, CheckoutAt, Moves
<1> HIDE DEF next
<1>3. BillingTypeOK'
  BY <1>0, <1>1, <1>2, CheckoutMoves DEF BillingIInv, BillingTypeOK, books
<1>4. At("count")' = At("count") \ {c} /\ At("redeem")' = At("redeem")
  <2>1. BillingTypeOK /\ c \notin At("redeem")
    BY <1>0 DEF BillingIInv, At
  <2>2. \A pc : At(pc)' = IF next.pc = pc THEN At(pc) \cup {c} ELSE At(pc) \ {c}
    BY ONLY <1>1, <1>2, <2>1, AtMoves, c \in Checkouts
  <2> QED BY <1>1, <2>1, <2>2
<1>5. /\ Cardinality(At("count")) \in Nat
      /\ Cardinality(At("count") \ {c}) = Cardinality(At("count")) - 1
  BY <1>0, AtFinite, Counted
<1>6. CouponInv'
  <2>1. CouponInv /\ redeemedCount \in Nat
    BY DEF BillingIInv, BillingTypeOK
  <2>2. Cardinality(At("count")') = Cardinality(At("count")) - 1
    BY <1>4, <1>5
  <2> QED BY <1>0, <1>4, <1>5, <2>1, <2>2 DEF CouponInv
<1>7. OwedInv' /\ PlanInv'
  BY <1>0, <1>1, <1>2, BooksKept
<1> QED BY <1>3, <1>6, <1>7 DEF BillingIInv

LEMMA InvoicingMoves ==
  ASSUME BillingIInv, NEW c \in Checkouts, NEW next \in CheckoutType,
         Moves(c, next),
         next.pc # "idle" => next.org \in Payers /\ next.plan \in Plans
  PROVE  \A o : Invoicing(o)' = IF next.pc = "invoice" /\ next.org = o
                                THEN Invoicing(o) \cup {c} ELSE Invoicing(o) \ {c}
<1>1. /\ checkout'[c] = next
      /\ \A d \in Checkouts \ {c} : checkout'[d] = checkout[d]
  BY DEF Moves, BillingIInv, BillingTypeOK
<1> QED BY <1>1 DEF Invoicing, At

(* The subscription stands before the invoice and before the plan.         *)
LEMMA SubscribeStep ==
  ASSUME BillingAssumption, BillingIInv, NEW c \in Checkouts, Subscribe(c)
  PROVE  BillingIInv'
<1> DEFINE o == checkout[c].org
           pc == IF checkout[c].due THEN "invoice" ELSE "plan"
           next == [checkout[c] EXCEPT !.pc = pc]
<1>0. /\ checkout[c].pc = "subscribe" /\ UNCHANGED <<plan, invoices, faults, coupon>>
      /\ checkout[c].org \in Payers /\ checkout[c].plan \in Plans
      /\ subscriptions' = [subscriptions EXCEPT ![o] = Append(@, checkout[c].plan)]
      /\ owed' = [owed EXCEPT ![o] = IF checkout[c].due THEN @ + 1 ELSE @]
      /\ Moves(c, next)
  BY DEF Subscribe, CheckoutAt, Moves, BillingIInv, BillingTypeOK
<1>1. /\ next \in CheckoutType /\ next.pc = pc
      /\ next.org = checkout[c].org /\ next.plan = checkout[c].plan
  <2>1. checkout[c] \in CheckoutType /\ pc \in {"invoice", "plan"}
    BY DEF BillingIInv, BillingTypeOK
  <2> QED BY <2>1 DEF CheckoutType
<1> HIDE DEF next
<1>2. /\ subscriptions' \in [Payers -> Seq(Plans)]
      /\ owed' \in [Payers -> Nat]
      /\ \A x \in Payers \ {o} : /\ subscriptions'[x] = subscriptions[x]
                                 /\ owed'[x] = owed[x]
      /\ subscriptions'[o] = Append(subscriptions[o], checkout[c].plan)
      /\ \/ pc = "invoice" /\ owed'[o] = owed[o] + 1
         \/ pc = "plan" /\ owed'[o] = owed[o]
  BY <1>0 DEF BillingIInv, BillingTypeOK
<1> HIDE DEF pc
<1>3. BillingTypeOK'
  BY <1>0, <1>1, <1>2, CheckoutMoves DEF BillingIInv, BillingTypeOK, coupon
<1>4. CouponInv'
  <2>1. {checkout[c].pc, next.pc} \cap {"redeem", "count"} = {}
    BY <1>0, <1>1, <1>2
  <2> QED BY ONLY <1>0, <1>1, <2>1, CouponKept, BillingIInv, c \in Checkouts
<1>5. OwedInv'
  <2> SUFFICES ASSUME faults = 0, NEW x \in Payers
               PROVE  owed'[x] = invoices[x] + Cardinality(Invoicing(x)')
    BY <1>0 DEF OwedInv
  <2>1. /\ owed[x] = invoices[x] + Cardinality(Invoicing(x))
        /\ Cardinality(Invoicing(x)) \in Nat /\ IsFiniteSet(Invoicing(x))
        /\ c \notin Invoicing(x) /\ invoices[x] \in Nat
    BY <1>0, AtFinite DEF BillingIInv, OwedInv, Invoicing, At, BillingTypeOK
  <2>2. CASE x = o /\ pc = "invoice"
    <3>1. Invoicing(x)' = Invoicing(x) \cup {c}
      BY <1>0, <1>1, <2>2, InvoicingMoves
    <3>2. Cardinality(Invoicing(x)') = Cardinality(Invoicing(x)) + 1
      BY <2>1, <3>1, Counted
    <3>3. owed'[x] = owed[x] + 1
      BY <1>2, <2>2
    <3> QED BY <2>1, <3>2, <3>3
  <2>3. CASE ~(x = o /\ pc = "invoice")
    <3>1. Invoicing(x)' = Invoicing(x)
      <4>1. Invoicing(x)' = Invoicing(x) \ {c}
        BY <1>0, <1>1, <2>3, InvoicingMoves
      <4> QED BY <2>1, <4>1
    <3>2. owed'[x] = owed[x]
      BY <1>2, <2>3
    <3> QED BY <2>1, <3>1, <3>2
  <2> QED BY <2>2, <2>3
<1>6. PlanInv'
  <2>1. /\ Subscribed(o) \cup {checkout[c].plan} \subseteq
             {subscriptions'[o][i] : i \in DOMAIN subscriptions'[o]}
        /\ \A x \in Payers \ {o} : {subscriptions'[x][i] : i \in DOMAIN subscriptions'[x]}
             = Subscribed(x)
    <3>1. subscriptions[o] \in Seq(Plans)
      BY <1>0 DEF BillingIInv, BillingTypeOK
    <3>2. /\ DOMAIN subscriptions'[o] = 1..(Len(subscriptions[o]) + 1)
          /\ DOMAIN subscriptions[o] = 1..Len(subscriptions[o])
          /\ subscriptions'[o][Len(subscriptions[o]) + 1] = checkout[c].plan
          /\ \A i \in 1..Len(subscriptions[o]) : subscriptions'[o][i] = subscriptions[o][i]
      <4>1. /\ subscriptions'[o] = Append(subscriptions[o], checkout[c].plan)
            /\ checkout[c].plan \in Plans
        BY <1>0, <1>2
      <4> QED BY ONLY <3>1, <4>1
    <3>3. /\ Len(subscriptions[o]) \in Nat
          /\ Len(subscriptions[o]) + 1 \in DOMAIN subscriptions'[o]
          /\ DOMAIN subscriptions[o] \subseteq DOMAIN subscriptions'[o]
      BY <3>1, <3>2
    <3>4. Subscribed(o) \subseteq {subscriptions'[o][i] : i \in DOMAIN subscriptions'[o]}
      BY ONLY <3>2, <3>3 DEF Subscribed
    <3>5. checkout[c].plan \in {subscriptions'[o][i] : i \in DOMAIN subscriptions'[o]}
      BY ONLY <3>2, <3>3
    <3>6. \A x \in Payers \ {o} : subscriptions'[x] = subscriptions[x]
      BY <1>2
    <3>7. \A x \in Payers \ {o} :
            {subscriptions'[x][i] : i \in DOMAIN subscriptions'[x]} = Subscribed(x)
      BY ONLY <3>6 DEF Subscribed
    <3> QED BY ONLY <3>4, <3>5, <3>7
  <2>2. \A x \in Payers :
          Subscribed(x) \subseteq {subscriptions'[x][i] : i \in DOMAIN subscriptions'[x]}
    BY <2>1
  <2>3. /\ checkout'[c] = next /\ \A d \in Checkouts \ {c} : checkout'[d] = checkout[d]
        /\ c \in (At("invoice") \cup At("plan"))'
        /\ c \notin At("invoice") \cup At("plan")
        /\ (At("invoice") \cup At("plan"))' = (At("invoice") \cup At("plan")) \cup {c}
    <3>1. /\ At("invoice")' = IF pc = "invoice" THEN At("invoice") \cup {c}
                              ELSE At("invoice") \ {c}
          /\ At("plan")' = IF pc = "plan" THEN At("plan") \cup {c} ELSE At("plan") \ {c}
          /\ checkout'[c] = next /\ \A d \in Checkouts \ {c} : checkout'[d] = checkout[d]
      <4>1. BillingTypeOK
        BY DEF BillingIInv
      <4>2. \A q : At(q)' = IF next.pc = q THEN At(q) \cup {c} ELSE At(q) \ {c}
        BY ONLY <1>0, <1>1, <4>1, AtMoves, c \in Checkouts
      <4>3. checkout'[c] = next /\ \A d \in Checkouts \ {c} : checkout'[d] = checkout[d]
        BY <1>0, <4>1 DEF Moves, BillingTypeOK
      <4> QED BY <1>1, <4>2, <4>3
    <3>2. c \notin At("invoice") /\ c \notin At("plan")
      BY <1>0 DEF At
    <3>3. pc \in {"invoice", "plan"}
      BY <1>2
    <3> QED BY <3>1, <3>2, <3>3
  <2>4. \A d \in At("invoice") \cup At("plan") :
          d # c /\ checkout[d].org \in Payers /\ checkout'[d] = checkout[d]
    BY <2>3 DEF At, BillingIInv, BillingTypeOK
  <2>5. ASSUME NEW d \in (At("invoice") \cup At("plan"))'
        PROVE  checkout'[d].plan \in {subscriptions'[checkout'[d].org][i] :
                                        i \in DOMAIN subscriptions'[checkout'[d].org]}
    <3>1. CASE d = c
      <4>1. checkout'[d].org = o /\ checkout'[d].plan = checkout[c].plan
        BY <1>1, <2>3, <3>1
      <4> QED BY <2>1, <4>1
    <3>2. CASE d # c
      <4>1. d \in At("invoice") \cup At("plan") /\ checkout'[d] = checkout[d]
        BY <2>3, <2>4, <2>5, <3>2
      <4>2. checkout[d].plan \in Subscribed(checkout[d].org)
        BY <4>1 DEF BillingIInv, PlanInv
      <4> QED BY <2>2, <2>4, <4>1, <4>2
    <3> QED BY <3>1, <3>2
  <2>6. ASSUME faults = 0, NEW x \in Payers, subscriptions'[x] # << >>
        PROVE  \/ plan[x] \in {subscriptions'[x][i] : i \in DOMAIN subscriptions'[x]}
               \/ \E d \in (At("invoice") \cup At("plan"))' : checkout'[d].org = x
    <3>1. CASE x = o
      BY <1>1, <2>3, <3>1
    <3>2. CASE x # o
      <4>1. subscriptions[x] # << >> /\ PlanInv
        BY <1>2, <2>6, <3>2 DEF BillingIInv
      <4>2. \/ plan[x] \in Subscribed(x)
            \/ \E d \in At("invoice") \cup At("plan") : checkout[d].org = x
        BY <2>6, <4>1 DEF PlanInv
      <4> QED BY <2>2, <2>3, <2>4, <4>2
    <3> QED BY <3>1, <3>2
  <2>7. \A x : Subscribed(x)' = {subscriptions'[x][i] : i \in DOMAIN subscriptions'[x]}
    BY DEF Subscribed
  <2>8. \A d \in (At("invoice") \cup At("plan"))' :
          (checkout[d].plan \in Subscribed(checkout[d].org))'
    BY <2>5 DEF Subscribed
  <2> QED BY <1>0, <2>6, <2>7, <2>8 DEF PlanInv
<1> QED BY <1>3, <1>4, <1>5, <1>6 DEF BillingIInv

LEMMA InvoiceStep ==
  ASSUME BillingAssumption, BillingIInv, NEW c \in Checkouts, Invoice(c)
  PROVE  BillingIInv'
<1> DEFINE o == checkout[c].org
           next == [checkout[c] EXCEPT !.pc = "plan"]
<1>0. /\ checkout[c].pc = "invoice"
      /\ UNCHANGED <<plan, subscriptions, owed, faults, coupon>>
      /\ checkout[c].org \in Payers
      /\ invoices' = [invoices EXCEPT ![o] = @ + 1]
      /\ Moves(c, next)
  BY DEF Invoice, CheckoutAt, Moves, BillingIInv, BillingTypeOK
<1>1. /\ next \in CheckoutType /\ next.pc = "plan"
      /\ next.org = checkout[c].org /\ next.plan = checkout[c].plan
      /\ next.org \in Payers /\ next.plan \in Plans
  BY <1>0, MoveTypes DEF BillingIInv
<1> HIDE DEF next
<1>2. /\ invoices' \in [Payers -> Nat] /\ invoices'[o] = invoices[o] + 1
      /\ \A x \in Payers \ {o} : invoices'[x] = invoices[x]
  BY <1>0 DEF BillingIInv, BillingTypeOK
<1>3. BillingTypeOK'
  BY <1>0, <1>1, <1>2, CheckoutMoves DEF BillingIInv, BillingTypeOK, coupon
<1>4. CouponInv'
  BY <1>0, <1>1, CouponKept
<1>5. OwedInv'
  <2> SUFFICES ASSUME faults = 0, NEW x \in Payers
               PROVE  owed[x] = invoices'[x] + Cardinality(Invoicing(x)')
    BY <1>0 DEF OwedInv
  <2>1. /\ owed[x] = invoices[x] + Cardinality(Invoicing(x))
        /\ Cardinality(Invoicing(x)) \in Nat /\ IsFiniteSet(Invoicing(x))
        /\ invoices[x] \in Nat /\ Invoicing(x)' = Invoicing(x) \ {c}
    BY <1>0, <1>1, AtFinite, InvoicingMoves DEF BillingIInv, OwedInv, BillingTypeOK
  <2>2. CASE x = o
    <3>1. c \in Invoicing(x)
      BY <1>0, <2>2 DEF Invoicing, At
    <3>2. Cardinality(Invoicing(x)') = Cardinality(Invoicing(x)) - 1
      BY <2>1, <3>1, Counted
    <3> QED BY <1>2, <2>1, <2>2, <3>2
  <2>3. CASE x # o
    <3>1. Invoicing(x)' = Invoicing(x)
      BY <2>1, <2>3 DEF Invoicing
    <3> QED BY <1>2, <2>1, <2>3, <3>1
  <2> QED BY <2>2, <2>3
<1>6. PlanInv'
  <2>1. (At("invoice") \cup At("plan"))' = At("invoice") \cup At("plan")
    <3>1. BillingTypeOK /\ c \in At("invoice")
      BY <1>0 DEF BillingIInv, At
    <3>2. \A pc : At(pc)' = IF next.pc = pc THEN At(pc) \cup {c} ELSE At(pc) \ {c}
      BY ONLY <1>0, <1>1, <3>1, AtMoves, c \in Checkouts
    <3>3. At("invoice")' = At("invoice") \ {c} /\ At("plan")' = At("plan") \cup {c}
      BY <1>1, <3>2
    <3> QED BY <3>1, <3>3
  <2>2. \A d \in Checkouts : checkout'[d].org = checkout[d].org
                             /\ checkout'[d].plan = checkout[d].plan
    BY <1>0, <1>1, CheckoutMoves DEF BillingIInv
  <2>3. At("invoice") \cup At("plan") \subseteq Checkouts
    BY DEF At
  <2> QED BY <1>0, <2>1, <2>2, <2>3 DEF BillingIInv, PlanInv, Subscribed
<1> QED BY <1>3, <1>4, <1>5, <1>6 DEF BillingIInv

(* The plan is that of a subscription which stands.                        *)
LEMMA SetPlanStep ==
  ASSUME BillingAssumption, BillingIInv, NEW c \in Checkouts, SetPlan(c)
  PROVE  BillingIInv'
<1> DEFINE o == checkout[c].org
<1>0. /\ checkout[c].pc = "plan" /\ checkout[c].org \in Payers
      /\ checkout[c].plan \in Plans
      /\ UNCHANGED <<subscriptions, invoices, owed, faults, coupon>>
      /\ plan' = [plan EXCEPT ![o] = checkout[c].plan]
      /\ Moves(c, NoCheckout)
  BY DEF SetPlan, Conclude, Moves, BillingIInv, BillingTypeOK
<1>1. BillingTypeOK'
  BY <1>0, IdleType, CheckoutMoves DEF BillingIInv, BillingTypeOK, coupon
<1>2. CouponInv'
  BY <1>0, IdleType, CouponKept
<1>3. OwedInv'
  BY <1>0, IdleType, AtKept DEF BillingIInv, OwedInv
<1>4. PlanInv'
  <2>1. (At("invoice") \cup At("plan"))' = (At("invoice") \cup At("plan")) \ {c}
    <3>1. /\ At("invoice")' = At("invoice") \ {c}
          /\ At("plan")' = At("plan") \ {c}
      <4>1. BillingTypeOK
        BY DEF BillingIInv
      <4>2. \A pc : At(pc)' =
              IF NoCheckout.pc = pc THEN At(pc) \cup {c} ELSE At(pc) \ {c}
        BY ONLY <1>0, <4>1, IdleType, AtMoves, c \in Checkouts
      <4> QED BY <4>2, IdleType
    <3> QED BY <3>1
  <2>2. \A d \in (At("invoice") \cup At("plan")) \ {c} : checkout'[d] = checkout[d]
    BY <1>0, IdleType, CheckoutMoves DEF BillingIInv, At
  <2>3. /\ checkout[c].plan \in Subscribed(o)
        /\ \A d \in At("invoice") \cup At("plan") :
             checkout[d].plan \in Subscribed(checkout[d].org)
    BY <1>0 DEF BillingIInv, PlanInv, At
  <2>4. \A x : Subscribed(x)' = Subscribed(x)
    BY <1>0 DEF Subscribed
  <2>5. ASSUME faults = 0, NEW x \in Payers, subscriptions[x] # << >>
        PROVE  \/ plan'[x] \in Subscribed(x)
               \/ \E d \in (At("invoice") \cup At("plan")) \ {c} : checkout'[d].org = x
    <3>1. CASE x = o
      BY <1>0, <2>3, <3>1 DEF BillingIInv, BillingTypeOK
    <3>2. CASE x # o
      <4>1. plan'[x] = plan[x]
        BY <1>0, <3>2 DEF BillingIInv, BillingTypeOK
      <4> QED BY <2>2, <2>5, <3>2, <4>1 DEF BillingIInv, PlanInv
    <3> QED BY <3>1, <3>2
  <2> QED BY <1>0, <2>1, <2>2, <2>3, <2>4, <2>5 DEF PlanInv
<1> QED BY <1>1, <1>2, <1>3, <1>4 DEF BillingIInv

(* A death is a fault, so it is counted where it leaves a gap.             *)
LEMMA FailStep ==
  ASSUME BillingAssumption, BillingIInv, NEW c \in Checkouts, Fail(c)
  PROVE  BillingIInv'
<1>0. /\ faults \in Nat /\ faults' = faults + 1 /\ UNCHANGED <<coupon, books>>
      /\ Moves(c, NoCheckout)
  BY DEF Fail, Conclude, Moves, BillingIInv, BillingTypeOK
<1>1. /\ \A pc \in {"count", "redeem", "invoice", "plan"} : At(pc)' = At(pc) \ {c}
      /\ \A d \in Checkouts \ {c} : checkout'[d] = checkout[d]
  <2>1. BillingTypeOK
    BY DEF BillingIInv
  <2>2. \A pc : At(pc)' = IF NoCheckout.pc = pc THEN At(pc) \cup {c} ELSE At(pc) \ {c}
    BY ONLY <1>0, <2>1, IdleType, AtMoves, c \in Checkouts
  <2>3. \A d \in Checkouts \ {c} : checkout'[d] = checkout[d]
    BY <1>0, <2>1 DEF Moves, BillingTypeOK
  <2> QED BY <2>2, <2>3, IdleType
<1>2. BillingTypeOK'
  BY <1>0, IdleType, CheckoutMoves DEF BillingIInv, BillingTypeOK, coupon, books
<1>3. \A pc : /\ Cardinality(At(pc)) \in Nat /\ Cardinality(At(pc) \ {c}) \in Nat
              /\ Cardinality(At(pc) \ {c}) <= Cardinality(At(pc))
              /\ Cardinality(At(pc)) <= Cardinality(At(pc) \ {c}) + 1
  <2> SUFFICES ASSUME NEW pc
               PROVE  /\ Cardinality(At(pc)) \in Nat /\ Cardinality(At(pc) \ {c}) \in Nat
                      /\ Cardinality(At(pc) \ {c}) <= Cardinality(At(pc))
                      /\ Cardinality(At(pc)) <= Cardinality(At(pc) \ {c}) + 1
    OBVIOUS
  <2>1. IsFiniteSet(At(pc)) /\ Cardinality(At(pc)) \in Nat
    BY AtFinite
  <2>2. Cardinality(At(pc) \ {c}) \in Nat
    BY <2>1, FS_RemoveElement, FS_CardinalityType
  <2>3. \/ Cardinality(At(pc) \ {c}) = Cardinality(At(pc))
        \/ Cardinality(At(pc) \ {c}) = Cardinality(At(pc)) - 1
    BY <2>1, Counted
  <2> QED BY <2>1, <2>2, <2>3
<1>4. CouponInv'
  <2>1. /\ CouponInv /\ redeemedCount \in Nat /\ MaxRedemptions \in Nat
        /\ UNCHANGED <<redeemed, redeemedCount>>
        /\ Cardinality(redeemed) \in Nat /\ Cardinality(Checkouts) \in Nat
    BY <1>0, FS_CardinalityType DEF BillingAssumption, BillingIInv, BillingTypeOK, coupon
  <2>2. /\ Cardinality(At("count")') = Cardinality(At("count") \ {c})
        /\ Cardinality(At("redeem")') = Cardinality(At("redeem") \ {c})
    BY <1>1
  <2> QED BY <1>0, <1>3, <2>1, <2>2 DEF CouponInv
<1>5. OwedInv'
  BY <1>0 DEF OwedInv
<1>6. PlanInv'
  <2>1. \A x : Subscribed(x)' = Subscribed(x)
    BY <1>0 DEF Subscribed, books
  <2>2. \A d \in (At("invoice") \cup At("plan"))' :
          d \in At("invoice") \cup At("plan") /\ checkout'[d] = checkout[d]
    BY <1>1 DEF At
  <2> QED BY <1>0, <2>1, <2>2 DEF BillingIInv, PlanInv
<1> QED BY <1>2, <1>4, <1>5, <1>6 DEF BillingIInv

LEMMA BillingInvariant ==
  ASSUME BillingAssumption
  PROVE  BillingSpec => []BillingIInv
<1>1. BillingIInv /\ BillingNext => BillingIInv'
  BY StartCheckoutStep, ReadCouponStep, RedeemStep, CountStep, SubscribeStep,
     InvoiceStep, SetPlanStep, FailStep DEF BillingNext, Charge
<1>2. BillingIInv /\ UNCHANGED billingVars => BillingIInv'
  BY DEF BillingIInv, BillingTypeOK, CouponInv, OwedInv, PlanInv, At, Invoicing,
     Subscribed, billingVars, coupon, books
<1> QED BY <1>1, <1>2, BillingInit_IInv, PTL DEF BillingSpec

LEMMA BillingInv_Agrees ==
  ASSUME BillingAssumption, BillingIInv
  PROVE  BillingAgrees
<1>1. CouponLedger
  <2>1. /\ Cardinality(At("count")) \in Nat /\ Cardinality(At("redeem")) \in Nat
        /\ Cardinality(redeemed) \in Nat /\ Cardinality(Checkouts) \in Nat
    BY AtFinite, FS_CardinalityType DEF BillingAssumption, BillingIInv, BillingTypeOK
  <2>2. redeemedCount \in Nat /\ faults \in Nat /\ MaxRedemptions \in Nat
    BY DEF BillingAssumption, BillingIInv, BillingTypeOK
  <2> QED BY <2>1, <2>2 DEF BillingIInv, CouponInv, CouponLedger
<1>2. AccountFollowsSubscriptions
  <2> SUFFICES ASSUME NEW o \in Payers, faults = 0, \A c \in Checkouts : checkout[c].org # o
               PROVE  /\ invoices[o] = owed[o]
                      /\ subscriptions[o] # << >> => plan[o] \in Subscribed(o)
    BY DEF AccountFollowsSubscriptions, Subscribed
  <2>1. Invoicing(o) = {} /\ \A c \in At("invoice") \cup At("plan") : checkout[c].org # o
    BY DEF Invoicing, At
  <2>2. Cardinality(Invoicing(o)) = 0
    BY <2>1, FS_EmptySet
  <2>3. invoices[o] \in Nat /\ owed[o] = invoices[o] + Cardinality(Invoicing(o))
    BY DEF BillingIInv, BillingTypeOK, OwedInv
  <2>4. invoices[o] = owed[o]
    BY <2>2, <2>3
  <2>5. subscriptions[o] # << >> => plan[o] \in Subscribed(o)
    BY <2>1 DEF BillingIInv, PlanInv
  <2> QED BY <2>4, <2>5
<1> QED BY <1>1, <1>2 DEF BillingAgrees

(* The coupon's count and limit hold up to the calls under way, and every  *)
(* account is invoiced for what it has and is on the plan of one of its    *)
(* subscriptions (createSubscription, applyCoupon), for any number of      *)
(* organizations and of calls.                                             *)
THEOREM BillingBooksAgree ==
  ASSUME BillingAssumption
  PROVE  BillingSpec => []BillingAgrees
BY BillingInvariant, BillingInv_Agrees, PTL
=============================================================================
