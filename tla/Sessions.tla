------------------------------ MODULE Sessions ------------------------------
(***************************************************************************)
(* One user's sessions: the browser's fetch wrapper with its one silent    *)
(* refresh (lib/api.ts), AuthController and AuthService behind it, and the *)
(* platform administrator who suspends the user.                           *)
(*                                                                         *)
(* A session is named by its refresh token: the token of a rotation is a   *)
(* new name.  The access token is a JWT nobody stores: it is fresh until   *)
(* it expires.  The fetches of a page run in parallel; each await of the   *)
(* refresh handler is one step.  A fault is a crash, a lost answer or a    *)
(* rotation that fails.                                                    *)
(*                                                                         *)
(* Left out: the fingerprint (one browser), the claims of the tokens, and  *)
(* the identity provider's protocol up to the claims it returns.           *)
(***************************************************************************)
EXTENDS Faults, Integers, FiniteSets

CONSTANTS
  Fetches,      \* the fetches a page has in flight at once
  NumSessions   \* sessions that can be created (bound)

SessionAssumption == NumSessions \in Nat /\ MaxFaults \in Nat

VARIABLES
  status,      \* User.status
  session,   \* Session rows, by refresh token
  cookie,    \* the browser: signara_refresh, and the access token in the page
  fetch,     \* what each fetch is waiting for
  suspend,   \* setUserStatus between its two writes
  ended      \* logins whose sessions were revoked, by a logout or from outside

sessionVars == <<status, session, cookie, fetch, suspend, ended, faults>>

None == 0
Tokens == 1..NumSessions
Absent == [state |-> "absent", login |-> None, from |-> None]
Idle == [pc |-> "idle", refresh |-> None, retry |-> TRUE]

Live == {t \in Tokens : session[t].state = "live"}
Unused(t) == /\ session[t].state = "absent"
             /\ \A x \in 1..(t - 1) : session[x].state # "absent"
Logins == {session[t].login : t \in Tokens} \ {None}

SessionInit ==
  /\ status = "absent"
  /\ session = [t \in Tokens |-> Absent]
  /\ cookie = [refresh |-> None, access |-> "none"]
  /\ fetch = [f \in Fetches |-> Idle]
  /\ suspend = FALSE
  /\ ended = {}
  /\ faults = 0

Goto(f, pc) == fetch' = [fetch EXCEPT ![f].pc = pc]

(* createSession, for the token of a new pair.                             *)
CreateSession(t, login, from) ==
  /\ Unused(t)
  /\ session' = [session EXCEPT ![t] =
                   [state |-> "live", login |-> login, from |-> from]]

(* The answer's two cookies, and the token the page sends with a fetch.    *)
SetAuthCookies(t) == cookie' = [refresh |-> t, access |-> "fresh"]

(* loginWithIdp: the upsert makes the user ACTIVE, whatever they were, so  *)
(* the status check that follows it never refuses.                         *)
LoginWithIdp(t) == status' = "ACTIVE" /\ CreateSession(t, t, None)

(* The identity provider sends the browser back, with claims.              *)
Callback ==
  /\ \A f \in Fetches : fetch[f].pc = "idle"
  /\ cookie.refresh \notin Live
  /\ \E t \in Tokens : LoginWithIdp(t) /\ SetAuthCookies(t)
  /\ UNCHANGED <<fetch, suspend, ended, faults>>

(***************************************************************************)
(* request: a 401 leads to one refresh and one retry.                      *)
(***************************************************************************)
StartFetch(f) ==
  /\ fetch[f].pc = "idle"
  /\ cookie.refresh # None
  /\ fetch' = [fetch EXCEPT ![f] = [Idle EXCEPT !.pc = "sent"]]
  /\ UNCHANGED <<status, session, cookie, suspend, ended, faults>>

(* JwtAuthGuard: a fresh token of an ACTIVE user.                          *)
Accepted == cookie.access = "fresh" /\ status = "ACTIVE"

Answer(f) ==
  /\ fetch[f].pc = "sent"
  /\ fetch' = [fetch EXCEPT ![f] =
       IF Accepted \/ ~@.retry THEN Idle
       ELSE [pc |-> "find", refresh |-> cookie.refresh, retry |-> FALSE]]
  /\ UNCHANGED <<status, session, cookie, suspend, ended, faults>>

(***************************************************************************)
(* refresh: find the live session, revoke it, create its successor.        *)
(***************************************************************************)
FindSession(f) ==
  /\ fetch[f].pc = "find"
  /\ fetch' = [fetch EXCEPT ![f] =
       IF fetch[f].refresh \in Live /\ status = "ACTIVE"
       THEN [@ EXCEPT !.pc = "revoke"] ELSE Idle]
  /\ UNCHANGED <<status, session, cookie, suspend, ended, faults>>

\* Slip: the count of the update is not looked at.
RevokeOldUncounted(f) ==
  /\ fetch[f].pc = "revoke"
  /\ session' = [session EXCEPT ![fetch[f].refresh].state = "revoked"]
  /\ Goto(f, "create")
  /\ UNCHANGED <<status, cookie, suspend, ended, faults>>

(* updateMany where it is still live: one of two refreshes counts 1.       *)
RevokeOld(f) ==
  /\ fetch[f].pc = "revoke"
  /\ session' = [session EXCEPT ![fetch[f].refresh].state = "revoked"]
  /\ fetch' = [fetch EXCEPT ![f] = IF fetch[f].refresh \in Live
                                   THEN [@ EXCEPT !.pc = "create"] ELSE Idle]
  /\ UNCHANGED <<status, cookie, suspend, ended, faults>>

CreateNew(f) ==
  LET old == fetch[f].refresh
  IN  /\ fetch[f].pc = "create"
      /\ \E t \in Tokens :
           /\ CreateSession(t, session[old].login, old)
           /\ fetch' = [fetch EXCEPT ![f].pc = "answered", ![f].refresh = t]
      /\ UNCHANGED <<status, cookie, suspend, ended, faults>>

\* Slip: the new refresh token is not written to the cookie.
RetryWithOldCookie(f) ==
  /\ fetch[f].pc = "answered"
  /\ cookie' = [cookie EXCEPT !.access = "fresh"]
  /\ Goto(f, "sent")
  /\ UNCHANGED <<status, session, suspend, ended, faults>>

(* The answer of the refresh arrives; then the fetch is sent again.      *)
Retry(f) ==
  /\ fetch[f].pc = "answered"
  /\ SetAuthCookies(fetch[f].refresh)
  /\ Goto(f, "sent")
  /\ UNCHANGED <<status, session, suspend, ended, faults>>

(* The handler fails between its writes, or its answer is lost on the way. *)
LoseRefresh(f) ==
  /\ fetch[f].pc \in {"revoke", "create", "answered"}
  /\ faults < MaxFaults
  /\ faults' = faults + 1
  /\ fetch' = [fetch EXCEPT ![f] = Idle]
  /\ UNCHANGED <<status, session, cookie, suspend, ended>>

(***************************************************************************)
(* What ends sessions.                                                     *)
(***************************************************************************)
Revoke(which) ==
  [t \in Tokens |-> IF t \in which THEN [session[t] EXCEPT !.state = "revoked"]
                    ELSE session[t]]

(* logout: the session of the cookie, and the cookies.                     *)
Logout ==
  /\ cookie.refresh # None
  /\ Accepted
  /\ session' = Revoke({cookie.refresh})
  /\ ended' = ended \cup {session[cookie.refresh].login}
  /\ cookie' = [refresh |-> None, access |-> "none"]
  /\ UNCHANGED <<status, fetch, suspend, faults>>

(* setUserStatus writes the status, then revokes what it finds; logoutAll  *)
(* and a tenant's suspension do the second alone.                          *)
SetUserStatus ==
  /\ status # "absent" /\ ~suspend
  /\ status' \in {"ACTIVE", "SUSPENDED", "DEACTIVATED"}
  /\ suspend' = (status' # "ACTIVE")
  /\ UNCHANGED <<session, cookie, fetch, ended, faults>>

RevokeAll ==
  /\ suspend \/ Live # {}
  /\ session' = Revoke({t \in Tokens : session[t].state # "absent"})
  /\ ended' = ended \cup Logins
  /\ suspend' = FALSE
  /\ UNCHANGED <<status, cookie, fetch, faults>>

(* Fifteen minutes pass.                                                   *)
Expire ==
  /\ cookie.access = "fresh"
  /\ cookie' = [cookie EXCEPT !.access = "expired"]
  /\ UNCHANGED <<status, session, fetch, suspend, ended, faults>>

Refresh(f) == FindSession(f) \/ RevokeOld(f) \/ CreateNew(f) \/ Retry(f)

SessionNext ==
  \/ Callback \/ Logout \/ SetUserStatus \/ RevokeAll \/ Expire
  \/ \E f \in Fetches : StartFetch(f) \/ Answer(f) \/ Refresh(f) \/ LoseRefresh(f)

SessionSpec == SessionInit /\ [][SessionNext]_sessionVars
-----------------------------------------------------------------------------
(***************************************************************************)
(* Properties.                                                             *)
(***************************************************************************)
(* A rotation replaces a session and never forks it: however many fetches  *)
(* of a page refresh at once with the same cookie, a token has at most one *)
(* successor and a login at most one live session.                         *)
NoFork ==
  /\ \A t \in Tokens : Cardinality({x \in Tokens : session[x].from = t}) <= 1
  /\ \A l \in Logins : Cardinality({t \in Live : session[t].login = l}) <= 1

(* The page's refreshes never lose its own login: when none is under way,  *)
(* nothing failed and nobody revoked the login, the browser holds the live *)
(* session, whichever of the parallel refreshes won.                       *)
BrowserHoldsLive ==
  /\ cookie.refresh # None /\ faults = 0
  /\ \A f \in Fetches : fetch[f].pc \in {"idle", "sent"}
  /\ session[cookie.refresh].login \notin ended
  => cookie.refresh \in Live
=============================================================================
