---------------------------- MODULE TeamSettings ----------------------------
(***************************************************************************)
(* The team tab of the settings page: Settings, TeamMembersTable and       *)
(* mapMembers, one user and the API.  A call is a slot, as in              *)
(* DocumentDetail; a member invited here is the slot that invited them.    *)
(*                                                                         *)
(* Left out: the profile and organization forms, which a load overwrites   *)
(* and a save does not, and what the other tabs only show.                 *)
(***************************************************************************)
EXTENDS FiniteSets, Naturals

CONSTANTS
  Tasks,       \* calls of one visit (bound)
  Colleagues,  \* members there were before
  Owner,       \* one of them
  Limit        \* members that a load returns, 50 in the code

TeamAssumption ==
  /\ Tasks \cap Colleagues = {} /\ Owner \in Colleagues
  /\ IsFiniteSet(Tasks \cup Colleagues)
  /\ Limit \in Nat

VARIABLES
  members,    \* in the database
  elders,     \* those who had joined before each of them
  committed,  \* the changes that have been made to it
  role,       \* of the user, none until the settings are there
  open,       \* the team tab is open
  task,       \* what each call is doing
  rows,       \* the members on the page
  arrived,    \* a load has been answered
  reflected,  \* the changes that they show
  dropped,    \* those they do not: an older answer to a load came after
              \* them, or their call failed
  inviting,
  removing,   \* removingId
  refused     \* the page shows an error

database == <<members, elders, committed>>
listing == <<rows, arrived, reflected, dropped>>
settings == <<role, open, listing, inviting, removing, refused>>
teamVars == <<database, task, settings>>

Nobody == "none"
Resting == [kind |-> Nobody, on |-> Nobody, pc |-> "idle", list |-> {}, has |-> {}]

(* createdAt, of those who were there before.                              *)
Seniority(older) ==
  /\ \A m \in Colleagues : m \notin older[m]
  /\ \A m, n \in Colleagues : m # n => m \in older[n] \/ n \in older[m]
  /\ \A m, n \in Colleagues : m \in older[n] => older[m] \subseteq older[n]

TeamInit ==
  /\ members = Colleagues /\ committed = {}
  /\ \E older \in [Colleagues -> SUBSET Colleagues] :
       /\ Seniority(older)
       /\ elders = [m \in Colleagues \cup Tasks |->
                      IF m \in Colleagues THEN older[m] ELSE {}]
  /\ role = Nobody /\ open = FALSE
  /\ task = [c \in Tasks |-> Resting]
  /\ rows = {} /\ arrived = FALSE /\ reflected = {} /\ dropped = {}
  /\ inviting = FALSE /\ removing = Nobody /\ refused = FALSE

NextTask(c) == LET spare == {d \in Tasks : task[d].pc = "idle"}
             IN  spare # {} /\ c = CHOOSE d \in spare : TRUE

AskTask(c, kind, m, pc) ==
  task' = [task EXCEPT ![c] = [Resting EXCEPT !.kind = kind, !.on = m,
                                              !.pc = pc]]
EndTask(c) == task' = [task EXCEPT ![c] = [Resting EXCEPT !.pc = "over"]]

(* finally: inviting and removingId, whichever member it names by now.     *)
FreeTask(c) ==
  /\ inviting' = (inviting /\ task[c].kind # "invite")
  /\ removing' = IF task[c].kind = "remove" THEN Nobody ELSE removing

CanManage == role \in {"OWNER", "ADMIN"}

(***************************************************************************)
(* load, again when an error is dismissed; and the tabs, of which the team *)
(* tab loads the members whenever it is opened.                            *)
(***************************************************************************)
LoadSettings ==
  /\ role = Nobody \/ refused
  /\ role' \in IF role = Nobody THEN {"ADMIN", "MEMBER"} ELSE {role}
  /\ refused' = FALSE
  /\ UNCHANGED <<database, open, task, listing, inviting, removing>>

OpenTeam(c) ==
  /\ ~open /\ NextTask(c)
  /\ open' = TRUE
  /\ AskTask(c, "load", Nobody, "load")
  /\ UNCHANGED <<database, role, listing, inviting, removing, refused>>

OpenOther ==
  /\ open' = FALSE
  /\ UNCHANGED <<database, role, task, listing, inviting, removing, refused>>

(***************************************************************************)
(* inviteMember and removeMember; the owner's row has no button.           *)
(***************************************************************************)
Invite(c) ==
  /\ open /\ CanManage /\ NextTask(c) /\ ~inviting
  /\ AskTask(c, "invite", c, "sent")
  /\ inviting' = TRUE /\ refused' = FALSE
  /\ UNCHANGED <<database, role, open, listing, removing>>

RemoveMember(c, m) ==
  /\ open /\ CanManage /\ NextTask(c) /\ m \in rows \ {Owner} /\ removing # m
  /\ AskTask(c, "remove", m, "sent")
  /\ removing' = m /\ refused' = FALSE
  /\ UNCHANGED <<database, role, open, listing, inviting>>

Asked(c) == [kind |-> task[c].kind, on |-> task[c].on]

ServeTask(c) ==
  LET m == task[c].on
  IN  /\ task[c].pc = "sent"
      /\ \/ /\ task[c].kind = "invite"
            /\ members' = members \cup {m}
            /\ elders' = [elders EXCEPT ![m] = Colleagues \cup {x.on : x \in committed}]
         \/ /\ task[c].kind = "remove" /\ m \in members \ {Owner}
            /\ members' = members \ {m} /\ UNCHANGED elders
      /\ committed' = committed \cup {Asked(c)}
      /\ task' = [task EXCEPT ![c].pc = "served"]
      /\ UNCHANGED settings

\* The oldest members, as many as the page asks for.
ReadMembers(c) ==
  /\ task[c].pc = "load"
  /\ task' = [task EXCEPT ![c].pc = "loaded", ![c].has = committed,
                ![c].list = {m \in members : Cardinality(elders[m] \cap members) < Limit}]
  /\ UNCHANGED <<database, settings>>

(***************************************************************************)
(* The answers.                                                            *)
(***************************************************************************)
Invited(c) ==
  /\ task[c].pc = "served" /\ task[c].kind = "invite"
  /\ task' = [task EXCEPT ![c].pc = "load"]
  /\ UNCHANGED <<database, settings>>

\* Slip: the row stays until the members are loaded again.
RemovedLater(c) ==
  /\ task[c].pc = "served" /\ task[c].kind = "remove"
  /\ EndTask(c) /\ FreeTask(c)
  /\ UNCHANGED <<database, role, open, listing, refused>>

(* The row is taken out of whatever list is on the page by now.            *)
Removed(c) ==
  /\ task[c].pc = "served" /\ task[c].kind = "remove"
  /\ EndTask(c) /\ FreeTask(c)
  /\ rows' = rows \ {task[c].on}
  /\ reflected' = reflected \cup {Asked(c)} /\ dropped' = dropped \ {Asked(c)}
  /\ UNCHANGED <<database, role, open, arrived, refused>>

ShowMembers(c) ==
  /\ task[c].pc = "loaded"
  /\ EndTask(c) /\ FreeTask(c)
  /\ rows' = task[c].list /\ arrived' = TRUE
  /\ reflected' = task[c].has
  /\ dropped' = (dropped \cup reflected) \ task[c].has
  /\ UNCHANGED <<database, role, open, refused>>

(* Refused, or lost: loadMembers says nothing of it.                       *)
TaskFails(c) ==
  /\ task[c].pc \in {"sent", "served", "load", "loaded"}
  /\ EndTask(c) /\ FreeTask(c)
  /\ refused' = (refused \/ task[c].pc \in {"sent", "served"})
  /\ dropped' = dropped \cup (({Asked(c)} \cap committed) \ reflected)
  /\ UNCHANGED <<database, role, open, rows, arrived, reflected>>

TeamNext ==
  \/ LoadSettings \/ OpenOther
  \/ \E c \in Tasks :
       \/ OpenTeam(c) \/ Invite(c)
       \/ \E m \in Colleagues \cup Tasks : RemoveMember(c, m)
       \/ ServeTask(c) \/ ReadMembers(c)
       \/ Invited(c) \/ Removed(c) \/ ShowMembers(c) \/ TaskFails(c)

TeamSpec == TeamInit /\ [][TeamNext]_teamVars
-----------------------------------------------------------------------------
Outcome(changes) ==
  (Colleagues \cup {x.on : x \in {y \in changes : y.kind = "invite"}})
    \ {x.on : x \in {y \in changes : y.kind = "remove"}}

(* Once the members have been listed, and with no call under way, the page *)
(* lists those whom its invitations and removals leave, and of them all    *)
(* before whom fewer than Limit had joined, but for the changes whose own  *)
(* call failed (of which a failed load shows nothing) or that were on the  *)
(* page until an older answer came; the next answer that is not older      *)
(* brings these back.                                                      *)
ListsMembers ==
  arrived /\ (\A c \in Tasks : task[c].pc \in {"idle", "over"}) =>
    LET left == Outcome(committed \ dropped)
    IN  /\ rows \subseteq left
        /\ \A m \in left \ rows : Cardinality(elders[m]) >= Limit
=============================================================================
