------------------------------ MODULE Tenancy ------------------------------
(***************************************************************************)
(* Organizations and their members: the guards that resolve a caller's     *)
(* tenant and role (JwtAuthGuard, TenantGuard, PermissionsGuard),          *)
(* UsersService, OrganizationsService and the administrator's              *)
(* setOrganizationStatus.                                                  *)
(*                                                                         *)
(* A call resolves its principal once, then acts on it through several     *)
(* awaits, each one step; calls of several people interleave.  A call that *)
(* dies between two awaits is one that is never scheduled again.           *)
(*                                                                         *)
(* Left out: profiles, workspaces' and teams' rows (only who may create    *)
(* them), and the slugs of organizations.  A membership removed and made   *)
(* anew between a call's read and its write is taken for the same one;     *)
(* the code addresses memberships by their id and would find none.         *)
(***************************************************************************)
EXTENDS Integers, FiniteSets, Sequences

CONSTANTS
  Users,
  Orgs,
  Calls,           \* calls served at once (bound)
  Roles            \* the roles that are given out

TenancyAssumption ==
  Roles \subseteq {"OWNER", "ADMIN", "MANAGER", "AUDITOR", "MEMBER"}

VARIABLES
  user,      \* User.status
  org,       \* Organization.status
  member,    \* Membership.role, by organization and user
  joined,    \* the order in which each user's memberships were created
  demoted,   \* organizations one of whose owners was given a lesser role
  call       \* what each call is doing

people == <<user, org, member, joined, demoted>>
tenancyVars == <<people, call>>

Nil == "none"
NoCall == [pc |-> "idle", org |-> Nil, target |-> Nil, manages |-> FALSE]

TenancyInit ==
  /\ \E first \in Users :
       user = [u \in Users |-> IF u = first THEN "ACTIVE" ELSE "absent"]
  /\ org = [o \in Orgs |-> "absent"]
  /\ member = [o \in Orgs |-> [u \in Users |-> Nil]]
  /\ joined = [u \in Users |-> << >>]
  /\ demoted = {}
  /\ call = [c \in Calls |-> NoCall]

Proceed(c, pc) == call' = [call EXCEPT ![c].pc = pc]
Done(c) == call' = [call EXCEPT ![c] = NoCall]

(***************************************************************************)
(* The guards.                                                             *)
(***************************************************************************)
(* The seeded permissions of the roles, as far as the routes here ask for  *)
(* them; an owner and an administrator have them all.                      *)
Granted(role) ==
  CASE role \in {"OWNER", "ADMIN"} ->
         {"members.invite", "members.manage", "workspaces.manage",
          "teams.manage", "organizations.update", "billing.manage",
          "apikeys.manage", "signing.send"}
    [] role = "MANAGER" -> {"signing.send"}
    [] OTHER -> {}

(* resolvePrincipal: an ACTIVE user, and the oldest membership in an       *)
(* organization that is not suspended.                                     *)
Serving(o) == org[o] = "ACTIVE"
Memberships(u) == SelectSeq(joined[u], Serving)
Tenant(u) == IF Memberships(u) = << >> THEN Nil ELSE Head(Memberships(u))

Role(u) == IF Tenant(u) = Nil THEN Nil ELSE member[Tenant(u)][u]

(* assertCanManage, asked later of the role the call came with.            *)
CanManage(role) == role \in {"OWNER", "ADMIN"}

(* A request of u to a route that asks for a permission in a tenant.       *)
Admit(c, u, permission, pc) ==
  /\ call[c].pc = "idle"
  /\ user[u] = "ACTIVE"
  /\ permission \in Granted(Role(u))
  /\ call' = [call EXCEPT ![c] =
       [NoCall EXCEPT !.pc = pc, !.org = Tenant(u),
                    !.manages = CanManage(Role(u))]]
  /\ UNCHANGED <<people>>

(* authenticateApiKey: a live key of u in o; its scopes are permissions,   *)
(* and its role is no role of a member.                                    *)
StartByKey(c, u) ==
  /\ call[c].pc = "idle"
  /\ user[u] = "ACTIVE"
  /\ \E o \in Orgs, pc \in {"invite", "update"} :
       /\ Serving(o) /\ member[o][u] # Nil
       /\ call' = [call EXCEPT ![c] =
            [NoCall EXCEPT !.pc = pc, !.org = o,
                         !.manages = CanManage("API_KEY")]]
  /\ UNCHANGED <<people>>

StartInvite(c, u) == Admit(c, u, "members.invite", "invite")
StartUpdateRole(c, u) == Admit(c, u, "members.manage", "update")
StartRemove(c, u) == Admit(c, u, "members.manage", "remove")

(***************************************************************************)
(* createOrganization: for those without a tenant, in one nested write.    *)
(***************************************************************************)
StartCreateOrganization(c, u) ==
  /\ call[c].pc = "idle"
  /\ user[u] = "ACTIVE"
  /\ Tenant(u) = Nil
  /\ call' = [call EXCEPT ![c] =
       [NoCall EXCEPT !.pc = "organization", !.target = u]]
  /\ UNCHANGED <<people>>

CreateOrganization(c) ==
  LET u == call[c].target
  IN  /\ call[c].pc = "organization"
      /\ \E o \in Orgs :
           /\ org[o] = "absent"
           /\ org' = [org EXCEPT ![o] = "ACTIVE"]
           /\ member' = [member EXCEPT ![o][u] = "OWNER"]
           /\ joined' = [joined EXCEPT ![u] = Append(@, o)]
      /\ Done(c)
      /\ UNCHANGED <<user, demoted>>

(***************************************************************************)
(* UsersService: inviteMember, updateMemberRole, removeMember.             *)
(***************************************************************************)
(* A second invitation finds the member, or is refused by the unique key   *)
(* of the row it would write.                                              *)
Invite(c) ==
  /\ call[c].pc = "invite"
  /\ \E u \in Users :
       IF member[call[c].org][u] # Nil
       THEN Done(c) /\ UNCHANGED user
       ELSE /\ user' = [user EXCEPT ![u] =
                            IF @ = "absent" THEN "INVITED" ELSE @]
            /\ call' = [call EXCEPT ![c].pc = "membership", ![c].target = u,
                                     ![c].manages = FALSE]
  /\ UNCHANGED <<org, member, joined, demoted>>

CreateMembership(c) ==
  LET o == call[c].org
      u == call[c].target
  IN  /\ call[c].pc = "membership"
      /\ IF member[o][u] # Nil
         THEN UNCHANGED <<member, joined>>
         ELSE /\ \E role \in Roles : member' = [member EXCEPT ![o][u] = role]
              /\ joined' = [joined EXCEPT ![u] = Append(@, o)]
      /\ Done(c)
      /\ UNCHANGED <<user, org, demoted>>

(* assertCanManage asks the role of the call again; then any member may be *)
(* given any role, an owner included.                                      *)
UpdateRole(c) ==
  LET o == call[c].org
  IN  /\ call[c].pc = "update"
      /\ IF ~call[c].manages
         THEN UNCHANGED <<member, demoted>>
         ELSE \E u \in {x \in Users : member[o][x] # Nil}, role \in Roles :
                /\ member' = [member EXCEPT ![o][u] = role]
                /\ demoted' = IF member[o][u] = "OWNER" /\ role # "OWNER"
                              THEN demoted \cup {o} ELSE demoted
      /\ Done(c)
      /\ UNCHANGED <<user, org, joined>>

\* Slip: the owner's row may be removed like any other.
ReadRemovedOwnerToo(c) ==
  /\ call[c].pc = "remove"
  /\ \E u \in Users :
       IF call[c].manages /\ member[call[c].org][u] # Nil
       THEN call' = [call EXCEPT ![c].pc = "delete", ![c].target = u,
                                 ![c].manages = FALSE]
       ELSE Done(c)
  /\ UNCHANGED <<people>>

(* The membership is read and its role checked, and then deleted.          *)
ReadRemoved(c) ==
  /\ call[c].pc = "remove"
  /\ \E u \in Users :
       IF call[c].manages /\ member[call[c].org][u] \notin {Nil, "OWNER"}
       THEN call' = [call EXCEPT ![c].pc = "delete", ![c].target = u,
                                 ![c].manages = FALSE]
       ELSE Done(c)
  /\ UNCHANGED <<people>>

Without(s, o) == SelectSeq(s, LAMBDA x : x # o)

DeleteMembership(c) ==
  LET o == call[c].org
      u == call[c].target
  IN  /\ call[c].pc = "delete"
      /\ member' = [member EXCEPT ![o][u] = Nil]
      /\ joined' = [joined EXCEPT ![u] = Without(@, o)]
      /\ Done(c)
      /\ UNCHANGED <<user, org, demoted>>

(* The invited user logs in (Sessions), which makes them ACTIVE.           *)
FirstLogin(u) ==
  /\ user[u] = "INVITED"
  /\ user' = [user EXCEPT ![u] = "ACTIVE"]
  /\ UNCHANGED <<org, member, joined, demoted, call>>

(* AdminService.setOrganizationStatus.                                     *)
SetOrganizationStatus(o) ==
  /\ org[o] # "absent"
  /\ org' = [org EXCEPT ![o] = IF @ = "ACTIVE" THEN "SUSPENDED" ELSE "ACTIVE"]
  /\ UNCHANGED <<user, member, joined, demoted, call>>

Start(c, u) ==
  \/ StartInvite(c, u) \/ StartUpdateRole(c, u) \/ StartRemove(c, u)
  \/ StartByKey(c, u) \/ StartCreateOrganization(c, u)

Serve(c) ==
  \/ CreateOrganization(c) \/ Invite(c) \/ CreateMembership(c)
  \/ UpdateRole(c) \/ ReadRemoved(c) \/ DeleteMembership(c)

TenancyNext ==
  \/ \E c \in Calls : Serve(c) \/ \E u \in Users : Start(c, u)
  \/ \E u \in Users : FirstLogin(u)
  \/ \E o \in Orgs : SetOrganizationStatus(o)

TenancySpec == TenancyInit /\ [][TenancyNext]_tenancyVars
-----------------------------------------------------------------------------
(***************************************************************************)
(* Properties.                                                             *)
(***************************************************************************)
Owners(o) == {u \in Users : member[o][u] = "OWNER"}

(* "Cannot remove the organization owner": removals alone, racing or not   *)
(* with invitations and new roles, never leave an organization without an  *)
(* owner; only giving an owner a lesser role does, which is not refused.   *)
OwnerLostOnlyByDemotion ==
  \A o \in Orgs : org[o] # "absent" /\ o \notin demoted => Owners(o) # {}

=============================================================================
