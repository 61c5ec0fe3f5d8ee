---------------------------- MODULE WebhookPanel ----------------------------
(***************************************************************************)
(* The webhook panel of the settings page: WebhookEndpointsPanel, one user *)
(* and the API.  A call is a slot, as in DocumentDetail; an endpoint is    *)
(* the slot that made it.                                                  *)
(*                                                                         *)
(* Left out: the delivery log, which is loaded with the list, descriptions,*)
(* the wording of an endpoint's health, and the panel's error, which bars  *)
(* nothing.                                                                *)
(***************************************************************************)
EXTENDS FiniteSets

CONSTANTS Requests   \* calls of one visit (bound)

VARIABLES
  endpoints,  \* made: in the database; off: disabled; writes: the changes
              \* that this panel has had written
  request,    \* what each call is doing
  listed,     \* endpoints, as the last load answered
  unlisted,   \* changes that the list does not have: an older answer to
              \* load came after them, or their call failed
  refreshing,
  marked,     \* busyId
  creating,
  secret      \* the endpoint whose secret is on the panel

panel == <<listed, unlisted, refreshing, marked, creating, secret>>
panelVars == <<endpoints, request, panel>>

Nil == "none"
NoEndpoints == [made |-> {}, off |-> {}, writes |-> {}]
Unused == [kind |-> Nil, on |-> Nil, pc |-> "idle", seen |-> NoEndpoints]
Initial == CHOOSE c \in Requests : TRUE
Spare == {c \in Requests : request[c].pc = "idle"}

(* Calls are numbered as they are made.                                    *)
NextRequest(c) == Spare # {} /\ c = CHOOSE d \in Spare : TRUE

PanelInit ==
  /\ endpoints = NoEndpoints
  /\ request = [c \in Requests |->
       IF c = Initial THEN [Unused EXCEPT !.kind = "load", !.pc = "load"]
       ELSE Unused]
  /\ listed = NoEndpoints /\ unlisted = {} /\ refreshing = TRUE
  /\ marked = Nil /\ creating = FALSE /\ secret = Nil

AskRequest(c, kind, e, pc) ==
  request' = [request EXCEPT ![c] =
    [Unused EXCEPT !.kind = kind, !.on = e, !.pc = pc]]

EndRequest(c) == request' = [request EXCEPT ![c] = [Unused EXCEPT !.pc = "over"]]

(* finally: creating after a creation, busyId after the rest.              *)
FreeRequest(c) ==
  /\ creating' = (creating /\ request[c].kind # "create")
  /\ marked' = IF request[c].kind \in {"enable", "ping", "remove"}
               THEN Nil ELSE marked

(***************************************************************************)
(* The buttons.  Those of an endpoint wait while busyId names it, and are  *)
(* not there while the list is loading.                                    *)
(***************************************************************************)
Refresh(c) ==
  /\ NextRequest(c) /\ ~refreshing
  /\ AskRequest(c, "load", Nil, "load")
  /\ refreshing' = TRUE
  /\ UNCHANGED <<endpoints, listed, unlisted, marked, creating, secret>>

Create(c) ==
  /\ NextRequest(c) /\ ~creating
  /\ AskRequest(c, "create", c, "sent")
  /\ creating' = TRUE
  /\ UNCHANGED <<endpoints, listed, unlisted, refreshing, marked, secret>>

EndpointActions(e) ==
  IF refreshing \/ e \notin listed.made \/ marked = e THEN {}
  ELSE {"remove", IF e \in listed.off THEN "enable" ELSE "ping"}

Press(c, kind, e) ==
  /\ NextRequest(c)
  /\ AskRequest(c, kind, e, "sent")
  /\ marked' = e
  /\ UNCHANGED <<endpoints, listed, unlisted, refreshing, creating, secret>>

\* "I've saved it".
Dismiss ==
  /\ secret' = Nil
  /\ UNCHANGED <<endpoints, request, listed, unlisted, refreshing, marked, creating>>

(***************************************************************************)
(* The server's side.                                                      *)
(***************************************************************************)
SweptOff(e) ==
  /\ e \in endpoints.made
  /\ endpoints' = [endpoints EXCEPT !.off = @ \cup {e}]
  /\ UNCHANGED <<request, panel>>

Change(c) == [kind |-> request[c].kind, on |-> request[c].on, by |-> c]

(* An endpoint that is gone is not found; a ping changes nothing here.     *)
ServeRequest(c) ==
  LET kind == request[c].kind
      e == request[c].on
  IN  /\ request[c].pc = "sent"
      /\ kind # "create" => e \in endpoints.made
      /\ endpoints' =
           [made |-> CASE kind = "create" -> endpoints.made \cup {e}
                       [] kind = "remove" -> endpoints.made \ {e}
                       [] OTHER -> endpoints.made,
            off |-> IF kind \in {"enable", "remove"} THEN endpoints.off \ {e}
                    ELSE endpoints.off,
            writes |-> endpoints.writes \cup (IF kind = "ping" THEN {} ELSE {Change(c)})]
      /\ request' = [request EXCEPT ![c].pc = "served"]
      /\ UNCHANGED panel

ReadEndpoints(c) ==
  /\ request[c].pc = "load"
  /\ request' = [request EXCEPT ![c].pc = "loaded", ![c].seen = endpoints]
  /\ UNCHANGED <<endpoints, panel>>

(* A write is answered: load again, with setError(null) first.  The secret *)
(* of the new endpoint takes the place of one that was there.              *)
ReloadList(c) ==
  /\ request[c].pc = "served" /\ request[c].kind # "ping"
  /\ request' = [request EXCEPT ![c].pc = "load"]
  /\ secret' = IF request[c].kind = "create" THEN c ELSE secret
  /\ refreshing' = TRUE
  /\ UNCHANGED <<endpoints, listed, unlisted, marked, creating>>

PingQueued(c) ==
  /\ request[c].pc = "served" /\ request[c].kind = "ping"
  /\ EndRequest(c) /\ FreeRequest(c)
  /\ UNCHANGED <<endpoints, listed, unlisted, refreshing, secret>>

ShowList(c) ==
  /\ request[c].pc = "loaded"
  /\ EndRequest(c) /\ FreeRequest(c)
  /\ listed' = request[c].seen
  /\ unlisted' = (unlisted \cup listed.writes) \ request[c].seen.writes
  /\ refreshing' = FALSE
  /\ UNCHANGED <<endpoints, secret>>

(* Refused, or lost.  A failed load leaves the list as it was.             *)
RequestFails(c) ==
  /\ request[c].pc \in {"sent", "served", "load", "loaded"}
  /\ EndRequest(c) /\ FreeRequest(c)
  /\ unlisted' = unlisted \cup (({Change(c)} \cap endpoints.writes) \ listed.writes)
  /\ refreshing' = (refreshing /\ request[c].pc \in {"sent", "served"})
  /\ UNCHANGED <<endpoints, listed, secret>>

PanelNext ==
  \/ Dismiss
  \/ \E e \in Requests : SweptOff(e)
  \/ \E c \in Requests :
       \/ Refresh(c) \/ Create(c)
       \/ \E e \in Requests : \E kind \in EndpointActions(e) : Press(c, kind, e)
       \/ ServeRequest(c) \/ ReadEndpoints(c)
       \/ ReloadList(c) \/ PingQueued(c) \/ ShowList(c) \/ RequestFails(c)

PanelSpec == PanelInit /\ [][PanelNext]_panelVars
-----------------------------------------------------------------------------
(* With no call under way, the panel lists the endpoints that its changes  *)
(* have made and not removed, and shows none as disabled that it has       *)
(* enabled, but for the changes whose own call failed or that were on the  *)
(* list until an older answer came; the next answer that is not older      *)
(* brings these back.                                                      *)
ListsEndpoints ==
  (\A c \in Requests : request[c].pc \in {"idle", "over"}) =>
    LET On(kind) == {x.on : x \in {y \in endpoints.writes \ unlisted : y.kind = kind}}
    IN  /\ listed.made = On("create") \ On("remove")
        /\ listed.off \subseteq endpoints.off \cup {x.on : x \in unlisted}
=============================================================================
