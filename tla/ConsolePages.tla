---------------------------- MODULE ConsolePages ----------------------------
(***************************************************************************)
(* The pages of the console that load again after their own writes: one    *)
(* document, the webhook endpoints and the team.                           *)
(***************************************************************************)
EXTENDS DocumentDetail, WebhookPanel, TeamSettings

(* Each page shows the outcome of what was done on it: the versions and    *)
(* titles of a document (DocumentDetailClient), the endpoints and whether  *)
(* they are enabled (WebhookEndpointsPanel), the members (Settings).       *)
PagesCurrent == ShowsOwnChanges /\ ListsEndpoints /\ ListsMembers
=============================================================================
