---------------------------- MODULE DemoSession ----------------------------
(***************************************************************************)
(* The public demo room, /sign/demo: publicSession finds whether its one   *)
(* session is active, and else ensureDemoSession takes down what is left   *)
(* of it and builds another.  Visitors arrive at once; each await of the   *)
(* reset is one step.                                                      *)
(*                                                                         *)
(* A session is its document: the request, the signer and the fields go    *)
(* with it (cascade).  The signer's token is unique in the database.  The  *)
(* organization and the object in the store are the same for every reset.  *)
(* A fault is a reset that dies between two awaits.                        *)
(***************************************************************************)
EXTENDS Faults, Naturals

CONSTANTS
  Visitors,
  MaxSessions   \* demo documents made (bound)

DemoAssumption == MaxSessions \in Nat /\ MaxFaults \in Nat

VARIABLES
  made,      \* documents made so far
  document,  \* demo documents there are
  requests,  \* those with a request
  holder,    \* the one whose signer has the token
  placed,    \* those with their fields
  ended,     \* those signed or declined
  visit,     \* what each visitor's call is doing
  shown      \* the session each visitor's page shows

demoVars == <<made, document, requests, holder, placed, ended, visit, shown, faults>>

NoSession == 0
NoVisit == [pc |-> "idle", doc |-> NoSession]

DemoInit ==
  /\ made = 0
  /\ document = {}
  /\ requests = {}
  /\ holder = NoSession
  /\ placed = {}
  /\ ended = {}
  /\ visit = [v \in Visitors |-> NoVisit]
  /\ shown = [v \in Visitors |-> NoSession]
  /\ faults = 0

VisitAt(v, pc) == visit' = [visit EXCEPT ![v].pc = pc]
Leave(v) == visit' = [visit EXCEPT ![v] = NoVisit]

Active == holder # NoSession /\ holder \notin ended

Check(v) ==
  /\ visit[v].pc = "idle"
  /\ VisitAt(v, IF Active THEN "open" ELSE "signer")
  /\ UNCHANGED <<made, document, requests, holder, placed, ended, shown, faults>>

DeleteSigner(v) ==
  /\ visit[v].pc = "signer"
  /\ holder' = NoSession
  /\ VisitAt(v, "documents")
  /\ UNCHANGED <<made, document, requests, placed, ended, shown, faults>>

\* Slip: requests and signers outlive their document.
DeleteDocumentsAlone(v) ==
  /\ visit[v].pc = "documents"
  /\ document' = {}
  /\ VisitAt(v, "create")
  /\ UNCHANGED <<made, requests, holder, placed, ended, shown, faults>>

(* Every demo document, with all that belongs to it.                       *)
DeleteDocuments(v) ==
  /\ visit[v].pc = "documents"
  /\ document' = {}
  /\ requests' = {}
  /\ holder' = NoSession
  /\ placed' = {}
  /\ VisitAt(v, "create")
  /\ UNCHANGED <<made, ended, shown, faults>>

CreateDocument(v) ==
  /\ visit[v].pc = "create"
  /\ made < MaxSessions
  /\ made' = made + 1
  /\ document' = document \cup {made'}
  /\ visit' = [visit EXCEPT ![v] = [pc |-> "request", doc |-> made']]
  /\ UNCHANGED <<requests, holder, placed, ended, shown, faults>>

(* The foreign key: another reset may have deleted the document.           *)
CreateDemoRequest(v) ==
  LET d == visit[v].doc
  IN  /\ visit[v].pc = "request"
      /\ IF d \in document
         THEN requests' = requests \cup {d} /\ VisitAt(v, "token")
         ELSE Leave(v) /\ UNCHANGED requests
      /\ UNCHANGED <<made, document, holder, placed, ended, shown, faults>>

(* The unique key: another reset may have taken the token.                 *)
CreateSigner(v) ==
  LET d == visit[v].doc
  IN  /\ visit[v].pc = "token"
      /\ IF d \in requests /\ holder = NoSession
         THEN holder' = d /\ VisitAt(v, "fields")
         ELSE Leave(v) /\ UNCHANGED holder
      /\ UNCHANGED <<made, document, requests, placed, ended, shown, faults>>

CreateFields(v) ==
  LET d == visit[v].doc
  IN  /\ visit[v].pc = "fields"
      /\ IF holder = d
         THEN placed' = placed \cup {d} /\ VisitAt(v, "open")
         ELSE Leave(v) /\ UNCHANGED placed
      /\ UNCHANGED <<made, document, requests, holder, ended, shown, faults>>

(* The rest of publicSession reads the signer again.                       *)
Open(v) ==
  /\ visit[v].pc = "open"
  /\ shown' = [shown EXCEPT ![v] = IF Active THEN holder ELSE NoSession]
  /\ Leave(v)
  /\ UNCHANGED <<made, document, requests, holder, placed, ended, faults>>

(* sign or decline in a room: for whoever holds the token now.             *)
Conclude(v) ==
  /\ shown[v] # NoSession
  /\ ended' = IF Active THEN ended \cup {holder} ELSE ended
  /\ shown' = [shown EXCEPT ![v] = NoSession]
  /\ UNCHANGED <<made, document, requests, holder, placed, visit, faults>>

ResetDies(v) ==
  /\ visit[v].pc # "idle"
  /\ faults < MaxFaults
  /\ faults' = faults + 1
  /\ Leave(v)
  /\ UNCHANGED <<made, document, requests, holder, placed, ended, shown>>

Reset(v) ==
  \/ DeleteSigner(v) \/ DeleteDocuments(v) \/ CreateDocument(v)
  \/ CreateDemoRequest(v) \/ CreateSigner(v) \/ CreateFields(v)

DemoNext == \E v \in Visitors :
  Check(v) \/ Reset(v) \/ Open(v) \/ Conclude(v) \/ ResetDies(v)

DemoSpec == DemoInit /\ [][DemoNext]_demoVars
-----------------------------------------------------------------------------
(* However many visitors reset the room at once, and delete each other's   *)
(* sessions on the way, the last reset standing leaves a room that works:  *)
(* when no call is under way and none died, the token opens a document     *)
(* that exists, with its request and its fields.                           *)
DemoHeals ==
  (\A v \in Visitors : visit[v].pc = "idle") /\ made > 0 /\ faults = 0 =>
    holder \in document \cap requests \cap placed
=============================================================================
