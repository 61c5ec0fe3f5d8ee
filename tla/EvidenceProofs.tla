-------------------------- MODULE EvidenceProofs --------------------------
(***************************************************************************)
(* Proofs about Fields, Certificates, DemoSession and StoreMigration: what *)
(* stands behind a signature.                                              *)
(***************************************************************************)
EXTENDS Fields, Certificates, DemoSession, StoreMigration, TLAPS

(***************************************************************************)
(* Proofs about StoreMigration, for any number of documents and runs.      *)
(*                                                                         *)
(* A run looks at one object at a time while the API goes on storing, and  *)
(* is trusted for what it left behind many steps ago.  RunInv says what a  *)
(* run under way has achieved so far, VerifiedInv what a run that reported *)
(* success still vouches for.                                              *)
(***************************************************************************)

StoresTypeOK ==
  /\ bucket \subseteq Stores
  /\ object \in [Stores -> [Objects -> {"absent", "whole", "damaged"}]]
  /\ endpoint \in Stores
  /\ recorded \subseteq Objects
  /\ migration \in [pc : {"idle", "bucket", "list", "read", "put", "back"},
                    apply : BOOLEAN, todo : SUBSET Objects, failed : BOOLEAN]
  /\ verified \in BOOLEAN
  /\ late \subseteq Objects
  /\ dropped \subseteq Objects
  /\ faults \in Nat

(* The keys that a run must have dealt with.                               *)
Due == recorded \ (late \cup dropped)

(* A run that has seen no failure has copied what it no longer has to do,  *)
(* and does not lose its place in the list.                                *)
RunInv ==
  /\ /\ migration.pc \in {"read", "put", "back"}
     /\ migration.apply /\ ~migration.failed
     => \A k \in Due \ migration.todo : object[Other][k] = "whole"
  /\ migration.pc \in {"put", "back"} => migration.todo # {} /\ migration.apply

VerifiedInv ==
  verified => /\ migration.pc = "idle"
              /\ \A k \in Due : object[Other][k] = "whole"

MigrationIInv == StoresTypeOK /\ NothingLost /\ RunInv /\ VerifiedInv
-----------------------------------------------------------------------------
(* There is another store than the one in use.                             *)
LEMMA OtherStore ==
  ASSUME MigrationAssumption, endpoint \in Stores
  PROVE  Other \in Stores /\ Other # endpoint
BY DEF Other, MigrationAssumption

LEMMA MigrationInit_IInv ==
  ASSUME MigrationAssumption, MigrationInit
  PROVE  MigrationIInv
<1>1. StoresTypeOK
  BY DEF MigrationInit, StoresTypeOK, Idle
<1>2. NothingLost /\ RunInv /\ VerifiedInv
  BY DEF MigrationInit, NothingLost, RunInv, VerifiedInv, Idle
<1> QED BY <1>1, <1>2 DEF MigrationIInv

LEMMA NextKeyEffect ==
  ASSUME StoresTypeOK, NEW failed \in BOOLEAN, NextKey(failed)
  PROVE  /\ migration' \in [pc : {"idle", "bucket", "list", "read", "put", "back"},
                            apply : BOOLEAN, todo : SUBSET Objects, failed : BOOLEAN]
         /\ migration'.pc = "read" /\ migration'.apply = migration.apply
         /\ migration'.todo = migration.todo \ {Key}
         /\ migration'.failed = (migration.failed \/ failed)
BY DEF NextKey, StoresTypeOK

LEMMA GotoEffect ==
  ASSUME StoresTypeOK, NEW pc \in {"idle", "bucket", "list", "read", "put", "back"}, Goto(pc)
  PROVE  /\ migration' \in [pc : {"idle", "bucket", "list", "read", "put", "back"},
                            apply : BOOLEAN, todo : SUBSET Objects, failed : BOOLEAN]
         /\ migration'.pc = pc /\ migration'.apply = migration.apply
         /\ migration'.todo = migration.todo
         /\ migration'.failed = migration.failed
BY DEF Goto, StoresTypeOK

(* The API stores a document.                                              *)
LEMMA UploadStep ==
  ASSUME MigrationAssumption, MigrationIInv, NEW k \in Objects, Upload(k)
  PROVE  MigrationIInv'
<1>a. /\ object \in [Stores -> [Objects -> {"absent", "whole", "damaged"}]]
      /\ endpoint \in Stores /\ Other \in Stores /\ Other # endpoint
  BY OtherStore DEF MigrationIInv, StoresTypeOK
<1>1. /\ object'[endpoint][k] = "whole"
      /\ \A x \in Objects : x # k => object'[endpoint][x] = object[endpoint][x]
      /\ object'[Other] = object[Other]
      /\ object' \in [Stores -> [Objects -> {"absent", "whole", "damaged"}]]
  BY <1>a DEF Upload
<1>2. Other' = Other /\ endpoint' = endpoint
  BY DEF Upload, Other
<1>3. StoresTypeOK'
  BY <1>1 DEF MigrationIInv, StoresTypeOK, Upload
<1>4. Due' \subseteq Due
  BY DEF Due, Upload
<1>5. NothingLost'
  BY <1>1, <1>2 DEF MigrationIInv, StoresTypeOK, NothingLost, Upload
<1>6. RunInv' /\ VerifiedInv'
  BY <1>1, <1>2, <1>4 DEF MigrationIInv, RunInv, VerifiedInv, Upload
<1> QED BY <1>3, <1>5, <1>6 DEF MigrationIInv

(* The operator points the API at the store of a run that succeeded.       *)
LEMMA CutoverStep ==
  ASSUME MigrationAssumption, MigrationIInv, Cutover
  PROVE  MigrationIInv'
<1>a. Other \in Stores /\ Other # endpoint
  BY OtherStore DEF MigrationIInv, StoresTypeOK
<1>1. StoresTypeOK'
  BY <1>a DEF MigrationIInv, StoresTypeOK, Cutover
<1>2. \A k \in recorded \ dropped' : object[Other][k] = "whole"
  BY DEF MigrationIInv, StoresTypeOK, VerifiedInv, Due, Cutover
<1>3. NothingLost'
  BY <1>2 DEF NothingLost, Cutover
<1>4. RunInv' /\ VerifiedInv'
  BY DEF RunInv, VerifiedInv, Cutover
<1> QED BY <1>1, <1>3, <1>4 DEF MigrationIInv

LEMMA RunStep ==
  ASSUME MigrationAssumption, MigrationIInv, Run
  PROVE  MigrationIInv'
<1>a. /\ StoresTypeOK
      /\ object \in [Stores -> [Objects -> {"absent", "whole", "damaged"}]]
      /\ endpoint \in Stores /\ Other \in Stores /\ Other # endpoint
      /\ Other' = Other /\ UNCHANGED <<endpoint, recorded, dropped>>
  BY OtherStore
  DEF MigrationIInv, StoresTypeOK, Run, StartRun, EnsureBucket, ListAll, Read, ReadFails, Put, ReadBack,
      CopyFails, Finish, RunDies, Other
<1>b. migration.todo # {} => Key \in migration.todo
  BY DEF Key
<1>c. /\ migration.pc # "idle" => ~verified
      /\ \A k \in Due : object[endpoint][k] = "whole" /\ k \in Objects
      /\ migration.todo \subseteq Objects
  BY DEF MigrationIInv, StoresTypeOK, VerifiedInv, NothingLost, Due
<1>d. ASSUME UNCHANGED object
      PROVE  NothingLost'
  BY <1>a, <1>d DEF MigrationIInv, NothingLost
<1>1. CASE StartRun
  <2>1. StoresTypeOK'
    BY <1>a, <1>1 DEF StartRun, StoresTypeOK, Idle, stores
  <2>2. RunInv' /\ VerifiedInv'
    BY <1>1 DEF StartRun, RunInv, VerifiedInv, Idle
  <2> QED BY <1>1, <1>d, <2>1, <2>2 DEF StartRun, MigrationIInv, stores
<1>2. CASE EnsureBucket
  <2>1. StoresTypeOK'
    BY <1>a, <1>2, GotoEffect DEF EnsureBucket, StoresTypeOK
  <2>2. RunInv' /\ VerifiedInv'
    BY <1>a, <1>c, <1>2, GotoEffect DEF EnsureBucket, RunInv, VerifiedInv
  <2> QED BY <1>2, <1>d, <2>1, <2>2 DEF EnsureBucket, MigrationIInv
<1>3. CASE ListAll
  <2>1. /\ migration'.pc = "read"
        /\ migration'.todo = {k \in Objects : object[endpoint][k] # "absent"}
        /\ UNCHANGED <<object, verified>> /\ ~verified
    BY <1>a, <1>c, <1>3 DEF ListAll, StoresTypeOK, stores
  <2>2. StoresTypeOK'
    BY <1>a, <1>3 DEF ListAll, StoresTypeOK, stores
  <2>3. Due' \subseteq migration'.todo
    BY <1>a, <1>3, <2>1 DEF MigrationIInv, StoresTypeOK, NothingLost, ListAll, Due
  <2> QED BY <1>d, <2>1, <2>2, <2>3 DEF MigrationIInv, RunInv, VerifiedInv
<1>4. ASSUME NEW failed \in BOOLEAN, NextKey(failed),
             migration.pc \in {"read", "put", "back"},
             migration.todo # {}, faults' \in Nat,
             ~migration.apply \/ failed \/ object[Other][Key] = object[endpoint][Key],
             UNCHANGED <<stores, verified, late>>
      PROVE  MigrationIInv'
  <2>1. /\ migration'.pc = "read" /\ migration'.apply = migration.apply
        /\ migration'.todo = migration.todo \ {Key}
        /\ migration'.failed = (migration.failed \/ failed)
    BY <1>a, <1>4, NextKeyEffect
  <2>2. StoresTypeOK'
    BY <1>a, <1>4, NextKeyEffect DEF StoresTypeOK, stores
  <2>3. UNCHANGED <<Due, object>>
    BY <1>a, <1>4 DEF Due, stores
  <2>4. RunInv'
    <3> SUFFICES ASSUME migration'.apply, ~migration'.failed,
                        NEW k \in Due' \ migration'.todo
                 PROVE  object'[Other][k] = "whole"
      BY <1>a, <2>1 DEF RunInv
    <3>1. migration.apply /\ ~migration.failed /\ ~failed /\ k \in Due
      BY <1>a, <2>1, <2>3 DEF StoresTypeOK
    <3>2. CASE k = Key
      BY <1>4, <1>c, <2>3, <3>1, <3>2
    <3>3. CASE k # Key
      <4>1. k \in Due \ migration.todo
        BY <2>1, <3>1, <3>3
      <4> QED BY <1>4, <2>3, <3>1, <4>1 DEF MigrationIInv, RunInv
    <3> QED BY <3>2, <3>3
  <2>5. VerifiedInv'
    BY <1>4, <1>c DEF VerifiedInv
  <2> QED BY <1>d, <2>2, <2>3, <2>4, <2>5 DEF MigrationIInv
<1>5. CASE Read \/ ReadFails \/ ReadBack \/ CopyFails
  <2>1. migration.pc \in {"put", "back"} => migration.todo # {} /\ migration.apply
    BY DEF MigrationIInv, RunInv
  <2>2. CASE Read /\ migration.apply
    <3>1. /\ migration'.pc = "put" /\ migration'.apply = migration.apply
          /\ migration'.todo = migration.todo /\ migration'.failed = migration.failed
          /\ migration.pc = "read" /\ migration.todo # {}
          /\ UNCHANGED <<stores, late, verified>>
      BY <1>a, <2>2, GotoEffect DEF Read
    <3>2. StoresTypeOK'
      BY <1>a, <2>2, GotoEffect DEF Read, StoresTypeOK, stores
    <3>3. RunInv' /\ VerifiedInv'
      BY <1>a, <1>c, <2>2, <3>1 DEF MigrationIInv, RunInv, VerifiedInv, Due, stores
    <3> QED BY <1>d, <3>1, <3>2, <3>3 DEF MigrationIInv, stores
  <2>3. CASE Read /\ ~migration.apply
    BY <1>4, <1>a, <2>3 DEF Read, StoresTypeOK
  <2>4. CASE ReadFails \/ CopyFails
    <3>1. /\ NextKey(TRUE)
          /\ migration.pc \in {"read", "put", "back"} /\ migration.todo # {}
          /\ UNCHANGED <<stores, verified, late>>
      BY <2>1, <2>4 DEF ReadFails, CopyFails
    <3>2. faults \in Nat /\ faults' = faults + 1
      BY <1>a, <2>4 DEF ReadFails, CopyFails, Fault, StoresTypeOK
    <3>3. faults' \in Nat
      BY <3>2
    <3> QED BY <1>4, <3>1, <3>3
  <2>5. CASE ReadBack
    <3>1. (object[Other][Key] # object[endpoint][Key]) \in BOOLEAN
      OBVIOUS
    <3> QED BY <1>4, <1>a, <2>1, <2>5, <3>1 DEF ReadBack, StoresTypeOK
  <2> QED BY <1>5, <2>2, <2>3, <2>4, <2>5
<1>6. CASE Put
  <2>1. /\ migration'.pc = "back" /\ migration'.apply = migration.apply
        /\ migration'.todo = migration.todo /\ migration'.failed = migration.failed
        /\ migration.pc = "put" /\ migration.todo # {} /\ migration.apply
        /\ UNCHANGED <<bucket, late, verified>>
    BY <1>a, <1>6, GotoEffect DEF Put, MigrationIInv, RunInv
  <2>2. Key \in Objects
    BY <1>b, <1>c, <2>1
  <2>3. /\ object' \in [Stores -> [Objects -> {"absent", "whole", "damaged"}]]
        /\ object'[endpoint] = object[endpoint]
        /\ \A k \in Objects : k # Key => object'[Other][k] = object[Other][k]
    BY <1>a, <1>6, <2>2 DEF Put
  <2>4. StoresTypeOK'
    BY <1>a, <1>6, <2>1, <2>3, GotoEffect DEF Put, StoresTypeOK, Fault
  <2>5. NothingLost'
    BY <1>a, <2>3 DEF MigrationIInv, NothingLost
  <2>6. RunInv' /\ VerifiedInv'
    BY <1>a, <1>b, <1>c, <2>1, <2>3 DEF MigrationIInv, RunInv, VerifiedInv, Due
  <2> QED BY <2>4, <2>5, <2>6 DEF MigrationIInv
<1>7. CASE Finish
  <2>1. /\ migration.pc = "read" /\ migration.todo = {}
        /\ verified' = (migration.apply /\ ~migration.failed)
        /\ UNCHANGED <<object, late>> /\ migration' = Idle
    BY <1>7 DEF Finish, stores
  <2>2. StoresTypeOK'
    BY <1>a, <1>7 DEF Finish, StoresTypeOK, Idle, stores
  <2>3. RunInv' /\ VerifiedInv'
    BY <1>a, <2>1 DEF MigrationIInv, RunInv, VerifiedInv, Due, Idle
  <2> QED BY <1>d, <2>1, <2>2, <2>3 DEF MigrationIInv
<1>8. CASE RunDies
  <2>1. StoresTypeOK'
    BY <1>a, <1>8 DEF RunDies, StoresTypeOK, Idle, Fault, stores
  <2>2. RunInv' /\ VerifiedInv'
    BY <1>c, <1>8 DEF RunDies, RunInv, VerifiedInv, Idle
  <2> QED BY <1>8, <1>d, <2>1, <2>2 DEF RunDies, MigrationIInv, stores
<1> QED BY <1>1, <1>2, <1>3, <1>5, <1>6, <1>7, <1>8 DEF Run

LEMMA MigrationInvariance ==
  ASSUME MigrationAssumption
  PROVE  MigrationSpec => []MigrationIInv
<1>1. MigrationIInv /\ UNCHANGED migrationVars => MigrationIInv'
  BY DEF MigrationIInv, StoresTypeOK, NothingLost, RunInv, VerifiedInv, Due, Other, migrationVars, stores
<1>2. MigrationIInv /\ [MigrationNext]_migrationVars => MigrationIInv'
  BY <1>1, RunStep, CutoverStep, UploadStep DEF MigrationNext
<1> QED BY MigrationInit_IInv, <1>2, PTL DEF MigrationSpec

(* Whatever fails, after any number of runs and cutovers in either         *)
(* direction, the store in use has every document as it was stored, but    *)
(* for those the operator left behind by not running the script once more. *)
THEOREM NoDocumentLost ==
  ASSUME MigrationAssumption
  PROVE  MigrationSpec => []NothingLost
<1>1. MigrationIInv => NothingLost
  BY DEF MigrationIInv
<1> QED BY <1>1, MigrationInvariance, PTL

(* What the script's exit code promises: after a run that reported success *)
(* the other store has every document that was stored before it listed     *)
(* them, until the API is pointed there or another run is started.         *)
THEOREM SuccessIsComplete ==
  ASSUME MigrationAssumption
  PROVE  MigrationSpec => []VerifiedInv
<1>1. MigrationIInv => VerifiedInv
  BY DEF MigrationIInv
<1> QED BY <1>1, MigrationInvariance, PTL
-----------------------------------------------------------------------------
(***************************************************************************)
(* Fields, for any templates, requests, recipients and rooms.              *)
(*                                                                         *)
(* createRequest places what it read, so what it read must still be a      *)
(* version when it does (SendInv); and sign writes what it checked, so     *)
(* that must still pass when it does, though the fields may have come onto *)
(* the request between the two (RoomInv).  FillEffect says what writing    *)
(* the values does: no more than to name who filled a field.               *)
(***************************************************************************)
AllFields == UNION Drafts
Asked == Recipients \cup {NoOne, Myself}
SendType ==
  [pc : {"idle", "load", "create", "relink", "place"}, named : BOOLEAN,
   templated : BOOLEAN, to : Asked, fields : SUBSET AllFields]
Placement == [field : AllFields, filledBy : Rooms \cup {Nobody}, signer : Int]
RequestType ==
  [to : Asked, templated : BOOLEAN, fields : SUBSET Placement, placed : BOOLEAN]
RoomType ==
  [pc : {"idle", "collect", "capture"}, request : Sends \cup {Nobody},
   signer : Orders \cup {NoSigner}, early : BOOLEAN, values : SUBSET AllFields]

FieldsTypeOK ==
  /\ template \in SUBSET AllFields /\ gone \in BOOLEAN /\ removed \in BOOLEAN
  /\ linked \in BOOLEAN
  /\ send \in [Sends -> SendType]
  /\ request \in [Sends -> RequestType]
  /\ signature \in [Sends -> [Orders -> [by : Rooms \cup {Nobody}, early : BOOLEAN]]]
  /\ room \in [Rooms -> RoomType]
  /\ faults \in Nat

(* A version that was saved, whole, or nothing where nothing was meant.    *)
Whole(fields, templated) ==
  fields \in saved \cup (IF removed \/ ~templated THEN {{}} ELSE {})

LibraryInv ==
  /\ template \in saved \/ (removed /\ template = {})
  /\ saved \subseteq Drafts

(* What createRequest has read is what it will place, once.                *)
SendInv ==
  \A c \in Sends :
    LET s == send[c]
        r == request[c]
    IN  /\ s.pc # "idle" => s.to # NoOne /\ ~r.placed
        /\ s.pc \in {"load", "create"} => r.to = NoOne
        /\ s.pc \in {"create", "relink", "place"} => Whole(s.fields, s.templated)
        /\ s.pc \in {"relink", "place"} =>
             r.templated = s.templated /\ r.to # NoOne
        /\ r.to = NoOne => ~r.placed
        /\ ~r.placed => r.fields = {}

(* What sign has checked still holds when it writes; only a room that was  *)
(* opened before the fields were placed has checked nothing.               *)
RoomInv ==
  \A k \in Rooms :
    LET r == room[k]
    IN  r.pc # "idle" =>
          /\ r.request \in Sends /\ r.signer \in Orders
          /\ request[r.request].placed \/ r.early
          /\ r.early \/ r.values \in Complete(r.request, r.signer)
          /\ r.pc = "capture" => signature[r.request][r.signer] =
                                   [by |-> k, early |-> r.early]

SignatureInv ==
  \A c \in Sends, o \in Orders :
    signature[c][o].by = Nobody \/ signature[c][o].early \/ request[c].placed

(* EvidenceWhole, of one recipient.                                        *)
EvidenceOf(c, o) ==
  LET s == signature[c][o]
  IN  /\ \A p \in request[c].fields :
           p.signer = o => p.filledBy \in {Nobody, s.by}
      /\ \/ s.by = Nobody \/ s.early \/ faults > 0
         \/ Capturing(s.by, c, o)
         \/ \A p \in request[c].fields :
              p.signer = o /\ p.field.required => p.filledBy # Nobody

FieldsIInv ==
  /\ FieldsTypeOK /\ LibraryInv /\ SendInv /\ RoomInv /\ SignatureInv
  /\ PlacedWhole /\ EvidenceWhole

LEMMA EvidenceUnfolded ==
  /\ EvidenceWhole <=> \A c \in Sends, o \in Orders : EvidenceOf(c, o)
  /\ EvidenceWhole' <=> \A c \in Sends, o \in Orders : EvidenceOf(c, o)'
<1>1. \A c \in Sends, o \in Orders :
        /\ EvidenceReport(c)[o].signature = signature[c][o]
        /\ EvidenceReport(c)[o].fields = {p \in request[c].fields : p.signer = o}
        /\ EvidenceReport(c)'[o].signature = signature'[c][o]
        /\ EvidenceReport(c)'[o].fields = {p \in request'[c].fields : p.signer = o}
  BY DEF EvidenceReport
<1>2. EvidenceWhole <=> \A c \in Sends, o \in Orders : EvidenceOf(c, o)
  BY <1>1 DEF EvidenceWhole, EvidenceOf
<1>3. EvidenceWhole' <=> \A c \in Sends, o \in Orders : EvidenceOf(c, o)'
  BY <1>1 DEF EvidenceWhole, EvidenceOf
<1> QED BY <1>2, <1>3

(* What depends on a request by its fields alone.                          *)
LEMMA FieldsKept ==
  ASSUME NEW d \in Sends, NEW o, request'[d].fields = request[d].fields
  PROVE  /\ Complete(d, o)' = Complete(d, o)
         /\ UNCHANGED <<signature, room, faults>> =>
              EvidenceOf(d, o)' = EvidenceOf(d, o)
<1>1. FieldsOf(d, o)' = FieldsOf(d, o)
  BY DEF FieldsOf
<1> QED BY <1>1 DEF Complete, EvidenceOf, Capturing

LEMMA RequestsKept ==
  ASSUME UNCHANGED request
  PROVE  \A d, o : Complete(d, o)' = Complete(d, o)
BY DEF Complete, FieldsOf

(* RoomInv, of one room.                                                   *)
RoomOf(k) ==
  room[k].pc # "idle" =>
    /\ room[k].request \in Sends /\ room[k].signer \in Orders
    /\ request[room[k].request].placed \/ room[k].early
    /\ room[k].early \/ room[k].values \in Complete(room[k].request, room[k].signer)
    /\ room[k].pc = "capture" => signature[room[k].request][room[k].signer] =
                                   [by |-> k, early |-> room[k].early]

LEMMA RoomUnfolded ==
  /\ RoomInv <=> \A k \in Rooms : RoomOf(k)
  /\ RoomInv' <=> \A k \in Rooms : RoomOf(k)'
BY DEF RoomInv, RoomOf

LEMMA RoomStays ==
  ASSUME NEW k \in Rooms, RoomOf(k), room'[k] = room[k], UNCHANGED <<request, signature>>
  PROVE  RoomOf(k)'
<1>1. \A d, o : Complete(d, o)' = Complete(d, o)
  BY RequestsKept
<1> QED BY <1>1 DEF RoomOf

(* sign stands as it did towards a request that has kept its fields.       *)
LEMMA RoomKept ==
  ASSUME RoomInv, NEW k \in Rooms, UNCHANGED <<room, signature>>,
         room[k].pc # "idle",
         request'[room[k].request].fields = request[room[k].request].fields,
         request'[room[k].request].placed = request[room[k].request].placed
  PROVE  /\ request'[room[k].request].placed \/ room[k].early
         /\ room[k].early \/
              room[k].values \in Complete(room[k].request, room[k].signer)'
<1>1. room[k].request \in Sends /\ room[k].signer \in Orders
  BY DEF RoomInv
<1>2. Complete(room[k].request, room[k].signer)' =
        Complete(room[k].request, room[k].signer)
  <2> DEFINE d == room[k].request
             o == room[k].signer
  <2>1. {p.field : p \in {q \in request'[d].fields : q.signer = o}} = FieldsOf(d, o)
    BY DEF FieldsOf
  <2> QED BY <2>1 DEF Complete, FieldsOf
<1> QED BY <1>1, <1>2 DEF RoomInv

LEMMA FieldsInit_IInv == FieldsAssumption /\ FieldsInit => FieldsIInv
<1> SUFFICES ASSUME FieldsAssumption, FieldsInit PROVE FieldsIInv
  OBVIOUS
<1>1. FieldsTypeOK
  BY DEF FieldsInit, FieldsTypeOK, AllFields, Asked, SendType, RequestType, RoomType,
     Unsent, NoRequest, NoSignature, NoCall, Placement
<1>2. LibraryInv /\ SendInv /\ RoomInv /\ SignatureInv /\ PlacedWhole
  BY DEF FieldsInit, LibraryInv, SendInv, RoomInv, SignatureInv, PlacedWhole,
     Unsent, NoRequest, NoSignature, NoCall
<1>3. EvidenceWhole
  BY DEF FieldsInit, EvidenceWhole, EvidenceReport, NoRequest, NoSignature
<1> QED BY <1>1, <1>2, <1>3 DEF FieldsIInv

(* A step that touches neither requests, signatures nor rooms.             *)
Advances(c, s) ==
  /\ send' = [send EXCEPT ![c] = s]
  /\ linked' \in BOOLEAN
  /\ UNCHANGED <<request, signature, room, faults, library>>

LEMMA SendMoves ==
  ASSUME FieldsIInv, NEW c \in Sends, NEW s \in SendType, Advances(c, s),
         s.pc # "idle" => s.to # NoOne /\ ~request[c].placed,
         s.pc \in {"load", "create"} => request[c].to = NoOne,
         s.pc \in {"create", "relink", "place"} => Whole(s.fields, s.templated),
         s.pc \in {"relink", "place"} =>
           request[c].templated = s.templated /\ request[c].to # NoOne
  PROVE  FieldsIInv'
<1> USE DEF Advances
<1>1. FieldsTypeOK'
  BY DEF FieldsIInv, FieldsTypeOK, library
<1>2. SendInv'
  BY DEF FieldsIInv, FieldsTypeOK, SendInv, Whole, library
<1>3. LibraryInv' /\ SignatureInv' /\ PlacedWhole'
  BY DEF FieldsIInv, LibraryInv, SignatureInv, PlacedWhole, library
<1>4. RoomInv'
  BY RoomUnfolded, RoomStays DEF FieldsIInv
<1>5. EvidenceWhole'
  BY FieldsKept, EvidenceUnfolded DEF FieldsIInv
<1> QED BY <1>1, <1>2, <1>3, <1>4, <1>5 DEF FieldsIInv

(* What the template becomes is remembered, and a version never forgotten. *)
LEMMA LibraryMoves ==
  ASSUME FieldsIInv, NEW d \in Drafts \cup {{}},
         template' = d, saved \subseteq saved', saved' \subseteq Drafts,
         d \in saved' \/ (removed' /\ d = {}),
         gone' \in BOOLEAN, removed' \in BOOLEAN, removed => removed', linked' \in BOOLEAN,
         UNCHANGED <<send, request, signature, room, faults>>
  PROVE  FieldsIInv'
<1>1. FieldsTypeOK'
  BY DEF FieldsIInv, FieldsTypeOK, AllFields
<1>2. LibraryInv'
  BY DEF LibraryInv
<1>3. SendInv'
  BY DEF FieldsIInv, SendInv, Whole
<1>4. RoomInv' /\ SignatureInv'
  BY DEF FieldsIInv, RoomInv, SignatureInv, Complete, FieldsOf
<1>5. PlacedWhole'
  BY DEF FieldsIInv, PlacedWhole
<1>6. EvidenceWhole'
  BY DEF FieldsIInv, EvidenceWhole, EvidenceReport, Capturing
<1> QED BY <1>1, <1>2, <1>3, <1>4, <1>5, <1>6 DEF FieldsIInv

LEMMA LoadStep ==
  ASSUME FieldsIInv, NEW c \in Sends, LoadPlacements(c)
  PROVE  FieldsIInv'
<1> DEFINE fields == IF send[c].templated THEN template ELSE {}
           next == [send[c] EXCEPT !.pc = "create", !.fields = fields]
<1>0. send[c] \in SendType /\ Unsent \in SendType /\ Unsent.pc = "idle"
  BY DEF FieldsIInv, FieldsTypeOK, SendType, Unsent, Asked, AllFields
<1>1. CASE send' = [send EXCEPT ![c] = Unsent]
  <2>1. Advances(c, Unsent)
    BY <1>1 DEF Advances, LoadPlacements, FieldsIInv, FieldsTypeOK
  <2> QED BY ONLY <1>0, <2>1, SendMoves, FieldsIInv, c \in Sends
<1>2. CASE send' = [send EXCEPT ![c] = next]
  <2>1. fields \subseteq AllFields /\ Whole(fields, send[c].templated)
    BY DEF FieldsIInv, FieldsTypeOK, LibraryInv, Whole
  <2>2. /\ next \in SendType /\ next.pc = "create" /\ next.to = send[c].to
        /\ next.fields = fields /\ next.templated = send[c].templated
    BY <1>0, <2>1 DEF SendType
  <2>3. send[c].to # NoOne /\ request[c].to = NoOne /\ ~request[c].placed
    BY DEF LoadPlacements, FieldsIInv, SendInv
  <2> HIDE DEF next, fields
  <2>4. Advances(c, next)
    BY <1>2 DEF Advances, LoadPlacements, FieldsIInv, FieldsTypeOK
  <2> QED BY ONLY <2>1, <2>2, <2>3, <2>4, SendMoves, FieldsIInv, c \in Sends
<1> QED BY <1>0, <1>1, <1>2 DEF LoadPlacements, FieldsIInv, FieldsTypeOK

LEMMA SendStep ==
  ASSUME FieldsAssumption, FieldsIInv, NEW c \in Sends,
         StartSend(c) \/ SelfSign(c) \/ LoadPlacements(c) \/ RelinkDocument(c)
  PROVE  FieldsIInv'
<1>0. send[c] \in SendType /\ Unsent \in SendType /\ Unsent.pc = "idle"
  BY DEF FieldsIInv, FieldsTypeOK, SendType, Unsent, Asked, AllFields
<1>1. ASSUME NEW named \in BOOLEAN, NEW to \in Recipients \cup {Myself}, Begin(c, named, to)
      PROVE  FieldsIInv'
  <2> DEFINE next == [pc |-> "load", named |-> named, to |-> to,
                      templated |-> named \/ linked, fields |-> {}]
  <2>1. next \in SendType /\ next.pc = "load" /\ next.to = to
    BY DEF SendType, Asked, FieldsIInv, FieldsTypeOK
  <2>2. to # NoOne
    BY DEF FieldsAssumption, Myself, NoOne
  <2>3. request[c].to = NoOne /\ ~request[c].placed
    BY <1>1 DEF Begin, FieldsIInv, SendInv
  <2>4. Advances(c, next)
    BY <1>1 DEF Advances, Begin, FieldsIInv, FieldsTypeOK
  <2> HIDE DEF next
  <2> QED BY ONLY <2>1, <2>2, <2>3, <2>4, SendMoves, FieldsIInv, c \in Sends
<1>2. CASE RelinkDocument(c)
  <2>1. CASE send' = [send EXCEPT ![c] = Unsent] /\ UNCHANGED linked
    <3>1. Advances(c, Unsent)
      BY <1>2, <2>1 DEF Advances, RelinkDocument, FieldsIInv, FieldsTypeOK
    <3> QED BY ONLY <1>0, <3>1, SendMoves, FieldsIInv, c \in Sends
  <2>2. CASE send' = [send EXCEPT ![c].pc = "place"] /\ linked' = (linked \/ send[c].named)
    <3> DEFINE next == [send[c] EXCEPT !.pc = "place"]
    <3>1. /\ next \in SendType /\ next.pc = "place" /\ next.to = send[c].to
          /\ next.fields = send[c].fields /\ next.templated = send[c].templated
      BY <1>0 DEF SendType
    <3>2. /\ send[c].to # NoOne /\ ~request[c].placed
          /\ Whole(send[c].fields, send[c].templated)
          /\ request[c].templated = send[c].templated /\ request[c].to # NoOne
      BY <1>2 DEF RelinkDocument, FieldsIInv, SendInv
    <3>3. send' = [send EXCEPT ![c] = next] /\ linked' \in BOOLEAN
      BY <1>0, <2>2 DEF FieldsIInv, FieldsTypeOK, SendType
    <3> HIDE DEF next
    <3>4. Advances(c, next)
      BY <1>2, <3>3 DEF Advances, RelinkDocument
    <3> QED BY ONLY <3>1, <3>2, <3>4, SendMoves, FieldsIInv, c \in Sends
  <2> QED BY <1>2, <2>1, <2>2 DEF RelinkDocument
<1> QED BY <1>1, <1>2, LoadStep DEF StartSend, SelfSign

(* The row is written: it has its recipients, and as yet no field.         *)
LEMMA CreateStep ==
  ASSUME FieldsAssumption, FieldsIInv, NEW c \in Sends, CreateRequest(c)
  PROVE  FieldsIInv'
<1>0. send[c] \in SendType /\ request[c] \in RequestType
  BY DEF FieldsIInv, FieldsTypeOK
<1> DEFINE r == [request[c] EXCEPT !.to = send[c].to, !.templated = send[c].templated]
           s == [send[c] EXCEPT !.pc = "relink"]
<1>1. /\ r \in RequestType /\ r.to = send[c].to /\ r.templated = send[c].templated
      /\ r.placed = request[c].placed /\ r.fields = request[c].fields
  BY <1>0 DEF RequestType, SendType
<1>2. /\ s \in SendType /\ s.pc = "relink" /\ s.to = send[c].to
      /\ s.fields = send[c].fields /\ s.templated = send[c].templated
  BY <1>0 DEF SendType
<1>3. /\ request' \in [Sends -> RequestType] /\ request'[c] = r
      /\ send' \in [Sends -> SendType] /\ send'[c] = s
      /\ \A d \in Sends \ {c} : request'[d] = request[d] /\ send'[d] = send[d]
  BY <1>1, <1>2 DEF CreateRequest, FieldsIInv, FieldsTypeOK
<1>4. /\ send[c].to # NoOne /\ ~request[c].placed /\ request[c].fields = {}
      /\ Whole(send[c].fields, send[c].templated)
  BY DEF CreateRequest, FieldsIInv, SendInv
<1> HIDE DEF r, s
<1>5. FieldsTypeOK'
  BY <1>3 DEF CreateRequest, FieldsIInv, FieldsTypeOK, library
<1>6. SendInv'
  BY <1>1, <1>2, <1>3, <1>4 DEF CreateRequest, FieldsIInv, SendInv, Whole, library
<1>7. \A d \in Sends : request'[d].fields = request[d].fields
                       /\ request'[d].placed = request[d].placed
  BY <1>1, <1>3
<1>8. LibraryInv' /\ SignatureInv'
  BY <1>7 DEF CreateRequest, FieldsIInv, LibraryInv, SignatureInv, library
<1>11. RoomInv'
  <2>1. UNCHANGED <<room, signature>> /\ RoomInv
    BY DEF CreateRequest, FieldsIInv
  <2>2. \A k \in Rooms : room[k].pc # "idle" => room[k].request \in Sends
    BY <2>1 DEF RoomInv
  <2>3. \A k \in Rooms : room[k].pc # "idle" =>
          /\ request'[room[k].request].placed \/ room[k].early
          /\ room[k].early \/
               room[k].values \in Complete(room[k].request, room[k].signer)'
    BY <1>7, <2>1, <2>2, RoomKept
  <2> QED BY <2>1, <2>3 DEF RoomInv
<1>9. PlacedWhole'
  BY <1>1, <1>3, <1>4 DEF CreateRequest, FieldsIInv, PlacedWhole, library
<1>10. EvidenceWhole'
  BY <1>7, FieldsKept, EvidenceUnfolded DEF CreateRequest, FieldsIInv
<1> QED BY <1>5, <1>6, <1>8, <1>9, <1>10, <1>11 DEF FieldsIInv

(* The fields of the version that was read come onto the request.          *)
LEMMA PlaceStep ==
  ASSUME FieldsAssumption, FieldsIInv, NEW c \in Sends, PlaceFields(c)
  PROVE  FieldsIInv'
<1>0. send[c] \in SendType /\ request[c] \in RequestType
  BY DEF FieldsIInv, FieldsTypeOK
<1> DEFINE bound == {Bind(f, send[c].to) : f \in send[c].fields}
           r == [request[c] EXCEPT !.placed = TRUE, !.fields = bound]
<1>1. \A f : /\ Bind(f, send[c].to).field = f
             /\ Bind(f, send[c].to).filledBy = Nobody
             /\ Bind(f, send[c].to).signer \in {f.order, NoSigner}
  BY DEF Bind
<1>2. bound \subseteq Placement
  <2> SUFFICES ASSUME NEW f \in send[c].fields PROVE Bind(f, send[c].to) \in Placement
    OBVIOUS
  <2>1. f \in AllFields
    BY <1>0 DEF SendType
  <2>2. f.order \in Int /\ NoSigner \in Int
    BY <2>1 DEF FieldsAssumption, AllFields, NoSigner
  <2> QED BY <2>1, <2>2 DEF Bind, Placement
<1>3. /\ r \in RequestType /\ r.to = request[c].to /\ r.placed /\ r.fields = bound
      /\ r.templated = request[c].templated
  BY <1>0, <1>2 DEF RequestType
<1>4. /\ \A p \in bound : p.filledBy = Nobody
      /\ {p.field : p \in bound} = send[c].fields
  <2>1. \A p \in bound : p.filledBy = Nobody
    BY <1>1
  <2>2. {p.field : p \in bound} = {Bind(f, send[c].to).field : f \in send[c].fields}
    OBVIOUS
  <2> QED BY <1>1, <2>1, <2>2
<1> HIDE DEF bound, r
<1>5. /\ request' \in [Sends -> RequestType] /\ request'[c] = r
      /\ \A d \in Sends \ {c} : request'[d] = request[d]
  BY <1>3 DEF PlaceFields, FieldsIInv, FieldsTypeOK, r, bound
<1>6. /\ send' \in [Sends -> SendType] /\ send'[c].pc = "idle"
      /\ \A d \in Sends \ {c} : send'[d] = send[d]
  BY DEF PlaceFields, FieldsIInv, FieldsTypeOK, Unsent, SendType, AllFields, Asked
<1>7. /\ ~request[c].placed /\ Whole(send[c].fields, request[c].templated)
      /\ request[c].to # NoOne
  BY DEF PlaceFields, FieldsIInv, SendInv
<1>8. FieldsTypeOK'
  BY <1>5, <1>6 DEF PlaceFields, FieldsIInv, FieldsTypeOK, library
<1>9. LibraryInv' /\ SignatureInv'
  BY <1>3, <1>5 DEF PlaceFields, FieldsIInv, LibraryInv, SignatureInv, library
<1>10. SendInv'
  <2> SUFFICES ASSUME NEW d \in Sends, d # c \/ send'[d].pc = "idle"
               PROVE  LET s == send'[d]
                          q == request'[d]
                      IN  /\ s.pc # "idle" => s.to # NoOne /\ ~q.placed
                          /\ s.pc \in {"load", "create"} => q.to = NoOne
                          /\ s.pc \in {"create", "relink", "place"} =>
                               Whole(s.fields, s.templated)
                          /\ s.pc \in {"relink", "place"} =>
                               q.templated = s.templated /\ q.to # NoOne
                          /\ q.to = NoOne => ~q.placed
                          /\ ~q.placed => q.fields = {}
    BY <1>6 DEF PlaceFields, SendInv, Whole, library
  <2>1. CASE d = c
    BY <1>3, <1>5, <1>6, <1>7, <2>1
  <2>2. CASE d # c
    BY <1>5, <1>6, <2>2 DEF FieldsIInv, SendInv
  <2> QED BY <2>1, <2>2
<1>11. RoomInv'
  <2> SUFFICES ASSUME NEW k \in Rooms, room[k].pc # "idle"
               PROVE  /\ request'[room[k].request].placed \/ room[k].early
                      /\ room[k].early \/
                         room[k].values \in Complete(room[k].request, room[k].signer)'
    BY DEF PlaceFields, FieldsIInv, RoomInv
  <2>1. CASE room[k].request = c
    BY <1>7, <2>1 DEF FieldsIInv, RoomInv
  <2>2. CASE room[k].request # c
    BY <1>5, <2>2, RoomKept DEF PlaceFields, FieldsIInv, RoomInv
  <2> QED BY <2>1, <2>2
<1>12. PlacedWhole'
  BY <1>3, <1>4, <1>5, <1>7 DEF PlaceFields, FieldsIInv, PlacedWhole, Whole, library
<1>13. EvidenceWhole'
  <2> SUFFICES ASSUME NEW d \in Sends, NEW o \in Orders PROVE EvidenceOf(d, o)'
    BY EvidenceUnfolded
  <2>1. CASE d = c
    BY <1>3, <1>4, <1>5, <1>7, <2>1 DEF PlaceFields, FieldsIInv, SignatureInv, EvidenceOf
  <2>2. CASE d # c
    BY <1>5, <2>2, FieldsKept, EvidenceUnfolded DEF PlaceFields, FieldsIInv
  <2> QED BY <2>1, <2>2
<1> QED BY <1>8, <1>9, <1>10, <1>11, <1>12, <1>13 DEF FieldsIInv

(* A room opens: what it was given passes, or nothing was asked of it.     *)
LEMMA ResolveStep ==
  ASSUME FieldsIInv, NEW k \in Rooms, ResolveFieldValues(k)
  PROVE  FieldsIInv'
<1>0. PICK c \in Sends, o \in Orders : \E v \in Complete(c, o) :
        room' = [room EXCEPT ![k] = [pc |-> "collect", request |-> c, signer |-> o,
                                     early |-> ~request[c].placed, values |-> v]]
  BY DEF ResolveFieldValues
<1>1. PICK v \in Complete(c, o) :
        room' = [room EXCEPT ![k] = [pc |-> "collect", request |-> c, signer |-> o,
                                     early |-> ~request[c].placed, values |-> v]]
  BY <1>0
<1>2. v \subseteq AllFields
  BY DEF Complete, FieldsOf, FieldsIInv, FieldsTypeOK, RequestType, Placement
<1>3. room' \in [Rooms -> RoomType] /\ \A j \in Rooms \ {k} : room'[j] = room[j]
  BY <1>1, <1>2 DEF FieldsIInv, FieldsTypeOK, RoomType, RequestType
<1>4. room[k].pc = "idle" /\ room'[k].pc = "collect"
  BY <1>1 DEF ResolveFieldValues, FieldsIInv, FieldsTypeOK
<1>5. FieldsTypeOK'
  BY <1>3 DEF ResolveFieldValues, FieldsIInv, FieldsTypeOK, library
<1>6. LibraryInv' /\ SendInv' /\ SignatureInv' /\ PlacedWhole'
  BY DEF ResolveFieldValues, FieldsIInv, LibraryInv, SendInv, SignatureInv, PlacedWhole,
     Whole, library
<1>7. RoomInv'
  <2>1. /\ room'[k].request = c /\ room'[k].signer = o /\ room'[k].values = v
        /\ room'[k].early = ~request[c].placed
    BY <1>1 DEF FieldsIInv, FieldsTypeOK
  <2>2. UNCHANGED <<request, signature>>
    BY DEF ResolveFieldValues
  <2>3. v \in Complete(c, o)'
    BY <2>2, RequestsKept
  <2>4. RoomOf(k)'
    <3>1. CASE ~request[c].placed
      BY ONLY <1>4, <2>1, <2>2, <2>3, <3>1, c \in Sends, o \in Orders DEF RoomOf
    <3>2. CASE request[c].placed
      BY ONLY <1>4, <2>1, <2>2, <2>3, <3>2, c \in Sends, o \in Orders DEF RoomOf
    <3> QED BY <3>1, <3>2
  <2>5. ASSUME NEW j \in Rooms \ {k} PROVE RoomOf(j)'
    BY <1>3, <2>2, RoomUnfolded, RoomStays DEF FieldsIInv
  <2> QED BY <2>4, <2>5, RoomUnfolded
<1>8. EvidenceWhole'
  <2> SUFFICES ASSUME NEW d \in Sends, NEW x \in Orders PROVE EvidenceOf(d, x)'
    BY EvidenceUnfolded
  <2>1. EvidenceOf(d, x) /\ UNCHANGED <<request, signature, faults>>
    BY EvidenceUnfolded DEF ResolveFieldValues, FieldsIInv
  <2>2. signature[d][x].by \in Rooms \cup {Nobody}
    BY DEF FieldsIInv, FieldsTypeOK
  <2>3. \A j \in Rooms \ {k} : Capturing(j, d, x)' = Capturing(j, d, x)
    BY <1>3 DEF Capturing
  <2>4. ~Capturing(k, d, x)
    BY <1>4 DEF Capturing
  <2> QED BY ONLY <2>1, <2>2, <2>3, <2>4 DEF EvidenceOf
<1> QED BY <1>5, <1>6, <1>7, <1>8 DEF FieldsIInv

(* The row of the one call that gets through, and only that call's.        *)
LEMMA CollectStep ==
  ASSUME FieldsAssumption, FieldsIInv, NEW k \in Rooms, CollectSignature(k)
  PROVE  FieldsIInv'
<1> DEFINE c == room[k].request
           o == room[k].signer
<1>a. /\ room[k] \in RoomType /\ NoCall \in RoomType /\ NoCall.pc = "idle"
      /\ c \in Sends /\ o \in Orders
      /\ UNCHANGED <<linked, send, request, faults, library>>
  BY DEF CollectSignature, FieldsIInv, FieldsTypeOK, RoomInv, RoomType, NoCall
<1>b. LibraryInv' /\ SendInv' /\ PlacedWhole'
  BY <1>a DEF FieldsIInv, LibraryInv, SendInv, PlacedWhole, Whole, library
<1>1. CASE room' = [room EXCEPT ![k] = NoCall] /\ UNCHANGED signature
  <2>1. /\ room' \in [Rooms -> RoomType] /\ room'[k].pc = "idle"
        /\ \A j \in Rooms \ {k} : room'[j] = room[j]
    BY <1>1, <1>a DEF FieldsIInv, FieldsTypeOK
  <2>2. FieldsTypeOK' /\ SignatureInv'
    BY <1>1, <1>a, <2>1 DEF FieldsIInv, FieldsTypeOK, SignatureInv, library
  <2>3. RoomInv'
    <3>1. RoomOf(k)'
      BY <2>1 DEF RoomOf
    <3>2. ASSUME NEW j \in Rooms \ {k} PROVE RoomOf(j)'
      BY <1>1, <1>a, <2>1, RoomUnfolded, RoomStays DEF FieldsIInv
    <3> QED BY <3>1, <3>2, RoomUnfolded
  <2>4. EvidenceWhole'
    <3> SUFFICES ASSUME NEW d \in Sends, NEW x \in Orders PROVE EvidenceOf(d, x)'
      BY EvidenceUnfolded
    <3>1. EvidenceOf(d, x) /\ UNCHANGED <<request, signature, faults>>
      BY <1>1, <1>a, EvidenceUnfolded DEF FieldsIInv
    <3>2. signature[d][x].by \in Rooms \cup {Nobody}
      BY DEF FieldsIInv, FieldsTypeOK
    <3>3. \A j \in Rooms \ {k} : Capturing(j, d, x)' = Capturing(j, d, x)
      BY <2>1 DEF Capturing
    <3>4. ~Capturing(k, d, x)
      BY DEF Capturing, CollectSignature
    <3> QED BY ONLY <3>1, <3>2, <3>3, <3>4 DEF EvidenceOf
  <2> QED BY <1>b, <2>2, <2>3, <2>4 DEF FieldsIInv
<1>2. CASE /\ signature[c][o] = NoSignature
           /\ signature' = [signature EXCEPT ![c][o] = [by |-> k, early |-> room[k].early]]
           /\ room' = [room EXCEPT ![k].pc = "capture"]
  <2>1. /\ room' \in [Rooms -> RoomType]
        /\ room'[k] = [room[k] EXCEPT !.pc = "capture"]
        /\ \A j \in Rooms \ {k} : room'[j] = room[j]
    BY <1>2, <1>a DEF FieldsIInv, FieldsTypeOK, RoomType
  <2>2. /\ room'[k].pc = "capture" /\ room'[k].request = c /\ room'[k].signer = o
        /\ room'[k].early = room[k].early /\ room'[k].values = room[k].values
    BY <2>1, <1>a DEF RoomType
  <2>3. /\ signature' \in [Sends -> [Orders -> [by : Rooms \cup {Nobody}, early : BOOLEAN]]]
        /\ signature'[c][o] = [by |-> k, early |-> room[k].early]
        /\ \A d \in Sends, x \in Orders :
             <<d, x>> # <<c, o>> => signature'[d][x] = signature[d][x]
    BY <1>2, <1>a DEF FieldsIInv, FieldsTypeOK, RoomType
  <2>4. FieldsTypeOK'
    BY <1>a, <2>1, <2>3 DEF FieldsIInv, FieldsTypeOK, library
  <2>5. room[k].early \/ request[c].placed
    BY DEF FieldsIInv, RoomInv, CollectSignature
  <2>6. SignatureInv'
    BY <1>a, <2>3, <2>5 DEF FieldsIInv, SignatureInv
  <2>7. \A j \in Rooms : room[j].pc = "capture" =>
          ~(room[j].request = c /\ room[j].signer = o)
    <3>1. \A j \in Rooms : room[j].pc = "capture" =>
            signature[room[j].request][room[j].signer] =
              [by |-> j, early |-> room[j].early]
      BY DEF FieldsIInv, RoomInv
    <3>2. signature[c][o].by = Nobody
      BY <1>2 DEF NoSignature
    <3> SUFFICES ASSUME NEW j \in Rooms, room[j].pc = "capture",
                        room[j].request = c, room[j].signer = o
                 PROVE  FALSE
      OBVIOUS
    <3>3. signature[c][o].by = j
      <4>1. signature[c][o] = [by |-> j, early |-> room[j].early]
        BY <3>1
      <4> QED BY <4>1
    <3> QED BY <3>2, <3>3 DEF FieldsAssumption, Nobody
  <2>8. RoomInv'
    <3>1. \A j \in Rooms : room[j].pc # "idle" =>
            /\ room[j].request \in Sends /\ room[j].signer \in Orders
            /\ request[room[j].request].placed \/ room[j].early
            /\ room[j].early \/ room[j].values \in Complete(room[j].request, room[j].signer)
            /\ room[j].pc = "capture" => signature[room[j].request][room[j].signer] =
                                           [by |-> j, early |-> room[j].early]
      BY DEF FieldsIInv, RoomInv
    <3> SUFFICES ASSUME NEW j \in Rooms, room'[j].pc # "idle"
                 PROVE  LET r == room'[j]
                        IN /\ r.request \in Sends /\ r.signer \in Orders
                           /\ request[r.request].placed \/ r.early
                           /\ r.early \/ r.values \in Complete(r.request, r.signer)
                           /\ r.pc = "capture" => signature'[r.request][r.signer] =
                                                    [by |-> j, early |-> r.early]
      BY <1>a, RequestsKept DEF RoomInv
    <3>2. CASE j = k
      BY <1>a, <2>2, <2>3, <3>1, <3>2 DEF CollectSignature
    <3>3. CASE j # k
      BY <2>1, <2>3, <2>7, <3>1, <3>3
    <3> QED BY <3>2, <3>3
  <2>9. EvidenceWhole'
    <3> SUFFICES ASSUME NEW d \in Sends, NEW x \in Orders PROVE EvidenceOf(d, x)'
      BY EvidenceUnfolded
    <3>1. CASE d = c /\ x = o
      <4>1. signature[c][o].by = Nobody
        BY <1>2 DEF NoSignature
      <4>2. \A p \in request[d].fields : p.signer = x => p.filledBy = Nobody
        BY <1>a, <3>1, <4>1, EvidenceUnfolded DEF FieldsIInv, EvidenceOf
      <4>3. Capturing(k, d, x)'
        BY <2>2, <3>1 DEF Capturing
      <4>4. signature'[d][x].by = k /\ UNCHANGED request
        BY <1>a, <2>3, <3>1 DEF CollectSignature
      <4> QED BY ONLY <4>2, <4>3, <4>4 DEF EvidenceOf
    <3>2. CASE <<d, x>> # <<c, o>>
      <4>1. /\ EvidenceOf(d, x) /\ signature'[d][x] = signature[d][x]
            /\ UNCHANGED <<request, faults>>
        BY <2>3, <3>2, EvidenceUnfolded DEF CollectSignature, FieldsIInv
      <4>2. signature[d][x].by \in Rooms \cup {Nobody}
        BY DEF FieldsIInv, FieldsTypeOK
      <4>3. \A j \in Rooms \ {k} : Capturing(j, d, x)' = Capturing(j, d, x)
        BY <2>1 DEF Capturing
      <4>4. ~Capturing(k, d, x)
        BY DEF Capturing, CollectSignature
      <4> QED BY ONLY <4>1, <4>2, <4>3, <4>4 DEF EvidenceOf
    <3> QED BY <3>1, <3>2
  <2> QED BY <1>b, <2>4, <2>6, <2>8, <2>9 DEF FieldsIInv
<1> QED BY <1>1, <1>2 DEF CollectSignature

Fills(c, o, v, k) == request' = Fill(c, o, v, k)

(* What Fill does: the field and the signer of a placement stay, and those *)
(* of the signer that have a value are filled by the call.                 *)
LEMMA FillEffect ==
  ASSUME FieldsTypeOK, NEW c \in Sends, NEW o \in Orders, NEW v, NEW k \in Rooms,
         Fills(c, o, v, k)
  PROVE  /\ request' \in [Sends -> RequestType]
         /\ \A d \in Sends \ {c} : request'[d] = request[d]
         /\ request'[c].to = request[c].to
         /\ request'[c].templated = request[c].templated
         /\ request'[c].placed = request[c].placed
         /\ \A q \in request'[c].fields : \E p \in request[c].fields :
              /\ q.field = p.field /\ q.signer = p.signer
              /\ q.filledBy = IF p.signer = o /\ p.field \in v THEN k ELSE p.filledBy
         /\ \A p \in request[c].fields : \E q \in request'[c].fields :
              q.field = p.field /\ q.signer = p.signer
<1> DEFINE G(p) == IF p.signer = o /\ p.field \in v THEN [p EXCEPT !.filledBy = k] ELSE p
           F == {G(p) : p \in request[c].fields}
           r == [request[c] EXCEPT !.fields = F]
<1>0. request[c] \in RequestType /\ request[c].fields \subseteq Placement
  BY DEF FieldsTypeOK, RequestType
<1>1. \A p \in Placement :
        /\ G(p) \in Placement /\ G(p).field = p.field /\ G(p).signer = p.signer
        /\ G(p).filledBy = IF p.signer = o /\ p.field \in v THEN k ELSE p.filledBy
  BY DEF Placement
<1>2. request' = [request EXCEPT ![c] = r]
  BY <1>0 DEF Fills, Fill, FieldsTypeOK, RequestType
<1> HIDE DEF G
<1>3. /\ F \subseteq Placement
      /\ \A q \in F : \E p \in request[c].fields :
           /\ q.field = p.field /\ q.signer = p.signer
           /\ q.filledBy = IF p.signer = o /\ p.field \in v THEN k ELSE p.filledBy
      /\ \A p \in request[c].fields : \E q \in F : q.field = p.field /\ q.signer = p.signer
  BY <1>0, <1>1
<1> HIDE DEF F
<1>4. /\ r \in RequestType /\ r.to = request[c].to /\ r.templated = request[c].templated
      /\ r.placed = request[c].placed /\ r.fields = F
  BY <1>0, <1>3 DEF RequestType
<1> HIDE DEF r
<1>5. /\ request' \in [Sends -> RequestType] /\ request'[c] = r
      /\ \A d \in Sends \ {c} : request'[d] = request[d]
  BY <1>2, <1>4 DEF FieldsTypeOK
<1> QED BY <1>3, <1>4, <1>5

(* The values of the call whose signature stands.                          *)
LEMMA CaptureStep ==
  ASSUME FieldsAssumption, FieldsIInv, NEW k \in Rooms, CaptureFieldValues(k)
  PROVE  FieldsIInv'
<1>0. PICK c \in Sends, o \in Orders, v \in {room[k].values} :
        c = room[k].request /\ o = room[k].signer /\ v = room[k].values
  BY DEF CaptureFieldValues, FieldsIInv, RoomInv
<1>a. /\ c \in Sends /\ o \in Orders
      /\ request[c].placed \/ room[k].early
      /\ room[k].early \/ v \in Complete(c, o)
      /\ signature[c][o] = [by |-> k, early |-> room[k].early]
      /\ UNCHANGED <<linked, send, signature, faults, library>>
  BY <1>0 DEF CaptureFieldValues, FieldsIInv, RoomInv
<1>1. /\ room' \in [Rooms -> RoomType] /\ room'[k].pc = "idle"
      /\ \A j \in Rooms \ {k} : room'[j] = room[j]
  BY DEF CaptureFieldValues, FieldsIInv, FieldsTypeOK, NoCall, RoomType
<1>2. /\ request' \in [Sends -> RequestType]
      /\ \A d \in Sends \ {c} : request'[d] = request[d]
      /\ request'[c].to = request[c].to
      /\ request'[c].templated = request[c].templated
      /\ request'[c].placed = request[c].placed
      /\ \A q \in request'[c].fields : \E p \in request[c].fields :
           /\ q.field = p.field /\ q.signer = p.signer
           /\ q.filledBy = IF p.signer = o /\ p.field \in v THEN k ELSE p.filledBy
      /\ \A p \in request[c].fields : \E q \in request'[c].fields :
           q.field = p.field /\ q.signer = p.signer
  <2>1. Fills(c, o, v, k) /\ FieldsTypeOK
    BY <1>0 DEF CaptureFieldValues, FieldsIInv, Fills
  <2> QED BY ONLY <2>1, FillEffect, c \in Sends, o \in Orders, k \in Rooms
<1>b. \A j \in Rooms \ {k}, d \in Sends, x \in Orders :
        Capturing(j, d, x)' = Capturing(j, d, x)
  BY <1>1 DEF Capturing
<1>c. \A d \in Sends, x \in Orders : signature[d][x].by \in Rooms \cup {Nobody}
  BY DEF FieldsIInv, FieldsTypeOK
<1>3. FieldsTypeOK'
  BY <1>a, <1>1, <1>2 DEF FieldsIInv, FieldsTypeOK, library
<1>4. LibraryInv' /\ SignatureInv'
  BY <1>a, <1>2 DEF FieldsIInv, LibraryInv, SignatureInv, library
<1>5. SendInv'
  BY <1>a, <1>2 DEF FieldsIInv, SendInv, Whole, library
<1>6. {p.field : p \in request'[c].fields} = {p.field : p \in request[c].fields}
  BY <1>2
<1>7. PlacedWhole'
  BY <1>a, <1>2, <1>6 DEF FieldsIInv, PlacedWhole, library
<1>8. \A x \in Orders : FieldsOf(c, x)' = FieldsOf(c, x)
  <2> SUFFICES ASSUME NEW x \in Orders
               PROVE  {p.field : p \in {q \in request'[c].fields : q.signer = x}} =
                        {p.field : p \in {q \in request[c].fields : q.signer = x}}
    BY DEF FieldsOf
  <2> QED BY <1>2
<1>9. RoomInv'
  <2>1. \A d \in Sends, x \in Orders : Complete(d, x)' = Complete(d, x)
    <3> SUFFICES ASSUME NEW d \in Sends, NEW x \in Orders
                 PROVE  FieldsOf(d, x)' = FieldsOf(d, x)
      BY DEF Complete
    <3>1. CASE d = c
      BY <1>8, <3>1
    <3>2. CASE d # c
      BY <1>2, <3>2 DEF FieldsOf
    <3> QED BY <3>1, <3>2
  <2> QED BY <1>a, <1>1, <1>2, <2>1 DEF FieldsIInv, RoomInv
<1>10. EvidenceWhole'
  <2> SUFFICES ASSUME NEW d \in Sends, NEW x \in Orders PROVE EvidenceOf(d, x)'
    BY EvidenceUnfolded
  <2>0. EvidenceOf(d, x)
    BY EvidenceUnfolded DEF FieldsIInv
  <2>1. CASE d # c
    <3>1. ~Capturing(k, d, x)
      BY <1>0, <2>1 DEF Capturing
    <3>2. request'[d] = request[d] /\ UNCHANGED <<signature, faults>>
      BY <1>a, <1>2, <2>1
    <3> QED BY ONLY <1>b, <1>c, <2>0, <3>1, <3>2, d \in Sends, x \in Orders
            DEF EvidenceOf
  <2>2. CASE d = c /\ x # o
    <3>1. \A p \in request'[c].fields : p.signer = x =>
            \E q \in request[c].fields :
              q.field = p.field /\ q.signer = x /\ p.filledBy = q.filledBy
      BY <1>2, <2>2
    <3>2. ~Capturing(k, d, x)
      BY <1>0, <2>2 DEF Capturing
    <3>3. d = c /\ UNCHANGED <<signature, faults>>
      BY <1>a, <2>2
    <3>4. \A p \in request'[d].fields : p.signer = x =>
            \E q \in request[d].fields :
              q.field = p.field /\ q.signer = x /\ p.filledBy = q.filledBy
      BY <3>1, <3>3
    <3> QED BY ONLY <1>b, <1>c, <2>0, <3>2, <3>3, <3>4, d \in Sends, x \in Orders
            DEF EvidenceOf
  <2>3. CASE d = c /\ x = o
    <3>1. \A p \in request'[c].fields : p.signer = o => p.filledBy \in {Nobody, k}
      BY <1>a, <1>2, <2>0, <2>3 DEF EvidenceOf
    <3>2. k # Nobody
      BY DEF FieldsAssumption, Nobody
    <3>3. \/ room[k].early
          \/ \A p \in request'[c].fields :
               p.signer = o /\ p.field.required => p.filledBy # Nobody
      BY <1>a, <1>2, <3>2 DEF Complete, FieldsOf
    <3> QED BY <1>a, <2>3, <3>1, <3>3 DEF EvidenceOf
  <2> QED BY <2>1, <2>2, <2>3
<1> QED BY <1>3, <1>4, <1>5, <1>7, <1>9, <1>10 DEF FieldsIInv

LEMMA DieStep ==
  ASSUME FieldsAssumption, FieldsIInv, Die
  PROVE  FieldsIInv'
<1>1. /\ UNCHANGED <<linked, request, signature, library>>
      /\ faults \in Nat /\ faults' = faults + 1 /\ faults' > 0
  BY DEF Die, FieldsIInv, FieldsTypeOK
<1>2. /\ room' \in [Rooms -> RoomType]
      /\ \A k \in Rooms : room'[k].pc = "idle" \/ room'[k] = room[k]
      /\ send' \in [Sends -> SendType]
      /\ \A c \in Sends : send'[c].pc = "idle" \/ send'[c] = send[c]
  <2>1. /\ NoCall \in RoomType /\ NoCall.pc = "idle"
        /\ Unsent \in SendType /\ Unsent.pc = "idle"
    BY DEF NoCall, Unsent, RoomType, SendType, AllFields, Asked
  <2>2. room \in [Rooms -> RoomType] /\ send \in [Sends -> SendType]
    BY DEF FieldsIInv, FieldsTypeOK
  <2>3. \/ (\E k \in Rooms : room' = [room EXCEPT ![k] = NoCall]) /\ UNCHANGED send
        \/ (\E c \in Sends : send' = [send EXCEPT ![c] = Unsent]) /\ UNCHANGED room
    BY DEF Die
  <2> QED BY <2>1, <2>2, <2>3
<1>3. FieldsTypeOK'
  BY <1>1, <1>2 DEF FieldsIInv, FieldsTypeOK, library
<1>4. LibraryInv' /\ SignatureInv' /\ PlacedWhole'
  BY <1>1 DEF FieldsIInv, LibraryInv, SignatureInv, PlacedWhole, library
<1>5. SendInv'
  BY <1>1, <1>2 DEF FieldsIInv, SendInv, Whole, library
<1>6. RoomInv'
  BY <1>1, <1>2, RequestsKept DEF FieldsIInv, RoomInv
<1>7. EvidenceWhole'
  BY <1>1, EvidenceUnfolded DEF FieldsIInv, EvidenceOf
<1> QED BY <1>3, <1>4, <1>5, <1>6, <1>7 DEF FieldsIInv

LEMMA FieldsNext_IInv ==
  ASSUME FieldsAssumption, FieldsIInv, FieldsNext
  PROVE  FieldsIInv'
<1>1. CASE SaveTemplate
  <2>1. PICK d \in Drafts : template' = d /\ saved' = saved \cup {d}
    BY <1>1 DEF SaveTemplate
  <2>2. /\ saved \subseteq saved' /\ saved' \subseteq Drafts /\ d \in saved'
        /\ gone' \in BOOLEAN /\ removed' \in BOOLEAN /\ linked' \in BOOLEAN
        /\ UNCHANGED <<removed, send, request, signature, room, faults>>
    BY <1>1, <2>1 DEF SaveTemplate, FieldsIInv, FieldsTypeOK, LibraryInv
  <2> QED BY <2>1, <2>2, LibraryMoves
<1>2. CASE RemoveTemplate
  BY <1>2, LibraryMoves DEF RemoveTemplate, FieldsIInv, FieldsTypeOK, LibraryInv
<1> QED BY <1>1, <1>2, SendStep, CreateStep, PlaceStep, ResolveStep, CollectStep,
           CaptureStep, DieStep DEF FieldsNext

LEMMA FieldsInvariant ==
  ASSUME FieldsAssumption
  PROVE  FieldsSpec => []FieldsIInv
<1>1. FieldsIInv /\ UNCHANGED fieldsVars => FieldsIInv'
  <2> SUFFICES ASSUME FieldsIInv, UNCHANGED fieldsVars PROVE FieldsIInv'
    OBVIOUS
  <2>1. FieldsTypeOK' /\ LibraryInv' /\ SendInv' /\ SignatureInv' /\ PlacedWhole'
    BY DEF FieldsIInv, FieldsTypeOK, LibraryInv, SendInv, SignatureInv, PlacedWhole,
       Whole, fieldsVars, library
  <2>2. RoomInv'
    BY RequestsKept DEF FieldsIInv, RoomInv, fieldsVars
  <2>3. EvidenceWhole'
    BY EvidenceUnfolded DEF FieldsIInv, EvidenceOf, Capturing, fieldsVars
  <2> QED BY <2>1, <2>2, <2>3 DEF FieldsIInv
<1> QED BY <1>1, FieldsInit_IInv, FieldsNext_IInv, PTL DEF FieldsSpec

(* A request that carries fields carries one saved version of them, whole  *)
(* (loadTemplatePlacements is one read, and update one transaction), for   *)
(* any templates, senders and interleavings.                               *)
THEOREM TemplatePlacedWhole ==
  ASSUME FieldsAssumption
  PROVE  FieldsSpec => []PlacedWhole
BY FieldsInvariant, PTL DEF FieldsIInv

(* What the evidence report prints belongs together: values with the       *)
(* signature of the very call that gave them, and all that were required.  *)
THEOREM EvidenceIsWhole ==
  ASSUME FieldsAssumption
  PROVE  FieldsSpec => []EvidenceWhole
BY FieldsInvariant, PTL DEF FieldsIInv
-----------------------------------------------------------------------------
(***************************************************************************)
(* Certificates, for any number of operations, names and certificates.     *)
(*                                                                         *)
(* An import or a renewal finds a row by serial number and writes it       *)
(* later, so a row may change its certificate and keep its key: RowInv     *)
(* says of all others that key and certificate belong together.  A record  *)
(* that stands in the DNS belongs to a call that is still to delete it, or *)
(* is stranded (TxtInv).                                                   *)
(***************************************************************************)
OpPc == {"idle", "set", "verify", "list", "delete", "finalize", "poll", "script",
         "find", "write"}
OpKind == {None, "ACME", "import", "issued"}
TxtRecords == [name : Names \cup {None}, by : Ops]
OpType ==
  [pc : OpPc, kind : OpKind, name : Names \cup {None}, cert : Certs \cup {None},
   key : Certs \cup {None}, found : BOOLEAN, polls : Nat,
   records : SUBSET TxtRecords]
RowType == [status : {"absent", "ACTIVE", "REVOKED"}, revoked : BOOLEAN,
            cert : Certs \cup {None}, key : Certs \cup {None}]

EvidenceType == [serial : Serials \cup {None}, key : Certs \cup {None},
                 keptKey : BOOLEAN, replaced : BOOLEAN]

CertificateTypeOK ==
  /\ row \in [Serials -> RowType]
  /\ issued \subseteq Certs /\ expired \subseteq Certs
  /\ reissued \subseteq Serials
  /\ op \in [Ops -> OpType]
  /\ txt \subseteq TxtRecords /\ stranded \subseteq TxtRecords
  /\ evidence \in [Signers -> EvidenceType]
  /\ faults \in Nat

(* What an import or a provision brings is a certificate with its own key  *)
(* or with none.                                                           *)
OpInv ==
  \A o \in Ops : op[o].pc \in {"find", "write"} =>
    op[o].cert \in Certs /\ op[o].key \in {None, op[o].cert}

(* A row holds the key of its certificate, or none, unless it is marked.   *)
RowInv ==
  \A s \in Serials \ reissued : row[s].key \in {None, row[s].cert}

(* A record that stands is one that a challenge under way has to clear,    *)
(* and when that call is about to delete, one that it has listed.          *)
TxtInv ==
  \A r \in txt \ stranded :
    /\ op[r.by].kind = "ACME" /\ r.name = op[r.by].name
    /\ op[r.by].pc \in {"verify", "list", "delete"}
    /\ op[r.by].pc = "delete" => r \in op[r.by].records

(* An order holds its name until its record is gone.                       *)
AcmeInv ==
  \A o \in Ops : op[o].pc \in {"set", "verify", "list", "delete"} =>
    op[o].kind = "ACME"

(* A signature names a row.                                                *)
NamesRow == \A x \in Signers : evidence[x] # Unsigned => evidence[x].serial \in Serials

CertificateIInv ==
  /\ CertificateTypeOK /\ OpInv /\ RowInv /\ NamesRow /\ SignatureVerifies
  /\ TxtInv /\ AcmeInv

LEMMA CertificatesInit_IInv == CertificatesInit => CertificateIInv
BY DEF CertificatesInit, CertificateIInv, CertificateTypeOK, OpInv, RowInv, TxtInv,
   AcmeInv, NamesRow, SignatureVerifies, NoOp, Absent, Unsigned, OpPc, OpKind, OpType,
   RowType, EvidenceType, TxtRecords

LEMMA OpMoves ==
  ASSUME CertificateTypeOK, NEW o \in Ops, NEW next \in OpType,
         op' = [op EXCEPT ![o] = next]
  PROVE  /\ op' \in [Ops -> OpType]
         /\ op'[o] = next
         /\ \A p \in Ops \ {o} : op'[p] = op[p]
BY DEF CertificateTypeOK

(* A step that leaves rows and evidence alone, and brings nothing.         *)
LEMMA Elsewhere ==
  ASSUME CertificateIInv, NEW o \in Ops, NEW next \in OpType,
         op' = [op EXCEPT ![o] = next],
         UNCHANGED <<store, evidence>>,
         next.pc \in {"find", "write"} =>
           op[o].pc = "find" /\ next.cert = op[o].cert /\ next.key = op[o].key,
         txt' \subseteq TxtRecords, stranded' \subseteq TxtRecords, faults' \in Nat,
         TxtInv', next.pc \in {"set", "verify", "list", "delete"} => next.kind = "ACME"
  PROVE  CertificateIInv'
<1>1. /\ op' \in [Ops -> OpType]
      /\ op'[o] = next
      /\ \A p \in Ops \ {o} : op'[p] = op[p]
  BY OpMoves DEF CertificateIInv
<1>2. CertificateTypeOK'
  BY <1>1 DEF CertificateIInv, CertificateTypeOK, store
<1>3. OpInv' /\ AcmeInv'
  BY <1>1 DEF CertificateIInv, OpInv, AcmeInv
<1>4. RowInv' /\ NamesRow' /\ SignatureVerifies'
  BY DEF CertificateIInv, RowInv, NamesRow, SignatureVerifies, store
<1> QED BY <1>2, <1>3, <1>4 DEF CertificateIInv

(* A call that has no record is idle, or begins with none.                 *)
LEMMA TxtKept ==
  ASSUME CertificateIInv, NEW o \in Ops, NEW next \in OpType,
         op' = [op EXCEPT ![o] = next], UNCHANGED dns,
         op[o].kind # "ACME" \/ op[o].pc \notin {"verify", "list", "delete"}
  PROVE  TxtInv'
BY OpMoves DEF CertificateIInv, CertificateTypeOK, TxtRecords, TxtInv, dns

Obtains(o, c, key, kind) ==
  /\ op' = [op EXCEPT ![o] = [NoOp EXCEPT !.pc = "find", !.kind = kind,
                                          !.cert = c, !.key = key]]
  /\ issued' = issued \cup {c}
  /\ UNCHANGED <<row, expired, reissued, dns, evidence, faults>>

LEMMA ObtainStep ==
  ASSUME CertificateIInv, NEW o \in Ops, NEW c \in Certs, NEW key \in {None, c},
         NEW kind \in {"import", "issued"},
         op[o].kind # "ACME" \/ op[o].pc \notin {"verify", "list", "delete"},
         Obtains(o, c, key, kind)
  PROVE  CertificateIInv'
<1> USE DEF Obtains
<1> DEFINE next == [NoOp EXCEPT !.pc = "find", !.kind = kind, !.cert = c, !.key = key]
<1>1. next \in OpType
  BY DEF NoOp, OpType, OpPc, OpKind
<1>2. next.pc = "find" /\ next.cert = c /\ next.key = key
  BY DEF NoOp
<1>3. TxtInv'
  BY <1>1, TxtKept
<1> HIDE DEF next
<1>4. /\ op' \in [Ops -> OpType]
      /\ op'[o] = next
      /\ \A p \in Ops \ {o} : op'[p] = op[p]
  BY <1>1, OpMoves DEF CertificateIInv, next
<1>5. CertificateTypeOK'
  BY <1>4 DEF CertificateIInv, CertificateTypeOK, dns
<1>6. OpInv' /\ AcmeInv'
  BY <1>2, <1>4 DEF CertificateIInv, OpInv, AcmeInv
<1>7. RowInv' /\ NamesRow' /\ SignatureVerifies'
  BY DEF CertificateIInv, RowInv, NamesRow, SignatureVerifies
<1> QED BY <1>3, <1>5, <1>6, <1>7 DEF CertificateIInv

(* The steps of an order that has, or may have, its record in the DNS.     *)
LEMMA ChallengeStep ==
  ASSUME CertificateIInv, NEW o \in Ops,
         SetTxtRecord(o) \/ VerifyChallenge(o) \/ ListTxtRecords(o)
           \/ DeleteTxtRecord(o) \/ Cleared(o) \/ Fail(o)
  PROVE  CertificateIInv'
<1>a. op[o] \in OpType
  BY DEF CertificateIInv, CertificateTypeOK
<1>b. NoOp \in OpType /\ NoOp.pc = "idle" /\ [NoOp EXCEPT !.pc = "finalize"] \in OpType
      /\ [NoOp EXCEPT !.pc = "finalize"].pc = "finalize"
  BY DEF NoOp, OpType, OpPc, OpKind
<1>1. CASE SetTxtRecord(o)
  <2> DEFINE next == [op[o] EXCEPT !.pc = "verify"]
             r == [name |-> op[o].name, by |-> o]
  <2>1. /\ next \in OpType /\ next.pc = "verify" /\ next.kind = "ACME"
        /\ next.name = op[o].name
    BY <1>1, <1>a DEF SetTxtRecord, CertificateIInv, AcmeInv, OpType, OpPc
  <2>2. /\ op' = [op EXCEPT ![o] = next] /\ txt' = txt \cup {r}
        /\ stranded' = stranded \ {r}
    BY <1>1 DEF SetTxtRecord, Proceed
  <2>3. r \in TxtRecords
    BY <1>a DEF OpType, TxtRecords
  <2> HIDE DEF next
  <2>4. /\ op'[o] = next /\ \A p \in Ops \ {o} : op'[p] = op[p]
    BY <2>1, <2>2, OpMoves DEF CertificateIInv
  <2>5. TxtInv'
    BY <1>1, <2>1, <2>2, <2>4 DEF SetTxtRecord, CertificateIInv, CertificateTypeOK,
       TxtRecords, TxtInv
  <2>6. txt' \subseteq TxtRecords /\ stranded' \subseteq TxtRecords
    BY <2>2, <2>3 DEF CertificateIInv, CertificateTypeOK
  <2> QED
    BY <1>1, <2>1, <2>2, <2>5, <2>6, Elsewhere
       DEF SetTxtRecord, CertificateIInv, CertificateTypeOK
<1>2. CASE VerifyChallenge(o)
  <2>1. PICK valid \in BOOLEAN : op' = [op EXCEPT ![o].pc = "list", ![o].found = valid]
    BY <1>2 DEF VerifyChallenge
  <2> DEFINE next == [op[o] EXCEPT !.pc = "list", !.found = valid]
  <2>2. /\ next \in OpType /\ next.pc = "list" /\ next.kind = "ACME"
        /\ next.name = op[o].name
    BY <1>2, <1>a DEF VerifyChallenge, CertificateIInv, AcmeInv, OpType, OpPc
  <2>3. op' = [op EXCEPT ![o] = next]
    BY <1>a, <2>1 DEF OpType
  <2> HIDE DEF next
  <2>4. /\ op'[o] = next /\ \A p \in Ops \ {o} : op'[p] = op[p]
    BY <2>2, <2>3, OpMoves DEF CertificateIInv
  <2>5. TxtInv'
    <3>1. UNCHANGED <<txt, stranded>> /\ op[o].pc = "verify" /\ TxtInv
          /\ txt \subseteq TxtRecords
      BY <1>2 DEF VerifyChallenge, CertificateIInv, CertificateTypeOK, dns
    <3>2. \A r \in txt : r.by = o \/ r.by \in Ops \ {o}
      BY <3>1 DEF TxtRecords
    <3> QED BY <2>2, <2>4, <3>1, <3>2 DEF TxtInv
  <2> QED
    BY <1>2, <2>2, <2>3, <2>5, Elsewhere
       DEF VerifyChallenge, CertificateIInv, CertificateTypeOK, dns
<1>3. CASE ListTxtRecords(o)
  <2> DEFINE records == {r \in txt : r.name = op[o].name}
             next == [op[o] EXCEPT !.pc = "delete", !.records = records]
  <2>1. records \subseteq TxtRecords
    BY DEF CertificateIInv, CertificateTypeOK
  <2>2. /\ next \in OpType /\ next.pc = "delete" /\ next.kind = "ACME"
        /\ next.name = op[o].name /\ next.records = records
    BY <1>3, <1>a, <2>1 DEF ListTxtRecords, CertificateIInv, AcmeInv, OpType, OpPc
  <2>3. op' = [op EXCEPT ![o] = next]
    BY <1>3, <1>a DEF ListTxtRecords, OpType
  <2> HIDE DEF next
  <2>4. /\ op'[o] = next /\ \A p \in Ops \ {o} : op'[p] = op[p]
    BY <2>2, <2>3, OpMoves DEF CertificateIInv
  <2>5. TxtInv'
    <3>1. UNCHANGED <<txt, stranded>> /\ op[o].pc = "list" /\ TxtInv
          /\ txt \subseteq TxtRecords
      BY <1>3 DEF ListTxtRecords, CertificateIInv, CertificateTypeOK, dns
    <3>2. \A r \in txt : r.by = o \/ r.by \in Ops \ {o}
      BY <3>1 DEF TxtRecords
    <3> QED BY <2>2, <2>4, <3>1, <3>2 DEF TxtInv
  <2> QED
    BY <1>3, <2>2, <2>3, <2>5, Elsewhere
       DEF ListTxtRecords, CertificateIInv, CertificateTypeOK, dns
<1>4. CASE DeleteTxtRecord(o)
  <2>1. PICK r \in op[o].records :
          /\ op' = [op EXCEPT ![o].records = @ \ {r}]
          /\ \/ txt' = txt \ {r} /\ UNCHANGED <<stranded, faults>>
             \/ /\ faults < MaxFaults
                /\ faults' = faults + 1
                /\ stranded' = stranded \cup {r} /\ UNCHANGED txt
    BY <1>4 DEF DeleteTxtRecord
  <2> DEFINE next == [op[o] EXCEPT !.records = op[o].records \ {r}]
  <2>2. /\ next \in OpType /\ next.pc = "delete" /\ next.kind = "ACME"
        /\ next.name = op[o].name /\ next.records = op[o].records \ {r}
        /\ r \in TxtRecords
    BY <1>4, <1>a DEF DeleteTxtRecord, CertificateIInv, AcmeInv, OpType
  <2>3. op' = [op EXCEPT ![o] = next] /\ op[o].pc = "delete"
    BY <1>4, <1>a, <2>1 DEF DeleteTxtRecord, OpType
  <2> HIDE DEF next
  <2>4. /\ op'[o] = next /\ \A p \in Ops \ {o} : op'[p] = op[p]
    BY <2>2, <2>3, OpMoves DEF CertificateIInv
  <2>5. /\ txt' \ stranded' \subseteq (txt \ stranded) \ {r}
        /\ txt' \subseteq TxtRecords /\ stranded' \subseteq TxtRecords
        /\ faults' \in Nat
    BY <2>1, <2>2 DEF CertificateIInv, CertificateTypeOK
  <2>6. TxtInv'
    <3>1. TxtInv /\ txt \subseteq TxtRecords
      BY DEF CertificateIInv, CertificateTypeOK
    <3>2. \A q \in txt : q.by = o \/ q.by \in Ops \ {o}
      BY <3>1 DEF TxtRecords
    <3> QED BY <2>2, <2>3, <2>4, <2>5, <3>1, <3>2 DEF TxtInv
  <2> QED
    BY <1>4, <2>2, <2>3, <2>5, <2>6, Elsewhere DEF DeleteTxtRecord
<1>5. CASE Cleared(o)
  <2>1. PICK next \in {NoOp, [NoOp EXCEPT !.pc = "finalize"]} :
          op' = [op EXCEPT ![o] = next]
    BY <1>5 DEF Cleared, Done
  <2>2. next \in OpType /\ next.pc \in {"idle", "finalize"}
    BY <1>b, <2>1
  <2>3. /\ op'[o] = next /\ \A p \in Ops \ {o} : op'[p] = op[p]
    BY <2>1, <2>2, OpMoves DEF CertificateIInv
  <2>4. TxtInv'
    <3>1. /\ UNCHANGED <<txt, stranded>> /\ op[o].pc = "delete" /\ op[o].records = {}
          /\ TxtInv /\ txt \subseteq TxtRecords
      BY <1>5 DEF Cleared, CertificateIInv, CertificateTypeOK, dns
    <3>2. \A q \in txt : q.by = o \/ q.by \in Ops \ {o}
      BY <3>1 DEF TxtRecords
    <3> QED BY <2>3, <3>1, <3>2 DEF TxtInv
  <2> QED
    BY <1>5, <2>1, <2>2, <2>4, Elsewhere
       DEF Cleared, CertificateIInv, CertificateTypeOK, dns
<1>6. CASE Fail(o)
  <2> DEFINE r == [name |-> op[o].name, by |-> o]
  <2>1. /\ faults' \in Nat /\ stranded' = stranded \cup {r} /\ txt' = txt
        /\ op' = [op EXCEPT ![o] = NoOp] /\ UNCHANGED <<store, evidence>>
    BY <1>6 DEF Fail, Done, CertificateIInv, CertificateTypeOK
  <2>2. r \in TxtRecords
    BY <1>a DEF OpType, TxtRecords
  <2>3. /\ op'[o] = NoOp /\ \A p \in Ops \ {o} : op'[p] = op[p]
    BY <1>b, <2>1, OpMoves DEF CertificateIInv
  <2>4. TxtInv'
    <3>1. TxtInv /\ txt \subseteq TxtRecords
      BY DEF CertificateIInv, CertificateTypeOK
    <3>2. \A q \in txt \ stranded : q.by = o => q = r
      BY <3>1 DEF TxtInv, TxtRecords
    <3>3. \A q \in txt : q.by = o \/ q.by \in Ops \ {o}
      BY <3>1 DEF TxtRecords
    <3> QED BY <2>1, <2>3, <3>1, <3>2, <3>3 DEF TxtInv
  <2>5. txt' \subseteq TxtRecords /\ stranded' \subseteq TxtRecords
    BY <2>1, <2>2 DEF CertificateIInv, CertificateTypeOK
  <2> QED
    BY <1>b, <2>1, <2>4, <2>5, Elsewhere
<1> QED BY <1>1, <1>2, <1>3, <1>4, <1>5, <1>6

(* The steps that bring a certificate, or do not.                          *)
LEMMA ProviderStep ==
  ASSUME CertificateIInv, NEW o \in Ops,
         StartImport(o) \/ StartProvision(o) \/ FinalizeOrder(o) \/ Poll(o)
           \/ RunScript(o)
  PROVE  CertificateIInv'
<1>a. op[o] \in OpType
  BY DEF CertificateIInv, CertificateTypeOK
<1>b. op[o].pc \in {"idle", "finalize", "poll", "script"}
  BY DEF StartImport, StartProvision, FinalizeOrder, Poll, RunScript
<1>1. CASE \E c \in Certs : \E key \in {None, c} : \E kind \in {"import", "issued"} :
             Obtains(o, c, key, kind)
  <2>1. op[o].kind # "ACME" \/ op[o].pc \notin {"verify", "list", "delete"}
    BY <1>b
  <2> QED BY ONLY <1>1, <2>1, ObtainStep, CertificateIInv, o \in Ops
<1>2. CASE \E next \in OpType :
             /\ op' = [op EXCEPT ![o] = next]
             /\ next.pc \in {"set", "poll", "script", "idle"}
             /\ next.pc = "set" => next.kind = "ACME"
             /\ UNCHANGED <<store, dns, evidence, faults>>
  <2> PICK next \in OpType :
        /\ op' = [op EXCEPT ![o] = next]
        /\ next.pc \in {"set", "poll", "script", "idle"}
        /\ next.pc = "set" => next.kind = "ACME"
        /\ UNCHANGED <<store, dns, evidence, faults>>
    BY <1>2
  <2>1. TxtInv'
    BY <1>b, TxtKept
  <2> QED BY <2>1, Elsewhere DEF CertificateIInv, CertificateTypeOK, dns
<1>3. CASE StartImport(o)
  BY <1>1, <1>3 DEF Obtains, StartImport, Parsed, MatchingKeys
<1>4. CASE StartProvision(o)
  <2>1. /\ \A n \in Names :
             [NoOp EXCEPT !.pc = "set", !.kind = "ACME", !.name = n] \in OpType
        /\ [NoOp EXCEPT !.pc = "poll"] \in OpType
        /\ [NoOp EXCEPT !.pc = "script"] \in OpType
    BY DEF NoOp, OpType, OpPc, OpKind
  <2>2. /\ \A n \in Names :
             /\ [NoOp EXCEPT !.pc = "set", !.kind = "ACME", !.name = n].pc = "set"
             /\ [NoOp EXCEPT !.pc = "set", !.kind = "ACME", !.name = n].kind = "ACME"
        /\ [NoOp EXCEPT !.pc = "poll"].pc = "poll"
        /\ [NoOp EXCEPT !.pc = "script"].pc = "script"
    BY DEF NoOp
  <2> QED BY <1>2, <1>4, <2>1, <2>2 DEF StartProvision
<1>c. CASE Done(o) /\ UNCHANGED <<store, dns, evidence, faults>>
  <2>1. NoOp \in OpType /\ NoOp.pc = "idle"
    BY DEF NoOp, OpType, OpPc, OpKind
  <2> QED BY <1>2, <1>c, <2>1 DEF Done
<1>5. CASE FinalizeOrder(o)
  BY <1>1, <1>5 DEF Obtains, FinalizeOrder, Obtain, Parsed
<1>6. CASE Poll(o)
  <2>1. CASE \E c \in Parsed \ issued : Obtain(o, c, None)
    BY <1>1, <2>1 DEF Obtains, Obtain, Parsed
  <2>2. CASE op' = [op EXCEPT ![o].polls = @ + 1]
             /\ UNCHANGED <<store, dns, evidence, faults>>
    <3>1. /\ [op[o] EXCEPT !.polls = @ + 1] \in OpType
          /\ [op[o] EXCEPT !.polls = @ + 1].pc = "poll"
      BY <1>a, <1>6 DEF Poll, OpType
    <3> QED BY <1>2, <2>2, <3>1
  <2> QED BY <1>6, <1>c, <2>1, <2>2 DEF Poll
<1>7. CASE RunScript(o)
  BY <1>1, <1>7, <1>c DEF Obtains, RunScript, Obtain, Parsed, MatchingKeys
<1> QED BY <1>3, <1>4, <1>5, <1>6, <1>7

(* The row of the serial number is looked for, and then written.           *)
LEMMA RowStep ==
  ASSUME CertificateIInv, NEW o \in Ops, FindRow(o) \/ WriteRow(o)
  PROVE  CertificateIInv'
<1>a. op[o] \in OpType /\ op[o].cert \in Certs /\ op[o].key \in {None, op[o].cert}
  BY DEF CertificateIInv, CertificateTypeOK, OpInv, FindRow, WriteRow
<1>b. op[o].pc \in {"find", "write"}
  BY DEF FindRow, WriteRow
<1>1. CASE FindRow(o)
  <2> DEFINE found == row[Serial[op[o].cert]].status # "absent"
             next == [op[o] EXCEPT !.pc = "write", !.found = found]
  <2>1. /\ next \in OpType /\ next.pc = "write"
        /\ next.cert = op[o].cert /\ next.key = op[o].key
    BY <1>a DEF OpType, OpPc
  <2>2. op' = [op EXCEPT ![o] = next] /\ op[o].pc = "find"
    BY <1>1, <1>a DEF FindRow, OpType
  <2> HIDE DEF next
  <2>3. TxtInv'
    BY <1>1, <1>b, <2>1, <2>2, TxtKept DEF FindRow
  <2> QED
    BY <1>1, <2>1, <2>2, <2>3, Elsewhere
       DEF FindRow, CertificateIInv, CertificateTypeOK, dns
<1>2. CASE WriteRow(o)
  <2> DEFINE s == Serial[op[o].cert]
             old == row[s]
             refused == ~op[o].found /\ old.status # "absent"
             new == IF op[o].kind = "import" THEN Imported(o, old) ELSE Persisted(o, old)
  <2>1. s \in Serials /\ old \in RowType
    BY <1>a DEF Serials, CertificateIInv, CertificateTypeOK
  <2>2. new \in RowType
    BY <1>a, <2>1 DEF Imported, Persisted, RowType
  <2>3. ~KeyKept(o, old) => new.key \in {None, new.cert}
    BY <1>a, <2>1 DEF Imported, Persisted, KeyKept, RowType
  <2>4. /\ row' = IF refused THEN row ELSE [row EXCEPT ![s] = new]
        /\ reissued' = CASE refused -> reissued
                         [] KeyKept(o, old) -> reissued \cup {s}
                         [] OTHER -> reissued \ {s}
        /\ evidence' = [x \in Signers |->
             IF evidence[x].serial = s /\ row'[s].cert # old.cert
             THEN [evidence[x] EXCEPT !.replaced = TRUE] ELSE evidence[x]]
        /\ Done(o) /\ UNCHANGED <<issued, expired, dns, faults>>
    BY <1>2 DEF WriteRow
  <2> HIDE DEF s, old, refused, new
  <2>5. NoOp \in OpType /\ NoOp.pc = "idle"
    BY DEF NoOp, OpType, OpPc, OpKind
  <2>6. /\ op' \in [Ops -> OpType]
        /\ op'[o] = NoOp
        /\ \A p \in Ops \ {o} : op'[p] = op[p]
    BY <2>4, <2>5, OpMoves DEF CertificateIInv, Done
  <2>7. TxtInv'
    BY <1>b, <2>4, <2>5, TxtKept DEF Done
  <2>8. row' \in [Serials -> RowType] /\ reissued' \subseteq Serials
    BY <2>1, <2>2, <2>4 DEF CertificateIInv, CertificateTypeOK
  <2>13. ASSUME NEW x \in Signers
         PROVE  /\ evidence'[x] \in EvidenceType
                /\ evidence'[x].serial = evidence[x].serial
                /\ \/ evidence'[x] = evidence[x]
                   \/ evidence'[x].replaced /\ evidence[x].serial = s
                /\ ~evidence'[x].replaced =>
                     /\ evidence'[x] = evidence[x]
                     /\ evidence[x].serial = s => row'[s].cert = row[s].cert
    <3>1. evidence[x] \in EvidenceType
      BY DEF CertificateIInv, CertificateTypeOK
    <3> QED BY <2>4, <3>1 DEF EvidenceType, old
  <2>14. evidence' \in [Signers -> EvidenceType]
    BY <2>4, <2>13
  <2>9. CertificateTypeOK'
    BY <2>4, <2>6, <2>8, <2>14 DEF CertificateIInv, CertificateTypeOK, dns
  <2>10. OpInv' /\ AcmeInv'
    BY <2>5, <2>6 DEF CertificateIInv, OpInv, AcmeInv
  <2>11. RowInv'
    <3>1. CASE refused
      BY <2>4, <3>1 DEF CertificateIInv, RowInv
    <3>2. CASE ~refused
      BY <2>1, <2>3, <2>4, <3>2 DEF CertificateIInv, CertificateTypeOK, RowInv
    <3> QED BY <3>1, <3>2
  <2>12. NamesRow' /\ SignatureVerifies'
    <3>1. NamesRow'
      BY <2>1, <2>13 DEF CertificateIInv, NamesRow
    <3>2. \A u \in Serials \ {s} : row'[u] = row[u]
      BY <2>4 DEF CertificateIInv, CertificateTypeOK
    <3>3. SignatureVerifies'
      BY <2>13, <3>1, <3>2 DEF CertificateIInv, NamesRow, SignatureVerifies
    <3> QED BY <3>1, <3>3
  <2> QED BY <2>7, <2>9, <2>10, <2>11, <2>12 DEF CertificateIInv
<1> QED BY <1>1, <1>2

LEMMA RevokeStep ==
  ASSUME CertificateIInv, NEW s \in Serials, Revoke(s)
  PROVE  CertificateIInv'
<1>1. /\ row' \in [Serials -> RowType]
      /\ \A t \in Serials : row'[t].key = row[t].key /\ row'[t].cert = row[t].cert
  <2> DEFINE revoked == [row[s] EXCEPT !.status = "REVOKED", !.revoked = TRUE]
  <2>1. row[s] \in RowType
    BY DEF CertificateIInv, CertificateTypeOK
  <2>2. row' = [row EXCEPT ![s] = revoked]
    BY <2>1 DEF Revoke, RowType
  <2>3. revoked \in RowType /\ revoked.key = row[s].key /\ revoked.cert = row[s].cert
    BY <2>1 DEF RowType
  <2> HIDE DEF revoked
  <2> QED BY <2>2, <2>3 DEF CertificateIInv, CertificateTypeOK
<1> QED
  BY <1>1 DEF Revoke, CertificateIInv, CertificateTypeOK, OpInv, RowInv, TxtInv,
     AcmeInv, NamesRow, SignatureVerifies, dns

LEMMA ExpireStep ==
  ASSUME CertificateIInv, NEW c \in Certs, Expire(c)
  PROVE  CertificateIInv'
BY DEF Expire, CertificateIInv, CertificateTypeOK, OpInv, RowInv, TxtInv, AcmeInv,
   NamesRow, SignatureVerifies, dns

LEMMA SignWithCertificateStep ==
  ASSUME CertificateIInv, NEW x \in Signers, SignWithCertificate(x)
  PROVE  CertificateIInv'
<1>1. PICK s \in Serials : \E key \in {row[s].cert, row[s].key} \ {None} :
        evidence' = [evidence EXCEPT ![x] =
          [serial |-> s, key |-> key, keptKey |-> s \in reissued, replaced |-> FALSE]]
  BY DEF SignWithCertificate
<1>2. PICK key \in {row[s].cert, row[s].key} \ {None} :
        evidence' = [evidence EXCEPT ![x] =
          [serial |-> s, key |-> key, keptKey |-> s \in reissued, replaced |-> FALSE]]
  BY <1>1
<1>3. row[s] \in RowType
  BY DEF CertificateIInv, CertificateTypeOK
<1>4. s \notin reissued => key = row[s].cert
  BY <1>2, <1>3 DEF CertificateIInv, RowInv
<1>5. evidence' \in [Signers -> EvidenceType]
  BY <1>2, <1>3 DEF CertificateIInv, CertificateTypeOK, RowType, EvidenceType
<1>6. NamesRow' /\ SignatureVerifies'
  BY <1>2, <1>4 DEF SignWithCertificate, store, CertificateIInv, CertificateTypeOK,
     NamesRow, SignatureVerifies
<1> QED
  BY <1>5, <1>6 DEF SignWithCertificate, store, CertificateIInv, CertificateTypeOK,
     OpInv, RowInv, TxtInv, AcmeInv, dns

LEMMA CertificatesInvariance == CertificatesSpec => []CertificateIInv
<1>1. CertificateIInv /\ [CertificatesNext]_certificateVars => CertificateIInv'
  <2>1. CertificateIInv /\ UNCHANGED certificateVars => CertificateIInv'
    BY DEF CertificateIInv, CertificateTypeOK, OpInv, RowInv, TxtInv, AcmeInv,
       NamesRow, SignatureVerifies, certificateVars, store, dns
  <2> QED
    BY <2>1, ChallengeStep, ProviderStep, RowStep, RevokeStep, ExpireStep,
       SignWithCertificateStep DEF CertificatesNext, Serve
<1> QED BY CertificatesInit_IInv, <1>1, PTL DEF CertificatesSpec

(* A signature verifies against the certificate that its row holds, until  *)
(* another one with the number replaces it: signWithCertificate, and the   *)
(* writes of importCertificate and persistIssued.                          *)
THEOREM SignaturesVerify == CertificatesSpec => []SignatureVerifies
<1>1. CertificateIInv => SignatureVerifies
  BY DEF CertificateIInv
<1> QED BY CertificatesInvariance, <1>1, PTL

(* No TXT record outlives its order, but those of calls that died and      *)
(* those that the DNS refused to delete.                                   *)
THEOREM DnsIsCleaned == CertificatesSpec => []DnsClean
<1>1. CertificateIInv => DnsClean
  BY DEF CertificateIInv, TxtInv, DnsClean
<1> QED BY CertificatesInvariance, <1>1, PTL
-----------------------------------------------------------------------------
(***************************************************************************)
(* DemoSession, for any number of visitors and sessions.                   *)
(***************************************************************************)
VisitPc == {"idle", "open", "signer", "documents", "create", "request", "token",
            "fields"}

DemoTypeOK ==
  /\ made \in Nat
  /\ document \subseteq Nat \ {NoSession} /\ requests \subseteq document
  /\ placed \subseteq Nat
  /\ holder \in requests \cup {NoSession}
  /\ visit \in [Visitors -> [pc : VisitPc, doc : Nat]]
  /\ shown \in [Visitors -> Nat]
  /\ faults \in Nat

(* A call that will not give up before there is a signer, unless another   *)
(* reset goes over its session; and then that one will not.                *)
Viable(v) ==
  \/ visit[v].pc \in {"documents", "create"}
  \/ visit[v].pc = "request" /\ visit[v].doc \in document
  \/ visit[v].pc = "token" /\ visit[v].doc \in requests

(* Nobody has the token: a call is on its way to give it to somebody.      *)
TokenInv ==
  faults = 0 /\ made > 0 /\ holder = NoSession => \E v \in Visitors : Viable(v)

(* Somebody has, without their fields: the call that made them is there.   *)
PlaceInv ==
  faults = 0 /\ holder \notin placed \cup {NoSession} =>
    \E v \in Visitors : visit[v].pc = "fields" /\ visit[v].doc = holder

DemoIInv == DemoTypeOK /\ TokenInv /\ PlaceInv

LEMMA DemoInit_IInv == DemoInit => DemoIInv
BY DEF DemoInit, DemoIInv, DemoTypeOK, TokenInv, PlaceInv, NoVisit, NoSession, VisitPc

LEMMA VisitMoves ==
  ASSUME DemoTypeOK, NEW v \in Visitors, NEW next \in [pc : VisitPc, doc : Nat],
         visit' = [visit EXCEPT ![v] = next]
  PROVE  /\ visit' \in [Visitors -> [pc : VisitPc, doc : Nat]]
         /\ visit'[v] = next
         /\ \A w \in Visitors \ {v} : visit'[w] = visit[w]
BY DEF DemoTypeOK

LEMMA VisitAtMoves ==
  ASSUME DemoTypeOK, NEW v \in Visitors, NEW pc \in VisitPc, VisitAt(v, pc)
  PROVE  /\ visit' \in [Visitors -> [pc : VisitPc, doc : Nat]]
         /\ visit'[v].pc = pc /\ visit'[v].doc = visit[v].doc
         /\ \A w \in Visitors \ {v} : visit'[w] = visit[w]
BY DEF VisitAt, DemoTypeOK

LEMMA LeaveMoves ==
  ASSUME DemoTypeOK, NEW v \in Visitors, Leave(v)
  PROVE  /\ visit' \in [Visitors -> [pc : VisitPc, doc : Nat]]
         /\ visit'[v].pc = "idle"
         /\ \A w \in Visitors \ {v} : visit'[w] = visit[w]
BY DEF Leave, DemoTypeOK, NoVisit, NoSession, VisitPc

(* The steps of a reset, by what they leave to whoever comes after.        *)
LEMMA DemoStep ==
  ASSUME DemoIInv, NEW v \in Visitors,
         Check(v) \/ Reset(v) \/ Open(v) \/ Conclude(v) \/ ResetDies(v)
  PROVE  DemoIInv'
<1> USE DEF DemoIInv
<1>a. VisitPc = {"idle", "open", "signer", "documents", "create", "request",
                 "token", "fields"}
  BY DEF VisitPc
<1>1. CASE Check(v)
  <2>1. PICK pc \in {"open", "signer"} : VisitAt(v, pc)
    BY <1>1 DEF Check
  <2>2. /\ visit' \in [Visitors -> [pc : VisitPc, doc : Nat]]
        /\ visit[v].pc = "idle"
        /\ \A w \in Visitors \ {v} : visit'[w] = visit[w]
    BY <1>1, <2>1, <1>a, VisitAtMoves DEF Check
  <2> QED BY <1>1, <2>2 DEF Check, DemoTypeOK, TokenInv, PlaceInv, Viable
<1>2. CASE DeleteSigner(v)
  <2>1. /\ visit' \in [Visitors -> [pc : VisitPc, doc : Nat]]
        /\ visit'[v].pc = "documents"
    BY <1>2, <1>a, VisitAtMoves DEF DeleteSigner
  <2> QED BY <1>2, <2>1 DEF DeleteSigner, DemoTypeOK, TokenInv, PlaceInv, Viable
<1>3. CASE DeleteDocuments(v)
  <2>1. /\ visit' \in [Visitors -> [pc : VisitPc, doc : Nat]]
        /\ visit'[v].pc = "create"
    BY <1>3, <1>a, VisitAtMoves DEF DeleteDocuments
  <2> QED BY <1>3, <2>1 DEF DeleteDocuments, DemoTypeOK, TokenInv, PlaceInv, Viable
<1>4. CASE CreateDocument(v)
  <2>1. /\ visit' \in [Visitors -> [pc : VisitPc, doc : Nat]]
        /\ visit'[v] = [pc |-> "request", doc |-> made']
        /\ \A w \in Visitors \ {v} : visit'[w] = visit[w]
    BY <1>4, <1>a, VisitMoves DEF CreateDocument, DemoTypeOK
  <2>2. made' \in Nat /\ made' # NoSession /\ made' \in document'
        /\ visit[v].pc = "create"
    BY <1>4 DEF CreateDocument, DemoTypeOK, NoSession
  <2>3. DemoTypeOK'
    BY <1>4, <2>1, <2>2 DEF CreateDocument, DemoTypeOK
  <2>4. TokenInv'
    BY <2>1, <2>2 DEF TokenInv, Viable
  <2>5. PlaceInv'
    BY <1>4, <2>1, <2>2 DEF CreateDocument, PlaceInv
  <2> QED BY <2>3, <2>4, <2>5
<1>5. CASE CreateDemoRequest(v)
  <2>1. CASE visit[v].doc \in document
    <3>1. /\ visit' \in [Visitors -> [pc : VisitPc, doc : Nat]]
          /\ visit'[v].pc = "token" /\ visit'[v].doc = visit[v].doc
          /\ \A w \in Visitors \ {v} : visit'[w] = visit[w]
          /\ requests' = requests \cup {visit[v].doc}
      BY <1>5, <2>1, <1>a, VisitAtMoves DEF CreateDemoRequest
    <3> QED BY <1>5, <2>1, <3>1 DEF CreateDemoRequest, DemoTypeOK, TokenInv,
              PlaceInv, Viable
  <2>2. CASE visit[v].doc \notin document
    <3>1. /\ visit' \in [Visitors -> [pc : VisitPc, doc : Nat]]
          /\ \A w \in Visitors \ {v} : visit'[w] = visit[w]
          /\ visit[v].pc = "request" /\ ~Viable(v)
      BY <1>5, <2>2, LeaveMoves DEF CreateDemoRequest, Viable
    <3> QED BY <1>5, <2>2, <3>1 DEF CreateDemoRequest, DemoTypeOK, TokenInv,
              PlaceInv, Viable
  <2> QED BY <2>1, <2>2
<1>6. CASE CreateSigner(v)
  <2>1. CASE visit[v].doc \in requests /\ holder = NoSession
    <3>1. /\ visit' \in [Visitors -> [pc : VisitPc, doc : Nat]]
          /\ visit'[v].pc = "fields" /\ visit'[v].doc = visit[v].doc
          /\ holder' = visit[v].doc /\ holder' # NoSession
      BY <1>6, <2>1, <1>a, VisitAtMoves DEF CreateSigner, DemoTypeOK
    <3> QED BY <1>6, <2>1, <3>1 DEF CreateSigner, DemoTypeOK, TokenInv, PlaceInv
  <2>2. CASE ~(visit[v].doc \in requests /\ holder = NoSession)
    <3>1. /\ visit' \in [Visitors -> [pc : VisitPc, doc : Nat]]
          /\ \A w \in Visitors \ {v} : visit'[w] = visit[w]
          /\ visit[v].pc = "token" /\ holder' = holder
      BY <1>6, <2>2, LeaveMoves DEF CreateSigner
    <3> QED BY <1>6, <2>2, <3>1 DEF CreateSigner, DemoTypeOK, TokenInv,
              PlaceInv, Viable
  <2> QED BY <2>1, <2>2
<1>7. CASE CreateFields(v)
  <2>1. CASE holder = visit[v].doc
    <3>1. /\ visit' \in [Visitors -> [pc : VisitPc, doc : Nat]]
          /\ \A w \in Visitors \ {v} : visit'[w] = visit[w]
          /\ visit[v].pc = "fields" /\ placed' = placed \cup {holder}
      BY <1>7, <2>1, <1>a, VisitAtMoves DEF CreateFields
    <3> QED BY <1>7, <2>1, <3>1 DEF CreateFields, DemoTypeOK, TokenInv, PlaceInv,
              Viable, NoSession
  <2>2. CASE holder # visit[v].doc
    <3>1. /\ visit' \in [Visitors -> [pc : VisitPc, doc : Nat]]
          /\ \A w \in Visitors \ {v} : visit'[w] = visit[w]
          /\ visit[v].pc = "fields" /\ placed' = placed
      BY <1>7, <2>2, LeaveMoves DEF CreateFields
    <3> QED BY <1>7, <2>2, <3>1 DEF CreateFields, DemoTypeOK, TokenInv, PlaceInv,
              Viable
  <2> QED BY <2>1, <2>2
<1>8. CASE Open(v)
  <2>1. /\ visit' \in [Visitors -> [pc : VisitPc, doc : Nat]]
        /\ \A w \in Visitors \ {v} : visit'[w] = visit[w]
        /\ visit[v].pc = "open"
    BY <1>8, LeaveMoves DEF Open
  <2>2. shown' \in [Visitors -> Nat]
    BY <1>8 DEF Open, DemoTypeOK, NoSession
  <2> QED BY <1>8, <2>1, <2>2 DEF Open, DemoTypeOK, TokenInv, PlaceInv, Viable
<1>9. CASE Conclude(v)
  BY <1>9 DEF Conclude, DemoTypeOK, TokenInv, PlaceInv, Viable, NoSession
<1>10. CASE ResetDies(v)
  <2>1. visit' \in [Visitors -> [pc : VisitPc, doc : Nat]] /\ faults' # 0
    BY <1>10, LeaveMoves DEF ResetDies, DemoTypeOK
  <2> QED BY <1>10, <2>1 DEF ResetDies, DemoTypeOK, TokenInv, PlaceInv
<1> QED
  BY <1>1, <1>2, <1>3, <1>4, <1>5, <1>6, <1>7, <1>8, <1>9, <1>10 DEF Reset

(* However many visitors reset the demo room at once, it heals.            *)
THEOREM DemoRoomHeals == DemoSpec => []DemoHeals
<1>1. DemoIInv /\ [DemoNext]_demoVars => DemoIInv'
  <2>1. DemoIInv /\ UNCHANGED demoVars => DemoIInv'
    BY DEF DemoIInv, DemoTypeOK, TokenInv, PlaceInv, Viable, demoVars
  <2> QED BY <2>1, DemoStep DEF DemoNext
<1>2. DemoIInv => DemoHeals
  <2> SUFFICES ASSUME DemoIInv, made > 0, faults = 0,
                      \A v \in Visitors : visit[v].pc = "idle"
               PROVE  holder \in document \cap requests \cap placed
    BY DEF DemoHeals
  <2>1. holder # NoSession
    BY DEF DemoIInv, TokenInv, Viable
  <2>2. holder \in placed
    BY <2>1 DEF DemoIInv, PlaceInv
  <2> QED BY <2>1, <2>2 DEF DemoIInv, DemoTypeOK
<1> QED BY DemoInit_IInv, <1>1, <1>2, PTL DEF DemoSpec
=============================================================================
