-------------------------- MODULE DocumentsProofs ---------------------------
(***************************************************************************)
(* Proofs about Documents.                                                 *)
(*                                                                         *)
(* PointerIsLatest and NoDanglingKey rest on what a call knows between two *)
(* of its steps (CallInv), VersionsImmutable also on the keys of the       *)
(* objects (KeyInv), and IndexCurrent on what the requests to the search   *)
(* index carry (RequestInv); all for any number of writers.  With one at a *)
(* time every object holds what its row says (ContentInv), and the         *)
(* document implements VersionHistory.                                     *)
(***************************************************************************)
EXTENDS Documents, Sequences, TLAPS

(* A call between the read of the document and its write.                  *)
Uploading(c) == call[c].pc \in {"putFirst", "create"}
Adding(c) == call[c].pc \in {"putNext", "insert", "commit"}

(* What the steps of a call rest on: an upload finds no document, another  *)
(* version is numbered at most one above the document's, and exactly one   *)
(* above once its transaction is open.                                     *)
UploadInv ==
  /\ \A c \in Calls : Uploading(c) =>
       /\ ~Exists
       /\ call[c].version = 1 /\ 1 \in Versions
       /\ call[c].row \in RowType
  /\ \A c, d \in Calls : Uploading(c) /\ Uploading(d) => c = d

AddInv ==
  \A c \in Calls : Adding(c) =>
    /\ Exists
    /\ call[c].version \in Versions
    /\ call[c].version <= document.version + 1
    /\ call[c].row \in RowType

CommitInv ==
  /\ \A c \in Calls : call[c].pc = "commit" =>
       call[c].version = document.version + 1
  /\ \A c, d \in Calls : call[c].pc = "commit" /\ call[d].pc = "commit" => c = d

GetInv ==
  \A c \in Calls : call[c].pc = "get" =>
    /\ call[c].version \in Versions
    /\ call[c].row = versions[call[c].version]
    /\ call[c].row # NoRow

CallInv == UploadInv /\ AddInv /\ CommitInv /\ GetInv

(* The object of a row that is about to be written is stored.              *)
StoredInv ==
  \A c \in Calls : call[c].pc \in {"create", "insert", "commit"} =>
    object[call[c].row.key] # None

(* A document that is there was created, which is its first change.        *)
CreatedInv == Exists => changes > 0

IInv ==
  /\ TypeOK /\ PointerIsLatest /\ CallInv
  /\ NoDanglingKey /\ StoredInv /\ CreatedInv

-----------------------------------------------------------------------------
(* A row that is there is not NoRow, and its key is not NoRow's.           *)
LEMMA Rows == \A r \in RowType : r # NoRow /\ r.file # None /\ r.key \in Key
BY DocumentAssumption DEF RowType, NoRow

(* The key of a version is a key, numbered like the version.               *)
LEMMA Keys ==
  \A v \in Versions, f \in Files : KeyOf(v, f) \in Key /\ KeyOf(v, f)[1] = v
BY DocumentAssumption DEF KeyOf, Key

(* The two ways a call moves on keep its type.                             *)
LEMMA Moves ==
  ASSUME NEW c \in Calls, call \in [Calls -> CallType]
  PROVE  /\ \A pc \in Pc : Goto(c, pc) => call' \in [Calls -> CallType]
         /\ Return(c) => call' \in [Calls -> CallType]
<1>1. ASSUME NEW pc \in Pc, Goto(c, pc) PROVE call' \in [Calls -> CallType]
  BY <1>1 DEF Goto, CallType
<1>2. Idle \in CallType
  BY DocumentAssumption DEF Idle, CallType, Pc
<1> QED BY <1>1, <1>2 DEF Return

LEMMA InitIInv == Init => IInv
<1> SUFFICES ASSUME Init PROVE IInv
  OBVIOUS
<1>1. TypeOK
  BY DocumentAssumption
  DEF Init, TypeOK, DocumentType, NoRow, Entry, NoEntry, RequestType,
      CallType, Idle, Pc
<1>2. PointerIsLatest
  BY DocumentAssumption DEF Init, PointerIsLatest, Versions, Exists
<1>3. CallInv
  BY DEF Init, CallInv, UploadInv, AddInv, CommitInv, GetInv, Uploading, Adding,
     Idle
<1>4. NoDanglingKey /\ StoredInv /\ CreatedInv
  BY DEF Init, NoDanglingKey, StoredInv, CreatedInv, Exists, Idle
<1> QED BY <1>1, <1>2, <1>3, <1>4 DEF IInv

-----------------------------------------------------------------------------
(* Every step keeps the types.                                             *)
LEMMA TypeStep ==
  ASSUME IInv, NEW c \in Calls, Step(c)
  PROVE  TypeOK'
<1> USE DocumentAssumption DEF searchVars
<1>a. /\ document \in DocumentType
      /\ versions \in [Versions -> RowType \cup {NoRow}]
      /\ object \in [Key -> Files \cup {None}]
      /\ requests \subseteq RequestType /\ changes \in Nat
      /\ call \in [Calls -> CallType]
      /\ TypeOK
  BY DEF IInv, TypeOK
<1>b. \A pc \in Pc : Goto(c, pc) => call' \in [Calls -> CallType]
  BY <1>a, Moves
<1>c. Return(c) => call' \in [Calls -> CallType]
  BY <1>a, Moves
<1>d. /\ Uploading(c) \/ Adding(c) => call[c].row \in RowType
      /\ Uploading(c) => 1 \in Versions
      /\ Adding(c) => call[c].version \in Versions
      /\ call[c].pc = "get" => /\ call[c].version \in Versions
                              /\ call[c].row \in RowType
  BY <1>a DEF IInv, CallInv, UploadInv, AddInv, GetInv, Versions
<1>e. call[c].version \in 0..MaxVersion /\ document.row.file \in Files \cup {None}
  BY <1>a DEF CallType, DocumentType, RowType, NoRow
<1>f. ASSUME NEW n \in Nat, NEW title \in Titles \cup {None},
             NEW file \in Files \cup {None}, Index(n, title, file)
      PROVE  requests' \subseteq RequestType
  BY <1>a, <1>f DEF Index, RequestType, Entry
<1>1. CASE Upload(c)
  <2> PICK file \in Files :
        call' = [call EXCEPT ![c] =
          [pc |-> "putFirst", version |-> 1,
           row |-> [key |-> KeyOf(1, file), file |-> file]]]
    BY <1>1 DEF Upload
  <2>1. 1 \in Versions /\ 1 \in 0..MaxVersion
    BY <1>1 DEF Upload, Versions
  <2>2. [key |-> KeyOf(1, file), file |-> file] \in RowType
    BY <2>1, Keys DEF RowType
  <2>3. call' \in [Calls -> CallType]
    BY <1>a, <2>1, <2>2 DEF CallType, Pc
  <2> QED BY <1>1, <1>a, <2>3 DEF Upload, TypeOK
<1>2. ASSUME NEW pc, NEW next \in Pc, PutObject(c, pc, next),
             pc \in {"putFirst", "putNext"}
      PROVE  TypeOK'
  <2>1. call[c].row \in RowType
    BY <1>2, <1>d DEF PutObject, Uploading, Adding
  <2>2. object' \in [Key -> Files \cup {None}]
    BY <1>2, <1>a, <2>1 DEF PutObject, RowType
  <2> QED BY <1>2, <1>a, <1>b, <2>2 DEF PutObject, TypeOK
<1>3. CASE CreateDocument(c)
  <2> PICK title \in Titles :
        /\ document' = [version |-> 1, row |-> call[c].row, title |-> title,
                        deleted |-> FALSE]
        /\ Index(changes + 1, title, call[c].row.file)
    BY <1>3 DEF CreateDocument
  <2>1. call[c].row \in RowType /\ 1 \in Versions /\ 1 \in 0..MaxVersion
    BY <1>3, <1>d DEF CreateDocument, Uploading, Versions
  <2>2. document' \in DocumentType
    BY <2>1 DEF DocumentType
  <2>3. requests' \subseteq RequestType /\ changes' \in Nat
    <3>1. changes + 1 \in Nat /\ call[c].row.file \in Files \cup {None}
          /\ title \in Titles \cup {None}
      BY <1>a, <2>1 DEF RowType
    <3>2. changes' = changes + 1 /\ Index(changes + 1, title, call[c].row.file)
      BY <1>3 DEF CreateDocument
    <3> QED BY <1>f, <3>1, <3>2
  <2>4. versions' \in [Versions -> RowType \cup {NoRow}]
    BY <1>a, <1>3, <2>1 DEF CreateDocument
  <2> QED BY <1>3, <1>a, <1>c, <2>2, <2>3, <2>4 DEF CreateDocument, TypeOK
<1>4. CASE AddVersion(c)
  <2> PICK file \in Files :
        call' = [call EXCEPT ![c] =
          [pc |-> "putNext", version |-> document.version + 1,
           row |-> [key |-> KeyOf(document.version + 1, file), file |-> file]]]
    BY <1>4 DEF AddVersion
  <2>1. document.version + 1 \in Versions /\ document.version + 1 \in 0..MaxVersion
    BY <1>4, <1>a DEF AddVersion, DocumentType, Versions
  <2>2. [key |-> KeyOf(document.version + 1, file), file |-> file] \in RowType
    BY <2>1, Keys DEF RowType
  <2>3. call' \in [Calls -> CallType]
    BY <1>a, <2>1, <2>2 DEF CallType, Pc
  <2> QED BY <1>4, <1>a, <2>3 DEF AddVersion, TypeOK
<1>5. CASE InsertVersion(c)
  <2>1. call[c].row.file \in Files /\ document.title \in Titles \cup {None}
    BY <1>5, <1>a, <1>d DEF InsertVersion, Adding, RowType, DocumentType
  <2>3. requests' \subseteq RequestType /\ changes' \in Nat
    BY <1>5, <1>a, <1>f, <2>1 DEF InsertVersion
  <2>4. call' \in [Calls -> CallType]
    BY <1>5, <1>b, <1>c DEF InsertVersion, Pc
  <2> QED BY <1>5, <1>a, <2>3, <2>4 DEF InsertVersion, TypeOK
<1>6. CASE CommitVersion(c)
  <2>1. /\ call[c].row \in RowType
        /\ call[c].version \in Versions
        /\ call[c].version = document.version + 1
    BY <1>6, <1>d DEF CommitVersion, IInv, CallInv, CommitInv, Adding
  <2>2. document.version + 1 \in 0..MaxVersion
    BY <2>1, <1>a DEF Versions, DocumentType
  <2>3. document' = [document EXCEPT !.version = document.version + 1,
                                     !.row = call[c].row]
    BY <1>6 DEF CommitVersion
  <2>4. document' \in DocumentType
    BY <1>a, <2>1, <2>2, <2>3 DEF DocumentType
  <2>5. versions' \in [Versions -> RowType \cup {NoRow}]
    BY <1>6, <1>a, <2>1 DEF CommitVersion
  <2> QED BY <1>6, <1>a, <1>c, <2>4, <2>5 DEF CommitVersion, TypeOK
<1>7. CASE Edit(c) \/ Delete(c)
  BY <1>7, <1>a, <1>b DEF Edit, Delete, Pc, TypeOK
<1>8. CASE UpdateMetadata(c)
  <2> PICK title \in Titles :
        /\ document' = [document EXCEPT !.title = title]
        /\ Index(changes + 1, title, document.row.file)
    BY <1>8 DEF UpdateMetadata
  <2>1. document' \in DocumentType
    BY <1>a DEF DocumentType
  <2>2. requests' \subseteq RequestType /\ changes' \in Nat
    BY <1>8, <1>a, <1>e, <1>f DEF UpdateMetadata
  <2> QED BY <1>8, <1>a, <1>c, <2>1, <2>2 DEF UpdateMetadata, TypeOK
<1>9. CASE SoftDelete(c)
  <2>1. document' \in DocumentType
    BY <1>9, <1>a DEF SoftDelete, DocumentType
  <2>2. requests' \subseteq RequestType /\ changes' \in Nat
    BY <1>9, <1>a, <1>f DEF SoftDelete
  <2> QED BY <1>9, <1>a, <1>c, <2>1, <2>2 DEF SoftDelete, TypeOK
<1>10. CASE ReindexSearch(c)
  <2>1. document.title \in Titles \cup {None}
    BY <1>a DEF DocumentType
  <2>3. (IF Locked THEN changes - 1 ELSE changes) \in Nat
    BY <1>10, <1>a DEF ReindexSearch, IInv, CreatedInv
  <2>2. requests' \subseteq RequestType
    BY <1>10, <1>e, <1>f, <2>1, <2>3 DEF ReindexSearch
  <2> QED BY <1>10, <1>a, <2>2 DEF ReindexSearch, TypeOK
<1>11. CASE OpenCurrent(c)
  <2>1. document.version \in 0..MaxVersion /\ document.row \in RowType \cup {NoRow}
    BY <1>a DEF DocumentType
  <2>2. call' \in [Calls -> CallType]
    BY <1>11, <1>a, <2>1 DEF OpenCurrent, CallType, Pc
  <2> QED BY <1>11, <1>a, <2>2 DEF OpenCurrent, TypeOK
<1>12. CASE OpenVersion(c)
  <2>1. PICK v \in Versions :
          call' = [call EXCEPT ![c] =
                     [pc |-> "get", version |-> v, row |-> versions[v]]]
    BY <1>12 DEF OpenVersion
  <2>2. v \in 0..MaxVersion /\ versions[v] \in RowType \cup {NoRow}
    BY <1>a DEF Versions
  <2>3. call' \in [Calls -> CallType]
    BY <1>a, <2>1, <2>2 DEF CallType, Pc
  <2> QED BY <1>12, <1>a, <2>3 DEF OpenVersion, TypeOK
<1>13. CASE GetObject(c)
  <2>1. object[call[c].row.key] \in Files \cup {None}
    BY <1>13, <1>a, <1>d, Rows DEF GetObject, RowType
  <2>2. served' \subseteq ((0..MaxVersion) \X (Files \cup {None}))
    BY <1>13, <1>a, <1>e, <2>1 DEF GetObject, TypeOK
  <2> QED BY <1>13, <1>a, <1>c, <2>2 DEF GetObject, TypeOK
<1>14. CASE Crash(c)
  BY <1>14, <1>a, <1>c DEF Crash, TypeOK
<1>15. PutFirst(c) \/ PutNext(c) => TypeOK'
  BY <1>2 DEF PutFirst, PutNext, Pc
<1> QED
  BY <1>1, <1>3, <1>4, <1>5, <1>6, <1>7, <1>8, <1>9, <1>10, <1>11, <1>12, <1>13,
     <1>14, <1>15 DEF Step

-----------------------------------------------------------------------------
(* The steps that neither change the document's versions nor take a call   *)
(* nearer to changing them.                                                *)
Quiet(c) ==
  /\ document'.version = document.version
  /\ document'.row = document.row
  /\ versions' = versions
  /\ \A d \in Calls \ {c} : call'[d] = call[d]
  /\ call'[c] = call[c] \/ call'[c].pc \in {"idle", "edit", "delete"}

LEMMA QuietSteps ==
  ASSUME IInv, NEW c \in Calls,
         \/ Edit(c) \/ UpdateMetadata(c) \/ Delete(c) \/ SoftDelete(c)
         \/ ReindexSearch(c) \/ GetObject(c) \/ Crash(c)
         \/ InsertVersion(c) /\ versions[call[c].version] # NoRow
  PROVE  Quiet(c)
<1>1. call \in [Calls -> CallType] /\ document \in DocumentType
  BY DEF IInv, TypeOK
<1>2. Return(c) => /\ \A d \in Calls \ {c} : call'[d] = call[d]
                   /\ call'[c].pc = "idle"
  BY <1>1 DEF Return, Idle
<1>3. \A pc \in Pc : Goto(c, pc) => /\ \A d \in Calls \ {c} : call'[d] = call[d]
                                   /\ call'[c].pc = pc
  BY <1>1 DEF Goto, CallType
<1>4. CASE Edit(c) \/ Delete(c)
  BY <1>3, <1>4 DEF Edit, Delete, Quiet, Pc
<1>5. CASE UpdateMetadata(c) \/ SoftDelete(c)
  BY <1>1, <1>2, <1>5 DEF UpdateMetadata, SoftDelete, Quiet, DocumentType
<1>6. CASE ReindexSearch(c)
  BY <1>6 DEF ReindexSearch, Quiet
<1>7. CASE GetObject(c) \/ Crash(c)
  BY <1>2, <1>7 DEF GetObject, Crash, Quiet
<1>8. CASE InsertVersion(c) /\ versions[call[c].version] # NoRow
  BY <1>2, <1>8 DEF InsertVersion, Quiet
<1> QED BY <1>4, <1>5, <1>6, <1>7, <1>8

(* A quiet step keeps the versions and what the calls rest on.             *)
LEMMA QuietInv ==
  ASSUME IInv, NEW c \in Calls, Quiet(c)
  PROVE  PointerIsLatest' /\ CallInv'
<1>1. PointerIsLatest'
  BY DEF IInv, PointerIsLatest, Quiet, Exists
<1>2. \A d \in Calls : call'[d] = call[d] \/ call'[d].pc \in {"idle", "edit", "delete"}
  BY DEF Quiet
<1>3. Exists' = Exists
  BY DEF Quiet, Exists
<1>4. UploadInv'
  BY <1>2, <1>3 DEF IInv, CallInv, UploadInv, Uploading
<1>5. AddInv'
  BY <1>2, <1>3 DEF IInv, CallInv, AddInv, Adding, Quiet
<1>6. CommitInv'
  BY <1>2 DEF IInv, CallInv, CommitInv, Quiet
<1>7. GetInv'
  BY <1>2 DEF IInv, CallInv, GetInv, Quiet
<1> QED BY <1>1, <1>4, <1>5, <1>6, <1>7 DEF CallInv

(* The document's pointer and the calls' knowledge survive every step.     *)
LEMMA CallStep ==
  ASSUME IInv, NEW c \in Calls, Step(c)
  PROVE  PointerIsLatest' /\ CallInv'
<1> USE DocumentAssumption
<1>a. /\ call \in [Calls -> CallType]
      /\ document \in DocumentType
      /\ versions \in [Versions -> RowType \cup {NoRow}]
      /\ PointerIsLatest /\ UploadInv /\ AddInv /\ CommitInv /\ GetInv
  BY DEF IInv, TypeOK, CallInv
<1>b. document.version \in Nat
  BY <1>a DEF DocumentType
<1>1. CASE Upload(c)
  <2> PICK file \in Files :
        call' = [call EXCEPT ![c] =
          [pc |-> "putFirst", version |-> 1,
           row |-> [key |-> KeyOf(1, file), file |-> file]]]
    BY <1>1 DEF Upload
  <2>1. 1 \in Versions /\ ~Exists
    BY <1>1 DEF Upload, Versions
  <2>2. [key |-> KeyOf(1, file), file |-> file] \in RowType
    BY <2>1, Keys DEF RowType
  <2>3. UNCHANGED <<document, versions>> /\ \A d \in Calls : ~Uploading(d)
    BY <1>1 DEF Upload, Uploading
  <2>4. UploadInv'
    BY <1>a, <2>1, <2>2, <2>3 DEF UploadInv, Uploading, Exists
  <2>5. AddInv' /\ CommitInv' /\ GetInv'
    BY <1>a, <2>3 DEF AddInv, CommitInv, GetInv, Adding, Exists
  <2>6. PointerIsLatest'
    BY <1>a, <2>3 DEF PointerIsLatest, Exists
  <2> QED BY <2>4, <2>5, <2>6 DEF CallInv
<1>2. CASE PutFirst(c)
  <2>1. /\ call' = [call EXCEPT ![c].pc = "create"] /\ call[c].pc = "putFirst"
        /\ UNCHANGED <<document, versions>>
    BY <1>2 DEF PutFirst, PutObject, Goto
  <2>2. UploadInv'
    BY <1>a, <2>1 DEF UploadInv, Uploading, Exists, CallType
  <2>3. AddInv' /\ CommitInv' /\ GetInv'
    BY <1>a, <2>1 DEF AddInv, CommitInv, GetInv, Adding, Exists, CallType
  <2>4. PointerIsLatest'
    BY <1>a, <2>1 DEF PointerIsLatest, Exists
  <2> QED BY <2>2, <2>3, <2>4 DEF CallInv
<1>3. CASE CreateDocument(c)
  <2>1. /\ Uploading(c) /\ ~Exists /\ 1 \in Versions /\ call[c].row \in RowType
        /\ \A d \in Calls : ~Adding(d)
        /\ \A d \in Calls \ {c} : ~Uploading(d)
    BY <1>a, <1>3 DEF CreateDocument, UploadInv, AddInv, Uploading
  <2>2. /\ document'.version = 1 /\ document'.row = call[c].row
        /\ versions' = [versions EXCEPT ![1] = call[c].row]
        /\ call' = [call EXCEPT ![c] = Idle]
    BY <1>3 DEF CreateDocument, Return
  <2>3. document.version = 0 /\ \A v \in Versions : versions[v] = NoRow
    BY <1>a, <1>b, <2>1 DEF PointerIsLatest, Exists, Versions
  <2>4. PointerIsLatest'
    BY <1>a, <2>1, <2>2, <2>3, Rows DEF PointerIsLatest, Exists, Versions
  <2>5. UploadInv' /\ AddInv' /\ CommitInv'
    BY <1>a, <2>1, <2>2 DEF UploadInv, AddInv, CommitInv, Uploading, Adding, Idle
  <2>6. GetInv'
    BY <1>a, <2>2, <2>3 DEF GetInv, Idle
  <2> QED BY <2>4, <2>5, <2>6 DEF CallInv
<1>4. CASE AddVersion(c)
  <2> PICK file \in Files :
        call' = [call EXCEPT ![c] =
          [pc |-> "putNext", version |-> document.version + 1,
           row |-> [key |-> KeyOf(document.version + 1, file), file |-> file]]]
    BY <1>4 DEF AddVersion
  <2>1. document.version + 1 \in Versions /\ Exists
    BY <1>4, <1>a DEF AddVersion, DocumentType, Versions
  <2>2. [key |-> KeyOf(document.version + 1, file), file |-> file] \in RowType
    BY <2>1, Keys DEF RowType
  <2>3. UNCHANGED <<document, versions>>
    BY <1>4 DEF AddVersion
  <2>4. AddInv'
    BY <1>a, <1>b, <2>1, <2>2, <2>3 DEF AddInv, Adding, Exists
  <2>5. UploadInv' /\ CommitInv' /\ GetInv'
    BY <1>a, <2>3 DEF UploadInv, CommitInv, GetInv, Uploading, Exists
  <2>6. PointerIsLatest'
    BY <1>a, <2>3 DEF PointerIsLatest, Exists
  <2> QED BY <2>4, <2>5, <2>6 DEF CallInv
<1>5. CASE PutNext(c)
  <2>1. /\ call' = [call EXCEPT ![c].pc = "insert"] /\ call[c].pc = "putNext"
        /\ UNCHANGED <<document, versions>>
    BY <1>5 DEF PutNext, PutObject, Goto
  <2>2. AddInv'
    BY <1>a, <2>1 DEF AddInv, Adding, Exists, CallType
  <2>3. UploadInv' /\ CommitInv' /\ GetInv'
    BY <1>a, <2>1 DEF UploadInv, CommitInv, GetInv, Uploading, Exists, CallType
  <2>4. PointerIsLatest'
    BY <1>a, <2>1 DEF PointerIsLatest, Exists
  <2> QED BY <2>2, <2>3, <2>4 DEF CallInv
<1>6. CASE InsertVersion(c) /\ versions[call[c].version] = NoRow
  <2>1. /\ call' = [call EXCEPT ![c].pc = "commit"] /\ call[c].pc = "insert"
        /\ UNCHANGED <<document, versions>> /\ ~Locked
    BY <1>6 DEF InsertVersion, Goto
  <2>2. call[c].version = document.version + 1
    <3>1. call[c].version \in Versions /\ call[c].version <= document.version + 1
      BY <1>a, <2>1 DEF AddInv, Adding
    <3>2. ~(call[c].version <= document.version)
      BY <1>6, <1>a, <3>1 DEF PointerIsLatest
    <3> QED BY <1>b, <3>1, <3>2 DEF Versions
  <2>3. AddInv'
    BY <1>a, <2>1 DEF AddInv, Adding, Exists, CallType
  <2>4. CommitInv'
    BY <1>a, <2>1, <2>2 DEF CommitInv, Locked, CallType
  <2>5. UploadInv' /\ GetInv'
    BY <1>a, <2>1 DEF UploadInv, GetInv, Uploading, Exists, CallType
  <2>6. PointerIsLatest'
    BY <1>a, <2>1 DEF PointerIsLatest, Exists
  <2> QED BY <2>3, <2>4, <2>5, <2>6 DEF CallInv
<1>7. CASE CommitVersion(c)
  <2>1. /\ Exists /\ call[c].row \in RowType /\ call[c].version \in Versions
        /\ call[c].version = document.version + 1
        /\ \A d \in Calls : ~Uploading(d)
        /\ \A d \in Calls \ {c} : call[d].pc # "commit"
    BY <1>a, <1>7 DEF CommitVersion, AddInv, CommitInv, UploadInv, Adding
  <2>2. /\ document' = [document EXCEPT !.version = document.version + 1,
                                       !.row = call[c].row]
        /\ versions' = [versions EXCEPT ![call[c].version] = call[c].row]
        /\ call' = [call EXCEPT ![c] = Idle]
    BY <1>7 DEF CommitVersion, Return
  <2>3. document'.version = document.version + 1 /\ document'.row = call[c].row
    BY <1>a, <2>2 DEF DocumentType
  <2>4. PointerIsLatest'
    <3>1. \A v \in Versions : versions'[v] # NoRow <=> v <= document'.version
      BY <1>a, <1>b, <2>1, <2>2, <2>3, Rows DEF PointerIsLatest, Versions
    <3>2. document'.row = versions'[document'.version]
      BY <1>a, <2>1, <2>2, <2>3
    <3> QED BY <3>1, <3>2 DEF PointerIsLatest
  <2>5. Exists'
    BY <1>b, <2>3 DEF Exists
  <2>6. UploadInv' /\ CommitInv'
    BY <1>a, <2>1, <2>2 DEF UploadInv, CommitInv, Uploading, Idle
  <2>7. AddInv'
    BY <1>a, <1>b, <2>2, <2>3, <2>5 DEF AddInv, Adding, Idle, Versions
  <2>8. versions[call[c].version] = NoRow
    BY <1>a, <1>b, <2>1 DEF PointerIsLatest
  <2>9. GetInv'
    BY <1>a, <2>1, <2>2, <2>8 DEF GetInv, Idle
  <2> QED BY <2>4, <2>6, <2>7, <2>9 DEF CallInv
<1>8. CASE OpenCurrent(c) \/ OpenVersion(c)
  <2>1. PICK v \in Versions :
          /\ versions[v] # NoRow
          /\ call' = [call EXCEPT ![c] =
                        [pc |-> "get", version |-> v, row |-> versions[v]]]
    <3>1. CASE OpenCurrent(c)
      <4>1. document.version \in Versions
        BY <3>1, <1>a, <1>b DEF OpenCurrent, Exists, Versions, DocumentType
      <4>2. /\ versions[document.version] # NoRow
            /\ document.row = versions[document.version]
        BY <3>1, <1>a, <1>b, <4>1 DEF OpenCurrent, PointerIsLatest
      <4> QED BY <3>1, <4>1, <4>2 DEF OpenCurrent
    <3>2. CASE OpenVersion(c)
      BY <3>2 DEF OpenVersion
    <3> QED BY <1>8, <3>1, <3>2
  <2>2. UNCHANGED <<document, versions>>
    BY <1>8 DEF OpenCurrent, OpenVersion
  <2>3. GetInv'
    BY <1>a, <2>1, <2>2 DEF GetInv
  <2>4. UploadInv' /\ AddInv' /\ CommitInv'
    BY <1>a, <2>1, <2>2 DEF UploadInv, AddInv, CommitInv, Uploading, Adding, Exists
  <2>5. PointerIsLatest'
    BY <1>a, <2>2 DEF PointerIsLatest, Exists
  <2> QED BY <2>3, <2>4, <2>5 DEF CallInv
<1> QED
  BY <1>1, <1>2, <1>3, <1>4, <1>5, <1>6, <1>7, <1>8, QuietSteps, QuietInv
  DEF Step

(* Objects are never removed, and a row is only written for one that is    *)
(* stored.                                                                 *)
LEMMA ObjectStep ==
  ASSUME IInv, NEW c \in Calls, Step(c)
  PROVE  NoDanglingKey' /\ StoredInv'
<1> USE DocumentAssumption
<1>a. /\ call \in [Calls -> CallType]
      /\ versions \in [Versions -> RowType \cup {NoRow}]
      /\ object \in [Key -> Files \cup {None}]
      /\ NoDanglingKey /\ StoredInv /\ UploadInv /\ AddInv
  BY DEF IInv, TypeOK, CallInv
<1>1. ASSUME NEW pc, NEW next, PutObject(c, pc, next), pc \in {"putFirst", "putNext"},
             next \in {"create", "insert"}
      PROVE  NoDanglingKey' /\ StoredInv'
  <2>1. /\ call[c].row \in RowType /\ call[c].row.key \in Key
        /\ call[c].row.file # None
        /\ object' = [object EXCEPT ![call[c].row.key] = call[c].row.file]
        /\ call' = [call EXCEPT ![c].pc = next]
        /\ versions' = versions
    BY <1>a, <1>1, Rows
    DEF PutObject, Goto, UploadInv, AddInv, Uploading, Adding, RowType
  <2>2. \A k \in Key : object[k] # None => object'[k] # None
    BY <1>a, <2>1
  <2>3. object'[call[c].row.key] # None
    BY <1>a, <2>1
  <2>4. \A v \in Versions : versions[v] # NoRow => versions[v].key \in Key
    BY <1>a, Rows
  <2>5. NoDanglingKey'
    BY <1>a, <2>1, <2>2, <2>4 DEF NoDanglingKey
  <2>6. \A d \in Calls \ {c} : call[d].pc \in {"create", "insert", "commit"} =>
                               call[d].row.key \in Key
    BY <1>a, Rows DEF UploadInv, AddInv, Uploading, Adding
  <2>7. call'[c].row = call[c].row /\ \A d \in Calls \ {c} : call'[d] = call[d]
    BY <1>a, <2>1 DEF CallType
  <2>8. StoredInv'
    BY <1>a, <2>2, <2>3, <2>6, <2>7 DEF StoredInv
  <2> QED BY <2>5, <2>8
<1>2. PutFirst(c) \/ PutNext(c) => NoDanglingKey' /\ StoredInv'
  BY <1>1 DEF PutFirst, PutNext
<1>3. CASE Upload(c) \/ AddVersion(c) \/ OpenCurrent(c) \/ OpenVersion(c)
  BY <1>a, <1>3
  DEF Upload, AddVersion, OpenCurrent, OpenVersion, NoDanglingKey, StoredInv
<1>4. CASE CreateDocument(c)
  <2>1. 1 \in Versions
    BY <1>a, <1>4 DEF CreateDocument, UploadInv, Uploading
  <2>2. NoDanglingKey'
    BY <1>a, <1>4, <2>1 DEF CreateDocument, NoDanglingKey, StoredInv
  <2>3. StoredInv'
    BY <1>a, <1>4 DEF CreateDocument, StoredInv, Return, Idle
  <2> QED BY <2>2, <2>3
<1>5. CASE InsertVersion(c) /\ versions[call[c].version] = NoRow
  BY <1>a, <1>5 DEF InsertVersion, NoDanglingKey, StoredInv, Goto, CallType
<1>6. CASE CommitVersion(c)
  <2>1. NoDanglingKey'
    BY <1>a, <1>6 DEF CommitVersion, NoDanglingKey, StoredInv
  <2>2. StoredInv'
    BY <1>a, <1>6 DEF CommitVersion, StoredInv, Return, Idle
  <2> QED BY <2>1, <2>2
<1>7. ASSUME Quiet(c), object' = object
      PROVE  NoDanglingKey' /\ StoredInv'
  <2>1. NoDanglingKey'
    BY <1>a, <1>7 DEF Quiet, NoDanglingKey
  <2>2. StoredInv'
    BY <1>a, <1>7 DEF Quiet, StoredInv
  <2> QED BY <2>1, <2>2
<1>8. CASE \/ Edit(c) \/ UpdateMetadata(c) \/ Delete(c) \/ SoftDelete(c)
           \/ ReindexSearch(c) \/ GetObject(c) \/ Crash(c)
           \/ InsertVersion(c) /\ versions[call[c].version] # NoRow
  <2>1. object' = object
    BY <1>8 DEF Edit, UpdateMetadata, Delete, SoftDelete, ReindexSearch, GetObject,
                Crash, InsertVersion
  <2> QED BY <1>7, <1>8, <2>1, QuietSteps
<1> QED BY <1>2, <1>3, <1>4, <1>5, <1>6, <1>8 DEF Step

(* Changes are only counted up, and a document is not there before it is   *)
(* created.                                                                *)
LEMMA CreatedStep ==
  ASSUME IInv, NEW c \in Calls, Step(c)
  PROVE  CreatedInv'
<1>a. changes \in Nat /\ document \in DocumentType /\ CreatedInv
  BY DEF IInv, TypeOK
<1>1. CASE CreateDocument(c)
  BY <1>a, <1>1 DEF CreateDocument, CreatedInv
<1>2. CASE CommitVersion(c)
  BY <1>a, <1>2
  DEF CommitVersion, searchVars, CreatedInv, IInv, CallInv, AddInv, Adding
<1>3. CASE ~CreateDocument(c) /\ ~CommitVersion(c)
  <2>1. changes' \in Nat /\ changes' >= changes /\ document'.version = document.version
    BY <1>a, <1>3
    DEF Step, Upload, PutFirst, AddVersion, PutNext, PutObject, InsertVersion, Edit,
        UpdateMetadata, Delete, SoftDelete, ReindexSearch, OpenCurrent, OpenVersion,
        GetObject, Crash, searchVars, DocumentType
  <2> QED BY <1>a, <2>1 DEF CreatedInv, Exists
<1> QED BY <1>1, <1>2, <1>3

(* A request that arrives, or is refused, changes the search index alone.  *)
SearchStep(r) == IndexArrives(r) \/ IndexRefused(r)

LEMMA SearchKeeps ==
  ASSUME IInv, NEW r \in requests, SearchStep(r)
  PROVE  /\ IInv'
         /\ UNCHANGED <<document, versions, object, changes, call, served>>
<1>1. /\ UNCHANGED <<document, versions, object, changes, call, served>>
      /\ requests' \subseteq requests /\ index' \in {index, r}
      /\ faults' \in 0..MaxFaults
  BY DocumentAssumption DEF SearchStep, IndexArrives, IndexRefused, IInv, TypeOK
<1>2. TypeOK'
  BY <1>1 DEF IInv, TypeOK
<1> QED BY <1>1, <1>2 DEF IInv, PointerIsLatest, CallInv, NoDanglingKey, StoredInv,
     CreatedInv, UploadInv, AddInv, CommitInv, GetInv, Uploading, Adding, Exists

-----------------------------------------------------------------------------
LEMMA Invariance == Spec => []IInv
<1>1. IInv /\ [Next]_vars => IInv'
  <2>1. ASSUME IInv, NEW c \in Calls, Step(c) PROVE IInv'
    BY <2>1, TypeStep, CallStep, ObjectStep, CreatedStep DEF IInv
  <2>2. ASSUME IInv, NEW r \in requests, SearchStep(r) PROVE IInv'
    BY <2>2, SearchKeeps
  <2>3. ASSUME IInv, UNCHANGED vars PROVE IInv'
    BY <2>3 DEF IInv, vars, searchVars, TypeOK, PointerIsLatest, CallInv, NoDanglingKey,
       StoredInv, CreatedInv, UploadInv, AddInv, CommitInv, GetInv, Uploading, Adding,
       Exists
  <2> QED BY <2>1, <2>2, <2>3 DEF Next, SearchStep
<1> QED BY InitIInv, <1>1, PTL DEF Spec

(* Every variable keeps its type, for any number of calls.                 *)
THEOREM TypeCorrect == Spec => []TypeOK
<1>1. IInv => TypeOK
  BY DEF IInv
<1> QED BY Invariance, <1>1, PTL

(* However many uploads of the next version race, and wherever they die,   *)
(* the document's pointer is its latest version and the versions have no   *)
(* gap (addVersion's transaction and the unique version number).           *)
THEOREM LatestVersion == Spec => []PointerIsLatest
<1>1. IInv => PointerIsLatest
  BY DEF IInv
<1> QED BY Invariance, <1>1, PTL

(* No recorded version is without its object in the store.                 *)
THEOREM ObjectStored == Spec => []NoDanglingKey
<1>1. IInv => NoDanglingKey
  BY DEF IInv
<1> QED BY Invariance, <1>1, PTL

-----------------------------------------------------------------------------
(***************************************************************************)
(* What becomes of a version that is recorded.                             *)
(***************************************************************************)
(* A key carries the number of its version.                                *)
KeyInv ==
  /\ \A v \in Versions : versions[v] # NoRow => versions[v].key[1] = v
  /\ \A c \in Calls : Uploading(c) \/ Adding(c) =>
       call[c].row.key[1] = call[c].version

LEMMA InitKeyInv == Init => KeyInv
BY DEF Init, KeyInv, Uploading, Adding, Idle

LEMMA KeyStep ==
  ASSUME IInv, KeyInv, NEW c \in Calls, Step(c)
  PROVE  KeyInv'
<1> USE DocumentAssumption
<1>a. /\ call \in [Calls -> CallType]
      /\ versions \in [Versions -> RowType \cup {NoRow}]
      /\ document \in DocumentType /\ document.version \in Nat
      /\ UploadInv /\ AddInv /\ KeyInv
  BY DEF IInv, TypeOK, CallInv, DocumentType
<1>1. CASE Upload(c)
  <2> PICK file \in Files :
        call' = [call EXCEPT ![c] =
          [pc |-> "putFirst", version |-> 1,
           row |-> [key |-> KeyOf(1, file), file |-> file]]]
    BY <1>1 DEF Upload
  <2>1. KeyOf(1, file)[1] = 1 /\ versions' = versions
    BY <1>1, Keys DEF Upload, Versions
  <2> QED BY <1>a, <2>1 DEF KeyInv, Uploading, Adding
<1>2. CASE AddVersion(c)
  <2> PICK file \in Files :
        call' = [call EXCEPT ![c] =
          [pc |-> "putNext", version |-> document.version + 1,
           row |-> [key |-> KeyOf(document.version + 1, file), file |-> file]]]
    BY <1>2 DEF AddVersion
  <2>1. KeyOf(document.version + 1, file)[1] = document.version + 1 /\ versions' = versions
    BY <1>2, <1>a, Keys DEF AddVersion, Versions, DocumentType
  <2> QED BY <1>a, <2>1 DEF KeyInv, Uploading, Adding
<1>3. CASE \/ PutFirst(c) \/ PutNext(c) \/ OpenCurrent(c) \/ OpenVersion(c)
           \/ InsertVersion(c) /\ versions[call[c].version] = NoRow
  <2>1. /\ versions' = versions
        /\ \A d \in Calls \ {c} : call'[d] = call[d]
        /\ \/ call'[c].pc = "get"
           \/ /\ Uploading(c) \/ Adding(c)
              /\ call'[c].version = call[c].version /\ call'[c].row = call[c].row
    BY <1>a, <1>3 DEF PutFirst, PutNext, PutObject, OpenCurrent, OpenVersion,
       InsertVersion, Goto, CallType, Uploading, Adding
  <2> QED BY <1>a, <2>1 DEF KeyInv, Uploading, Adding
<1>4. CASE CreateDocument(c) \/ CommitVersion(c)
  <2>1. /\ call' = [call EXCEPT ![c] = Idle]
        /\ versions' = [versions EXCEPT ![call[c].version] = call[c].row]
        /\ Uploading(c) \/ Adding(c)
    BY <1>4, <1>a DEF CreateDocument, CommitVersion, Return, UploadInv, Uploading, Adding
  <2> QED BY <1>a, <2>1 DEF KeyInv, Uploading, Adding, Idle
<1>5. CASE Quiet(c)
  BY <1>a, <1>5 DEF Quiet, KeyInv, Uploading, Adding
<1> QED BY <1>1, <1>2, <1>3, <1>4, <1>5, QuietSteps DEF Step

LEMMA KeyInvariance == Spec => [](IInv /\ KeyInv)
<1>1. IInv /\ KeyInv /\ [Next]_vars => KeyInv'
  <2>1. ASSUME IInv, NEW r \in requests, KeyInv, SearchStep(r) PROVE KeyInv'
    BY <2>1, SearchKeeps DEF KeyInv, Uploading, Adding
  <2>2. ASSUME KeyInv, UNCHANGED vars PROVE KeyInv'
    BY <2>2 DEF vars, KeyInv, Uploading, Adding
  <2> QED BY <2>1, <2>2, KeyStep DEF Next, SearchStep
<1> QED BY InitKeyInv, Invariance, <1>1, PTL DEF Spec

(* No row that is there changes: a version is recorded once.               *)
LEMMA RowsKept ==
  ASSUME IInv, NEW c \in Calls, Step(c), NEW v \in Versions, versions[v] # NoRow
  PROVE  versions'[v] = versions[v]
<1>a. /\ versions \in [Versions -> RowType \cup {NoRow}]
      /\ document.version \in Nat
      /\ PointerIsLatest /\ UploadInv /\ CommitInv
  BY DEF IInv, TypeOK, CallInv, DocumentType
<1>1. CASE CreateDocument(c)
  BY <1>a, <1>1
  DEF CreateDocument, UploadInv, Uploading, PointerIsLatest, Exists, Versions
<1>2. CASE CommitVersion(c)
  BY <1>a, <1>2 DEF CommitVersion, CommitInv, PointerIsLatest
<1>3. CASE ~CreateDocument(c) /\ ~CommitVersion(c)
  BY <1>3 DEF Step, Upload, PutFirst, AddVersion, PutNext, PutObject, InsertVersion,
     Edit, UpdateMetadata, Delete, SoftDelete, ReindexSearch, OpenCurrent,
     OpenVersion, GetObject, Crash
<1> QED BY <1>1, <1>2, <1>3

(* What is stored under the key of a recorded version is only changed by   *)
(* an upload that gave itself the same number.                             *)
LEMMA ObjectsOfRivals ==
  ASSUME IInv, KeyInv, NEW c \in Calls, Step(c),
         NEW v \in Versions, versions[v] # NoRow
  PROVE  \/ object'[versions[v].key] = object[versions[v].key]
         \/ call[c].pc = "putNext" /\ call[c].version = v
<1>a. /\ versions \in [Versions -> RowType \cup {NoRow}]
      /\ object \in [Key -> Files \cup {None}]
      /\ document.version \in Nat
      /\ PointerIsLatest /\ UploadInv /\ KeyInv
  BY DEF IInv, TypeOK, CallInv, DocumentType
<1>1. v <= document.version /\ versions[v].key[1] = v
  BY <1>a DEF PointerIsLatest, KeyInv
<1>2. CASE PutFirst(c)
  BY <1>a, <1>1, <1>2 DEF PutFirst, PutObject, UploadInv, Uploading, Exists, Versions
<1>3. CASE PutNext(c)
  <2>1. /\ call[c].pc = "putNext" /\ call[c].row.key[1] = call[c].version
        /\ object' = [object EXCEPT ![call[c].row.key] = call[c].row.file]
    BY <1>a, <1>3 DEF PutNext, PutObject, KeyInv, Adding
  <2>2. call[c].version # v => call[c].row.key # versions[v].key
    BY <1>1, <2>1
  <2> QED BY <1>a, <2>1, <2>2
<1>4. CASE ~PutFirst(c) /\ ~PutNext(c)
  BY <1>4 DEF Step, Upload, CreateDocument, AddVersion, InsertVersion, CommitVersion,
     Edit, UpdateMetadata, Delete, SoftDelete, ReindexSearch, OpenCurrent,
     OpenVersion, GetObject, Crash
<1> QED BY <1>2, <1>3, <1>4

(* However many write at once and wherever they die, a recorded version's  *)
(* row never changes, and the bytes under its key only by a rival upload   *)
(* of the same number, begun before the version was recorded: addVersion   *)
(* makes the key from what it read.                                        *)
THEOREM ImmutableButForRivals == Spec => VersionsImmutable
<1>1. IInv /\ KeyInv /\ [Next]_vars =>
        [\A v \in Versions : versions[v] # NoRow =>
           /\ versions'[v] = versions[v]
           /\ \/ object'[versions[v].key] = object[versions[v].key]
              \/ \E c \in Calls : call[c].pc = "putNext" /\ call[c].version = v]_vars
  <2>1. ASSUME IInv, KeyInv, NEW c \in Calls, Step(c),
               NEW v \in Versions, versions[v] # NoRow
        PROVE  /\ versions'[v] = versions[v]
               /\ \/ object'[versions[v].key] = object[versions[v].key]
                  \/ call[c].pc = "putNext" /\ call[c].version = v
    BY <2>1, RowsKept, ObjectsOfRivals
  <2>2. ASSUME IInv, NEW r \in requests, SearchStep(r)
        PROVE  UNCHANGED <<versions, object>>
    BY <2>2, SearchKeeps
  <2> QED BY <2>1, <2>2 DEF Next, SearchStep
<1> QED BY KeyInvariance, <1>1, PTL DEF Spec, VersionsImmutable

-----------------------------------------------------------------------------
(***************************************************************************)
(* One writer at a time: what is read is what was recorded.                *)
(***************************************************************************)
OneWriter == \A c, d \in Writers : c = d

WriterInv == \A c \in Calls : Uploading(c) \/ Adding(c) => c \in Writers

(* The version a writer is about to store is not recorded.                 *)
NextInv ==
  \A c \in Calls : Adding(c) => call[c].version = document.version + 1

(* An object holds the file its row names.                                 *)
ContentInv ==
  /\ \A v \in Versions : versions[v] # NoRow =>
       object[versions[v].key] = versions[v].file
  /\ \A c \in Calls : call[c].pc \in {"create", "insert", "commit"} =>
       object[call[c].row.key] = call[c].row.file

ServedInv ==
  \A s \in served : /\ s[1] \in Versions
                    /\ versions[s[1]] # NoRow
                    /\ s[2] = versions[s[1]].file

WInv == WriterInv /\ NextInv /\ KeyInv /\ ContentInv /\ ServedInv

LEMMA InitWInv == Init => WInv
BY DEF Init, WInv, WriterInv, NextInv, KeyInv, ContentInv, ServedInv, Uploading,
   Adding, Idle

(* Of several calls, only one is between a read and a write of a version.  *)
LEMMA OnlyWriter ==
  ASSUME OneWriter, WInv, NEW c \in Calls, Uploading(c) \/ Adding(c) \/ c \in Writers,
         NEW d \in Calls \ {c}
  PROVE  ~Uploading(d) /\ ~Adding(d)
BY DEF OneWriter, WInv, WriterInv

(* With one writer, no object of a recorded version changes.               *)
LEMMA ObjectsKept ==
  ASSUME OneWriter, IInv, WInv, NEW c \in Calls, Step(c),
         NEW v \in Versions, versions[v] # NoRow
  PROVE  object'[versions[v].key] = object[versions[v].key]
<1>a. /\ versions \in [Versions -> RowType \cup {NoRow}]
      /\ object \in [Key -> Files \cup {None}]
      /\ document.version \in Nat
      /\ PointerIsLatest /\ UploadInv /\ NextInv /\ KeyInv
  BY DEF IInv, WInv, TypeOK, CallInv, DocumentType
<1>1. v <= document.version /\ versions[v].key[1] = v
  BY <1>a DEF PointerIsLatest, KeyInv
<1>2. CASE PutFirst(c)
  BY <1>a, <1>1, <1>2 DEF PutFirst, PutObject, UploadInv, Uploading, Exists, Versions
<1>3. CASE PutNext(c)
  <2>1. call[c].row.key[1] = document.version + 1
    BY <1>a, <1>3 DEF PutNext, PutObject, NextInv, KeyInv, Adding
  <2>2. call[c].row.key # versions[v].key
    BY <1>a, <1>1, <2>1 DEF Versions
  <2> QED BY <1>3, <1>a, <2>2 DEF PutNext, PutObject
<1>4. CASE ~PutFirst(c) /\ ~PutNext(c)
  BY <1>4 DEF Step, Upload, CreateDocument, AddVersion, InsertVersion, CommitVersion,
     Edit, UpdateMetadata, Delete, SoftDelete, ReindexSearch, OpenCurrent,
     OpenVersion, GetObject, Crash
<1> QED BY <1>2, <1>3, <1>4

LEMMA WStep ==
  ASSUME OneWriter, IInv, WInv, NEW c \in Calls, Step(c)
  PROVE  WInv'
<1> USE DocumentAssumption
<1>a. /\ call \in [Calls -> CallType]
      /\ versions \in [Versions -> RowType \cup {NoRow}]
      /\ object \in [Key -> Files \cup {None}]
      /\ document \in DocumentType /\ document.version \in Nat
      /\ PointerIsLatest /\ UploadInv /\ AddInv /\ CommitInv /\ GetInv
      /\ WriterInv /\ NextInv /\ KeyInv /\ ContentInv /\ ServedInv
  BY DEF IInv, WInv, TypeOK, CallInv, DocumentType
<1>b. \A v \in Versions : versions[v] # NoRow =>
        /\ versions'[v] = versions[v]
        /\ object'[versions[v].key] = object[versions[v].key]
  BY RowsKept, ObjectsKept
<1>c. (served' = served) => ServedInv'
  BY <1>a, <1>b DEF ServedInv
<1>d. versions' = versions => \A v \in Versions : versions'[v] # NoRow =>
        /\ versions'[v].key[1] = v
        /\ object'[versions'[v].key] = versions'[v].file
  BY <1>a, <1>b DEF KeyInv, ContentInv
<1>1. CASE Upload(c)
  <2> PICK file \in Files :
        call' = [call EXCEPT ![c] =
          [pc |-> "putFirst", version |-> 1,
           row |-> [key |-> KeyOf(1, file), file |-> file]]]
    BY <1>1 DEF Upload
  <2>1. /\ 1 \in Versions /\ KeyOf(1, file)[1] = 1 /\ c \in Writers
        /\ UNCHANGED <<document, versions, object, served>>
    BY <1>1, Keys DEF Upload, Versions
  <2>2. WriterInv' /\ NextInv'
    BY <1>a, <2>1 DEF WriterInv, NextInv, Uploading, Adding
  <2>3. KeyInv' /\ ContentInv'
    BY <1>a, <2>1 DEF KeyInv, ContentInv, Uploading, Adding
  <2> QED BY <1>c, <2>1, <2>2, <2>3 DEF WInv
<1>2. ASSUME NEW pc, NEW next, PutObject(c, pc, next),
             <<pc, next>> \in {<<"putFirst", "create">>, <<"putNext", "insert">>}
      PROVE  WInv'
  <2>1. /\ call[c].row.key \in Key /\ call[c].pc = pc
        /\ object' = [object EXCEPT ![call[c].row.key] = call[c].row.file]
        /\ call' = [call EXCEPT ![c].pc = next]
        /\ UNCHANGED <<document, versions, served>>
    BY <1>a, <1>2, Rows
    DEF PutObject, Goto, UploadInv, AddInv, Uploading, Adding, RowType
  <2>2. /\ \A d \in Calls \ {c} : call'[d] = call[d]
        /\ call'[c].version = call[c].version /\ call'[c].row = call[c].row
        /\ call'[c].pc = next
    BY <1>a, <2>1 DEF CallType
  <2>3. \A d \in Calls \ {c} : ~Uploading(d) /\ ~Adding(d)
    BY <1>2, <2>1, OnlyWriter DEF Uploading, Adding
  <2>4. WriterInv' /\ NextInv'
    BY <1>a, <1>2, <2>1, <2>2 DEF WriterInv, NextInv, Uploading, Adding
  <2>5. KeyInv'
    BY <1>a, <1>2, <2>1, <2>2 DEF KeyInv, Uploading, Adding
  <2>6. object'[call'[c].row.key] = call'[c].row.file
    BY <1>a, <2>1, <2>2
  <2>7. ContentInv'
    BY <1>d, <2>1, <2>2, <2>3, <2>6 DEF ContentInv, Uploading, Adding
  <2> QED BY <1>c, <2>1, <2>4, <2>5, <2>7 DEF WInv
<1>3. PutFirst(c) \/ PutNext(c) => WInv'
  BY <1>2 DEF PutFirst, PutNext
<1>4. CASE CreateDocument(c) \/ CommitVersion(c)
  <2>1. /\ call' = [call EXCEPT ![c] = Idle]
        /\ versions' = [versions EXCEPT ![call[c].version] = call[c].row]
        /\ UNCHANGED <<object, served>>
    BY <1>4, <1>a DEF CreateDocument, CommitVersion, Return, UploadInv, Uploading
  <2>2. /\ call[c].version \in Versions
        /\ call[c].row.key[1] = call[c].version
        /\ object[call[c].row.key] = call[c].row.file
        /\ Uploading(c) \/ Adding(c)
    BY <1>4, <1>a DEF CreateDocument, CommitVersion, UploadInv, AddInv, KeyInv,
       ContentInv, Uploading, Adding
  <2>3. \A d \in Calls \ {c} : ~Uploading(d) /\ ~Adding(d)
    BY <2>2, OnlyWriter
  <2>4. WriterInv' /\ NextInv'
    BY <1>a, <2>1, <2>3 DEF WriterInv, NextInv, Uploading, Adding, Idle
  <2>5. KeyInv'
    BY <1>a, <2>1, <2>2, <2>3 DEF KeyInv, Uploading, Adding, Idle
  <2>6. ContentInv'
    BY <1>a, <2>1, <2>2, <2>3 DEF ContentInv, Uploading, Adding, Idle
  <2> QED BY <1>c, <2>1, <2>4, <2>5, <2>6 DEF WInv
<1>5. CASE AddVersion(c)
  <2> PICK file \in Files :
        call' = [call EXCEPT ![c] =
          [pc |-> "putNext", version |-> document.version + 1,
           row |-> [key |-> KeyOf(document.version + 1, file), file |-> file]]]
    BY <1>5 DEF AddVersion
  <2>1. /\ document.version + 1 \in Versions
        /\ KeyOf(document.version + 1, file)[1] = document.version + 1
        /\ c \in Writers
        /\ UNCHANGED <<document, versions, object, served>>
    BY <1>5, <1>a, Keys DEF AddVersion, Versions, DocumentType
  <2>2. WriterInv' /\ NextInv'
    BY <1>a, <2>1 DEF WriterInv, NextInv, Uploading, Adding
  <2>3. KeyInv' /\ ContentInv'
    BY <1>a, <2>1 DEF KeyInv, ContentInv, Uploading, Adding
  <2> QED BY <1>c, <2>1, <2>2, <2>3 DEF WInv
<1>6. CASE InsertVersion(c) /\ versions[call[c].version] = NoRow
  <2>1. /\ call[c].pc = "insert"
        /\ call' = [call EXCEPT ![c].pc = "commit"]
        /\ UNCHANGED <<document, versions, object, served>>
    BY <1>6 DEF InsertVersion, Goto
  <2>2. /\ \A d \in Calls \ {c} : call'[d] = call[d]
        /\ call'[c].version = call[c].version /\ call'[c].row = call[c].row
        /\ call'[c].pc = "commit"
    BY <1>a, <2>1 DEF CallType
  <2>3. WriterInv' /\ NextInv' /\ KeyInv'
    BY <1>a, <2>1, <2>2 DEF WriterInv, NextInv, KeyInv, Uploading, Adding
  <2>4. ContentInv'
    BY <1>a, <2>1, <2>2 DEF ContentInv
  <2> QED BY <1>c, <2>1, <2>3, <2>4 DEF WInv
<1>7. CASE OpenCurrent(c) \/ OpenVersion(c)
  <2>1. /\ \A d \in Calls \ {c} : call'[d] = call[d]
        /\ call'[c].pc = "get"
        /\ UNCHANGED <<document, versions, object, served>>
    BY <1>a, <1>7 DEF OpenCurrent, OpenVersion
  <2>2. WriterInv' /\ NextInv' /\ KeyInv' /\ ContentInv'
    BY <1>a, <2>1 DEF WriterInv, NextInv, KeyInv, ContentInv, Uploading, Adding
  <2> QED BY <1>c, <2>1, <2>2 DEF WInv
<1>8. CASE \/ Edit(c) \/ UpdateMetadata(c) \/ Delete(c) \/ SoftDelete(c)
           \/ ReindexSearch(c) \/ GetObject(c) \/ Crash(c)
           \/ InsertVersion(c) /\ versions[call[c].version] # NoRow
  <2>1. Quiet(c)
    BY <1>8, QuietSteps
  <2>2. object' = object
    BY <1>8 DEF Edit, UpdateMetadata, Delete, SoftDelete, ReindexSearch, GetObject,
                Crash, InsertVersion
  <2>3. WriterInv' /\ NextInv'
    BY <1>a, <2>1 DEF Quiet, WriterInv, NextInv, Uploading, Adding
  <2>4. KeyInv' /\ ContentInv'
    BY <1>a, <2>1, <2>2 DEF Quiet, KeyInv, ContentInv, Uploading, Adding
  <2>5. ServedInv'
    <3>1. CASE GetObject(c)
      <4>1. /\ call[c].version \in Versions
            /\ versions[call[c].version] # NoRow
            /\ object[call[c].row.key] = versions[call[c].version].file
        BY <1>a, <3>1 DEF GetObject, GetInv, ContentInv
      <4>2. served' = served \cup {<<call[c].version, object[call[c].row.key]>>}
        BY <3>1 DEF GetObject
      <4> QED BY <1>a, <2>1, <4>1, <4>2 DEF ServedInv, Quiet
    <3>2. CASE ~GetObject(c)
      BY <1>8, <1>c, <3>2 DEF Edit, UpdateMetadata, Delete, SoftDelete, ReindexSearch,
         Crash, InsertVersion
    <3> QED BY <3>1, <3>2
  <2> QED BY <2>3, <2>4, <2>5 DEF WInv
<1> QED BY <1>1, <1>3, <1>4, <1>5, <1>6, <1>7, <1>8 DEF Step

LEMMA WInvariance ==
  ASSUME OneWriter
  PROVE  Spec => [](IInv /\ WInv)
<1>1. IInv /\ WInv /\ [Next]_vars => WInv'
  <2>1. ASSUME IInv, WInv, NEW c \in Calls, Step(c) PROVE WInv'
    BY <2>1, WStep
  <2>2. ASSUME IInv, WInv, NEW r \in requests, SearchStep(r) PROVE WInv'
    BY <2>2, SearchKeeps DEF WInv, WriterInv, NextInv, KeyInv, ContentInv, ServedInv,
       Uploading, Adding
  <2>3. ASSUME WInv, UNCHANGED vars PROVE WInv'
    BY <2>3 DEF vars, WInv, WriterInv, NextInv, KeyInv, ContentInv, ServedInv,
       Uploading, Adding
  <2> QED BY <2>1, <2>2, <2>3 DEF Next, SearchStep
<1> QED BY InitWInv, Invariance, <1>1, PTL DEF Spec

-----------------------------------------------------------------------------
(* The refinement of VersionHistory.                                       *)
LEMMA Appended ==
  ASSUME NEW n \in Nat, NEW f, NEW g, NEW e, f = [v \in 1..n |-> f[v]],
         g = [v \in 1..(n + 1) |-> IF v = n + 1 THEN e ELSE f[v]]
  PROVE  g = Append(f, e)
<1>1. Len(f) = n
  OBVIOUS
<1>2. Append(f, e) = [v \in 1..(Len(f) + 1) |-> IF v = Len(f) + 1 THEN e ELSE f[v]]
  BY DEF Append
<1> QED BY <1>1, <1>2

HistoryOf == [v \in 1..document.version |-> versions[v].file]

LEMMA InitHistory == Init => History!HistoryInit
BY DEF Init, History!HistoryInit

(* A version comes onto the history when its transaction commits.          *)
LEMMA RecordStep ==
  ASSUME IInv, NEW c \in Calls, CreateDocument(c) \/ CommitVersion(c)
  PROVE  \E file \in Files : History!Record(file)
<1> DEFINE n == document.version
           file == call[c].row.file
<1>1. /\ n \in Nat /\ n + 1 \in Versions /\ file \in Files
      /\ document'.version = n + 1
      /\ versions' = [versions EXCEPT ![n + 1] = call[c].row]
      /\ versions \in [Versions -> RowType \cup {NoRow}]
      /\ UNCHANGED served
  <2>1. n \in Nat /\ versions \in [Versions -> RowType \cup {NoRow}]
    BY DEF IInv, TypeOK, DocumentType
  <2>2. CASE CreateDocument(c)
    <3>1. n = 0 /\ 1 \in Versions /\ call[c].row \in RowType
      BY <2>1, <2>2 DEF CreateDocument, IInv, CallInv, UploadInv, Uploading, Exists
    <3>2. document'.version = 1 /\ versions' = [versions EXCEPT ![1] = call[c].row]
      BY <2>2 DEF CreateDocument
    <3>3. UNCHANGED served
      BY <2>2 DEF CreateDocument
    <3> QED BY <2>1, <3>1, <3>2, <3>3 DEF RowType
  <2>3. CASE CommitVersion(c)
    <3>1. /\ call[c].version = n + 1 /\ call[c].version \in Versions
          /\ call[c].row \in RowType
      BY <2>3 DEF CommitVersion, IInv, CallInv, AddInv, CommitInv, Adding
    <3>2. /\ document' = [document EXCEPT !.version = n + 1, !.row = call[c].row]
          /\ versions' = [versions EXCEPT ![n + 1] = call[c].row]
          /\ UNCHANGED served
      BY <2>3, <3>1 DEF CommitVersion
    <3>3. document'.version = n + 1
      BY <3>2 DEF IInv, TypeOK, DocumentType
    <3> QED BY <2>1, <3>1, <3>2, <3>3 DEF RowType
  <2> QED BY <2>2, <2>3
<1>2. /\ versions'[n + 1].file = file
      /\ \A v \in 1..n : versions'[v].file = versions[v].file
  BY <1>1 DEF Versions
<1>3. HistoryOf' = [v \in 1..(n + 1) |-> IF v = n + 1 THEN file ELSE HistoryOf[v]]
  BY <1>1, <1>2 DEF HistoryOf
<1>4. HistoryOf = [v \in 1..n |-> HistoryOf[v]]
  BY DEF HistoryOf
<1>5. HistoryOf' = Append(HistoryOf, file)
  BY <1>1, <1>3, <1>4, Appended
<1> QED BY <1>1, <1>5 DEF HistoryOf, History!Record

LEMMA HistoryStep ==
  ASSUME OneWriter, IInv, WInv, NEW c \in Calls, Step(c)
  PROVE  History!HistoryNext \/ UNCHANGED History!historyVars
<1>1. CASE CreateDocument(c) \/ CommitVersion(c)
  BY <1>1, RecordStep DEF History!HistoryNext
<1>2. CASE GetObject(c)
  <2> DEFINE v == call[c].version
  <2>1. /\ v \in Versions /\ versions[v] # NoRow /\ object[call[c].row.key] = versions[v].file
        /\ served' = served \cup {<<v, object[call[c].row.key]>>}
        /\ UNCHANGED <<document, versions>>
    BY <1>2 DEF GetObject, IInv, CallInv, GetInv, WInv, ContentInv
  <2>2. v \in 1..document.version
    BY <2>1 DEF IInv, PointerIsLatest, Versions, TypeOK, DocumentType
  <2>3. HistoryOf[v] = versions[v].file /\ v \in DOMAIN HistoryOf
    BY <2>2 DEF HistoryOf
  <2>4. UNCHANGED HistoryOf /\ served' = served \cup {<<v, HistoryOf[v]>>}
    BY <2>1, <2>3 DEF HistoryOf
  <2>5. History!ReadVersion(v)
    BY <2>4 DEF HistoryOf, History!ReadVersion
  <2> QED BY <2>3, <2>5 DEF HistoryOf, History!HistoryNext
<1>3. CASE ~CreateDocument(c) /\ ~CommitVersion(c) /\ ~GetObject(c)
  <2>1. UNCHANGED <<versions, served>> /\ document'.version = document.version
    BY <1>3 DEF Step, Upload, PutFirst, AddVersion, PutNext, PutObject, InsertVersion,
       Edit, UpdateMetadata, Delete, SoftDelete, ReindexSearch, OpenCurrent,
       OpenVersion, Crash, IInv, TypeOK, DocumentType
  <2> QED BY <2>1 DEF History!historyVars
<1> QED BY <1>1, <1>2, <1>3

(* With one writer at a time a document is the history that it promises:   *)
(* versions are only added, and a signature or a download gets the file of *)
(* the version that it asked for, though the key is read in one step, the  *)
(* bytes in a later one, and uploads, crashes and other readers may come   *)
(* between.                                                                *)
THEOREM OneWriterKeepsHistory ==
  ASSUME OneWriter
  PROVE  Spec => ImplementsHistory
<1>1. IInv /\ WInv /\ [Next]_vars => [History!HistoryNext]_(History!historyVars)
  <2>1. UNCHANGED vars => UNCHANGED History!historyVars
    BY DEF vars, History!historyVars
  <2>2. ASSUME IInv, NEW r \in requests, SearchStep(r)
        PROVE  UNCHANGED History!historyVars
    BY <2>2, SearchKeeps DEF History!historyVars
  <2> QED BY <2>1, <2>2, HistoryStep DEF Next, SearchStep
<1> QED BY InitHistory, WInvariance, <1>1, PTL DEF Spec, ImplementsHistory, History!HistorySpec

-----------------------------------------------------------------------------
(* The search index: what a request shows that was made after the last     *)
(* change.                                                                 *)
Shows(file) == [title |-> document.title, file |-> file]

(* The search index.  A request, also the one that arrived last, was made  *)
(* after no later change than the last, and one made after the last shows  *)
(* the document, with the version being committed if there is one.         *)
RequestInv ==
  \A r \in requests \cup {index} :
    /\ r.change <= changes
    /\ (Exists /\ ~document.deleted /\ r.change = changes) =>
         /\ ~Locked => r.entry = Shows(document.row.file)
         /\ \A c \in Calls : call[c].pc = "commit" => r.entry = Shows(call[c].row.file)

LEMMA InitRequestInv == Init => RequestInv
BY DEF Init, RequestInv, Exists

(* A new change leaves all older requests behind.                          *)
LEMMA ChangeStep ==
  ASSUME IInv, RequestInv, changes' = changes + 1, index' = index,
         \A r \in requests' \ requests :
           /\ r.change = changes'
           /\ (Exists /\ ~document.deleted)' =>
                /\ ~Locked' => r.entry = Shows(document.row.file)'
                /\ \A c \in Calls : call'[c].pc = "commit" =>
                     r.entry = [title |-> document'.title, file |-> call'[c].row.file]
  PROVE  RequestInv'
<1>1. changes \in Nat /\ \A r \in requests \cup {index} : r.change \in Nat
  BY DEF IInv, TypeOK, RequestType
<1>2. ASSUME NEW r \in requests \cup {index}
      PROVE  r.change <= changes' /\ r.change # changes'
  BY <1>1 DEF RequestInv
<1> QED BY <1>1, <1>2 DEF RequestInv, Shows

(* A step that changes nothing of what a request shows.                    *)
LEMMA NoChangeStep ==
  ASSUME IInv, RequestInv, changes' = changes, index' = index, requests' = requests,
         document' = document,
         \A c \in Calls : call'[c] # call[c] =>
           call[c].pc # "commit" /\ call'[c].pc # "commit"
  PROVE  RequestInv'
<1>1. Locked' = Locked
  BY DEF Locked
<1>2. \A c \in Calls : call'[c].pc = "commit" => call'[c] = call[c]
  OBVIOUS
<1> QED BY <1>1, <1>2 DEF RequestInv, Shows, Exists

LEMMA RequestStep ==
  ASSUME IInv, RequestInv, NEW c \in Calls, Step(c)
  PROVE  RequestInv'
<1>a. /\ call \in [Calls -> CallType] /\ document \in DocumentType
      /\ changes \in Nat
      /\ RequestInv /\ UploadInv /\ AddInv /\ CommitInv
  BY DEF IInv, CallInv, TypeOK
<1>1. CASE \/ Upload(c) \/ AddVersion(c) \/ Edit(c) \/ Delete(c)
           \/ OpenCurrent(c) \/ OpenVersion(c)
           \/ PutFirst(c) \/ PutNext(c) \/ GetObject(c)
           \/ InsertVersion(c) /\ versions[call[c].version] # NoRow
           \/ Crash(c) /\ call[c].pc # "commit"
  <2>1. /\ UNCHANGED <<document, changes, index, requests>>
        /\ \A d \in Calls \ {c} : call'[d] = call[d]
        /\ call[c].pc # "commit"
    BY <1>a, <1>1 DEF Upload, AddVersion, Edit, Delete, OpenCurrent, OpenVersion,
       PutFirst, PutNext, PutObject, GetObject, InsertVersion, Crash, searchVars,
       Free, Goto, Return
  <2>2. call'[c].pc # "commit"
    BY <1>a, <1>1 DEF Upload, AddVersion, Edit, Delete, OpenCurrent, OpenVersion,
       PutFirst, PutNext, PutObject, GetObject, InsertVersion, Crash, Goto, Return,
       Idle, CallType
  <2> QED BY <2>1, <2>2, NoChangeStep
<1>2. CASE CreateDocument(c)
  <2>1. PICK title \in Titles :
          /\ document' = [version |-> 1, row |-> call[c].row, title |-> title,
                          deleted |-> FALSE]
          /\ Index(changes + 1, title, call[c].row.file)
    BY <1>2 DEF CreateDocument
  <2>2. /\ changes' = changes + 1 /\ index' = index
        /\ call' = [call EXCEPT ![c] = Idle]
        /\ \A d \in Calls : ~Adding(d)
    BY <1>a, <1>2 DEF CreateDocument, Return, AddInv, UploadInv, Uploading
  <2>3. ~Locked' /\ \A d \in Calls : call'[d].pc # "commit"
    BY <1>a, <2>2 DEF Locked, Adding, Idle
  <2>4. \A r \in requests' \ requests :
          r.change = changes + 1 /\ r.entry = [title |-> title, file |-> call[c].row.file]
    BY <2>1 DEF Index
  <2> QED BY <2>1, <2>2, <2>3, <2>4, ChangeStep DEF Shows
<1>3. CASE InsertVersion(c) /\ versions[call[c].version] = NoRow
  <2>1. /\ changes' = changes + 1 /\ index' = index /\ document' = document
        /\ Index(changes + 1, document.title, call[c].row.file)
        /\ call' = [call EXCEPT ![c].pc = "commit"] /\ ~Locked
    BY <1>3 DEF InsertVersion, Goto
  <2>2. /\ Locked' /\ call'[c].row = call[c].row
        /\ \A d \in Calls : call'[d].pc = "commit" => d = c
    BY <1>a, <2>1 DEF Locked, CallType
  <2>3. \A r \in requests' \ requests :
          /\ r.change = changes + 1
          /\ r.entry = [title |-> document.title, file |-> call[c].row.file]
    BY <2>1 DEF Index
  <2> QED BY <2>1, <2>2, <2>3, ChangeStep
<1>4. CASE UpdateMetadata(c)
  <2>1. PICK title \in Titles :
          /\ document' = [document EXCEPT !.title = title]
          /\ Index(changes + 1, title, document.row.file)
    BY <1>4 DEF UpdateMetadata
  <2>2. /\ changes' = changes + 1 /\ index' = index
        /\ call' = [call EXCEPT ![c] = Idle] /\ ~Locked
    BY <1>4 DEF UpdateMetadata, Return
  <2>3. ~Locked' /\ \A d \in Calls : call'[d].pc # "commit"
    BY <1>a, <2>2 DEF Locked, Idle
  <2>4. document'.title = title /\ document'.row = document.row
    BY <1>a, <2>1 DEF DocumentType
  <2>5. \A r \in requests' \ requests :
          /\ r.change = changes + 1
          /\ r.entry = [title |-> title, file |-> document.row.file]
    BY <2>1 DEF Index
  <2> QED BY <2>2, <2>3, <2>4, <2>5, ChangeStep DEF Shows
<1>5. CASE SoftDelete(c)
  <2>1. /\ changes' = changes + 1 /\ index' = index /\ document'.deleted
        /\ Index(changes + 1, None, None)
    BY <1>a, <1>5 DEF SoftDelete, DocumentType
  <2>2. \A r \in requests' \ requests : r.change = changes + 1
    BY <2>1 DEF Index
  <2> QED BY <2>1, <2>2, ChangeStep
<1>6. CASE ReindexSearch(c)
  <2>1. /\ UNCHANGED <<document, changes, index, call>>
        /\ Index(IF Locked THEN changes - 1 ELSE changes,
                 document.title, document.row.file)
    BY <1>6 DEF ReindexSearch
  <2>2. \A r \in requests' \ requests :
          /\ r.change = IF Locked THEN changes - 1 ELSE changes
          /\ r.entry = Shows(document.row.file)
    BY <2>1 DEF Index, Shows
  <2>3. UNCHANGED <<Locked, Exists>> /\ \A file : Shows(file)' = Shows(file)
    BY <2>1 DEF Locked, Exists, Shows
  <2>4. ASSUME NEW r \in requests' \ requests
        PROVE  /\ r.change <= changes
               /\ r.change = changes =>
                    ~Locked /\ r.entry = Shows(document.row.file)
    BY <1>a, <2>2
  <2>5. \A d \in Calls : call[d].pc = "commit" => Locked
    BY DEF Locked
  <2> QED BY <1>a, <2>1, <2>3, <2>4, <2>5 DEF RequestInv, Shows
<1>7. CASE CommitVersion(c)
  <2>1. /\ UNCHANGED <<changes, index, requests>>
        /\ document' = [document EXCEPT !.version = document.version + 1,
                                        !.row = call[c].row]
        /\ call' = [call EXCEPT ![c] = Idle] /\ call[c].pc = "commit"
    BY <1>7 DEF CommitVersion, Return, searchVars
  <2>2. /\ document'.title = document.title /\ document'.deleted = document.deleted
        /\ document'.row = call[c].row
    BY <1>a, <2>1 DEF DocumentType
  <2>3. Exists /\ \A d \in Calls : call'[d].pc # "commit"
    BY <1>a, <2>1 DEF AddInv, Adding, CommitInv, Idle
  <2> QED BY <1>a, <2>1, <2>2, <2>3 DEF RequestInv, Shows
<1>8. CASE Crash(c) /\ call[c].pc = "commit"
  <2>1. changes' = changes + 1 /\ UNCHANGED <<index, requests>>
    BY <1>8 DEF Crash
  <2> QED BY <2>1, ChangeStep
<1> QED BY <1>1, <1>2, <1>3, <1>4, <1>5, <1>6, <1>7, <1>8 DEF Step

LEMMA RequestInvariance == Spec => [](IInv /\ RequestInv)
<1>1. IInv /\ RequestInv /\ [Next]_vars => RequestInv'
  <2>1. ASSUME IInv, RequestInv, NEW r \in requests, SearchStep(r) PROVE RequestInv'
    <3>1. /\ UNCHANGED <<document, changes, call>>
          /\ requests' \cup {index'} \subseteq requests \cup {index}
      BY <2>1, SearchKeeps DEF SearchStep, IndexArrives, IndexRefused
    <3> QED BY <2>1, <3>1 DEF RequestInv, Shows, Exists, Locked
  <2>2. ASSUME RequestInv, UNCHANGED vars PROVE RequestInv'
    BY <2>2 DEF vars, searchVars, RequestInv, Shows, Exists, Locked
  <2> QED BY <2>1, <2>2, RequestStep DEF Next, SearchStep
<1> QED BY InitRequestInv, Invariance, <1>1, PTL DEF Spec

(* Whoever writes, whatever overtakes what, and whatever is lost or rolled *)
(* back: once the request that arrived last is one made after the last     *)
(* change, by the change itself or by reindexSearch, the index shows the   *)
(* document.                                                               *)
THEOREM LastRequestIndexes == Spec => []IndexCurrent
<1>1. IInv /\ RequestInv => IndexCurrent
  BY DEF RequestInv, IndexCurrent, Shows
<1> QED BY RequestInvariance, <1>1, PTL
=============================================================================
