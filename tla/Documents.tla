----------------------------- MODULE Documents ------------------------------
(***************************************************************************)
(* One document of a tenant: its row in the database, its versions, their  *)
(* objects in the store, and its entry in the search index                 *)
(* (DocumentsService, AdminService.reindexSearch, and the reads of the     *)
(* content when a recipient signs or somebody downloads).                  *)
(*                                                                         *)
(* Each await of a handler is one step.  The requests to the search index  *)
(* are not awaited (void): they stay under way after their handlers have   *)
(* answered, any number of them, and arrive in any order.                  *)
(*                                                                         *)
(* A file stands for its bytes, its name and its SHA-256 at once.  Left    *)
(* out: workspaces, templates, tags, the size and magic-byte checks of an  *)
(* upload (a file here passes them), and the document's status, which      *)
(* belongs to SigningRequest.                                              *)
(***************************************************************************)
EXTENDS Naturals, FiniteSets

CONSTANTS
  Calls,       \* calls under way at once (bound)
  Writers,     \* those of them that may change the document
  Files,       \* the files that are uploaded
  Extensions,
  Extension,   \* the extension of each file, from its content type
  Titles,
  None,        \* no file, no title
  MaxVersion,  \* versions of the document (bound)
  MaxChanges,  \* changes of its row, those rolled back apart (bound)
  MaxRequests, \* index requests under way at once (bound)
  MaxFaults    \* crashes and refused requests (bound)

ASSUME DocumentAssumption ==
  /\ Writers \subseteq Calls
  /\ Extension \in [Files -> Extensions]
  /\ None \notin Files /\ None \notin Titles
  /\ MaxVersion \in Nat /\ MaxFaults \in Nat
  /\ MaxChanges \in Nat /\ MaxRequests \in Nat

VARIABLES
  document,  \* Document
  versions,  \* DocumentVersion, by number
  object,    \* the object store, by key
  changes,   \* how often the document's row was changed, or changed back
  index,     \* the document's entry in the search index, and the change
             \* after which the request was made that put it there
  requests,  \* the index requests under way
  call,      \* the handler of each call
  served,    \* what was read as which version, by a signature or a download
  faults

searchVars == <<changes, index, requests>>
vars == <<document, versions, object, searchVars, call, served, faults>>

Versions == 1..MaxVersion

(* addVersion's key is {org}/documents/{document}/v{version}.{extension};  *)
(* the key of the first upload is a fresh UUID, so nobody else has it.     *)
Key == Versions \X Extensions
\* Slip: a key without the version number.
KeyOfDocument(v, file) == <<1, Extension[file]>>

KeyOf(v, file) == <<v, Extension[file]>>

RowType == [key : Key, file : Files]
NoRow == [key |-> <<0, None>>, file |-> None]
DocumentType == [version : 0..MaxVersion, row : RowType \cup {NoRow},
                 title : Titles \cup {None}, deleted : BOOLEAN]
Entry == [title : Titles \cup {None}, file : Files \cup {None}]
NoEntry == [title |-> None, file |-> None]
RequestType == [change : Nat, entry : Entry]
Pc == {"idle", "putFirst", "create", "putNext", "insert", "commit", "edit",
       "delete", "get"}
CallType == [pc : Pc, version : 0..MaxVersion, row : RowType \cup {NoRow}]

Idle == [pc |-> "idle", version |-> 0, row |-> NoRow]

Exists == document.version > 0
Goto(c, pc) == call' = [call EXCEPT ![c].pc = pc]
Return(c) == call' = [call EXCEPT ![c] = Idle]

(* A transaction holds the document's row from its update to its commit:   *)
(* every other write of the row, or of the same version, waits for it.     *)
Locked == \E c \in Calls : call[c].pc = "commit"

Free(c) == call[c].pc = "idle"

(* Whoever starts to change the document has a change left for it.         *)
ChangeLeft ==
  changes + Cardinality({c \in Calls : call[c].pc \notin {"idle", "get", "commit"}})
    < MaxChanges

(* An index request, made after that change of the row.                    *)
Index(change, title, file) ==
  /\ Cardinality(requests) < MaxRequests
  /\ requests' = requests \cup
       {[change |-> change, entry |-> [title |-> title, file |-> file]]}

Init ==
  /\ document = [version |-> 0, row |-> NoRow, title |-> None, deleted |-> FALSE]
  /\ versions = [v \in Versions |-> NoRow]
  /\ object = [k \in Key |-> None]
  /\ changes = 0
  /\ index = [change |-> 0, entry |-> NoEntry]
  /\ requests = {}
  /\ call = [c \in Calls |-> Idle]
  /\ served = {}
  /\ faults = 0

(***************************************************************************)
(* upload: the object first, then the document and its version 1 in one    *)
(* statement, then the index.                                              *)
(***************************************************************************)
(* Another upload makes another document, so only one is under way here.   *)
Upload(c) ==
  /\ c \in Writers /\ Free(c)
  /\ ~Exists /\ MaxVersion > 0 /\ ChangeLeft
  /\ \A other \in Calls : call[other].pc \notin {"putFirst", "create"}
  /\ \E file \in Files :
       call' = [call EXCEPT ![c] =
         [pc |-> "putFirst", version |-> 1,
          row |-> [key |-> KeyOf(1, file), file |-> file]]]
  /\ UNCHANGED <<document, versions, object, searchVars, served, faults>>

PutObject(c, pc, next) ==
  /\ call[c].pc = pc
  /\ object' = [object EXCEPT ![call[c].row.key] = call[c].row.file]
  /\ Goto(c, next)
  /\ UNCHANGED <<document, versions, searchVars, served, faults>>

PutFirst(c) == PutObject(c, "putFirst", "create")

CreateDocument(c) ==
  /\ call[c].pc = "create"
  /\ \E title \in Titles :
       /\ document' = [version |-> 1, row |-> call[c].row, title |-> title,
                       deleted |-> FALSE]
       /\ Index(changes + 1, title, call[c].row.file)
  /\ versions' = [versions EXCEPT ![1] = call[c].row]
  /\ changes' = changes + 1
  /\ Return(c)
  /\ UNCHANGED <<object, index, served, faults>>

(***************************************************************************)
(* addVersion.  It does not ask whether the document was deleted.          *)
(***************************************************************************)
\* Slip: the key is made from the version that is there.
AddVersionSameKey(c) ==
  /\ c \in Writers /\ Free(c)
  /\ Exists /\ document.version < MaxVersion /\ ChangeLeft
  /\ \E file \in Files :
       call' = [call EXCEPT ![c] =
         [pc |-> "putNext", version |-> document.version + 1,
          row |-> [key |-> KeyOf(document.version, file), file |-> file]]]
  /\ UNCHANGED <<document, versions, object, searchVars, served, faults>>

AddVersion(c) ==
  /\ c \in Writers /\ Free(c)
  /\ Exists /\ document.version < MaxVersion /\ ChangeLeft
  /\ \E file \in Files :
       call' = [call EXCEPT ![c] =
         [pc |-> "putNext", version |-> document.version + 1,
          row |-> [key |-> KeyOf(document.version + 1, file), file |-> file]]]
  /\ UNCHANGED <<document, versions, object, searchVars, served, faults>>

\* Slip: the transaction does not wait for the object store.
PutNextLost(c) ==
  /\ call[c].pc = "putNext"
  /\ Goto(c, "insert")
  /\ UNCHANGED <<document, versions, object, searchVars, served, faults>>

PutNext(c) == PutObject(c, "putNext", "insert")

\* Slip: no unique (document, version); or the row is indexed as it was read.
InsertVersionUnchecked(c) ==
  /\ call[c].pc = "insert"
  /\ ~Locked
  /\ changes' = changes + 1
  /\ Index(changes + 1, document.title, call[c].row.file)
  /\ Goto(c, "commit")
  /\ UNCHANGED <<document, versions, object, index, served, faults>>
InsertVersionStaleIndex(c) ==
  /\ call[c].pc = "insert"
  /\ ~Locked
  /\ versions[call[c].version] = NoRow
  /\ changes' = changes + 1
  /\ Index(changes + 1, document.title, document.row.file)
  /\ Goto(c, "commit")
  /\ UNCHANGED <<document, versions, object, index, served, faults>>

(* In the transaction: documentVersion.create, refused when the number is  *)
(* taken, document.update, and the index request, before the commit.       *)
InsertVersion(c) ==
  /\ call[c].pc = "insert"
  /\ ~Locked
  /\ \/ /\ versions[call[c].version] = NoRow
        /\ changes' = changes + 1
        /\ Index(changes + 1, document.title, call[c].row.file)
        /\ Goto(c, "commit")
     \/ /\ versions[call[c].version] # NoRow
        /\ Return(c) /\ UNCHANGED <<changes, requests>>
  /\ UNCHANGED <<document, versions, object, index, served, faults>>

CommitVersion(c) ==
  /\ call[c].pc = "commit"
  /\ versions' = [versions EXCEPT ![call[c].version] = call[c].row]
  /\ document' = [document EXCEPT !.version = @ + 1, !.row = call[c].row]
  /\ Return(c)
  /\ UNCHANGED <<object, searchVars, served, faults>>

(***************************************************************************)
(* updateMetadata and softDelete: a read that finds deleted documents as   *)
(* well, the write, and the index request.                                 *)
(***************************************************************************)
Edit(c) ==
  /\ c \in Writers /\ Free(c)
  /\ Exists /\ ChangeLeft
  /\ Goto(c, "edit")
  /\ UNCHANGED <<document, versions, object, searchVars, served, faults>>

UpdateMetadata(c) ==
  /\ call[c].pc = "edit"
  /\ ~Locked
  /\ \E title \in Titles :
       /\ document' = [document EXCEPT !.title = title]
       /\ Index(changes + 1, title, document.row.file)
  /\ changes' = changes + 1
  /\ Return(c)
  /\ UNCHANGED <<versions, object, index, served, faults>>

Delete(c) ==
  /\ c \in Writers /\ Free(c)
  /\ Exists /\ ChangeLeft
  /\ Goto(c, "delete")
  /\ UNCHANGED <<document, versions, object, searchVars, served, faults>>

SoftDelete(c) ==
  /\ call[c].pc = "delete"
  /\ ~Locked
  /\ document' = [document EXCEPT !.deleted = TRUE]
  /\ changes' = changes + 1
  /\ Index(changes + 1, None, None)
  /\ Return(c)
  /\ UNCHANGED <<versions, object, index, served, faults>>

(* reindexSearch: the rows that are not deleted are read and sent, a       *)
(* transaction's before it if one is open.                                 *)
ReindexSearch(c) ==
  /\ c \in Writers /\ Free(c)
  /\ Exists /\ ~document.deleted
  /\ Index(IF Locked THEN changes - 1 ELSE changes,
           document.title, document.row.file)
  /\ UNCHANGED <<document, versions, object, changes, index, call, served, faults>>

(***************************************************************************)
(* sign and download: the key is read from the database, the bytes from    *)
(* the store later.  Neither asks whether the document was deleted.        *)
(***************************************************************************)
OpenCurrent(c) ==
  /\ Free(c) /\ Exists
  /\ call' = [call EXCEPT ![c] =
                [pc |-> "get", version |-> document.version, row |-> document.row]]
  /\ UNCHANGED <<document, versions, object, searchVars, served, faults>>

OpenVersion(c) ==
  /\ Free(c) /\ Exists
  /\ \E v \in Versions :
       /\ versions[v] # NoRow
       /\ call' = [call EXCEPT ![c] =
                     [pc |-> "get", version |-> v, row |-> versions[v]]]
  /\ UNCHANGED <<document, versions, object, searchVars, served, faults>>

GetObject(c) ==
  /\ call[c].pc = "get"
  /\ served' = served \cup {<<call[c].version, object[call[c].row.key]>>}
  /\ Return(c)
  /\ UNCHANGED <<document, versions, object, searchVars, faults>>

(***************************************************************************)
(* The environment: an index request arrives or is refused (the failure is *)
(* counted and dropped), a call dies, and its transaction is rolled back.  *)
(***************************************************************************)
IndexArrives(r) ==
  /\ index' = r
  /\ requests' = requests \ {r}
  /\ UNCHANGED <<document, versions, object, changes, call, served, faults>>

IndexRefused(r) ==
  /\ faults < MaxFaults
  /\ faults' = faults + 1
  /\ requests' = requests \ {r}
  /\ UNCHANGED <<document, versions, object, changes, index, call, served>>

Crash(c) ==
  /\ call[c].pc # "idle"
  /\ faults < MaxFaults
  /\ faults' = faults + 1
  /\ changes' = IF call[c].pc = "commit" THEN changes + 1 ELSE changes
  /\ Return(c)
  /\ UNCHANGED <<document, versions, object, index, requests, served>>

Step(c) ==
  \/ Upload(c) \/ PutFirst(c) \/ CreateDocument(c)
  \/ AddVersion(c) \/ PutNext(c) \/ InsertVersion(c) \/ CommitVersion(c)
  \/ Edit(c) \/ UpdateMetadata(c) \/ Delete(c) \/ SoftDelete(c)
  \/ ReindexSearch(c)
  \/ OpenCurrent(c) \/ OpenVersion(c) \/ GetObject(c)
  \/ Crash(c)

Next ==
  \/ \E c \in Calls : Step(c)
  \/ \E r \in requests : IndexArrives(r) \/ IndexRefused(r)

Spec == Init /\ [][Next]_vars
-----------------------------------------------------------------------------
(***************************************************************************)
(* Properties.                                                             *)
(***************************************************************************)
TypeOK ==
  /\ document \in DocumentType
  /\ versions \in [Versions -> RowType \cup {NoRow}]
  /\ object \in [Key -> Files \cup {None}]
  /\ changes \in Nat
  /\ index \in RequestType
  /\ requests \subseteq RequestType
  /\ call \in [Calls -> CallType]
  /\ served \subseteq ((0..MaxVersion) \X (Files \cup {None}))
  /\ faults \in 0..MaxFaults

(* The document's pointer is its latest version: the versions are numbered *)
(* 1 to document.version without a gap, and the document's key and         *)
(* checksum are those of the last.  Two uploads of the next version, and a *)
(* crash anywhere in either, never leave them apart.                       *)
PointerIsLatest ==
  /\ \A v \in Versions : versions[v] # NoRow <=> v <= document.version
  /\ Exists => document.row = versions[document.version]

(* No recorded version, and so no document, is without its object: the     *)
(* object is stored before the row is written, and never removed.          *)
NoDanglingKey ==
  \A v \in Versions : versions[v] # NoRow => object[versions[v].key] # None

(* Whatever is uploaded meanwhile, what a recipient signs, or somebody     *)
(* downloads, as version v is the file whose checksum version v recorded,  *)
(* and versions are only added, one after the other.  A read is one step   *)
(* there, where here the store is asked for the bytes long after the       *)
(* database was asked for their key.                                       *)
History == INSTANCE VersionHistory WITH
  history <- [v \in 1..document.version |-> versions[v].file], reads <- served

ImplementsHistory == History!HistorySpec

(* A version is immutable (docs/Architecture.md): its row never changes,   *)
(* and nothing but a rival changes the bytes under its key: an upload of   *)
(* the same number, that read the document before the version was recorded *)
(* and will be refused.                                                    *)
VersionsImmutable ==
  [][\A v \in Versions : versions[v] # NoRow =>
       /\ versions'[v] = versions[v]
       /\ \/ object'[versions[v].key] = object[versions[v].key]
          \/ \E c \in Calls : call[c].pc = "putNext" /\ call[c].version = v]_vars

(* The search index shows the document as it is whenever the request that  *)
(* arrived last was made after the last change of the row, whoever made    *)
(* the change or, with reindexSearch, read the row after it; however many  *)
(* write at once, and whichever of the other requests were overtaken,      *)
(* refused, or sent for a version that was rolled back.  An open           *)
(* transaction is excepted: its request is sent before it is committed.    *)
IndexCurrent ==
  (Exists /\ ~document.deleted /\ ~Locked /\ index.change = changes)
  => index.entry = [title |-> document.title, file |-> document.row.file]
=============================================================================
