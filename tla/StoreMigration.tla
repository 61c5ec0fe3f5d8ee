--------------------------- MODULE StoreMigration ---------------------------
(***************************************************************************)
(* Moving the documents from one object store to another while the API     *)
(* goes on serving: scripts/migrate-object-store.mjs, the API's own look   *)
(* at its bucket when it starts, and the operator who runs the one and     *)
(* then points the other at the new store (docs/Deployment.md), or back    *)
(* (docs/DisasterRecovery.md).                                             *)
(*                                                                         *)
(* A run copies the store in use to the other one, object by object; each  *)
(* request to a store is one step.  What an object holds is told apart no  *)
(* further than whether it is what the API stored.  A fault is a request   *)
(* that fails or does damage, or a run that dies.                          *)
(*                                                                         *)
(* Left out: the settings the script refuses to start with, and an upload  *)
(* that replaces the object of a refused version (Documents).              *)
(***************************************************************************)
EXTENDS Faults, Naturals

CONSTANTS
  Stores,     \* the two stores
  Objects     \* keys the API stores documents under

MigrationAssumption ==
  MaxFaults \in Nat /\ \E a, b \in Stores : a # b /\ Stores = {a, b}

VARIABLES
  bucket,     \* stores that have the bucket
  object,     \* what each store holds under each key
  endpoint,   \* the store the API is pointed at
  recorded,   \* keys of documents the API stored
  migration,  \* the run of the script
  verified,   \* the last run copied everything from the store in use
  late,       \* keys stored since the last run listed them
  dropped     \* keys the operator left behind by not running it once more

stores == <<bucket, object>>
migrationVars == <<stores, endpoint, recorded, migration, verified, late, dropped, faults>>

Idle == [pc |-> "idle", apply |-> FALSE, todo |-> {}, failed |-> FALSE]
Other == CHOOSE s \in Stores : s # endpoint

MigrationInit ==
  /\ \E s \in Stores : endpoint = s /\ bucket = {s}
  /\ object = [s \in Stores |-> [k \in Objects |-> "absent"]]
  /\ recorded = {}
  /\ migration = Idle
  /\ verified = FALSE
  /\ late = {}
  /\ dropped = {}
  /\ faults = 0

Goto(pc) == migration' = [migration EXCEPT !.pc = pc]

(* The key that is dealt with: those of the list in turn.                  *)
Key == CHOOSE k \in migration.todo : TRUE
NextKey(failed) ==
  migration' = [migration EXCEPT !.pc = "read", !.todo = @ \ {Key},
                                 !.failed = @ \/ failed]
Fault == faults < MaxFaults /\ faults' = faults + 1

(***************************************************************************)
(* The API.                                                                *)
(***************************************************************************)
(* put, under a key of its own.                                            *)
Upload(k) ==
  /\ k \notin recorded
  /\ recorded' = recorded \cup {k}
  /\ object' = [object EXCEPT ![endpoint][k] = "whole"]
  /\ late' = late \cup {k}
  /\ UNCHANGED <<bucket, endpoint, migration, verified, dropped, faults>>

(* onModuleInit of the API at the store that it is now pointed at, which   *)
(* has the bucket or is given it.  The operator waits for a run that       *)
(* reported success.                                                       *)
Cutover ==
  /\ migration.pc = "idle" /\ verified
  /\ endpoint' = Other
  /\ bucket' = bucket \cup {Other}
  /\ dropped' = dropped \cup {k \in late : object[Other][k] # "whole"}
  /\ verified' = FALSE
  /\ late' = {}
  /\ UNCHANGED <<object, recorded, migration, faults>>

(***************************************************************************)
(* The script.                                                             *)
(***************************************************************************)
StartRun ==
  /\ migration.pc = "idle"
  /\ \E apply \in BOOLEAN :
       migration' = [Idle EXCEPT !.pc = "bucket", !.apply = apply]
  /\ verified' = FALSE
  /\ UNCHANGED <<stores, endpoint, recorded, late, dropped, faults>>

(* A dry run only says that it would make the bucket.                      *)
EnsureBucket ==
  /\ migration.pc = "bucket"
  /\ bucket' = IF migration.apply THEN bucket \cup {Other} ELSE bucket
  /\ Goto("list")
  /\ UNCHANGED <<object, endpoint, recorded, verified, late, dropped, faults>>

ListAll ==
  /\ migration.pc = "list"
  /\ migration' = [migration EXCEPT !.pc = "read",
       !.todo = {k \in Objects : object[endpoint][k] # "absent"}]
  /\ late' = {}
  /\ UNCHANGED <<stores, endpoint, recorded, verified, dropped, faults>>

(* Read from the source; a dry run goes on to the next.                    *)
Read ==
  /\ migration.pc = "read" /\ migration.todo # {}
  /\ IF migration.apply THEN Goto("put") ELSE NextKey(FALSE)
  /\ UNCHANGED <<stores, endpoint, recorded, verified, late, dropped, faults>>

\* Slip: an object that cannot be read is passed over and not counted.
ReadFailsUncounted ==
  /\ migration.pc = "read" /\ migration.todo # {}
  /\ Fault
  /\ NextKey(FALSE)
  /\ UNCHANGED <<stores, endpoint, recorded, verified, late, dropped>>

ReadFails ==
  /\ migration.pc = "read" /\ migration.todo # {}
  /\ Fault
  /\ NextKey(TRUE)
  /\ UNCHANGED <<stores, endpoint, recorded, verified, late, dropped>>

(* Written to the target, which may store something else and not say so.   *)
Put ==
  /\ migration.pc = "put"
  /\ \/ /\ object' = [object EXCEPT ![Other][Key] = object[endpoint][Key]]
        /\ UNCHANGED faults
     \/ /\ Fault
        /\ object' = [object EXCEPT ![Other][Key] = "damaged"]
  /\ Goto("back")
  /\ UNCHANGED <<bucket, endpoint, recorded, verified, late, dropped>>

(* Read back from the target and compared; a mismatch is thrown and caught.*)
ReadBack ==
  /\ migration.pc = "back"
  /\ NextKey(object[Other][Key] # object[endpoint][Key])
  /\ UNCHANGED <<stores, endpoint, recorded, verified, late, dropped, faults>>

(* The put or the reading back is refused: caught and counted.             *)
CopyFails ==
  /\ migration.pc \in {"put", "back"}
  /\ Fault
  /\ NextKey(TRUE)
  /\ UNCHANGED <<stores, endpoint, recorded, verified, late, dropped>>

(* The exit code: 1 when anything failed.  A dry run moved nothing.        *)
Finish ==
  /\ migration.pc = "read" /\ migration.todo = {}
  /\ verified' = (migration.apply /\ ~migration.failed)
  /\ migration' = Idle
  /\ UNCHANGED <<stores, endpoint, recorded, late, dropped, faults>>

(* The bucket cannot be made or listed, or the process is killed.          *)
RunDies ==
  /\ migration.pc # "idle"
  /\ Fault
  /\ migration' = Idle
  /\ UNCHANGED <<stores, endpoint, recorded, verified, late, dropped>>

Run ==
  \/ StartRun \/ EnsureBucket \/ ListAll \/ Read \/ ReadFails \/ Put
  \/ ReadBack \/ CopyFails \/ Finish \/ RunDies

MigrationNext == Run \/ Cutover \/ \E k \in Objects : Upload(k)

MigrationSpec == MigrationInit /\ [][MigrationNext]_migrationVars
-----------------------------------------------------------------------------
(* "A copy that was never read back is a copy you cannot trust": whatever  *)
(* failed on the way, after any number of runs, dead runs and cutovers in  *)
(* either direction, the store in use has every document as it was stored, *)
(* but for those stored after the last run listed them.                    *)
NothingLost ==
  \A k \in recorded \ dropped : object[endpoint][k] = "whole"
=============================================================================
