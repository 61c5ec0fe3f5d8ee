--------------------------- MODULE VersionHistory ---------------------------
(***************************************************************************)
(* What a document promises whoever signs, downloads or audits it: a       *)
(* history of its versions that is only appended to, and reads that get,   *)
(* in one step, what stands in it under the number they ask for.           *)
(***************************************************************************)
EXTENDS Sequences

CONSTANT Files

VARIABLES
  history,  \* the file of each version
  reads     \* what was read, under which number

historyVars == <<history, reads>>

HistoryInit == history = <<>> /\ reads = {}

Record(file) ==
  /\ history' = Append(history, file)
  /\ UNCHANGED reads

ReadVersion(v) ==
  /\ reads' = reads \cup {<<v, history[v]>>}
  /\ UNCHANGED history

HistoryNext ==
  \/ \E file \in Files : Record(file)
  \/ \E v \in DOMAIN history : ReadVersion(v)

HistorySpec == HistoryInit /\ [][HistoryNext]_historyVars
=============================================================================
