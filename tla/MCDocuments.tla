---------------------------- MODULE MCDocuments -----------------------------
(***************************************************************************)
(* Instances of Documents for TLC.                                         *)
(***************************************************************************)
EXTENDS Documents

CONSTANTS f1, f2, f3

(* Two files of one type and one of another.                               *)
TwoTypes == [f \in Files |-> IF f = f3 THEN "docx" ELSE "pdf"]
=============================================================================
