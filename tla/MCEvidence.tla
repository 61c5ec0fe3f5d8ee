----------------------------- MODULE MCEvidence -----------------------------
(***************************************************************************)
(* Instances of Fields, Certificates, DemoSession and StoreMigration for   *)
(* TLC: what stands behind a signature.  None of the four writes what      *)
(* another reads, so a behaviour is one of one of them, chosen by part.    *)
(***************************************************************************)
EXTENDS Fields, Certificates, DemoSession, StoreMigration, TLC

VARIABLE part

(* Two CAs that number their certificates alike.                           *)
OneSerial == [c \in Certs |-> "1"]

ASSUME FieldsAssumption /\ CertificateAssumption /\ DemoAssumption
ASSUME MigrationAssumption

Field(order, required, attachment) ==
  [order |-> order, required |-> required, attachment |-> attachment]

(* Templates for one recipient, for two, and one that cannot be sent.      *)
Templates ==
  { {Field(0, TRUE, FALSE), Field(0, FALSE, FALSE)},
    {Field(0, TRUE, FALSE), Field(1, TRUE, FALSE)},
    {Field(0, FALSE, TRUE)} }

To(orders, copies) == [orders |-> orders, copies |-> copies]
InOrder == {To({0}, {}), To({0, 1}, {}), To({0, 1}, {1})}
Gapped == {To({0, 2}, {})}

fields == <<library, linked, send, request, signature, room>>
certificates == <<store, op, dns, evidence>>
demo == <<made, document, requests, holder, placed, ended, visit, shown>>
move == <<stores, endpoint, recorded, migration, verified, late, dropped>>

Init ==
  /\ part \in {"fields", "certificates", "demo", "move"}
  /\ FieldsInit
  /\ CertificatesInit
  /\ DemoInit
  /\ MigrationInit
  /\ part # "fields" => linked /\ Cardinality(template) = 1
  /\ part # "move" => endpoint = CHOOSE s \in Stores : TRUE

Next ==
  /\ \/ part = "fields" /\ FieldsNext /\ UNCHANGED <<certificates, demo, move>>
     \/ part = "certificates" /\ CertificatesNext /\ UNCHANGED <<fields, demo, move>>
     \/ part = "demo" /\ DemoNext /\ UNCHANGED <<fields, certificates, move>>
     \/ part = "move" /\ MigrationNext /\ UNCHANGED <<fields, certificates, demo>>
  /\ UNCHANGED part

Spec == Init /\ [][Next]_<<part, faults, fields, certificates, demo, move>>

Symmetry ==
  Permutations(Rooms) \cup Permutations(Certs) \cup Permutations(Ops)
    \cup Permutations(Visitors)
=============================================================================
