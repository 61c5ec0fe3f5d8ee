---------------------------- MODULE Certificates ----------------------------
(***************************************************************************)
(* Certificates of one organization: CertificatesService, the providers    *)
(* that issue them (ACME with its DNS challenge, Cerulean, a script of the *)
(* organization's own CA), and the certificate-backed half of sign().      *)
(*                                                                         *)
(* A certificate is named; what matters of it is its serial number, which  *)
(* is the key of its row, and its key pair, named as it is.  Each await on *)
(* the database, the DNS or a provider is a step.  A fault is a call that  *)
(* dies between two of them.                                               *)
(*                                                                         *)
(* Left out: names and identities (whether the signer is who the           *)
(* certificate says is a refusal like any other, and how it scores), and   *)
(* verify(), which writes nothing.                                         *)
(***************************************************************************)
EXTENDS Faults, Integers, FiniteSets

CONSTANTS
  Certs,      \* certificates that CAs issue
  Serial,     \* the serial number of each; two CAs may use the same one
  Names,      \* DNS identifiers that ACME orders are for
  Ops,        \* imports and provisions served at once (bound)
  Signers,
  MaxPolls    \* polls of Cerulean, 30 in the code

CertificateAssumption == MaxPolls \in Nat \ {0} /\ MaxFaults \in Nat

VARIABLES
  row,        \* SigningCertificate, by serial number
  issued,     \* certificates handed out so far
  expired,
  reissued,   \* serial numbers of rows with a key kept for another certificate
  op,         \* what each import or provision is doing
  txt,        \* TXT records: whose, under which name
  stranded,   \* those whose call died, or whose deletion the DNS refused
  evidence    \* each signer's: the serial number of the row that was signed
              \* with, the key that signed, whether the row's key was another
              \* certificate's, and whether another certificate has replaced
              \* the row's since

dns == <<txt, stranded>>
store == <<row, issued, expired, reissued>>
certificateVars == <<store, op, dns, evidence, faults>>

None == "none"
NoOp == [pc |-> "idle", kind |-> None, name |-> None, cert |-> None,
         key |-> None, found |-> FALSE, polls |-> 0, records |-> {}]
Absent == [status |-> "absent", revoked |-> FALSE, cert |-> None, key |-> None]
Unsigned == [serial |-> None, key |-> None, keptKey |-> FALSE, replaced |-> FALSE]

Serials == {Serial[c] : c \in Certs}

CertificatesInit ==
  /\ row = [s \in Serials |-> Absent]
  /\ issued = {}
  /\ expired = {}
  /\ reissued = {}
  /\ op = [o \in Ops |-> NoOp]
  /\ txt = {}
  /\ stranded = {}
  /\ evidence = [x \in Signers |-> Unsigned]
  /\ faults = 0

Proceed(o, pc) == op' = [op EXCEPT ![o].pc = pc]
Done(o) == op' = [op EXCEPT ![o] = NoOp]

(* A provider answers with a certificate, and perhaps its key.             *)
Obtain(o, c, key) ==
  /\ op' = [op EXCEPT ![o] = [NoOp EXCEPT !.pc = "find", !.kind = "issued",
                                          !.cert = c, !.key = key]]
  /\ issued' = issued \cup {c}
  /\ UNCHANGED <<row, expired, reissued, dns, evidence, faults>>

(***************************************************************************)
(* importCertificate.                                                      *)
(***************************************************************************)
(* parseCertificatePem refuses an expired certificate.                     *)
Parsed == Certs \ expired

(* assertPrivateKeyMatches refuses the key of another one; none is fine.   *)
MatchingKeys(c) == {c, None}

StartImport(o) ==
  /\ op[o].pc = "idle"
  /\ \E c \in Parsed : \E key \in MatchingKeys(c) :
       /\ op' = [op EXCEPT ![o] =
            [NoOp EXCEPT !.pc = "find", !.kind = "import",
                         !.cert = c, !.key = key]]
       /\ issued' = issued \cup {c}
  /\ UNCHANGED <<row, expired, reissued, dns, evidence, faults>>

(***************************************************************************)
(* provision: the provider of the registry, then persistIssued.            *)
(***************************************************************************)
StartProvision(o) ==
  /\ op[o].pc = "idle"
  /\ \/ \E n \in Names :
          op' = [op EXCEPT ![o] = [NoOp EXCEPT !.pc = "set", !.kind = "ACME",
                                               !.name = n]]
     \/ op' = [op EXCEPT ![o] = [NoOp EXCEPT !.pc = "poll"]]
     \/ op' = [op EXCEPT ![o] = [NoOp EXCEPT !.pc = "script"]]
  /\ UNCHANGED <<store, dns, evidence, faults>>

(* AcmeProvider: the record, the challenge, and in any case its removal.   *)
SetTxtRecord(o) ==
  /\ op[o].pc = "set"
  /\ txt' = txt \cup {[name |-> op[o].name, by |-> o]}
  /\ stranded' = stranded \ {[name |-> op[o].name, by |-> o]}
  /\ Proceed(o, "verify")
  /\ UNCHANGED <<store, evidence, faults>>

\* Slip: the record is cleared when the challenge succeeded, and only then.
VerifyWithoutFinally(o) ==
  /\ op[o].pc = "verify"
  /\ \/ /\ [name |-> op[o].name, by |-> o] \in txt
        /\ op' = [op EXCEPT ![o].pc = "list", ![o].found = TRUE]
     \/ Done(o)
  /\ UNCHANGED <<store, dns, evidence, faults>>

VerifyChallenge(o) ==
  /\ op[o].pc = "verify"
  /\ \E valid \in BOOLEAN :
       /\ valid => [name |-> op[o].name, by |-> o] \in txt
       /\ op' = [op EXCEPT ![o].pc = "list", ![o].found = valid]
  /\ UNCHANGED <<store, dns, evidence, faults>>

(* clearTxtRecord lists every record of the name and deletes them one by   *)
(* one; what the DNS answers to a deletion is not looked at.               *)
ListTxtRecords(o) ==
  /\ op[o].pc = "list"
  /\ op' = [op EXCEPT ![o].pc = "delete",
                      ![o].records = {r \in txt : r.name = op[o].name}]
  /\ UNCHANGED <<store, dns, evidence, faults>>

DeleteTxtRecord(o) ==
  /\ op[o].pc = "delete"
  /\ \E r \in op[o].records :
       /\ op' = [op EXCEPT ![o].records = @ \ {r}]
       /\ \/ txt' = txt \ {r} /\ UNCHANGED <<stranded, faults>>
          \/ /\ faults < MaxFaults
             /\ faults' = faults + 1
             /\ stranded' = stranded \cup {r} /\ UNCHANGED txt
  /\ UNCHANGED <<store, evidence>>

Cleared(o) ==
  /\ op[o].pc = "delete" /\ op[o].records = {}
  /\ IF op[o].found
     THEN op' = [op EXCEPT ![o] = [NoOp EXCEPT !.pc = "finalize"]]
     ELSE Done(o)
  /\ UNCHANGED <<store, dns, evidence, faults>>

(* An ACME order yields a new certificate, for a key made here.            *)
FinalizeOrder(o) ==
  /\ op[o].pc = "finalize"
  /\ \E c \in Parsed \ issued : Obtain(o, c, c)

(* CeruleanProvider.poll: the key never leaves Cerulean.                   *)
Poll(o) ==
  /\ op[o].pc = "poll"
  /\ \/ \E c \in Parsed \ issued : Obtain(o, c, None)
     \/ /\ IF op[o].polls + 1 < MaxPolls
           THEN op' = [op EXCEPT ![o].polls = @ + 1]
           ELSE Done(o)
        /\ UNCHANGED <<store, dns, evidence, faults>>

(* The script of an internal CA may answer with one it issued before.      *)
RunScript(o) ==
  /\ op[o].pc = "script"
  /\ \/ \E c \in Parsed : \E key \in MatchingKeys(c) : Obtain(o, c, key)
     \/ Done(o) /\ UNCHANGED <<store, dns, evidence, faults>>

(***************************************************************************)
(* Both routes look for the row of the serial number, then write it.       *)
(***************************************************************************)
FindRow(o) ==
  /\ op[o].pc = "find"
  /\ op' = [op EXCEPT ![o].pc = "write",
                      ![o].found = row[Serial[op[o].cert]].status # "absent"]
  /\ UNCHANGED <<store, dns, evidence, faults>>

\* Slip: an import without a key leaves the key of the row.
ImportedKeepingKey(o, old) ==
  [status |-> "ACTIVE", revoked |-> FALSE, cert |-> op[o].cert,
   key |-> IF op[o].key = None THEN old.key ELSE op[o].key]

(* An import writes every column, a missing key included.                  *)
Imported(o, old) == [status |-> "ACTIVE", revoked |-> FALSE,
                     cert |-> op[o].cert, key |-> op[o].key]

(* persistIssued leaves revokedAt, and the key when none was issued.       *)
Persisted(o, old) ==
  [old EXCEPT !.status = "ACTIVE", !.cert = op[o].cert,
              !.key = IF op[o].key = None THEN @ ELSE op[o].key]

KeyKept(o, old) == /\ op[o].kind # "import" /\ op[o].key = None
                   /\ old.key \notin {None, op[o].cert}

(* A create of a row that has appeared since is refused by the unique key. *)
(* Signatures name the row, not what is in it.                             *)
WriteRow(o) ==
  LET s == Serial[op[o].cert]
      old == row[s]
      refused == ~op[o].found /\ old.status # "absent"
      new == IF op[o].kind = "import" THEN Imported(o, old)
             ELSE Persisted(o, old)
  IN  /\ op[o].pc = "write"
      /\ row' = IF refused THEN row ELSE [row EXCEPT ![s] = new]
      /\ reissued' = CASE refused -> reissued
                       [] KeyKept(o, old) -> reissued \cup {s}
                       [] OTHER -> reissued \ {s}
      /\ evidence' = [x \in Signers |->
           IF evidence[x].serial = s /\ row'[s].cert # old.cert
           THEN [evidence[x] EXCEPT !.replaced = TRUE] ELSE evidence[x]]
      /\ Done(o)
      /\ UNCHANGED <<issued, expired, dns, faults>>

Revoke(s) ==
  /\ row[s].status # "absent"
  /\ row' = [row EXCEPT ![s].status = "REVOKED", ![s].revoked = TRUE]
  /\ UNCHANGED <<issued, expired, reissued, op, dns, evidence, faults>>

Expire(c) ==
  /\ c \in issued \ expired
  /\ expired' = expired \cup {c}
  /\ UNCHANGED <<row, issued, reissued, op, dns, evidence, faults>>

(***************************************************************************)
(* Signing.                                                                *)
(***************************************************************************)
Usable(r) == r.status = "ACTIVE" /\ ~r.revoked /\ r.cert \notin expired

(* signWithCertificate: a signature given with the call must verify, and   *)
(* else the key that the row holds signs.  The signature is recorded some  *)
(* awaits later; it is counted from here, where the row is read.           *)
SignWithCertificate(x) ==
  /\ evidence[x] = Unsigned
  /\ \E s \in {t \in Serials : Usable(row[t])} :
       \E key \in {row[s].cert, row[s].key} \ {None} :
         evidence' = [evidence EXCEPT ![x] =
           [serial |-> s, key |-> key, keptKey |-> s \in reissued,
            replaced |-> FALSE]]
  /\ UNCHANGED <<store, op, dns, faults>>

(* A call dies, or the DNS does not answer it, while its record may stand. *)
(* A call that dies elsewhere is one that is never scheduled again.        *)
Fail(o) ==
  /\ op[o].kind = "ACME"
  /\ faults < MaxFaults
  /\ faults' = faults + 1
  /\ stranded' = stranded \cup {[name |-> op[o].name, by |-> o]}
  /\ Done(o)
  /\ UNCHANGED <<store, txt, evidence>>

Serve(o) ==
  \/ StartImport(o) \/ StartProvision(o)
  \/ SetTxtRecord(o) \/ VerifyChallenge(o) \/ ListTxtRecords(o)
  \/ DeleteTxtRecord(o) \/ Cleared(o) \/ FinalizeOrder(o) \/ Poll(o) \/ RunScript(o)
  \/ FindRow(o) \/ WriteRow(o)

CertificatesNext ==
  \/ \E o \in Ops : Serve(o) \/ Fail(o)
  \/ \E s \in Serials : Revoke(s)
  \/ \E c \in Certs : Expire(c)
  \/ \E x \in Signers : SignWithCertificate(x)

CertificatesSpec == CertificatesInit /\ [][CertificatesNext]_certificateVars
-----------------------------------------------------------------------------
(***************************************************************************)
(* Properties.                                                             *)
(***************************************************************************)
(* Whatever became of the challenge, and however provisions of one name    *)
(* overlap and delete each other's records, no TXT record outlives its     *)
(* order but those that are stranded: that a call left that died, or that  *)
(* the DNS refused to delete, which the order goes on from.                *)
DnsClean ==
  \A r \in txt \ stranded : op[r.by].kind = "ACME" /\ op[r.by].name = r.name

(* A signature on record names a row by its serial number.  It verifies    *)
(* against the certificate that this row holds, whatever imports,          *)
(* revocations and provisions race over it, until another certificate with *)
(* the number, two CAs may number alike, replaces the row's.  The other    *)
(* exception is a certificate issued without a key over a row that holds   *)
(* the key of another: persistIssued keeps that key.                       *)
SignatureVerifies ==
  \A x \in Signers :
    (evidence[x] # Unsigned /\ ~evidence[x].keptKey /\ ~evidence[x].replaced)
    => evidence[x].key = row[evidence[x].serial].cert
=============================================================================
