----------------------------- MODULE SendWizard -----------------------------
(***************************************************************************)
(* The wizard that sends a document for signature: SendWizardClient, and   *)
(* what its calls leave on the server.                                     *)
(*                                                                         *)
(* The list of recipients is a sequence of records; a row on the screen is *)
(* a position in it, and orderIndex is what the request is sent with.      *)
(*                                                                         *)
(* Left out: names, title, message and deadline, which are sent as typed.  *)
(***************************************************************************)
EXTENDS Integers, FiniteSets, Sequences, SequencesExt

CONSTANTS
  Emails,
  MaxSigners,   \* 50 in the code
  MaxRequests   \* requests sent from one wizard (bound)

WizardAssumption == MaxSigners \in Nat \ {0} /\ MaxRequests \in Nat

VARIABLES
  step,        \* signers, settings or review; none until the document is there
  signers,
  mode,
  inPerson,
  sending,
  created,     \* the request that the success page is about, 0 for none
  answer,      \* the request that the call under way has made, 0 for none
  asked,       \* the signers whose rooms are asked for
  posted       \* requests on the server

options == <<mode, inPerson>>
call == <<sending, answer, created, asked>>
wizardVars == <<step, signers, options, call, posted>>

Steps == <<"signers", "settings", "review">>

WizardInit ==
  /\ step = "none"
  /\ signers = <<>>
  /\ mode = "SEQUENTIAL"
  /\ inPerson = FALSE
  /\ sending = FALSE
  /\ created = 0
  /\ answer = 0
  /\ asked = {}
  /\ posted = <<>>

OnPage(s) == created = 0 /\ step = s

LoadDocument ==
  /\ step = "none"
  /\ step' = "signers"
  /\ UNCHANGED <<signers, options, call, posted>>

Renumbered(list) ==
  [i \in 1 .. Len(list) |-> [list[i] EXCEPT !.orderIndex = i - 1]]

(***************************************************************************)
(* Recipients.                                                             *)
(***************************************************************************)
(* What the form gives: an approver is listed and sent like a signer.      *)
Drafts == [email : Emails, role : {"SIGNER", "CC"}]

AddSigner ==
  /\ OnPage("signers")
  /\ Len(signers) < MaxSigners
  /\ \E d \in Drafts :
       /\ \A i \in 1 .. Len(signers) : signers[i].email # d.email
       /\ signers' = Append(signers,
            [email |-> d.email, role |-> d.role, orderIndex |-> Len(signers)])
  /\ UNCHANGED <<step, options, call, posted>>

\* Slip: who is left keeps their number.
RemoveUnnumbered(i) ==
  /\ OnPage("signers")
  /\ signers' = RemoveAt(signers, i)
  /\ UNCHANGED <<step, options, call, posted>>

RemoveSigner(i) ==
  /\ OnPage("signers")
  /\ signers' = Renumbered(RemoveAt(signers, i))
  /\ UNCHANGED <<step, options, call, posted>>

(* The arrows of the first and of the last row are disabled.               *)
Neighbours(i) == {i - 1, i + 1} \cap 1 .. Len(signers)

MoveSigner(i, j) ==
  /\ OnPage("signers")
  /\ signers' = Renumbered(
       [signers EXCEPT ![i] = signers[j], ![j] = signers[i]])
  /\ UNCHANGED <<step, options, call, posted>>

CanContinue == Len(signers) > 0

(***************************************************************************)
(* From step to step.  Neither the stepper nor the Back buttons wait for a *)
(* call that is under way.                                                 *)
(***************************************************************************)
Continue ==
  /\ \/ OnPage("signers") /\ CanContinue /\ step' = "settings"
     \/ OnPage("settings") /\ step' = "review"
  /\ UNCHANGED <<signers, options, call, posted>>

GoBack ==
  /\ created = 0
  /\ \E i, j \in DOMAIN Steps :
       i < j /\ step = Steps[j] /\ step' = Steps[i]
  /\ UNCHANGED <<signers, options, call, posted>>

ChooseOptions ==
  /\ OnPage("settings")
  /\ mode' \in {"SEQUENTIAL", "PARALLEL"}
  /\ inPerson' \in BOOLEAN
  /\ UNCHANGED <<step, signers, call, posted>>

(* The review lists the recipients by orderIndex: a stable sort, where the *)
(* place of a row is the number of rows that come before it.               *)
Before(list, j, i) ==
  \/ list[j].orderIndex < list[i].orderIndex
  \/ list[j].orderIndex = list[i].orderIndex /\ j < i

Place(list, i) == Cardinality({j \in DOMAIN list : Before(list, j, i)}) + 1

SequentialOrder(list) ==
  [n \in DOMAIN list |-> list[CHOOSE i \in DOMAIN list : Place(list, i) = n]]

(***************************************************************************)
(* Sending: the call reaches the server or does not, and its answer        *)
(* reaches the wizard or does not; a wizard without an answer may send     *)
(* again, and send twice.                                                  *)
(***************************************************************************)
Submit ==
  /\ OnPage("review") /\ ~sending
  /\ sending' = TRUE
  /\ \/ answer' = 0 /\ UNCHANGED posted
     \/ /\ Len(posted) < MaxRequests
        /\ posted' = Append(posted, [signers |-> signers, mode |-> mode])
        /\ answer' = Len(posted')
  /\ UNCHANGED <<step, signers, options, created, asked>>

ShowCreated ==
  /\ sending /\ answer > 0
  /\ created' = answer
  /\ step' = "review"
  /\ sending' = FALSE /\ answer' = 0
  /\ UNCHANGED <<signers, options, asked, posted>>

SubmitFails ==
  /\ sending
  /\ sending' = FALSE /\ answer' = 0
  /\ UNCHANGED <<step, signers, options, created, asked, posted>>

(***************************************************************************)
(* In person: the success page hands this device to one signer.            *)
(***************************************************************************)
Acting(list) == {i \in DOMAIN list : list[i].role # "CC"}

(* One after the other, the first of them is offered; in parallel, each.   *)
HandoverSigners(request) ==
  LET acting == Acting(request.signers)
      offered == IF request.mode = "SEQUENTIAL"
                 THEN {i \in acting : \A j \in acting : i <= j} ELSE acting
  IN  {request.signers[i] : i \in offered}

(* inPersonSession of a request that nobody has answered: the signer is    *)
(* invited, and no one acts before them.                                   *)
Accepts(request, s) ==
  /\ s.role # "CC"
  /\ request.mode = "SEQUENTIAL" =>
       /\ s = Head(request.signers)
       /\ \A i \in Acting(request.signers) :
            s.orderIndex <= request.signers[i].orderIndex

(* The success page has a button for each, if they sign in person.         *)
OfferedRooms ==
  IF created > 0 /\ inPerson THEN HandoverSigners(posted[created]) ELSE {}

(* busy marks one button, so a second signer's may be pressed meanwhile.   *)
StartInPerson ==
  /\ \E s \in OfferedRooms : asked' = asked \cup {s.email}
  /\ UNCHANGED <<step, signers, options, sending, answer, created, posted>>

(* The first answer shows its room in place of the wizard.                 *)
OpenRoom ==
  /\ created > 0
  /\ \E s \in ToSet(posted[created].signers) :
       s.email \in asked /\ Accepts(posted[created], s)
  /\ step' = "left" /\ created' = 0 /\ asked' = {}
  /\ UNCHANGED <<signers, options, sending, answer, posted>>

HandoverFails ==
  /\ \E e \in asked : asked' = asked \ {e}
  /\ UNCHANGED <<step, signers, options, sending, answer, created, posted>>

WizardNext ==
  \/ LoadDocument \/ AddSigner \/ Continue \/ GoBack \/ ChooseOptions
  \/ \E i \in 1 .. Len(signers) :
       RemoveSigner(i) \/ \E j \in Neighbours(i) : MoveSigner(i, j)
  \/ Submit \/ ShowCreated \/ SubmitFails
  \/ StartInPerson \/ OpenRoom \/ HandoverFails

WizardSpec == WizardInit /\ [][WizardNext]_wizardVars
-----------------------------------------------------------------------------
(* However the list was filled, emptied, reordered and sent again, a       *)
(* request of the wizard has a recipient for every order below their       *)
(* number, so that no field of a template is left to nobody; it is routed  *)
(* as the review listed it and as the list had it; and the signers it      *)
(* hands the device to are those whom the server lets act, unless a carbon *)
(* copy comes first and nobody is let act.                                 *)
RequestsRoutable ==
  \A i \in 1 .. Len(posted) :
    LET r == posted[i]
    IN  /\ {s.orderIndex : s \in ToSet(r.signers)} = 0 .. Len(r.signers) - 1
        /\ r.signers # <<>> /\ r.signers = SequentialOrder(r.signers)
        /\ \/ r.mode = "SEQUENTIAL" /\ r.signers[1].role = "CC"
           \/ \A s \in HandoverSigners(r) : Accepts(r, s)
=============================================================================
