-------------------------- MODULE ConsoleProofs ---------------------------
(***************************************************************************)
(* Proofs about the screens of the console: the template editor, the send  *)
(* wizard, the signing room and the pages that load again after a write.   *)
(***************************************************************************)
EXTENDS TemplateEditor, SendWizard, SigningRoom, ConsolePages, FiniteSetTheorems, TLAPS

(***************************************************************************)
(* TemplateEditor, for any templates, fields and pages.                    *)
(*                                                                         *)
(* A timer that waits is of the fields on the screen, for each change      *)
(* clears the one before it; and only an editor that is ready has timers   *)
(* or a save of its own (TimerInv).                                        *)
(***************************************************************************)
TimerInv ==
  /\ timers \subseteq {fields}
  /\ timers # {} => Ready
  /\ patch.pc # "idle" => Ready
  /\ loading => editing # Nothing
  /\ editing \in Templates \cup {Nothing}

EditorIInv == TimerInv /\ DraftFollowsEditor

(* Whatever changes the fields starts the one timer that there is.         *)
LEMMA FieldsChange ==
  ASSUME EditorIInv, NEW fs, fields' = fs, StartTimer(fs),
         editing' \in Templates, ~loading', EditorAssumption,
         editing' = editing
  PROVE  EditorIInv'
<1>1. Ready'
  BY DEF Ready, EditorAssumption, Nothing
<1>2. timers' = {fields'}
  BY DEF StartTimer
<1> QED BY <1>1, <1>2 DEF EditorIInv, TimerInv, DraftFollowsEditor

LEMMA EditorNext_IInv ==
  ASSUME EditorAssumption, EditorIInv, EditorNext
  PROVE  EditorIInv'
<1>1. ASSUME NEW t \in Templates, OpenTemplate(t) PROVE EditorIInv'
  BY <1>1 DEF OpenTemplate, EditorIInv, TimerInv, Ready, DraftFollowsEditor,
     EditorAssumption, Nothing
<1>2. ASSUME NEW t \in Templates, SaveElsewhere(t) PROVE EditorIInv'
  BY <1>2 DEF SaveElsewhere, editor, EditorIInv, TimerInv, Ready, DraftFollowsEditor
<1>3. CASE LoadTemplate
  <2> DEFINE fs == IF draft.template = editing /\ draft.fields # {} THEN draft.fields
                   ELSE stored[editing]
  <2>1. /\ fields' = fs /\ StartTimer(fs) /\ ~loading' /\ editing' = editing
        /\ editing' \in Templates
    BY <1>3 DEF LoadTemplate, EditorIInv, TimerInv
  <2> HIDE DEF fs
  <2> QED BY <2>1, FieldsChange
<1>4. CASE Leave
  BY <1>4 DEF Leave, EditorIInv, TimerInv, Ready, DraftFollowsEditor, NoPatch
<1>5. ASSUME NEW fs, Ready, SetFields(fs), UNCHANGED <<editing, loading>>
      PROVE  EditorIInv'
  BY <1>5, FieldsChange DEF SetFields, Ready, EditorIInv, TimerInv
<1>6. CASE ShowPage
  BY <1>6 DEF ShowPage, EditorIInv, TimerInv, Ready, DraftFollowsEditor
<1>7. CASE Edit
  <2>1. CASE AddField
    <3>1. PICK f : SetFields(fields \cup {[id |-> f, page |-> activePage]})
      BY <2>1 DEF AddField
    <3> QED BY <1>5, <2>1, <3>1 DEF AddField
  <2>2. CASE Inspect
    <3>1. PICK f, p : SetFields((fields \ {f}) \cup {[f EXCEPT !.page = p]})
      BY <2>2 DEF Inspect
    <3> QED BY <1>5, <2>2, <3>1 DEF Inspect
  <2>3. CASE Drag
    BY <1>5, <2>3 DEF Drag
  <2>4. CASE RemoveField
    <3>1. PICK f : SetFields(fields \ {f})
      BY <2>4 DEF RemoveField
    <3> QED BY <1>5, <2>4, <3>1 DEF RemoveField
  <2> QED BY <1>6, <1>7, <2>1, <2>2, <2>3, <2>4 DEF Edit
<1>8. CASE WriteDraft
  <2>1. /\ draft' = [template |-> editing, fields |-> fields] /\ timers' = {}
        /\ UNCHANGED <<editing, loading, fields, patch>>
    BY <1>8 DEF WriteDraft, EditorIInv, TimerInv
  <2> QED BY <2>1 DEF EditorIInv, TimerInv, Ready, DraftFollowsEditor
<1>9. CASE Save
  BY <1>9 DEF Save, EditorIInv, TimerInv, Ready, DraftFollowsEditor
<1>10. CASE ServeSave
  BY <1>10 DEF ServeSave, EditorIInv, TimerInv, Ready, DraftFollowsEditor
<1>11. CASE Saved
  <2>1. Ready /\ SetFields(patch.fields) /\ UNCHANGED <<editing, loading>>
    BY <1>11 DEF Saved, EditorIInv, TimerInv
  <2> QED BY <1>5, <2>1
<1>12. CASE SaveFails
  BY <1>12 DEF SaveFails, EditorIInv, TimerInv, Ready, DraftFollowsEditor, NoPatch
<1>13. CASE ServeLeft \/ SaveLeftFails
  BY <1>13 DEF ServeLeft, SaveLeftFails, EditorIInv, TimerInv, Ready, DraftFollowsEditor
<1>14. CASE SavedLeft
  BY <1>14 DEF SavedLeft, EditorIInv, TimerInv, Ready, DraftFollowsEditor
<1> QED BY <1>1, <1>2, <1>3, <1>4, <1>7, <1>8, <1>9, <1>10, <1>11, <1>12, <1>13, <1>14
        DEF EditorNext

(* "Changes auto-save to this browser as a draft": whatever is recovered,  *)
(* changed, saved and answered, and however late, for any templates        *)
(* (TemplateEditorClient).                                                 *)
THEOREM DraftIsTheEditors ==
  ASSUME EditorAssumption
  PROVE  EditorSpec => []DraftFollowsEditor
<1>1. EditorInit => EditorIInv
  BY DEF EditorInit, EditorIInv, TimerInv, Ready, DraftFollowsEditor, NoPatch
<1>2. EditorIInv /\ UNCHANGED editorVars => EditorIInv'
  BY DEF EditorIInv, TimerInv, Ready, DraftFollowsEditor, editorVars, editor
<1>3. EditorIInv => DraftFollowsEditor
  BY DEF EditorIInv
<1> QED BY <1>1, <1>2, <1>3, EditorNext_IInv, PTL DEF EditorSpec
-----------------------------------------------------------------------------
(***************************************************************************)
(* SendWizard, for any recipients, any limit and any number of requests.   *)
(*                                                                         *)
(* The list is numbered from 0 without a gap after every step that changes *)
(* it, and not empty past the first step: so is every request sent.        *)
(***************************************************************************)
Recipient == [email : Emails, role : {"SIGNER", "CC"}, orderIndex : Nat]

Numbered(list) ==
  list \in Seq(Recipient) /\ \A i \in 1 .. Len(list) : list[i].orderIndex = i - 1

WizardInv ==
  /\ Numbered(signers)
  /\ created = 0 /\ step \in {"settings", "review"} => signers # <<>>
  /\ step \in {"none", "left"} \cup {Steps[i] : i \in DOMAIN Steps}
  /\ mode \in {"SEQUENTIAL", "PARALLEL"}
  /\ created \in Nat /\ answer \in Nat
  /\ posted \in Seq([signers : Seq(Recipient), mode : {"SEQUENTIAL", "PARALLEL"}])
  /\ \A i \in 1 .. Len(posted) :
       Numbered(posted[i].signers) /\ posted[i].signers # <<>>

LEMMA ElementOf ==
  ASSUME NEW S, NEW list \in Seq(S), NEW i \in 1 .. Len(list)
  PROVE  list[i] \in S
OBVIOUS

LEMMA NumberedAppend ==
  ASSUME NEW list, Numbered(list), NEW r \in Recipient, r.orderIndex = Len(list)
  PROVE  Numbered(Append(list, r))
BY DEF Numbered

LEMMA RenumberedIsNumbered ==
  ASSUME NEW list \in Seq(Recipient)
  PROVE  Numbered(Renumbered(list)) /\ Len(Renumbered(list)) = Len(list)
<1>1. \A i \in 1 .. Len(list) :
        /\ [list[i] EXCEPT !.orderIndex = i - 1] \in Recipient
        /\ [list[i] EXCEPT !.orderIndex = i - 1].orderIndex = i - 1
  <2> SUFFICES ASSUME NEW i \in 1 .. Len(list)
               PROVE  /\ [list[i] EXCEPT !.orderIndex = i - 1] \in Recipient
                      /\ [list[i] EXCEPT !.orderIndex = i - 1].orderIndex = i - 1
    OBVIOUS
  <2>1. list[i] \in Recipient /\ i - 1 \in Nat
    OBVIOUS
  <2> QED BY <2>1 DEF Recipient
<1>2. Renumbered(list) \in Seq(Recipient) /\ Len(Renumbered(list)) = Len(list)
  BY <1>1 DEF Renumbered
<1>3. \A i \in 1 .. Len(list) : Renumbered(list)[i].orderIndex = i - 1
  BY <1>1 DEF Renumbered
<1> QED BY <1>2, <1>3 DEF Numbered

LEMMA RemoveAtType ==
  ASSUME NEW list \in Seq(Recipient), NEW i \in 1 .. Len(list)
  PROVE  RemoveAt(list, i) \in Seq(Recipient)
BY DEF RemoveAt

LEMMA WizardInit_Inv == WizardInit => WizardInv
BY DEF WizardInit, WizardInv, Numbered, Steps

LEMMA ListSteps ==
  ASSUME WizardInv, AddSigner \/ \E i \in 1 .. Len(signers) :
           RemoveSigner(i) \/ \E j \in Neighbours(i) : MoveSigner(i, j)
  PROVE  WizardInv'
<1>1. Numbered(signers) /\ signers \in Seq(Recipient)
  BY DEF WizardInv, Numbered
<1>2. Numbered(signers')
  <2>1. CASE AddSigner
    <3>1. PICK d \in Drafts : signers' = Append(signers,
            [email |-> d.email, role |-> d.role, orderIndex |-> Len(signers)])
      BY <2>1 DEF AddSigner
    <3>2. [email |-> d.email, role |-> d.role, orderIndex |-> Len(signers)] \in Recipient
      BY <1>1 DEF Drafts, Recipient
    <3> QED BY <1>1, <3>1, <3>2, NumberedAppend
  <2>2. ASSUME NEW i \in 1 .. Len(signers), RemoveSigner(i) PROVE Numbered(signers')
    BY <1>1, <2>2, RemoveAtType, RenumberedIsNumbered DEF RemoveSigner
  <2>3. ASSUME NEW i \in 1 .. Len(signers), NEW j \in Neighbours(i), MoveSigner(i, j)
        PROVE  Numbered(signers')
    <3>1. [signers EXCEPT ![i] = signers[j], ![j] = signers[i]] \in Seq(Recipient)
      BY <1>1 DEF Neighbours
    <3> QED BY <2>3, <3>1, RenumberedIsNumbered DEF MoveSigner
  <2> QED BY <2>1, <2>2, <2>3
<1>3. /\ step = "signers" /\ UNCHANGED <<step, options, call, posted>>
  BY DEF AddSigner, RemoveSigner, MoveSigner, OnPage
<1> QED BY <1>2, <1>3 DEF WizardInv, options, call, Numbered

LEMMA OtherSteps ==
  ASSUME WizardInv,
         \/ LoadDocument \/ Continue \/ GoBack \/ ChooseOptions \/ ShowCreated
         \/ SubmitFails \/ StartInPerson \/ OpenRoom \/ HandoverFails
  PROVE  WizardInv'
<1>1. UNCHANGED <<signers, posted>>
  BY DEF LoadDocument, Continue, GoBack, ChooseOptions, ShowCreated, SubmitFails,
     StartInPerson, OpenRoom, HandoverFails
<1>2. /\ mode' \in {"SEQUENTIAL", "PARALLEL"} /\ created' \in Nat /\ answer' \in Nat
      /\ step' \in {"none", "left"} \cup {Steps[i] : i \in DOMAIN Steps}
  BY DEF WizardInv, LoadDocument, Continue, GoBack, ChooseOptions, ShowCreated,
     SubmitFails, StartInPerson, OpenRoom, HandoverFails, options, call, OnPage, Steps
<1>3. created' = 0 /\ step' \in {"settings", "review"} => signers # <<>>
  BY DEF WizardInv, Numbered, LoadDocument, Continue, GoBack, ChooseOptions, ShowCreated,
     SubmitFails, StartInPerson, OpenRoom, HandoverFails, options, call, OnPage, Steps,
     CanContinue
<1> QED BY <1>1, <1>2, <1>3 DEF WizardInv, Numbered

LEMMA SubmitStep ==
  ASSUME WizardInv, Submit
  PROVE  WizardInv'
<1> DEFINE sent == [signers |-> signers, mode |-> mode]
<1>1. signers # <<>> /\ Numbered(signers)
  BY DEF Submit, OnPage, WizardInv
<1>2. CASE UNCHANGED posted /\ answer' = 0
  BY <1>2 DEF Submit, WizardInv, options, Numbered
<1>3. CASE posted' = Append(posted, sent) /\ answer' = Len(posted')
  <2>1. sent \in [signers : Seq(Recipient), mode : {"SEQUENTIAL", "PARALLEL"}]
    BY <1>1 DEF Numbered, WizardInv
  <2>2. /\ posted' \in Seq([signers : Seq(Recipient), mode : {"SEQUENTIAL", "PARALLEL"}])
        /\ Len(posted') \in Nat
    BY <1>3, <2>1 DEF WizardInv
  <2>3. \A i \in 1 .. Len(posted') :
          Numbered(posted'[i].signers) /\ posted'[i].signers # <<>>
    BY <1>1, <1>3, <2>1 DEF WizardInv
  <2> QED BY <1>3, <2>2, <2>3 DEF Submit, WizardInv, options, Numbered
<1> QED BY <1>2, <1>3 DEF Submit

(* In a numbered list every row is in its place.                           *)
LEMMA NumberedOrder ==
  ASSUME NEW list, Numbered(list)
  PROVE  list = SequentialOrder(list)
<1>0. Len(list) \in Nat /\ DOMAIN list = 1 .. Len(list)
      /\ list = [n \in DOMAIN list |-> list[n]]
  BY DEF Numbered
<1>1. ASSUME NEW i \in DOMAIN list PROVE Place(list, i) = i
  <2>1. {j \in DOMAIN list : Before(list, j, i)} = 1 .. (i - 1)
    BY <1>0, <1>1 DEF Before, Numbered
  <2>2. Cardinality(1 .. (i - 1)) = i - 1
    <3>1. PICK m \in Nat : m = i - 1
      BY <1>0
    <3>2. Cardinality(1 .. m) = IF 1 > m THEN 0 ELSE m - 1 + 1
      <4>1. 1 \in Int /\ m \in Int
        OBVIOUS
      <4> QED BY ONLY <4>1, FS_Interval
    <3>3. Cardinality(1 .. m) = m
      BY ONLY <3>2, m \in Nat
    <3> QED BY <3>1, <3>3
  <2>3. Place(list, i) = Cardinality(1 .. (i - 1)) + 1
    BY <2>1 DEF Place
  <2> QED BY <1>0, <2>2, <2>3
<1>2. ASSUME NEW n \in DOMAIN list
      PROVE  (CHOOSE i \in DOMAIN list : Place(list, i) = n) = n
  BY <1>1, <1>2
<1>3. SequentialOrder(list) = [n \in DOMAIN list |-> list[n]]
  <2>1. \A n \in DOMAIN list : list[CHOOSE i \in DOMAIN list : Place(list, i) = n] = list[n]
    BY <1>2
  <2> QED BY <2>1 DEF SequentialOrder
<1> QED BY <1>0, <1>3

LEMMA HandoverAccepted ==
  ASSUME NEW r \in [signers : Seq(Recipient), mode : {"SEQUENTIAL", "PARALLEL"}],
         Numbered(r.signers), r.signers # <<>>,
         ~(r.mode = "SEQUENTIAL" /\ r.signers[1].role = "CC"),
         NEW s \in HandoverSigners(r)
  PROVE  Accepts(r, s)
<1>0. /\ r.signers \in Seq(Recipient) /\ Len(r.signers) \in Nat \ {0}
      /\ DOMAIN r.signers = 1 .. Len(r.signers)
  OBVIOUS
<1>1. PICK i \in Acting(r.signers) :
        /\ s = r.signers[i]
        /\ r.mode = "SEQUENTIAL" => \A j \in Acting(r.signers) : i <= j
  BY DEF HandoverSigners
<1>2. i \in 1 .. Len(r.signers) /\ s.role # "CC"
  BY <1>0, <1>1 DEF Acting
<1>3. CASE r.mode = "SEQUENTIAL"
  <2>1. 1 \in Acting(r.signers)
    BY <1>0, <1>3 DEF Acting
  <2>2. i = 1
    BY <1>1, <1>2, <1>3, <2>1
  <2>3. s = Head(r.signers) /\ s.orderIndex = 0
    BY <1>0, <1>1, <2>2 DEF Numbered
  <2>4. \A j \in Acting(r.signers) : r.signers[j].orderIndex \in Nat
    <3>1. \A j \in DOMAIN r.signers : r.signers[j] \in Recipient
      BY <1>0
    <3> QED BY <3>1 DEF Acting, Recipient
  <2> QED BY <1>2, <2>3, <2>4 DEF Accepts
<1> QED BY <1>2, <1>3 DEF Accepts

LEMMA InvRoutable == WizardInv => RequestsRoutable
<1> SUFFICES ASSUME WizardInv, NEW i \in 1 .. Len(posted)
             PROVE  LET r == posted[i]
                    IN  /\ {s.orderIndex : s \in ToSet(r.signers)} = 0 .. Len(r.signers) - 1
                        /\ r.signers # <<>> /\ r.signers = SequentialOrder(r.signers)
                        /\ \/ r.mode = "SEQUENTIAL" /\ r.signers[1].role = "CC"
                           \/ \A s \in HandoverSigners(r) : Accepts(r, s)
  BY DEF RequestsRoutable
<1> DEFINE r == posted[i]
<1>1. /\ r \in [signers : Seq(Recipient), mode : {"SEQUENTIAL", "PARALLEL"}]
      /\ Numbered(r.signers) /\ r.signers # <<>>
  <2>1. posted \in Seq([signers : Seq(Recipient), mode : {"SEQUENTIAL", "PARALLEL"}])
    BY DEF WizardInv
  <2>2. posted[i] \in [signers : Seq(Recipient), mode : {"SEQUENTIAL", "PARALLEL"}]
    BY <2>1, ElementOf
  <2> QED BY <2>2 DEF WizardInv
<1> HIDE DEF r
<1>2. {s.orderIndex : s \in ToSet(r.signers)} = 0 .. Len(r.signers) - 1
  <2>0. /\ Len(r.signers) \in Nat /\ DOMAIN r.signers = 1 .. Len(r.signers)
        /\ \A n \in 1 .. Len(r.signers) : r.signers[n].orderIndex = n - 1
    BY <1>1 DEF Numbered
  <2>1. {s.orderIndex : s \in ToSet(r.signers)} = {n - 1 : n \in 1 .. Len(r.signers)}
    BY <2>0 DEF ToSet
  <2>2. {n - 1 : n \in 1 .. Len(r.signers)} = 0 .. Len(r.signers) - 1
    <3>1. ASSUME NEW m \in 0 .. Len(r.signers) - 1
          PROVE  m \in {n - 1 : n \in 1 .. Len(r.signers)}
      <4>1. m + 1 \in 1 .. Len(r.signers) /\ m = (m + 1) - 1
        BY <2>0
      <4> QED BY <4>1
    <3>2. ASSUME NEW n \in 1 .. Len(r.signers) PROVE n - 1 \in 0 .. Len(r.signers) - 1
      BY <2>0
    <3> QED BY <3>1, <3>2
  <2> QED BY <2>1, <2>2
<1>3. r.signers = SequentialOrder(r.signers)
  BY <1>1, NumberedOrder
<1>4. \/ r.mode = "SEQUENTIAL" /\ r.signers[1].role = "CC"
      \/ \A s \in HandoverSigners(r) : Accepts(r, s)
  BY <1>1, HandoverAccepted
<1> QED BY <1>1, <1>2, <1>3, <1>4 DEF r

(* However the list was filled, emptied, reordered and sent again, a       *)
(* request of the wizard has a recipient for every order, in the order     *)
(* that the review showed, and is handed to those whom the server accepts  *)
(* (SendWizardClient, signInPerson).      *)
THEOREM RequestsAreRoutable == WizardSpec => []RequestsRoutable
<1>1. WizardInv /\ [WizardNext]_wizardVars => WizardInv'
  <2>1. WizardInv /\ UNCHANGED wizardVars => WizardInv'
    BY DEF WizardInv, wizardVars, options, call, Numbered
  <2> QED BY <2>1, ListSteps, OtherSteps, SubmitStep DEF WizardNext
<1> QED BY <1>1, WizardInit_Inv, InvRoutable, PTL DEF WizardSpec
-----------------------------------------------------------------------------
(***************************************************************************)
(* SigningRoom, for any number of tabs, calls, fields and answers.         *)
(*                                                                         *)
(* One call makes the signature, and it alone writes the values (RowInv).  *)
(* A call that will write the status has read one that its write may       *)
(* follow; what comes in between is written by a call of the same kind,    *)
(* unless calls of two kinds raced (StatusInv).                            *)
(***************************************************************************)
Values == [RoomFields -> Answers \cup {Blank}]
Statuses == {"INVITED", "VIEWED", "SIGNED", "DECLINED"}
CallType ==
  [kind : {"none", "view", "sign", "decline"},
   stage : {"idle", "sent", "found", "passed", "viewed", "inserted", "captured", "done",
            "refused"},
   seen : Statuses, allows : BOOLEAN, sent : Values]
TabType ==
  [page : {"closed", "loading", "dead", "form", "thanks"}, allows : BOOLEAN,
   answered : BOOLEAN, values : Values, action : {"none", "sign", "decline"},
   call : RoomCalls \cup {NoCall}]

RoomTypeOK ==
  /\ NoCall \notin RoomCalls
  /\ turn \in BOOLEAN
  /\ status \in Statuses /\ signature \in BOOLEAN /\ recorded \in Values
  /\ raced \in BOOLEAN
  /\ served \in [RoomCalls -> CallType]
  /\ tab \in [Tabs -> TabType]

(* A tab waits for a call of its own, with the form as it was sent.        *)
Waits(t, c) ==
  /\ served[c].stage # "idle"
  /\ \/ tab[t].page = "loading" /\ tab[t].action = "none" /\ served[c].kind = "view"
     \/ /\ tab[t].page = "form" /\ tab[t].action = served[c].kind
        /\ tab[t].action \in {"sign", "decline"}
        /\ tab[t].action = "sign" =>
             CanSign(t) /\ (served[c].stage # "refused" => served[c].sent = tab[t].values)

WaitInv ==
  /\ \A t \in Tabs, c \in RoomCalls : tab[t].call = c => Waits(t, c)
  /\ \A t, u \in Tabs : tab[t].call = tab[u].call /\ tab[t].call # NoCall => t = u
  /\ \A t \in Tabs : tab[t].call = NoCall => tab[t].page # "loading"
  /\ \A t \in Tabs : tab[t].page = "form" /\ tab[t].action # "none" => tab[t].call # NoCall
  /\ \A t \in Tabs : tab[t].page = "thanks" =>
       /\ tab[t].call = NoCall /\ tab[t].action \in {"sign", "decline"}
       /\ tab[t].action = "sign" => CanSign(t)

Makes(c) == served[c].kind = "sign" /\ served[c].stage \in {"inserted", "captured", "done"}
Thanks(t, action) == tab[t].page = "thanks" /\ tab[t].action = action

RowInv ==
  /\ ~signature => recorded = NoValues
  /\ \A c \in RoomCalls : Makes(c) =>
       /\ signature
       /\ recorded = IF served[c].stage = "inserted" THEN NoValues ELSE served[c].sent
  /\ \A c, d \in RoomCalls : Makes(c) /\ Makes(d) => c = d
  /\ \A t \in Tabs : Thanks(t, "sign") =>
       /\ signature /\ recorded = tab[t].values
       /\ \A c \in RoomCalls : ~Makes(c)

May(kind) ==
  status \in CASE kind = "sign" -> {"INVITED", "VIEWED", "SIGNED"}
               [] kind = "decline" -> {"INVITED", "VIEWED", "DECLINED"}
               [] OTHER -> {"INVITED", "VIEWED"}

StatusInv ==
  /\ \A c \in RoomCalls :
       served[c].kind = "view" /\ served[c].stage = "passed" => served[c].seen = "INVITED"
  /\ \/ raced
     \/ /\ \A c \in RoomCalls : Pending(c) => May(served[c].kind)
        /\ \A c, d \in RoomCalls : Pending(c) /\ Pending(d) => served[c].kind = served[d].kind
        /\ \A c \in RoomCalls : served[c].stage = "done" =>
             /\ served[c].kind = "sign" => status = "SIGNED"
             /\ served[c].kind = "decline" => status = "DECLINED"
        /\ \A t \in Tabs : /\ Thanks(t, "sign") => status = "SIGNED"
                           /\ Thanks(t, "decline") => status = "DECLINED"

RoomIInv == RoomTypeOK /\ WaitInv /\ RowInv /\ StatusInv

LEMMA RoomTypes ==
  /\ NoValues \in Values /\ Closed \in TabType /\ IdleCall \in CallType
  /\ Closed.page = "closed" /\ Closed.call = NoCall /\ Closed.action = "none"
  /\ IdleCall.kind = "none" /\ IdleCall.stage = "idle"
BY DEF Closed, IdleCall, TabType, CallType, Statuses, Values, NoValues

LEMMA RoomInit_IInv == ASSUME RoomAssumption, RoomInit PROVE RoomIInv
<1>1. /\ \A t \in Tabs : tab[t] = Closed
      /\ \A c \in RoomCalls : served[c] = IdleCall
      /\ served \in [RoomCalls -> CallType] /\ tab \in [Tabs -> TabType]
  BY RoomTypes DEF RoomInit
<1>2. RoomTypeOK
  BY <1>1, RoomTypes DEF RoomInit, RoomTypeOK, Statuses, RoomAssumption
<1>3. WaitInv
  BY <1>1, RoomTypes DEF WaitInv, RoomAssumption
<1>4. RowInv
  BY <1>1, RoomTypes DEF RoomInit, RowInv, Makes, Thanks
<1>5. StatusInv
  BY <1>1, RoomTypes DEF StatusInv, Thanks, Pending
<1> QED BY <1>2, <1>3, <1>4, <1>5 DEF RoomIInv

(***************************************************************************)
(* The steps of the API.                                                   *)
(***************************************************************************)

(* What a step leaves of a call for the tab that waits for it.             *)
Follows(c, next) ==
  /\ next \in CallType
  /\ \/ /\ next.kind = served[c].kind /\ next.stage # "idle"
        /\ next.kind = "sign" /\ next.stage # "refused" =>
             next.sent = served[c].sent /\ served[c].stage # "refused"
     \/ next = IdleCall /\ \A t \in Tabs : tab[t].call # c

LEMMA CallMoves ==
  ASSUME RoomIInv, NEW c \in RoomCalls, NEW next, Follows(c, next),
         served' = [served EXCEPT ![c] = next], UNCHANGED tab
  PROVE  /\ served' \in [RoomCalls -> CallType] /\ served'[c] = next
         /\ \A d \in RoomCalls \ {c} : served'[d] = served[d]
         /\ WaitInv'
<1>1. /\ served' \in [RoomCalls -> CallType] /\ served'[c] = next
      /\ \A d \in RoomCalls \ {c} : served'[d] = served[d]
  BY DEF RoomIInv, RoomTypeOK, Follows
<1>2. ASSUME NEW t \in Tabs, NEW d \in RoomCalls, tab[t].call = d
      PROVE  Waits(t, d)'
  <2>1. Waits(t, d)
    BY <1>2 DEF RoomIInv, WaitInv
  <2>2. CASE d # c
    BY <2>1, <2>2, <1>1 DEF Waits, CanSign
  <2>3. CASE d = c
    BY <2>1, <2>3, <1>1, <1>2 DEF Waits, CanSign, Follows
  <2> QED BY <2>2, <2>3
<1>3. \A t \in Tabs : CanSign(t)' = CanSign(t)
  BY DEF CanSign
<1>4. WaitInv'
  BY <1>2, <1>3 DEF RoomIInv, WaitInv
<1> QED BY <1>1, <1>4

(* A step that writes nothing, and makes no call pending or done.          *)
LEMMA QuietCall ==
  ASSUME RoomIInv, NEW c \in RoomCalls, NEW next, Follows(c, next),
         served' = [served EXCEPT ![c] = next], UNCHANGED <<tab, turn, record, raced>>,
         next.kind = "sign" => next.stage \notin {"inserted", "captured", "done"},
         next.stage = "done" => next.kind \notin {"sign", "decline"},
         next.kind = "view" /\ next.stage = "passed" => next.seen = "INVITED",
         /\ next.stage \in {"found", "passed", "inserted", "captured"}
         /\ next.kind = "view" => next.seen = "INVITED"
         => next.kind = served[c].kind /\ Pending(c)
  PROVE  RoomIInv'
<1>1. /\ served' \in [RoomCalls -> CallType] /\ served'[c] = next
      /\ \A d \in RoomCalls \ {c} : served'[d] = served[d]
      /\ WaitInv'
  BY CallMoves
<1>2. RoomTypeOK'
  BY <1>1 DEF RoomIInv, RoomTypeOK, record
<1>3. RowInv'
  BY <1>1 DEF RoomIInv, RowInv, Makes, Thanks, record
<1>4. \A d \in RoomCalls : Pending(d)' => Pending(d) /\ served'[d].kind = served[d].kind
  BY <1>1 DEF Pending
<1>5. UNCHANGED <<status, raced>> /\ StatusInv
  BY DEF record, RoomIInv
<1>6. \A kind : May(kind)' = May(kind)
  BY <1>5 DEF May
<1>7. \A t \in Tabs : \A a : Thanks(t, a)' = Thanks(t, a)
  BY DEF Thanks
<1>8. StatusInv'
  BY <1>1, <1>4, <1>5, <1>6, <1>7 DEF StatusInv
<1> QED BY <1>1, <1>2, <1>3, <1>8 DEF RoomIInv

LEMMA FindSignerStep ==
  ASSUME RoomIInv, NEW c \in RoomCalls, FindSigner(c)
  PROVE  RoomIInv'
<1> DEFINE next == [served[c] EXCEPT !.stage = "found",
                      !.seen = IF served[c].kind = "view" THEN status ELSE @]
<1>0. /\ served[c] \in CallType /\ status \in Statuses /\ served[c].stage = "sent"
      /\ served \in [RoomCalls -> CallType]
  BY DEF FindSigner, RoomIInv, RoomTypeOK
<1>1. /\ next \in CallType /\ next.kind = served[c].kind /\ next.stage = "found"
      /\ next.sent = served[c].sent
      /\ next.seen = IF served[c].kind = "view" THEN status ELSE served[c].seen
  BY <1>0 DEF CallType
<1>2. served' = [served EXCEPT ![c] = next]
  BY <1>0 DEF FindSigner
<1>3. Follows(c, next)
  BY <1>0, <1>1 DEF Follows
<1> HIDE DEF next
<1>4. /\ served' \in [RoomCalls -> CallType] /\ served'[c] = next
      /\ \A d \in RoomCalls \ {c} : served'[d] = served[d]
      /\ WaitInv'
  BY <1>2, <1>3, CallMoves DEF FindSigner
<1>5. /\ raced' \in BOOLEAN /\ raced \in BOOLEAN
      /\ ~raced' => ~raced
      /\ ~raced' => \A d \in RoomCalls :
           Pending(d) /\ Pending(c)' => served[d].kind = served[c].kind
  BY DEF FindSigner, RoomIInv, RoomTypeOK
<1>6. RoomTypeOK' /\ UNCHANGED <<status, signature, recorded, tab>>
  BY <1>4, <1>5 DEF FindSigner, RoomIInv, RoomTypeOK, outside, record
<1>7. RowInv'
  BY <1>0, <1>1, <1>4, <1>6 DEF RoomIInv, RowInv, Makes, Thanks
<1>9. Pending(c)' => May(served[c].kind)
  BY <1>1, <1>4 DEF FindSigner, Admits, Pending, May
<1>10. \A d \in RoomCalls \ {c} : Pending(d)' <=> Pending(d)
  BY <1>4 DEF Pending
<1>11. \A t \in Tabs : \A a : Thanks(t, a)' = Thanks(t, a)
  BY <1>6 DEF Thanks
<1>12. served'[c].kind = served[c].kind /\ served'[c].stage = "found"
  BY <1>1, <1>4
<1>13. StatusInv'
  <2>1. \A d \in RoomCalls :
          served'[d].kind = "view" /\ served'[d].stage = "passed" => served'[d].seen = "INVITED"
    BY <1>4, <1>12 DEF RoomIInv, StatusInv
  <2>2. CASE raced'
    BY <2>1, <2>2 DEF StatusInv
  <2>3. CASE ~raced'
    <3>1. ~raced
      BY <2>3, <1>5
    <3>2. \A d \in RoomCalls : Pending(d)' => May(served[d].kind)'
      BY <3>1, <1>4, <1>6, <1>9, <1>10, <1>12 DEF RoomIInv, StatusInv, May
    <3>3. \A d, e \in RoomCalls : Pending(d)' /\ Pending(e)' => served'[d].kind = served'[e].kind
      BY <3>1, <2>3, <1>4, <1>5, <1>10, <1>12 DEF RoomIInv, StatusInv
    <3>4. \A d \in RoomCalls : served'[d].stage = "done" =>
            /\ served'[d].kind = "sign" => status' = "SIGNED"
            /\ served'[d].kind = "decline" => status' = "DECLINED"
      BY <3>1, <1>4, <1>6, <1>12 DEF RoomIInv, StatusInv
    <3> QED BY <2>1, <3>1, <3>2, <3>3, <3>4, <1>6, <1>11 DEF RoomIInv, StatusInv
  <2> QED BY <2>2, <2>3
<1> QED BY <1>4, <1>6, <1>7, <1>13 DEF RoomIInv

(* The steps that read, and the ends of calls that write nothing.          *)
LEMMA ReadSteps ==
  ASSUME RoomIInv, NEW c \in RoomCalls, AskTurn(c) \/ AskView(c) \/ ReadFields(c) \/ RoomCallFails(c)
  PROVE  RoomIInv'
<1>0. /\ served[c] \in CallType /\ served \in [RoomCalls -> CallType] /\ turn \in BOOLEAN
      /\ recorded \in Values /\ NoValues \in Values
  BY RoomTypes DEF RoomIInv, RoomTypeOK
<1>a. UNCHANGED <<tab, turn, record, raced>>
  BY DEF AskTurn, AskView, ReadFields, RoomCallFails, outside
<1>1. CASE AskTurn(c)
  <2> DEFINE next == [served[c] EXCEPT !.stage = "passed"]
  <2>1. /\ next \in CallType /\ next.kind = served[c].kind /\ next.stage = "passed"
        /\ next.sent = served[c].sent /\ next.seen = served[c].seen
        /\ served[c].stage = "found" /\ served[c].kind # "view"
    BY <1>0, <1>1 DEF CallType, AskTurn
  <2>2. served' = [served EXCEPT ![c] = next]
    BY <1>0, <1>1 DEF AskTurn, Goes
  <2>3. Follows(c, next) /\ Pending(c)
    BY <2>1 DEF Follows, Pending
  <2> HIDE DEF next
  <2> QED BY <1>a, <2>1, <2>2, <2>3, QuietCall
<1>2. CASE AskView(c)
  <2>0. PICK a \in BOOLEAN : a = (turn /\ served[c].seen # "SIGNED")
    BY <1>0
  <2>b. PICK s \in {"passed", "viewed"} :
          s = IF a /\ served[c].seen = "INVITED" THEN "passed" ELSE "viewed"
    OBVIOUS
  <2> DEFINE next == [served[c] EXCEPT !.allows = a, !.stage = s]
  <2>1. /\ next \in CallType /\ next.kind = served[c].kind /\ next.stage = s
        /\ next.sent = served[c].sent /\ next.seen = served[c].seen
    BY <1>0 DEF CallType
  <2>2. served' = [served EXCEPT ![c] = next]
    BY <1>0, <1>2, <2>0, <2>b DEF AskView
  <2>3. served[c].stage = "found" /\ served[c].kind = "view"
    BY <1>2 DEF AskView, At
  <2>4. Follows(c, next)
    BY <2>1, <2>3 DEF Follows
  <2>5. s = "passed" => served[c].seen = "INVITED" /\ Pending(c)
    BY <2>b, <2>3 DEF Pending
  <2> HIDE DEF next
  <2>6. s \in {"passed", "viewed"}
    BY <2>b
  <2> QED BY <1>a, <2>1, <2>2, <2>3, <2>4, <2>5, <2>6, QuietCall
<1>3. ASSUME NEW stage \in {"done", "refused"}, NEW values \in Values,
             Replies(c, stage, values), served[c].stage # "idle",
             stage = "done" => served[c].kind = "view"
      PROVE  RoomIInv'
  <2>1. CASE \E t \in Tabs : tab[t].call = c
    <3> DEFINE next == [served[c] EXCEPT !.stage = stage, !.sent = values]
    <3>1. /\ next \in CallType /\ next.kind = served[c].kind /\ next.stage = stage
          /\ next.sent = values
      BY <1>0 DEF CallType
    <3>2. served' = [served EXCEPT ![c] = next]
      BY <1>0, <1>3, <2>1 DEF Replies
    <3>3. Follows(c, next)
      BY <1>3, <3>1 DEF Follows
    <3> HIDE DEF next
    <3> QED BY <1>3, <1>a, <3>1, <3>2, <3>3, QuietCall
  <2>2. CASE ~ \E t \in Tabs : tab[t].call = c
    <3>1. served' = [served EXCEPT ![c] = IdleCall] /\ Follows(c, IdleCall)
      BY <1>0, <1>3, <2>2, RoomTypes DEF Replies, Follows
    <3> QED BY <1>a, <3>1, RoomTypes, QuietCall
  <2> QED BY <2>1, <2>2
<1>4. CASE ReadFields(c)
  BY <1>0, <1>3, <1>4 DEF ReadFields, At
<1>5. CASE RoomCallFails(c)
  BY <1>0, <1>3, <1>5 DEF RoomCallFails
<1> QED BY <1>1, <1>2, <1>4, <1>5

(* A step of a pending call that stays pending or ends: what the rest of   *)
(* the calls rely on is kept if the status may be what it has become.      *)
LEMMA StatusKept ==
  ASSUME RoomIInv, NEW c \in RoomCalls, NEW next \in CallType,
         served'[c] = next, \A d \in RoomCalls \ {c} : served'[d] = served[d],
         UNCHANGED <<tab, raced>>, Pending(c), served[c].kind # "none",
         next.kind \in {served[c].kind, "none"},
         next.kind = "none" => next.stage = "idle",
         next.kind = "view" => next.stage = "viewed",
         \/ status' = status /\ next.stage # "done"
         \/ status' = "VIEWED" /\ served[c].kind = "view"
         \/ status' = "SIGNED" /\ served[c].kind = "sign"
         \/ status' = "DECLINED" /\ served[c].kind = "decline"
  PROVE  StatusInv'
<1>1. \A d \in RoomCalls :
        served'[d].kind = "view" /\ served'[d].stage = "passed" => served'[d].seen = "INVITED"
  BY DEF RoomIInv, StatusInv
<1>2. CASE raced
  BY <1>1, <1>2 DEF StatusInv
<1>3. CASE ~raced
  <2>1. /\ \A d \in RoomCalls : Pending(d) => May(served[d].kind)
        /\ \A d, e \in RoomCalls : Pending(d) /\ Pending(e) => served[d].kind = served[e].kind
        /\ \A d \in RoomCalls : served[d].stage = "done" =>
             /\ served[d].kind = "sign" => status = "SIGNED"
             /\ served[d].kind = "decline" => status = "DECLINED"
        /\ \A t \in Tabs : /\ Thanks(t, "sign") => status = "SIGNED"
                           /\ Thanks(t, "decline") => status = "DECLINED"
    BY <1>3 DEF RoomIInv, StatusInv
  <2>2. May(served[c].kind)
    BY <2>1
  <2>3. \A d \in RoomCalls : Pending(d)' => Pending(d) /\ served'[d].kind = served[d].kind
    BY DEF Pending
  <2>4. \A d \in RoomCalls : Pending(d)' => served'[d].kind = served[c].kind
    BY <2>1, <2>3
  <2>5. \A d \in RoomCalls : Pending(d)' => May(served[d].kind)'
    BY <2>2, <2>4 DEF May
  <2>6. \A d, e \in RoomCalls : Pending(d)' /\ Pending(e)' => served'[d].kind = served'[e].kind
    BY <2>4
  <2>7. \A d \in RoomCalls : served'[d].stage = "done" =>
             /\ served'[d].kind = "sign" => status' = "SIGNED"
             /\ served'[d].kind = "decline" => status' = "DECLINED"
    <3> SUFFICES ASSUME NEW d \in RoomCalls, served'[d].stage = "done"
                 PROVE  /\ served'[d].kind = "sign" => status' = "SIGNED"
                        /\ served'[d].kind = "decline" => status' = "DECLINED"
      OBVIOUS
    <3>1. CASE d = c
      BY <3>1
    <3>2. CASE d # c
      BY <3>2, <2>1, <2>2 DEF May
    <3> QED BY <3>1, <3>2
  <2>8. \A t \in Tabs : /\ Thanks(t, "sign")' => status' = "SIGNED"
                        /\ Thanks(t, "decline")' => status' = "DECLINED"
    BY <2>1, <2>2 DEF May, Thanks
  <2> QED BY <1>1, <2>5, <2>6, <2>7, <2>8 DEF StatusInv
<1>4. raced \in BOOLEAN
  BY DEF RoomIInv, RoomTypeOK
<1> QED BY <1>2, <1>3, <1>4

LEMMA MarkViewedStep ==
  ASSUME RoomIInv, NEW c \in RoomCalls, MarkViewed(c)
  PROVE  RoomIInv'
<1> DEFINE next == [served[c] EXCEPT !.stage = "viewed"]
<1>0. /\ served[c] \in CallType /\ served \in [RoomCalls -> CallType]
      /\ served[c].kind = "view" /\ served[c].stage = "passed"
  BY DEF RoomIInv, RoomTypeOK, MarkViewed, At
<1>1. /\ next \in CallType /\ next.kind = "view" /\ next.stage = "viewed"
      /\ served' = [served EXCEPT ![c] = next] /\ Follows(c, next)
  BY <1>0 DEF CallType, MarkViewed, Goes, Follows
<1> HIDE DEF next
<1>2. /\ served' \in [RoomCalls -> CallType] /\ served'[c] = next
      /\ \A d \in RoomCalls \ {c} : served'[d] = served[d]
      /\ WaitInv'
  BY <1>1, CallMoves DEF MarkViewed
<1>3. Pending(c)
  BY <1>0 DEF Pending, RoomIInv, StatusInv
<1>4. /\ UNCHANGED <<tab, turn, signature, recorded, raced>>
      /\ status' = "VIEWED"
  BY DEF MarkViewed, outside
<1>5. RoomTypeOK'
  BY <1>2, <1>4 DEF RoomIInv, RoomTypeOK, Statuses
<1>6. RowInv'
  BY <1>0, <1>1, <1>2, <1>4 DEF RoomIInv, RowInv, Makes, Thanks
<1>7. StatusInv'
  BY <1>0, <1>1, <1>2, <1>3, <1>4, StatusKept
<1> QED BY <1>2, <1>5, <1>6, <1>7 DEF RoomIInv

LEMMA InsertStep ==
  ASSUME RoomIInv, NEW c \in RoomCalls, InsertSignature(c)
  PROVE  RoomIInv'
<1> DEFINE next == [served[c] EXCEPT !.stage = "inserted"]
<1>0. /\ served[c] \in CallType /\ served \in [RoomCalls -> CallType]
      /\ served[c].kind = "sign" /\ served[c].stage = "passed"
      /\ UNCHANGED <<tab, turn, status, recorded, raced>>
      /\ ~signature /\ signature' = TRUE
  BY DEF RoomIInv, RoomTypeOK, InsertSignature, At, outside
<1>1. /\ next \in CallType /\ next.kind = "sign" /\ next.stage = "inserted"
      /\ served' = [served EXCEPT ![c] = next] /\ Follows(c, next)
  BY <1>0 DEF CallType, InsertSignature, Goes, Follows
<1> HIDE DEF next
<1>2. /\ served' \in [RoomCalls -> CallType] /\ served'[c] = next
      /\ \A d \in RoomCalls \ {c} : served'[d] = served[d]
      /\ WaitInv'
  BY <1>0, <1>1, CallMoves
<1>3. Pending(c)
  BY <1>0 DEF Pending
<1>5. RoomTypeOK'
  BY <1>0, <1>2 DEF RoomIInv, RoomTypeOK
<1>6. /\ recorded = NoValues /\ \A d \in RoomCalls : ~Makes(d)
      /\ \A t \in Tabs : ~Thanks(t, "sign")
  BY <1>0 DEF RoomIInv, RowInv
<1>7. RowInv'
  BY <1>0, <1>1, <1>2, <1>6 DEF RowInv, Makes, Thanks
<1>8. StatusInv'
  BY <1>0, <1>1, <1>2, <1>3, StatusKept
<1> QED BY <1>2, <1>5, <1>7, <1>8 DEF RoomIInv

LEMMA CaptureStep ==
  ASSUME RoomIInv, NEW c \in RoomCalls, CaptureFields(c)
  PROVE  RoomIInv'
<1> DEFINE next == [served[c] EXCEPT !.stage = "captured"]
<1>0. /\ served[c] \in CallType /\ served \in [RoomCalls -> CallType]
      /\ served[c].kind = "sign" /\ served[c].stage = "inserted"
      /\ UNCHANGED <<tab, turn, status, signature, raced>>
  BY DEF RoomIInv, RoomTypeOK, CaptureFields, At, outside
<1>1. /\ next \in CallType /\ next.kind = "sign" /\ next.stage = "captured"
      /\ next.sent = served[c].sent
      /\ served' = [served EXCEPT ![c] = next] /\ Follows(c, next)
  BY <1>0 DEF CallType, CaptureFields, Goes, Follows
<1> HIDE DEF next
<1>2. /\ served' \in [RoomCalls -> CallType] /\ served'[c] = next
      /\ \A d \in RoomCalls \ {c} : served'[d] = served[d]
      /\ WaitInv'
  BY <1>0, <1>1, CallMoves
<1>3. Pending(c)
  BY <1>0 DEF Pending
<1>4. Makes(c) /\ signature /\ recorded = NoValues
  BY <1>0 DEF Makes, RoomIInv, RowInv
<1>5. recorded' = served[c].sent /\ served[c].sent \in Values
  <2>1. served[c].sent \in Values
    BY <1>0 DEF CallType
  <2>2. \A f \in RoomFields : recorded[f] = Blank
    BY <1>4 DEF NoValues
  <2>3. recorded' = [f \in RoomFields |->
                      IF served[c].sent[f] = Blank THEN recorded[f] ELSE served[c].sent[f]]
    BY DEF CaptureFields
  <2>4. recorded' = [f \in RoomFields |-> served[c].sent[f]]
    BY <2>2, <2>3
  <2> QED BY <2>1, <2>4 DEF Values
<1>6. RoomTypeOK'
  BY <1>0, <1>2, <1>5 DEF RoomIInv, RoomTypeOK
<1>7. /\ \A d \in RoomCalls \ {c} : ~Makes(d)
      /\ \A t \in Tabs : ~Thanks(t, "sign")
  BY <1>4 DEF RoomIInv, RowInv
<1>8. RowInv'
  BY <1>0, <1>1, <1>2, <1>4, <1>5, <1>7 DEF RowInv, Makes, Thanks
<1>9. StatusInv'
  BY <1>0, <1>1, <1>2, <1>3, StatusKept
<1> QED BY <1>2, <1>6, <1>8, <1>9 DEF RoomIInv

LEMMA MarkStep ==
  ASSUME RoomIInv, NEW c \in RoomCalls, MarkSigned(c) \/ MarkDeclined(c)
  PROVE  RoomIInv'
<1>0. /\ served[c] \in CallType /\ served \in [RoomCalls -> CallType]
      /\ UNCHANGED <<tab, turn, signature, recorded, raced>>
      /\ status' \in Statuses
  BY DEF RoomIInv, RoomTypeOK, MarkSigned, MarkDeclined, outside, Statuses
<1>1. PICK values \in Values :
        /\ Replies(c, "done", values)
        /\ \/ /\ served[c].kind = "sign" /\ served[c].stage = "captured"
              /\ status' = "SIGNED" /\ values = served[c].sent
           \/ served[c].kind = "decline" /\ served[c].stage = "passed" /\ status' = "DECLINED"
  BY <1>0, RoomTypes DEF MarkSigned, MarkDeclined, At, CallType
<1>2. PICK next : /\ Follows(c, next) /\ served' = [served EXCEPT ![c] = next]
                  /\ \/ next.kind = served[c].kind /\ next.stage = "done" /\ next.sent = values
                     \/ next.kind = "none" /\ next.stage = "idle"
  <2>1. CASE \E t \in Tabs : tab[t].call = c
    <3> DEFINE next == [served[c] EXCEPT !.stage = "done", !.sent = values]
    <3>1. /\ next \in CallType /\ next.kind = served[c].kind /\ next.stage = "done"
          /\ next.sent = values
      BY <1>0, <1>1 DEF CallType
    <3>2. served' = [served EXCEPT ![c] = next]
      BY <1>0, <1>1, <2>1 DEF Replies
    <3>3. Follows(c, next)
      BY <1>1, <3>1 DEF Follows
    <3> HIDE DEF next
    <3> QED BY <3>1, <3>2, <3>3
  <2>2. CASE ~ \E t \in Tabs : tab[t].call = c
    BY <1>0, <1>1, <2>2, RoomTypes DEF Replies, Follows
  <2> QED BY <2>1, <2>2
<1>3. /\ served' \in [RoomCalls -> CallType] /\ served'[c] = next
      /\ \A d \in RoomCalls \ {c} : served'[d] = served[d]
      /\ WaitInv'
  BY <1>0, <1>2, CallMoves
<1>4. Pending(c) /\ next \in CallType
  BY <1>0, <1>1, <1>2, <1>3 DEF Pending
<1>5. RoomTypeOK'
  BY <1>0, <1>3 DEF RoomIInv, RoomTypeOK
<1>6. Makes(c)' => Makes(c) /\ served[c].stage = "captured" /\ next.sent = served[c].sent
  BY <1>1, <1>2, <1>3 DEF Makes
<1>7. RowInv'
  <2>1. ASSUME NEW d \in RoomCalls, Makes(d)'
        PROVE  /\ Makes(d) /\ served'[d].sent = served[d].sent
               /\ served'[d].stage = "inserted" <=> served[d].stage = "inserted"
    <3>1. CASE d = c
      BY <1>2, <1>3, <1>6, <2>1, <3>1 DEF Makes
    <3>2. CASE d # c
      BY <1>3, <2>1, <3>2 DEF Makes
    <3> QED BY <3>1, <3>2
  <2>2. /\ ~signature => recorded = NoValues
        /\ \A d \in RoomCalls : Makes(d) =>
             /\ signature
             /\ recorded = IF served[d].stage = "inserted" THEN NoValues ELSE served[d].sent
        /\ \A d, e \in RoomCalls : Makes(d) /\ Makes(e) => d = e
        /\ \A t \in Tabs : Thanks(t, "sign") =>
             /\ signature /\ recorded = tab[t].values
             /\ \A d \in RoomCalls : ~Makes(d)
    BY DEF RoomIInv, RowInv
  <2>3. ASSUME NEW d \in RoomCalls, Makes(d)'
        PROVE  /\ signature'
               /\ recorded' = IF served'[d].stage = "inserted" THEN NoValues
                              ELSE served'[d].sent
    <3>1. /\ Makes(d) /\ served'[d].sent = served[d].sent
          /\ served'[d].stage = "inserted" <=> served[d].stage = "inserted"
      BY <2>1, <2>3
    <3> QED BY <1>0, <2>2, <3>1
  <2>4. ASSUME NEW d \in RoomCalls, NEW e \in RoomCalls, Makes(d)', Makes(e)'
        PROVE  d = e
    <3>1. Makes(d) /\ Makes(e)
      BY <2>1, <2>4
    <3> QED BY <2>2, <3>1
  <2>5. ASSUME NEW t \in Tabs, Thanks(t, "sign")'
        PROVE  /\ signature' /\ recorded' = tab'[t].values
               /\ \A d \in RoomCalls : ~Makes(d)'
    <3>1. Thanks(t, "sign")
      BY <1>0, <2>5 DEF Thanks
    <3>2. signature' /\ recorded' = tab'[t].values
      BY <1>0, <2>2, <3>1
    <3>3. ASSUME NEW d \in RoomCalls, Makes(d)' PROVE FALSE
      BY <2>1, <2>2, <3>1, <3>3
    <3> QED BY <3>2, <3>3
  <2> QED BY <1>0, <2>2, <2>3, <2>4, <2>5 DEF RowInv
<1>8. StatusInv'
  BY <1>0, <1>1, <1>2, <1>3, <1>4, StatusKept
<1> QED BY <1>3, <1>5, <1>7, <1>8 DEF RoomIInv

(***************************************************************************)
(* The steps of a tab.                                                     *)
(***************************************************************************)

(* Whatever a tab does, no call becomes pending, and none is made or done. *)
CallsFollow(t) ==
  /\ served' \in [RoomCalls -> CallType]
  /\ \A c \in RoomCalls :
       \/ served'[c] = served[c]
       \/ served'[c].kind # "none" /\ served'[c].stage = "sent" /\ served[c].stage = "idle"
       \/ served'[c] = IdleCall /\ tab[t].call = c

(* The tab waits for a call of its own, or shows what has been answered.   *)
WaitsFor(t, next) ==
  \A c \in RoomCalls : next.call = c =>
    /\ \A u \in Tabs \ {t} : tab[u].call # c
    /\ served'[c].stage # "idle"
    /\ \/ next.page = "loading" /\ next.action = "none" /\ served'[c].kind = "view"
       \/ /\ next.page = "form" /\ next.action = served'[c].kind
          /\ next.action \in {"sign", "decline"}
          /\ next.action = "sign" =>
               /\ \A f \in Required : next.values[f] # Blank
               /\ served'[c].stage # "refused" => served'[c].sent = next.values

Rests(next) ==
  next.call = NoCall => next.page # "loading" /\ (next.page = "form" => next.action = "none")

Answered(next) ==
  next.page = "thanks" =>
    /\ next.call = NoCall /\ next.action \in {"sign", "decline"}
    /\ next.action = "sign" =>
         /\ \A f \in Required : next.values[f] # Blank
         /\ signature /\ recorded = next.values /\ \A c \in RoomCalls : ~Makes(c)'
    /\ \/ raced
       \/ next.action = "sign" /\ status = "SIGNED"
       \/ next.action = "decline" /\ status = "DECLINED"

LEMMA TabMoves ==
  ASSUME RoomIInv, NEW t \in Tabs, NEW next \in TabType,
         tab' = [tab EXCEPT ![t] = next], UNCHANGED <<turn, record, raced>>,
         CallsFollow(t), WaitsFor(t, next), Rests(next), Answered(next)
  PROVE  RoomIInv'
<1>1. /\ tab' \in [Tabs -> TabType] /\ tab'[t] = next
      /\ \A u \in Tabs \ {t} : tab'[u] = tab[u]
  BY DEF RoomIInv, RoomTypeOK
<1>2. RoomTypeOK' /\ UNCHANGED <<status, signature, recorded>>
  BY <1>1 DEF RoomIInv, RoomTypeOK, record, CallsFollow
<1>3. \A c \in RoomCalls :
        /\ Pending(c)' => Pending(c) /\ served'[c] = served[c]
        /\ Makes(c)' => Makes(c) /\ served'[c] = served[c]
        /\ served'[c].stage = "done" => served'[c] = served[c]
        /\ served'[c].stage = "passed" => served'[c] = served[c]
  BY RoomTypes DEF Pending, Makes, CallsFollow
<1>4. WaitInv'
  <2>1. ASSUME NEW u \in Tabs, NEW c \in RoomCalls, tab'[u].call = c
        PROVE  Waits(u, c)'
    <3>1. CASE u = t
      BY <1>1, <2>1, <3>1 DEF Waits, CanSign, WaitsFor
    <3>2. CASE u # t
      <4>1. Waits(u, c) /\ tab'[u] = tab[u] /\ tab[u].call = c
        BY <1>1, <2>1, <3>2 DEF RoomIInv, WaitInv
      <4>2. tab[t].call # c
        BY <4>1, <3>2 DEF RoomIInv, WaitInv, RoomTypeOK
      <4>3. served'[c] = served[c]
        BY <4>1, <4>2 DEF Waits, CallsFollow
      <4> QED BY <4>1, <4>3 DEF Waits, CanSign
    <3> QED BY <3>1, <3>2
  <2>2. \A u, v \in Tabs : tab'[u].call = tab'[v].call /\ tab'[u].call # NoCall => u = v
    BY <1>1 DEF RoomIInv, WaitInv, TabType, WaitsFor
  <2>3. \A u \in Tabs : tab'[u].call = NoCall => tab'[u].page # "loading"
    BY <1>1 DEF RoomIInv, WaitInv, Rests
  <2>4. \A u \in Tabs :
          tab'[u].page = "form" /\ tab'[u].action # "none" => tab'[u].call # NoCall
    BY <1>1 DEF RoomIInv, WaitInv, Rests
  <2>5. \A u \in Tabs : tab'[u].page = "thanks" =>
          /\ tab'[u].call = NoCall /\ tab'[u].action \in {"sign", "decline"}
          /\ tab'[u].action = "sign" => CanSign(u)'
    BY <1>1 DEF RoomIInv, WaitInv, CanSign, Answered
  <2> QED BY <2>1, <2>2, <2>3, <2>4, <2>5 DEF WaitInv
<1>5. RowInv'
  BY <1>1, <1>2, <1>3 DEF RoomIInv, RowInv, Thanks, Answered
<1>6. StatusInv'
  <2>1. \A c \in RoomCalls :
          served'[c].kind = "view" /\ served'[c].stage = "passed" => served'[c].seen = "INVITED"
    BY <1>3 DEF RoomIInv, StatusInv
  <2>2. CASE raced
    BY <2>1, <2>2 DEF StatusInv
  <2>3. CASE ~raced
    BY <2>1, <2>3, <1>1, <1>2, <1>3 DEF RoomIInv, StatusInv, Thanks, May, Answered
  <2> QED BY <2>2, <2>3 DEF RoomIInv, RoomTypeOK
<1> QED BY <1>2, <1>4, <1>5, <1>6 DEF RoomIInv

LEMMA FreeCall == ASSUME NEW c, NextCall(c) PROVE c \in RoomCalls /\ served[c].stage = "idle"
BY DEF NextCall

LEMMA OpenStep ==
  ASSUME RoomIInv, NEW t \in Tabs, NEW c \in RoomCalls, OpenLink(t, c)
  PROVE  RoomIInv'
<1> DEFINE sent == [IdleCall EXCEPT !.kind = "view", !.stage = "sent", !.sent = NoValues]
           next == [Closed EXCEPT !.page = "loading", !.call = c]
<1>0. served \in [RoomCalls -> CallType] /\ served[c].stage = "idle"
  BY FreeCall DEF OpenLink, RoomIInv, RoomTypeOK
<1>1. /\ sent \in CallType /\ sent.kind = "view" /\ sent.stage = "sent"
      /\ served' = [served EXCEPT ![c] = sent]
  BY RoomTypes DEF OpenLink, Send, CallType
<1>2. /\ next \in TabType /\ next.page = "loading" /\ next.call = c /\ next.action = "none"
      /\ tab' = [tab EXCEPT ![t] = next]
  BY RoomTypes DEF OpenLink, TabType
<1> HIDE DEF sent, next
<1>3. UNCHANGED <<turn, record, raced>> /\ c # NoCall
  BY DEF OpenLink, outside, RoomIInv, RoomTypeOK
<1>4. \A u \in Tabs : tab[u].call # c
  BY <1>0 DEF RoomIInv, WaitInv, Waits
<1>5. CallsFollow(t) /\ WaitsFor(t, next)
  BY <1>0, <1>1, <1>2, <1>3, <1>4 DEF CallsFollow, WaitsFor
<1>6. Rests(next) /\ Answered(next)
  BY <1>2, <1>3 DEF Rests, Answered
<1> QED BY <1>2, <1>3, <1>5, <1>6, TabMoves

LEMMA AnswerStep ==
  ASSUME RoomIInv, NEW t \in Tabs, NEW c \in RoomCalls, Sign(t, c) \/ Decline(t, c)
  PROVE  RoomIInv'
<1>0. /\ served \in [RoomCalls -> CallType] /\ served[c].stage = "idle"
      /\ tab \in [Tabs -> TabType] /\ tab[t].page = "form" /\ tab[t].action = "none"
  BY FreeCall DEF Sign, Decline, Form, RoomIInv, RoomTypeOK
<1>1. PICK kind \in {"sign", "decline"}, values \in Values :
        /\ Send(c, kind, values) /\ tab' = [tab EXCEPT ![t].action = kind, ![t].call = c]
        /\ kind = "sign" => CanSign(t) /\ values = tab[t].values
  BY <1>0, RoomTypes DEF Sign, Decline, TabType
<1> DEFINE sent == [IdleCall EXCEPT !.kind = kind, !.stage = "sent", !.sent = values]
           next == [tab[t] EXCEPT !.action = kind, !.call = c]
<1>2. /\ sent \in CallType /\ sent.kind = kind /\ sent.stage = "sent" /\ sent.sent = values
      /\ served' = [served EXCEPT ![c] = sent]
  BY <1>1, RoomTypes DEF Send, CallType
<1>3. /\ next \in TabType /\ next.page = "form" /\ next.call = c /\ next.action = kind
      /\ next.values = tab[t].values
      /\ tab' = [tab EXCEPT ![t] = next]
  BY <1>0, <1>1 DEF TabType
<1> HIDE DEF sent, next
<1>4. UNCHANGED <<turn, record, raced>> /\ c # NoCall
  BY DEF Sign, Decline, outside, RoomIInv, RoomTypeOK
<1>5. \A u \in Tabs : tab[u].call # c
  BY <1>0 DEF RoomIInv, WaitInv, Waits
<1>6. kind = "sign" =>
        /\ \A f \in Required : next.values[f] # Blank
        /\ served'[c].sent = next.values
  BY <1>0, <1>1, <1>2, <1>3 DEF CanSign
<1>7. /\ served'[c] = sent /\ \A d \in RoomCalls \ {c} : served'[d] = served[d]
      /\ served' \in [RoomCalls -> CallType]
  BY <1>0, <1>2
<1>8. \A d \in RoomCalls :
        \/ served'[d] = served[d]
        \/ served'[d].kind # "none" /\ served'[d].stage = "sent" /\ served[d].stage = "idle"
  BY <1>0, <1>1, <1>2, <1>7
<1>9. /\ served'[c].stage # "idle" /\ next.action = served'[c].kind
      /\ next.action \in {"sign", "decline"}
  BY <1>1, <1>2, <1>3, <1>7
<1>10. next.call = c /\ next.page = "form" /\ next \in TabType /\ tab' = [tab EXCEPT ![t] = next]
  BY <1>3
<1>11. CallsFollow(t)
  BY <1>7, <1>8 DEF CallsFollow
<1>12. WaitsFor(t, next)
  BY <1>3, <1>5, <1>6, <1>9, <1>10 DEF WaitsFor
<1>13. Rests(next) /\ Answered(next)
  BY <1>4, <1>10 DEF Rests, Answered
<1> HIDE DEF sent
<1> QED BY <1>4, <1>10, <1>11, <1>12, <1>13, TabMoves

LEMMA HangsType ==
  ASSUME RoomIInv, NEW t \in Tabs, Hangs(t)
  PROVE  /\ served' \in [RoomCalls -> CallType]
         /\ \A c \in RoomCalls :
              served'[c] = IF tab[t].call = c /\ Over(c) THEN IdleCall ELSE served[c]
BY RoomTypes DEF Hangs, RoomIInv, RoomTypeOK

LEMMA LoadStep ==
  ASSUME RoomIInv, NEW t \in Tabs, LoadSession(t)
  PROVE  RoomIInv'
<1>1. PICK c \in RoomCalls :
        /\ tab[t].call = c
        /\ tab' = [tab EXCEPT ![t] =
             [Closed EXCEPT !.page = "form", !.allows = served[c].allows,
                            !.answered = served[c].seen = "SIGNED",
                            !.values = served[c].sent]]
  BY DEF LoadSession
<1>2. PICK a \in BOOLEAN, b \in BOOLEAN, w \in Values :
        a = served[c].allows /\ b = (served[c].seen = "SIGNED") /\ w = served[c].sent
  BY DEF RoomIInv, RoomTypeOK, CallType
<1> DEFINE next == [Closed EXCEPT !.page = "form", !.allows = a, !.answered = b, !.values = w]
<1>3. /\ next \in TabType /\ next.page = "form" /\ next.action = "none" /\ next.call = NoCall
  BY RoomTypes DEF TabType
<1>4. tab' = [tab EXCEPT ![t] = next]
  BY <1>1, <1>2, Zenon
<1> HIDE DEF next
<1>5. UNCHANGED <<turn, record, raced>> /\ NoCall \notin RoomCalls
  BY DEF LoadSession, outside, RoomIInv, RoomTypeOK
<1>6. Hangs(t)
  BY DEF LoadSession
<1>7. CallsFollow(t)
  BY <1>6, HangsType DEF CallsFollow
<1>8. WaitsFor(t, next) /\ Rests(next) /\ Answered(next)
  BY <1>3, <1>5 DEF WaitsFor, Rests, Answered
<1> QED BY <1>3, <1>4, <1>5, <1>7, <1>8, TabMoves

LEMMA ThanksStep ==
  ASSUME RoomIInv, NEW t \in Tabs, ShowThanks(t)
  PROVE  RoomIInv'
<1>0. PICK c \in RoomCalls : tab[t].call = c /\ served[c].stage = "done"
  BY DEF ShowThanks
<1> DEFINE next == [tab[t] EXCEPT !.page = "thanks", !.call = NoCall]
<1>1. /\ tab[t] \in TabType /\ tab \in [Tabs -> TabType] /\ NoCall \notin RoomCalls
      /\ tab[t].page = "form" /\ Hangs(t) /\ UNCHANGED <<turn, record, raced>>
  BY DEF ShowThanks, outside, RoomIInv, RoomTypeOK
<1>2. /\ next \in TabType /\ next.page = "thanks" /\ next.call = NoCall
      /\ next.action = tab[t].action /\ next.values = tab[t].values
      /\ tab' = [tab EXCEPT ![t] = next]
  BY <1>1 DEF TabType, ShowThanks
<1> HIDE DEF next
<1>3. /\ tab[t].action = served[c].kind /\ tab[t].action \in {"sign", "decline"}
      /\ tab[t].action = "sign" => CanSign(t) /\ served[c].sent = tab[t].values
  BY <1>0, <1>1 DEF RoomIInv, WaitInv, Waits
<1>4. tab[t].action = "sign" =>
        /\ signature /\ recorded = tab[t].values
        /\ \A d \in RoomCalls \ {c} : ~Makes(d)
  BY <1>0, <1>3 DEF RoomIInv, RowInv, Makes
<1>5. \/ raced
      \/ tab[t].action = "sign" /\ status = "SIGNED"
      \/ tab[t].action = "decline" /\ status = "DECLINED"
  BY <1>0, <1>3 DEF RoomIInv, StatusInv
<1>6. served'[c] = IdleCall /\ \A d \in RoomCalls \ {c} : served'[d] = served[d]
  BY <1>0, <1>1, HangsType DEF Over
<1>7. tab[t].action = "sign" => \A d \in RoomCalls : ~Makes(d)'
  BY <1>4, <1>6, RoomTypes DEF Makes
<1>8. CallsFollow(t)
  BY <1>1, HangsType DEF CallsFollow
<1>9. tab[t].action = "sign" => \A f \in Required : next.values[f] # Blank
  BY <1>2, <1>3 DEF CanSign
<1>10. tab[t].action \in {"sign", "decline"}
  BY <1>3
<1>11. Answered(next)
  BY <1>2, <1>4, <1>5, <1>7, <1>9, <1>10 DEF Answered
<1>12. WaitsFor(t, next) /\ Rests(next)
  BY <1>1, <1>2 DEF WaitsFor, Rests
<1> QED BY <1>1, <1>2, <1>8, <1>11, <1>12, TabMoves

LEMMA FormSteps ==
  ASSUME RoomIInv, NEW t \in Tabs, FieldInput(t) \/ AnswerFails(t)
  PROVE  RoomIInv'
<1>0. /\ tab[t] \in TabType /\ tab \in [Tabs -> TabType] /\ NoCall \notin RoomCalls
      /\ served \in [RoomCalls -> CallType] /\ UNCHANGED <<turn, record, raced>>
  BY DEF FieldInput, AnswerFails, outside, RoomIInv, RoomTypeOK
<1>1. CASE FieldInput(t)
  <2>1. PICK f \in RoomFields, a \in Answers \cup {Blank} :
          tab' = [tab EXCEPT ![t].values[f] = a]
    BY <1>1 DEF FieldInput
  <2> DEFINE next == [tab[t] EXCEPT !.values = [@ EXCEPT ![f] = a]]
  <2>2. /\ tab[t].page = "form" /\ tab[t].action = "none" /\ UNCHANGED served
        /\ tab[t].call = NoCall
    BY <1>0, <1>1 DEF FieldInput, Form, FieldsEnabled, TabType, RoomIInv, WaitInv, Waits
  <2>3. /\ next \in TabType /\ next.page = "form" /\ next.call = NoCall
        /\ next.action = "none" /\ tab' = [tab EXCEPT ![t] = next]
    BY <1>0, <2>1, <2>2 DEF TabType, Values
  <2> HIDE DEF next
  <2>4. CallsFollow(t) /\ WaitsFor(t, next) /\ Rests(next) /\ Answered(next)
    BY <1>0, <2>2, <2>3 DEF CallsFollow, WaitsFor, Rests, Answered
  <2> QED BY <1>0, <2>3, <2>4, TabMoves
<1>2. CASE AnswerFails(t)
  <2> DEFINE goes == IF tab[t].page = "loading" THEN "dead" ELSE tab[t].page
             next == [tab[t] EXCEPT !.page = goes, !.action = "none", !.call = NoCall]
  <2>1. PICK c \in RoomCalls : tab[t].call = c
    BY <1>0, <1>2 DEF AnswerFails, TabType
  <2>2. tab[t].page \in {"loading", "form"}
    BY <2>1 DEF RoomIInv, WaitInv, Waits
  <2>3. /\ next \in TabType /\ next.page \in {"dead", "form"} /\ next.call = NoCall
        /\ next.action = "none" /\ tab' = [tab EXCEPT ![t] = next]
    BY <1>0, <1>2, <2>2 DEF TabType, AnswerFails
  <2> HIDE DEF next
  <2>4. Hangs(t)
    BY <1>2 DEF AnswerFails
  <2>5. CallsFollow(t)
    BY <2>4, HangsType DEF CallsFollow
  <2>6. WaitsFor(t, next) /\ Rests(next) /\ Answered(next)
    BY <1>0, <2>3 DEF WaitsFor, Rests, Answered
  <2> QED BY <1>0, <2>3, <2>5, <2>6, TabMoves
<1> QED BY <1>1, <1>2

(* A page that thanks for a signature stands for the one row there is,     *)
(* with the values it shows, and one that thanks for any answer shows the  *)
(* signer's status, unless calls of two kinds raced: for any number of     *)
(* tabs and calls, given up and failed ones among them (SigningRoom, sign, *)
(* decline, publicSession).                                                *)
THEOREM ThanksAreTrue ==
  ASSUME RoomAssumption PROVE RoomSpec => []ThanksForTheRecord
<1>1. RoomIInv /\ RoomNext => RoomIInv'
  <2>1. RoomIInv /\ (TurnMoves \/ Ends) =>
          turn' \in BOOLEAN /\ UNCHANGED <<record, raced, served, tab>>
    BY DEF TurnMoves, Ends, RoomIInv, RoomTypeOK
  <2>2. RoomIInv /\ turn' \in BOOLEAN /\ UNCHANGED <<record, raced, served, tab>> => RoomIInv'
    BY DEF RoomIInv, RoomTypeOK, WaitInv, Waits, CanSign, RowInv, Makes, Thanks, StatusInv,
       Pending, May, record
  <2> QED BY <2>1, <2>2, FindSignerStep, ReadSteps, MarkViewedStep, InsertStep, CaptureStep,
             MarkStep, OpenStep, AnswerStep, LoadStep, ThanksStep, FormSteps DEF RoomNext
<1>2. RoomIInv /\ UNCHANGED roomVars => RoomIInv'
  BY DEF RoomIInv, RoomTypeOK, WaitInv, Waits, CanSign, RowInv, Makes, Thanks, StatusInv,
     Pending, May, record, outside, roomVars
<1>3. RoomIInv => ThanksForTheRecord
  <2> SUFFICES ASSUME RoomIInv, NEW t \in Tabs, tab[t].page = "thanks"
               PROVE  /\ tab[t].action = "sign" =>
                           signature /\ recorded = tab[t].values /\ CanSign(t)
                      /\ \/ raced
                         \/ tab[t].action = "sign" /\ status = "SIGNED"
                         \/ tab[t].action = "decline" /\ status = "DECLINED"
    BY DEF ThanksForTheRecord
  <2> QED BY DEF RoomIInv, WaitInv, RowInv, StatusInv, Thanks
<1> QED BY <1>1, <1>2, <1>3, RoomInit_IInv, PTL DEF RoomSpec
-----------------------------------------------------------------------------
(***************************************************************************)
(* DocumentDetail, for any number of calls.                                *)
(*                                                                         *)
(* A change that the page has not shown is on its way to it: a load that   *)
(* has not read yet, or has read it, or a call that will load; or else the *)
(* page shows an error.  A call that clears the error is one that loads,   *)
(* or that leaves the page.                                                *)
(***************************************************************************)
SlotType ==
  [kind : Kinds \cup {"none", "load"},
   pc : {"idle", "sent", "served", "load", "loaded", "over"},
   seen : SUBSET Slots]

Clearing == {"version", "meta", "in-person"}

Brings(c, d) ==
  \/ slot[c].pc = "load"
  \/ slot[c].pc = "loaded" /\ d \in slot[c].seen
  \/ slot[c].pc \in {"sent", "served"} /\ slot[c].kind \in Clearing

DetailTypeOK ==
  /\ slot \in [Slots -> SlotType] /\ changed \in SUBSET Slots
  /\ \A c \in Slots :
       /\ slot[c].pc \in {"load", "loaded"} => slot[c].kind \in Reloading
       /\ slot[c].pc \in {"sent", "served"} => slot[c].kind \in Kinds
  /\ present = "left" => \A c \in Slots : slot[c].pc = "over"

(* What the page shows, or an answer brings, is in the database.           *)
ShownInv ==
  /\ shown \subseteq changed /\ shown \cap undone = {}
  /\ \A c \in Slots : slot[c].pc = "loaded" => slot[c].seen \subseteq changed

Shown(d) == d \in shown \cup undone \/ \E c \in Slots : Brings(c, d)

DetailInv ==
  /\ DetailTypeOK /\ ShownInv
  /\ present = "left" \/ error \/ \A d \in changed : Shown(d)

LEMMA NoSlotType == NoSlot \in SlotType /\ [NoSlot EXCEPT !.pc = "over"] \in SlotType
BY DEF NoSlot, SlotType

LEMMA DetailInit_Inv == DetailInit => DetailInv
<1> SUFFICES ASSUME DetailInit PROVE DetailInv
  OBVIOUS
<1>1. \A c \in Slots : slot[c] \in SlotType
  BY NoSlotType DEF DetailInit, SlotType
<1>2. \A c \in Slots :
        /\ slot[c].pc \in {"load", "loaded"} => slot[c].kind \in Reloading
        /\ slot[c].pc \in {"sent", "served"} => slot[c].kind \in Kinds
        /\ slot[c].pc # "loaded"
  BY DEF DetailInit, NoSlot, Reloading
<1>3. slot \in [Slots -> SlotType]
  BY <1>1 DEF DetailInit
<1> QED BY <1>2, <1>3 DEF DetailInit, DetailInv, DetailTypeOK, ShownInv

(* A step of one slot.                                                     *)
LEMMA SlotMoves ==
  ASSUME DetailTypeOK, NEW c \in Slots, NEW next \in SlotType,
         slot' = [slot EXCEPT ![c] = next], changed' \in SUBSET Slots,
         next.pc \in {"load", "loaded"} => next.kind \in Reloading,
         next.pc \in {"sent", "served"} => next.kind \in Kinds,
         present' # "left"
  PROVE  /\ DetailTypeOK' /\ slot'[c] = next
         /\ \A b \in Slots \ {c} : slot'[b] = slot[b]
BY DEF DetailTypeOK

LEMMA NotLeft ==
  ASSUME DetailTypeOK, NEW c \in Slots, slot[c].pc # "over"
  PROVE  present # "left"
BY DEF DetailTypeOK

LEMMA StartStep ==
  ASSUME DetailInv, NEW c \in Slots, StartCall(c) \/ SelfSign(c)
  PROVE  DetailInv'
<1>1. PICK kind \in Kinds :
        /\ slot[c].pc = "idle" /\ present' # "left"
        /\ slot' = [slot EXCEPT ![c] = [NoSlot EXCEPT !.kind = kind, !.pc = "sent"]]
        /\ UNCHANGED <<changed, shown, present, undone>>
        /\ (error' <=> error /\ kind \notin Clearing)
  <2>1. CASE StartCall(c)
    BY <2>1 DEF StartCall, OfferedActions, AskSlot, Clearing
  <2>2. CASE SelfSign(c)
    BY <2>2 DEF SelfSign, AskSlot, Clearing, Kinds, page
  <2> QED BY <2>1, <2>2
<1> DEFINE next == [NoSlot EXCEPT !.kind = kind, !.pc = "sent"]
<1>2. next \in SlotType /\ next.pc = "sent" /\ next.kind = kind
  BY NoSlotType DEF SlotType, NoSlot
<1>3. slot' = [slot EXCEPT ![c] = next]
  BY <1>1
<1> HIDE DEF next
<1>4. /\ DetailTypeOK' /\ slot'[c] = next
      /\ \A b \in Slots \ {c} : slot'[b] = slot[b]
  BY <1>1, <1>2, <1>3, SlotMoves DEF DetailInv, DetailTypeOK
<1>5. \A d \in changed : Shown(d) => Shown(d)'
  BY <1>1, <1>4 DEF Shown, Brings
<1>6. kind \in Clearing => \A d \in changed : Shown(d)'
  BY <1>2, <1>4 DEF Shown, Brings
<1>7. ShownInv'
  BY <1>1, <1>2, <1>4 DEF DetailInv, ShownInv
<1> QED BY <1>1, <1>4, <1>5, <1>6, <1>7 DEF DetailInv

LEMMA ServeStep ==
  ASSUME DetailInv, NEW c \in Slots, ServeSlot(c)
  PROVE  DetailInv'
<1> DEFINE next == [slot[c] EXCEPT !.pc = "served"]
<1>1. /\ next \in SlotType /\ next.pc = "served" /\ next.kind = slot[c].kind
      /\ slot[c].pc = "sent" /\ slot' = [slot EXCEPT ![c] = next]
      /\ present' # "left" /\ changed' \in SUBSET Slots
      /\ changed \subseteq changed'
      /\ UNCHANGED <<shown, present, error, undone>>
  BY NotLeft DEF DetailInv, DetailTypeOK, ServeSlot, SlotType, page
<1> HIDE DEF next
<1>2. /\ DetailTypeOK' /\ slot'[c] = next
      /\ \A b \in Slots \ {c} : slot'[b] = slot[b]
  BY <1>1, SlotMoves DEF DetailInv, DetailTypeOK
<1>3. \A d \in changed : Shown(d) => Shown(d)'
  BY <1>1, <1>2 DEF Shown, Brings
<1>4. ASSUME NEW d \in changed' \ changed PROVE Shown(d)'
  <2>1. slot[c].kind \in Reloading
    BY <1>4 DEF ServeSlot
  <2>2. slot[c].kind \in Clearing
    BY <1>1, <2>1 DEF DetailInv, DetailTypeOK, Kinds, Reloading, Clearing
  <2> QED BY <1>1, <1>2, <2>2 DEF Shown, Brings
<1>5. ShownInv'
  BY <1>1, <1>2 DEF DetailInv, ShownInv
<1> QED BY <1>1, <1>2, <1>3, <1>4, <1>5 DEF DetailInv

LEMMA LoadSteps ==
  ASSUME DetailInv, NEW c \in Slots, ReadDocument(c) \/ ReloadDocument(c)
  PROVE  DetailInv'
<1>0. slot[c] \in SlotType /\ changed \in SUBSET Slots
  BY DEF DetailInv, DetailTypeOK
<1>1. CASE ReadDocument(c)
  <2> DEFINE next == [slot[c] EXCEPT !.pc = "loaded", !.seen = changed]
  <2>1. /\ next \in SlotType /\ next.pc = "loaded" /\ next.kind = slot[c].kind
        /\ next.seen = changed /\ slot[c].pc = "load"
    BY <1>0, <1>1 DEF ReadDocument, SlotType
  <2>2. slot' = [slot EXCEPT ![c] = next] /\ UNCHANGED <<changed, shown, present, error, undone>>
    BY <1>1 DEF ReadDocument, page, DetailInv, DetailTypeOK
  <2> HIDE DEF next
  <2>3. slot[c].kind \in Reloading /\ present' # "left"
    BY <2>1, <2>2, NotLeft DEF DetailInv, DetailTypeOK
  <2>4. /\ DetailTypeOK' /\ slot'[c] = next
        /\ \A b \in Slots \ {c} : slot'[b] = slot[b]
    BY <1>0, <2>1, <2>2, <2>3, SlotMoves DEF DetailInv
  <2>5. \A d \in changed : Shown(d)'
    BY <2>1, <2>4 DEF Shown, Brings
  <2>6. ShownInv'
    BY <2>1, <2>2, <2>4 DEF DetailInv, ShownInv
  <2> QED BY <2>2, <2>4, <2>5, <2>6 DEF DetailInv
<1>2. CASE ReloadDocument(c)
  <2> DEFINE next == [slot[c] EXCEPT !.pc = "load"]
  <2>1. /\ next \in SlotType /\ next.pc = "load" /\ next.kind = slot[c].kind
        /\ slot[c].pc = "served" /\ slot[c].kind \in Reloading
    BY <1>0, <1>2 DEF ReloadDocument, SlotType
  <2>2. slot' = [slot EXCEPT ![c] = next] /\ UNCHANGED <<changed, shown, present, undone>>
    BY <1>2 DEF ReloadDocument
  <2> HIDE DEF next
  <2>3. /\ DetailTypeOK' /\ slot'[c] = next
        /\ \A b \in Slots \ {c} : slot'[b] = slot[b]
    BY <1>0, <2>1, <2>2, SlotMoves, NotLeft DEF DetailInv
  <2>4. \A d \in changed : Shown(d)'
    BY <2>1, <2>3 DEF Shown, Brings
  <2>5. ShownInv'
    BY <2>1, <2>2, <2>3 DEF DetailInv, ShownInv
  <2> QED BY <2>2, <2>3, <2>4, <2>5 DEF DetailInv
<1> QED BY <1>1, <1>2

LEMMA EndSteps ==
  ASSUME DetailInv, NEW c \in Slots, Downloaded(c) \/ ShowDocument(c) \/ CallFails(c)
  PROVE  DetailInv'
<1> DEFINE next == [NoSlot EXCEPT !.pc = "over"]
<1>1. /\ next \in SlotType /\ next.pc = "over" /\ slot' = [slot EXCEPT ![c] = next]
      /\ slot[c].pc # "over" /\ UNCHANGED changed
  BY NoSlotType DEF Downloaded, ShowDocument, CallFails, EndSlot, NoSlot
<1> HIDE DEF next
<1>2. present # "left" /\ present' # "left"
  BY <1>1, NotLeft DEF DetailInv, Downloaded, ShowDocument, CallFails
<1>3. /\ DetailTypeOK' /\ slot'[c] = next
      /\ \A b \in Slots \ {c} : slot'[b] = slot[b]
  BY <1>1, <1>2, SlotMoves DEF DetailInv, DetailTypeOK
<1>4. ASSUME NEW d \in changed, Shown(d), ~error' PROVE Shown(d)'
  <2>1. CASE Downloaded(c)
    <3>1. slot[c].pc = "served" /\ slot[c].kind = "download" /\ UNCHANGED <<shown, undone>>
      BY <2>1 DEF Downloaded
    <3> QED BY <1>3, <1>4, <3>1 DEF Shown, Brings, Clearing
  <2>2. CASE ShowDocument(c)
    <3>1. /\ slot[c].pc = "loaded" /\ shown' = slot[c].seen
          /\ shown \cup undone \subseteq shown' \cup undone'
      BY <2>2 DEF ShowDocument
    <3> QED BY <1>3, <1>4, <3>1 DEF Shown, Brings
  <2>3. CASE CallFails(c)
    <3>1. slot[c].kind = "self-sign" /\ UNCHANGED <<shown, undone>>
      BY <1>4, <2>3 DEF CallFails
    <3>2. slot[c].pc \notin {"load", "loaded"}
      BY <3>1 DEF DetailInv, DetailTypeOK, Reloading
    <3> QED BY <1>3, <1>4, <3>1, <3>2 DEF Shown, Brings, Clearing
  <2> QED BY <2>1, <2>2, <2>3
<1>5. ~error' => ~error
  BY DEF Downloaded, ShowDocument, CallFails
<1>6. ShownInv'
  <2>1. shown' \subseteq changed' /\ shown' \cap undone' = {}
    BY <1>1 DEF Downloaded, ShowDocument, CallFails, DetailInv, ShownInv
  <2> QED BY <1>1, <1>3, <2>1 DEF DetailInv, ShownInv
<1> QED BY <1>1, <1>2, <1>3, <1>4, <1>5, <1>6 DEF DetailInv

LEMMA LeaveStep ==
  ASSUME DetailInv, NEW c \in Slots, LeavePage(c)
  PROVE  DetailInv'
<1>1. /\ slot' = [d \in Slots |-> [NoSlot EXCEPT !.pc = "over"]]
      /\ present' = "left" /\ UNCHANGED <<changed, shown, undone>>
  BY DEF LeavePage
<1>2. [NoSlot EXCEPT !.pc = "over"].pc = "over"
  BY DEF NoSlot
<1>3. slot' \in [Slots -> SlotType] /\ \A d \in Slots : slot'[d].pc = "over"
  BY <1>1, <1>2, NoSlotType
<1> QED BY <1>1, <1>3 DEF DetailInv, DetailTypeOK, ShownInv

LEMMA EditStep ==
  ASSUME DetailInv, EditForm \/ UNCHANGED detailVars
  PROVE  DetailInv'
<1>1. UNCHANGED <<changed, slot, shown, present, error, undone>>
  BY DEF EditForm, detailVars, page
<1> QED BY <1>1 DEF DetailInv, DetailTypeOK, ShownInv, Shown, Brings

LEMMA DetailShows == DetailInv => ShowsOwnChanges
BY DEF DetailInv, ShownInv, Shown, Brings, ShowsOwnChanges

(* The page of a document shows every version and title given to it from   *)
(* the page once its calls have ended, but for those that an older answer  *)
(* hides again (DocumentDetailClient, load, run).                          *)
LEMMA DocumentShown == DetailSpec => []ShowsOwnChanges
<1>1. DetailInv /\ [DetailNext]_detailVars => DetailInv'
  BY StartStep, ServeStep, LoadSteps, EndSteps, LeaveStep, EditStep DEF DetailNext
<1> QED BY <1>1, DetailInit_Inv, DetailShows, PTL DEF DetailSpec
-----------------------------------------------------------------------------
(***************************************************************************)
(* WebhookPanel, for any number of calls.                                  *)
(*                                                                         *)
(* Every list of endpoints, on the panel, on its way or in the database,   *)
(* is what the changes that it knows of have made of it.  A change that is *)
(* not on the panel is brought by the call that made it, or is unlisted.   *)
(***************************************************************************)
ChangeType == [kind : {"create", "enable", "remove"}, on : Requests, by : Requests]
EndpointList == [made : SUBSET Requests, off : SUBSET Requests, writes : SUBSET ChangeType]

RequestType ==
  [kind : {Nil, "load", "create", "enable", "ping", "remove"},
   on : Requests \cup {Nil},
   pc : {"idle", "sent", "served", "load", "loaded", "over"}, seen : EndpointList]

PanelTypeOK ==
  /\ endpoints \in EndpointList /\ listed \in EndpointList
  /\ request \in [Requests -> RequestType]
  /\ \A c \in Requests : request[c].pc = "sent" =>
       /\ request[c].on \in Requests
       /\ request[c].kind \in {"create", "enable", "ping", "remove"}
       /\ request[c].kind = "create" => request[c].on = c

Targets(W, kind) == {x.on : x \in {y \in W : y.kind = kind}}
MadeBy(W) == Targets(W, "create") \ Targets(W, "remove")

(* The changes that have been made.                                        *)
WritesInv ==
  /\ endpoints.made = MadeBy(endpoints.writes)
  /\ Targets(endpoints.writes, "remove") \subseteq Targets(endpoints.writes, "create")
  /\ \A x \in endpoints.writes :
       /\ request[x.by].pc \notin {"idle", "sent"}
       /\ x.kind = "create" => x.on = x.by

(* A list that was read from the database.                                 *)
Right(list) ==
  /\ list.writes \subseteq endpoints.writes /\ list.made = MadeBy(list.writes)
  /\ \A e \in list.off \ endpoints.off :
       \E x \in endpoints.writes \ list.writes : x.on = e

ListInv ==
  /\ Right(listed)
  /\ \A c \in Requests : request[c].pc = "loaded" => Right(request[c].seen)

Brought(x) ==
  /\ x = Change(x.by) /\ request[x.by].pc \in {"served", "load", "loaded"}
  /\ request[x.by].pc = "loaded" => x \in request[x.by].seen.writes

UnlistedInv ==
  /\ unlisted \subseteq endpoints.writes \ listed.writes
  /\ \A x \in endpoints.writes \ listed.writes : x \in unlisted \/ Brought(x)

PanelInv == PanelTypeOK /\ WritesInv /\ ListInv /\ UnlistedInv

LEMMA UnusedType ==
  NoEndpoints \in EndpointList /\ Unused \in RequestType
BY DEF Unused, RequestType, NoEndpoints, EndpointList

LEMMA PanelInit_Inv == PanelInit => PanelInv
<1> SUFFICES ASSUME PanelInit PROVE PanelInv
  OBVIOUS
<1>1. \A c \in Requests : request[c] \in RequestType /\ request[c].pc \in {"idle", "load"}
  BY UnusedType DEF PanelInit, RequestType, Unused
<1>2. PanelTypeOK
  BY <1>1, UnusedType DEF PanelInit, PanelTypeOK, NoEndpoints
<1>3. endpoints.made = {} /\ endpoints.off = {} /\ endpoints.writes = {} /\ listed = endpoints
  BY DEF PanelInit, NoEndpoints
<1>4. WritesInv
  BY <1>3 DEF WritesInv, MadeBy, Targets
<1>5. ListInv
  BY <1>1, <1>3 DEF ListInv, Right, MadeBy, Targets
<1> QED BY <1>2, <1>3, <1>4, <1>5 DEF PanelInv, UnlistedInv, PanelInit

(* A step of one call.                                                     *)
LEMMA RequestMoves ==
  ASSUME PanelTypeOK, NEW c \in Requests, NEW next \in RequestType,
         request' = [request EXCEPT ![c] = next],
         next.pc = "sent" =>
           /\ next.on \in Requests
           /\ next.kind \in {"create", "enable", "ping", "remove"}
           /\ next.kind = "create" => next.on = c,
         endpoints' \in EndpointList, listed' \in EndpointList
  PROVE  /\ PanelTypeOK' /\ request'[c] = next
         /\ \A b \in Requests \ {c} : request'[b] = request[b]
<1>1. /\ request' \in [Requests -> RequestType] /\ request'[c] = next
      /\ \A b \in Requests \ {c} : request'[b] = request[b]
  BY DEF PanelTypeOK
<1> QED BY <1>1 DEF PanelTypeOK

LEMMA SpareIsIdle ==
  ASSUME NEW c \in Requests, NextRequest(c)
  PROVE  request[c].pc = "idle"
<1>1. c \in Spare
  BY DEF NextRequest
<1> QED BY <1>1 DEF Spare

(* A call that changes neither the database nor the list: it goes on to    *)
(* next, which brings what it brought.                                     *)
LEMMA RestKeeps ==
  ASSUME PanelInv, NEW c \in Requests, NEW next \in RequestType, PanelTypeOK',
         request'[c] = next, \A b \in Requests \ {c} : request'[b] = request[b],
         UNCHANGED <<endpoints, listed, unlisted>>,
         request[c].pc \in {"idle", "sent"} \/ next.pc \notin {"idle", "sent"},
         next.pc = "loaded" => Right(next.seen),
         \/ request[c].pc \in {"idle", "sent"} \/ request[c].kind = "ping"
         \/ /\ next.kind = request[c].kind /\ next.on = request[c].on
            /\ next.pc = "load" \/ (next.pc = "loaded" /\ next.seen = endpoints)
  PROVE  PanelInv'
<1>0. /\ endpoints \in EndpointList /\ \A x \in endpoints.writes : x.by \in Requests
      /\ \A x \in endpoints.writes : x.kind # "ping"
  BY DEF PanelInv, PanelTypeOK, EndpointList, ChangeType
<1>1. WritesInv'
  BY <1>0 DEF PanelInv, WritesInv
<1>2. ListInv'
  BY DEF PanelInv, ListInv, Right
<1>3. ASSUME NEW x \in endpoints.writes \ listed.writes, Brought(x) PROVE Brought(x)'
  <2>1. CASE x.by = c
    <3>1. request[c].pc \notin {"idle", "sent"} /\ x.kind = request[c].kind /\ x.kind # "ping"
      BY <1>0, <1>3, <2>1 DEF Brought, Change
    <3>2. next.kind = request[c].kind /\ next.on = request[c].on
      BY <3>1
    <3>3. next.pc = "load" \/ (next.pc = "loaded" /\ x \in next.seen.writes)
      BY <3>1
    <3> QED BY <1>3, <2>1, <3>2, <3>3 DEF Brought, Change
  <2>2. CASE x.by # c
    BY <1>0, <1>3, <2>2 DEF Brought, Change
  <2> QED BY <2>1, <2>2
<1>4. UnlistedInv'
  BY <1>3 DEF PanelInv, UnlistedInv
<1> QED BY <1>1, <1>2, <1>4 DEF PanelInv

(* Beginning a call.                                                       *)
LEMMA AskStep ==
  ASSUME PanelInv, NEW c \in Requests, NextRequest(c),
         NEW kind \in {"load", "create", "enable", "ping", "remove"},
         NEW e \in Requests \cup {Nil}, NEW pc \in {"load", "sent"},
         AskRequest(c, kind, e, pc), pc = "sent" => e \in Requests /\ kind # "load",
         kind = "create" => e = c, UNCHANGED <<endpoints, listed, unlisted>>
  PROVE  PanelInv'
<1> DEFINE next == [Unused EXCEPT !.kind = kind, !.on = e, !.pc = pc]
<1>1. /\ next \in RequestType /\ next.pc = pc /\ next.kind = kind /\ next.on = e
  BY UnusedType DEF RequestType, Unused
<1>2. request' = [request EXCEPT ![c] = next] /\ request[c].pc = "idle"
  BY SpareIsIdle DEF AskRequest
<1> HIDE DEF next
<1>3. endpoints' \in EndpointList /\ listed' \in EndpointList
  BY DEF PanelInv, PanelTypeOK
<1>4. /\ PanelTypeOK' /\ request'[c] = next
      /\ \A b \in Requests \ {c} : request'[b] = request[b]
  BY <1>1, <1>2, <1>3, RequestMoves DEF PanelInv
<1> QED BY <1>1, <1>2, <1>4, RestKeeps

LEMMA ButtonSteps ==
  ASSUME PanelInv, NEW c \in Requests,
         \/ Refresh(c) \/ Create(c)
         \/ \E e \in Requests : \E kind \in EndpointActions(e) : Press(c, kind, e)
  PROVE  PanelInv'
<1>1. CASE Refresh(c)
  BY <1>1, AskStep DEF Refresh
<1>2. CASE Create(c)
  BY <1>2, AskStep DEF Create
<1>3. ASSUME NEW e \in Requests, NEW kind \in EndpointActions(e), Press(c, kind, e)
      PROVE  PanelInv'
  <2>1. kind \in {"remove", "enable", "ping"}
    BY DEF EndpointActions
  <2> QED BY <1>3, <2>1, AskStep DEF Press
<1> QED BY <1>1, <1>2, <1>3

LEMMA DismissStep ==
  ASSUME PanelInv, Dismiss \/ UNCHANGED panelVars
  PROVE  PanelInv'
<1>1. UNCHANGED <<endpoints, request, listed, unlisted>>
  BY DEF Dismiss, panelVars, panel
<1> QED BY <1>1 DEF PanelInv, PanelTypeOK, WritesInv, ListInv, Right, UnlistedInv, Brought, Change

LEMMA SweptStep ==
  ASSUME PanelInv, NEW e \in Requests, SweptOff(e)
  PROVE  PanelInv'
<1>1. /\ endpoints' \in EndpointList /\ endpoints'.made = endpoints.made
      /\ endpoints'.writes = endpoints.writes
      /\ endpoints.off \subseteq endpoints'.off
      /\ UNCHANGED <<request, listed, unlisted>>
  BY DEF SweptOff, PanelInv, PanelTypeOK, EndpointList, panel
<1>2. ListInv'
  BY <1>1 DEF PanelInv, ListInv, Right
<1> QED BY <1>1, <1>2 DEF PanelInv, PanelTypeOK, WritesInv, UnlistedInv, Brought, Change

LEMMA ServeRequestStep ==
  ASSUME PanelInv, NEW c \in Requests, ServeRequest(c)
  PROVE  PanelInv'
<1> DEFINE next == [request[c] EXCEPT !.pc = "served"]
           kind == request[c].kind
           e == request[c].on
           x == Change(c)
<1>0. /\ request[c] \in RequestType /\ request[c].pc = "sent"
      /\ e \in Requests /\ kind \in {"create", "enable", "ping", "remove"}
      /\ kind = "create" => e = c
      /\ UNCHANGED <<listed, unlisted>> /\ endpoints \in EndpointList
      /\ listed \in EndpointList /\ listed' \in EndpointList
      /\ request \in [Requests -> RequestType]
  BY DEF ServeRequest, PanelInv, PanelTypeOK, panel
<1>1. /\ next \in RequestType /\ next.pc = "served" /\ next.kind = kind /\ next.on = e
      /\ request' = [request EXCEPT ![c] = next]
  BY <1>0 DEF ServeRequest, RequestType
<1> HIDE DEF next
<1>2. /\ kind # "create" => e \in endpoints.made
      /\ endpoints'.made = CASE kind = "create" -> endpoints.made \cup {e}
                             [] kind = "remove" -> endpoints.made \ {e}
                             [] OTHER -> endpoints.made
      /\ endpoints'.off = IF kind \in {"enable", "remove"} THEN endpoints.off \ {e}
                          ELSE endpoints.off
      /\ endpoints'.writes = endpoints.writes \cup (IF kind = "ping" THEN {} ELSE {x})
      /\ DOMAIN endpoints' = {"made", "off", "writes"}
      /\ endpoints' = [made |-> endpoints'.made, off |-> endpoints'.off,
                       writes |-> endpoints'.writes]
  BY DEF ServeRequest
<1>3. x.kind = kind /\ x.on = e /\ x.by = c /\ (kind # "ping" => x \in ChangeType)
  BY <1>0 DEF Change, ChangeType
<1>4. endpoints' \in EndpointList
  <2>1. /\ endpoints'.made \in SUBSET Requests /\ endpoints'.off \in SUBSET Requests
        /\ endpoints'.writes \in SUBSET ChangeType
    BY <1>0, <1>2, <1>3 DEF EndpointList
  <2> QED BY <1>2, <2>1 DEF EndpointList
<1>5. /\ PanelTypeOK' /\ request'[c] = next
      /\ \A b \in Requests \ {c} : request'[b] = request[b]
  BY <1>0, <1>1, <1>4, RequestMoves DEF PanelInv
<1>6. \A y \in endpoints.writes : y.by \in Requests \ {c} /\ y \in ChangeType
  BY <1>0 DEF PanelInv, WritesInv, EndpointList, ChangeType
<1> HIDE DEF x
<1>7. x' = x
  BY <1>1, <1>5 DEF x, Change
<1>8. WritesInv'
  <2>1. kind = "create" => e \notin Targets(endpoints.writes, "create")
    BY <1>0, <1>6 DEF Targets, PanelInv, WritesInv
  <2>2. \A k : Targets(endpoints'.writes, k) =
                 IF k = kind /\ kind # "ping" THEN Targets(endpoints.writes, k) \cup {e}
                 ELSE Targets(endpoints.writes, k)
    BY <1>2, <1>3 DEF Targets
  <2>3. /\ endpoints.made = MadeBy(endpoints.writes)
        /\ Targets(endpoints.writes, "remove") \subseteq Targets(endpoints.writes, "create")
    BY DEF PanelInv, WritesInv
  <2> HIDE DEF kind, e
  <2>4. endpoints'.made = MadeBy(endpoints'.writes)
    BY <1>0, <1>2, <2>1, <2>2, <2>3 DEF MadeBy
  <2>5. Targets(endpoints'.writes, "remove") \subseteq Targets(endpoints'.writes, "create")
    BY <1>0, <1>2, <2>2, <2>3 DEF MadeBy
  <2>6. \A y \in endpoints'.writes :
          /\ request'[y.by].pc \notin {"idle", "sent"}
          /\ y.kind = "create" => y.on = y.by
    BY <1>0, <1>1, <1>2, <1>3, <1>5, <1>6 DEF PanelInv, WritesInv
  <2> QED BY <2>4, <2>5, <2>6 DEF WritesInv, MadeBy, Targets
<1>9. ASSUME NEW list, Right(list)
      PROVE  /\ list.writes \subseteq endpoints'.writes /\ list.made = MadeBy(list.writes)
             /\ \A o \in list.off \ endpoints'.off :
                  \E y \in endpoints'.writes \ list.writes : y.on = o
  <2>1. x \notin list.writes
    BY <1>3, <1>6, <1>9 DEF Right
  <2>2. ASSUME NEW o \in list.off \ endpoints'.off
        PROVE  \E y \in endpoints'.writes \ list.writes : y.on = o
    <3>1. CASE o \in endpoints.off
      <4>1. o = e /\ kind \in {"enable", "remove"}
        BY <1>2, <2>2, <3>1
      <4> QED BY <1>2, <1>3, <2>1, <4>1
    <3>2. CASE o \notin endpoints.off
      BY <1>2, <1>9, <2>2, <3>2 DEF Right
    <3> QED BY <3>1, <3>2
  <2> QED BY <1>2, <1>9, <2>2 DEF Right
<1>10. ListInv'
  <2>1. Right(listed)'
    BY <1>0, <1>9 DEF PanelInv, ListInv, Right, MadeBy, Targets
  <2>2. ASSUME NEW b \in Requests, request'[b].pc = "loaded"
        PROVE  Right(request[b].seen)'
    <3>1. b # c /\ request'[b] = request[b] /\ Right(request[b].seen)
      BY <1>1, <1>5, <2>2 DEF PanelInv, ListInv
    <3> QED BY <1>9, <3>1 DEF Right, MadeBy, Targets
  <2> QED BY <2>1, <2>2 DEF ListInv
<1>11. UnlistedInv'
  <2>1. Right(listed)
    BY DEF PanelInv, ListInv
  <2>2. x \notin listed.writes
    BY <1>3, <1>6, <2>1 DEF Right
  <2>3. ASSUME NEW y \in endpoints.writes \ listed.writes, Brought(y) PROVE Brought(y)'
    BY <1>5, <1>6, <2>3 DEF Brought, Change
  <2>4. ASSUME NEW y, y = x PROVE Brought(y)'
    BY <1>1, <1>3, <1>5, <2>4 DEF Brought, Change, x
  <2>5. ASSUME NEW y \in endpoints'.writes \ listed'.writes
        PROVE  y \in unlisted' \/ Brought(y)'
    <3>1. y = x \/ y \in endpoints.writes \ listed.writes
      BY <1>0, <1>2, <2>5
    <3>2. y \in endpoints.writes \ listed.writes => y \in unlisted \/ Brought(y)
      BY DEF PanelInv, UnlistedInv
    <3> QED BY <1>0, <2>3, <2>4, <3>1, <3>2
  <2>6. unlisted' \subseteq endpoints'.writes \ listed'.writes
    BY <1>0, <1>2 DEF PanelInv, UnlistedInv
  <2> QED BY <2>5, <2>6 DEF UnlistedInv
<1> QED BY <1>5, <1>8, <1>10, <1>11 DEF PanelInv

LEMMA ReadStep ==
  ASSUME PanelInv, NEW c \in Requests, ReadEndpoints(c) \/ ReloadList(c)
  PROVE  PanelInv'
<1>0. /\ request[c] \in RequestType /\ endpoints \in EndpointList /\ listed \in EndpointList
      /\ request \in [Requests -> RequestType]
      /\ UNCHANGED <<endpoints, listed, unlisted>>
      /\ endpoints' \in EndpointList /\ listed' \in EndpointList
  BY DEF ReadEndpoints, ReloadList, PanelInv, PanelTypeOK, panel
<1>1. CASE ReadEndpoints(c)
  <2> DEFINE next == [request[c] EXCEPT !.pc = "loaded", !.seen = endpoints]
  <2>1. /\ next \in RequestType /\ next.pc = "loaded" /\ next.seen = endpoints
        /\ next.kind = request[c].kind /\ next.on = request[c].on
        /\ request[c].pc = "load" /\ request' = [request EXCEPT ![c] = next]
    BY <1>0, <1>1 DEF ReadEndpoints, RequestType
  <2> HIDE DEF next
  <2>2. /\ PanelTypeOK' /\ request'[c] = next
        /\ \A b \in Requests \ {c} : request'[b] = request[b]
    BY <1>0, <2>1, RequestMoves DEF PanelInv
  <2>3. Right(next.seen)
    BY <2>1 DEF Right, PanelInv, WritesInv
  <2> QED BY <1>0, <2>1, <2>2, <2>3, RestKeeps
<1>2. CASE ReloadList(c)
  <2> DEFINE next == [request[c] EXCEPT !.pc = "load"]
  <2>1. /\ next \in RequestType /\ next.pc = "load"
        /\ next.kind = request[c].kind /\ next.on = request[c].on
        /\ request[c].pc = "served" /\ request' = [request EXCEPT ![c] = next]
    BY <1>0, <1>2 DEF ReloadList, RequestType
  <2> HIDE DEF next
  <2>2. /\ PanelTypeOK' /\ request'[c] = next
        /\ \A b \in Requests \ {c} : request'[b] = request[b]
    BY <1>0, <2>1, RequestMoves DEF PanelInv
  <2>3. next.pc # "loaded" /\ next.pc \notin {"idle", "sent"}
    BY <2>1
  <2> QED BY <1>0, <2>1, <2>2, <2>3, RestKeeps
<1> QED BY <1>1, <1>2

LEMMA EndRequestSteps ==
  ASSUME PanelInv, NEW c \in Requests, PingQueued(c) \/ ShowList(c) \/ RequestFails(c)
  PROVE  PanelInv'
<1> DEFINE next == [Unused EXCEPT !.pc = "over"]
<1>1. /\ next \in RequestType /\ next.pc = "over"
      /\ request' = [request EXCEPT ![c] = next] /\ UNCHANGED endpoints
  BY UnusedType DEF PingQueued, ShowList, RequestFails, EndRequest, RequestType, Unused
<1> HIDE DEF next
<1>2. /\ endpoints \in EndpointList /\ endpoints' \in EndpointList /\ listed' \in EndpointList
      /\ request[c].pc \in {"sent", "served", "load", "loaded"}
  BY DEF PingQueued, ShowList, RequestFails, PanelInv, PanelTypeOK, RequestType
<1>3. /\ PanelTypeOK' /\ request'[c] = next
      /\ \A b \in Requests \ {c} : request'[b] = request[b]
  BY <1>1, <1>2, RequestMoves DEF PanelInv
<1>4. CASE PingQueued(c)
  <2>1. request[c].kind = "ping" /\ UNCHANGED <<endpoints, listed, unlisted>>
    BY <1>1, <1>4 DEF PingQueued
  <2> QED BY <1>1, <1>3, <2>1, RestKeeps
<1>5. WritesInv'
  BY <1>1, <1>3 DEF PanelInv, WritesInv
<1>6. Right(listed)'
  <2>1. Right(listed) /\ (request[c].pc = "loaded" => Right(request[c].seen))
    BY DEF PanelInv, ListInv
  <2>2. listed' = listed \/ (request[c].pc = "loaded" /\ listed' = request[c].seen)
    <3>1. CASE PingQueued(c)
      BY <3>1 DEF PingQueued
    <3>2. CASE ShowList(c)
      BY <3>2 DEF ShowList
    <3>3. CASE RequestFails(c)
      BY <3>3 DEF RequestFails
    <3> QED BY <3>1, <3>2, <3>3
  <2> QED BY <1>1, <2>1, <2>2 DEF Right
<1>7. ListInv'
  BY <1>1, <1>3, <1>6 DEF PanelInv, ListInv, Right
<1>8. ASSUME NEW x \in endpoints.writes, Brought(x), x.by # c PROVE Brought(x)'
  <2>1. x.by \in Requests
    BY <1>2 DEF EndpointList, ChangeType
  <2> QED BY <1>3, <1>8, <2>1 DEF Brought, Change
<1>9. CASE ShowList(c)
  <2>1. /\ request[c].pc = "loaded" /\ listed' = request[c].seen
        /\ unlisted' = (unlisted \cup listed.writes) \ request[c].seen.writes
        /\ listed.writes \subseteq endpoints.writes
    BY <1>9 DEF ShowList, PanelInv, ListInv, Right
  <2>2. \A x \in endpoints.writes : Brought(x) /\ x.by = c => x \in listed'.writes
    BY <2>1 DEF Brought
  <2>3. UnlistedInv'
    BY <1>1, <1>8, <2>1, <2>2 DEF PanelInv, UnlistedInv
  <2> QED BY <1>3, <1>5, <1>7, <2>3 DEF PanelInv
<1>10. CASE RequestFails(c)
  <2>1. /\ listed' = listed
        /\ unlisted' = unlisted \cup (({Change(c)} \cap endpoints.writes) \ listed.writes)
    BY <1>10 DEF RequestFails
  <2>2. \A x \in endpoints.writes \ listed.writes : Brought(x) /\ x.by = c => x \in unlisted'
    BY <2>1 DEF Brought
  <2>3. UnlistedInv'
    BY <1>1, <1>8, <2>1, <2>2 DEF PanelInv, UnlistedInv
  <2> QED BY <1>3, <1>5, <1>7, <2>3 DEF PanelInv
<1> QED BY <1>4, <1>9, <1>10

LEMMA PanelLists == PanelInv => ListsEndpoints
<1> SUFFICES ASSUME PanelInv, \A c \in Requests : request[c].pc \in {"idle", "over"}
             PROVE  ListsEndpoints
  BY DEF ListsEndpoints
<1>1. /\ unlisted \subseteq endpoints.writes \ listed.writes
      /\ listed.writes \subseteq endpoints.writes
      /\ \A x \in endpoints.writes : x.by \in Requests
  BY DEF PanelInv, UnlistedInv, ListInv, Right, PanelTypeOK, EndpointList, ChangeType
<1>2. \A x \in endpoints.writes : ~Brought(x)
  BY <1>1 DEF Brought
<1>3. unlisted = endpoints.writes \ listed.writes /\ endpoints.writes \ unlisted = listed.writes
  BY <1>1, <1>2 DEF PanelInv, UnlistedInv
<1>4. listed.made = MadeBy(endpoints.writes \ unlisted)
  BY <1>3 DEF PanelInv, ListInv, Right
<1>5. listed.off \subseteq endpoints.off \cup {x.on : x \in unlisted}
  BY <1>3 DEF PanelInv, ListInv, Right
<1> QED BY <1>4, <1>5 DEF ListsEndpoints, MadeBy, Targets

(* The panel lists what its changes leave once its calls have ended, but   *)
(* for changes whose call failed or that an older answer hides again       *)
(* (WebhookEndpointsPanel, load, createEndpoint, enable, remove).          *)
LEMMA EndpointsListed == PanelSpec => []ListsEndpoints
<1>1. PanelInv /\ [PanelNext]_panelVars => PanelInv'
  BY ButtonSteps, DismissStep, SweptStep, ServeRequestStep, ReadStep, EndRequestSteps
     DEF PanelNext
<1> QED BY <1>1, PanelInit_Inv, PanelLists, PTL DEF PanelSpec
-----------------------------------------------------------------------------
(***************************************************************************)
(* TeamSettings, for any number of calls and of colleagues.                *)
(*                                                                         *)
(* Every list of members, on the page, on its way or in the database, is   *)
(* what the changes that it knows of leave, cut off at Limit; the members  *)
(* that it leaves out stay behind as many as had joined before them.  A    *)
(* change that is not on the page is brought by a call that asked for it,  *)
(* or is dropped.                                                          *)
(***************************************************************************)
People == Tasks \cup Colleagues
TeamChange == [kind : {"invite", "remove"}, on : People]

TaskType ==
  [kind : {Nobody, "load", "invite", "remove"}, on : People \cup {Nobody},
   pc : {"idle", "sent", "served", "load", "loaded", "over"},
   list : SUBSET People, has : SUBSET TeamChange]

TeamTypeOK ==
  /\ committed \in SUBSET TeamChange /\ reflected \in SUBSET TeamChange
  /\ rows \in SUBSET People /\ members \in SUBSET People
  /\ elders \in [People -> SUBSET People]
  /\ task \in [Tasks -> TaskType]

(* The database.                                                           *)
Kept ==
  /\ members = Outcome(committed)
  /\ \A x \in committed :
       /\ x.kind = "invite" => x.on \in Tasks /\ task[x.on].pc \notin {"idle", "sent"}
       /\ x.kind = "remove" => x.on \in Colleagues \cup Targets(committed, "invite")
  /\ \A c \in Tasks : task[c].pc \in {"sent", "served"} =>
       /\ task[c].kind \in {"invite", "remove"}
       /\ task[c].pc = "sent" /\ task[c].kind = "invite" => task[c].on = c
       /\ task[c].pc = "served" => Asked(c) \in committed

(* A list of members that knows of the changes has.                        *)
LeftOut(list, has) == Outcome(has) \ list
Lists(list, has) ==
  /\ has \subseteq committed /\ list \subseteq Outcome(has)
  /\ \A m \in LeftOut(list, has) : Cardinality(elders[m]) >= Limit

(* Before the members are loaded there is nobody to remove.                *)
Unloaded ==
  /\ ~arrived /\ rows = {} /\ reflected = {}
  /\ \A c \in Tasks : task[c].kind # "remove"

ListsInv ==
  /\ Unloaded \/ Lists(rows, reflected)
  /\ \A c \in Tasks : task[c].pc = "loaded" => Lists(task[c].list, task[c].has)

Carried(x) ==
  \E c \in Tasks : /\ x = Asked(c) /\ task[c].pc \in {"served", "load", "loaded"}
                   /\ task[c].pc = "loaded" => x \in task[c].has

DroppedInv ==
  /\ reflected \subseteq committed /\ dropped \subseteq committed \ reflected
  /\ \A x \in committed \ reflected : x \in dropped \/ Carried(x)

TeamInv == TeamTypeOK /\ Kept /\ ListsInv /\ DroppedInv

LEMMA RestingType == Resting \in TaskType
BY DEF Resting, TaskType

LEMMA NoChanges == Outcome({}) = Colleagues
BY DEF Outcome

LEMMA TeamInit_Inv == TeamInit => TeamInv
<1> SUFFICES ASSUME TeamInit PROVE TeamInv
  OBVIOUS
<1>1. TeamTypeOK
  <2>1. elders \in [People -> SUBSET People]
    BY DEF TeamInit, People
  <2> QED BY <2>1, RestingType DEF TeamInit, TeamTypeOK, People
<1>2. Kept
  BY NoChanges DEF TeamInit, Kept, Resting
<1>3. ListsInv
  BY DEF TeamInit, ListsInv, Unloaded, Resting, Nobody
<1>4. DroppedInv
  BY DEF TeamInit, DroppedInv
<1> QED BY <1>1, <1>2, <1>3, <1>4 DEF TeamInv

(* A step of one call.                                                     *)
LEMMA TaskMoves ==
  ASSUME TeamTypeOK, NEW c \in Tasks, NEW next \in TaskType,
         task' = [task EXCEPT ![c] = next]
  PROVE  /\ task' \in [Tasks -> TaskType] /\ task'[c] = next
         /\ \A b \in Tasks \ {c} : task'[b] = task[b]
BY DEF TeamTypeOK

LEMMA SpareTask ==
  ASSUME NEW c \in Tasks, NextTask(c)
  PROVE  task[c].pc = "idle"
<1>1. c \in {d \in Tasks : task[d].pc = "idle"}
  BY DEF NextTask
<1> QED BY <1>1

LEMMA PageSteps ==
  ASSUME TeamInv, LoadSettings \/ OpenOther \/ UNCHANGED teamVars
  PROVE  TeamInv'
<1>1. UNCHANGED <<members, elders, committed, task, rows, arrived, reflected, dropped>>
  BY DEF LoadSettings, OpenOther, teamVars, settings, database, listing
<1> QED BY <1>1 DEF TeamInv, TeamTypeOK, Kept, ListsInv, Unloaded, Lists, LeftOut, DroppedInv,
                    Carried, Asked, Outcome, Targets

(* A call that changes neither the database nor the page: it goes on to    *)
(* next, which brings what it brought.                                     *)
LEMMA RestStays ==
  ASSUME TeamInv, NEW c \in Tasks, NEW next \in TaskType,
         task' = [task EXCEPT ![c] = next],
         UNCHANGED <<members, elders, committed, rows, arrived, reflected, dropped>>,
         next.pc # "served",
         next.pc = "sent" => /\ next.kind \in {"invite", "remove"}
                             /\ next.kind = "invite" => next.on = c,
         task[c].pc \in {"idle", "sent"} \/ next.pc \notin {"idle", "sent"},
         next.pc = "loaded" => Lists(next.list, next.has),
         Unloaded => next.kind # "remove",
         \/ task[c].pc \in {"idle", "sent"}
         \/ /\ next.kind = task[c].kind /\ next.on = task[c].on
            /\ next.pc = "load" \/ (next.pc = "loaded" /\ next.has = committed)
  PROVE  TeamInv'
<1>1. /\ task' \in [Tasks -> TaskType] /\ task'[c] = next
      /\ \A b \in Tasks \ {c} : task'[b] = task[b]
  BY TaskMoves DEF TeamInv
<1>2. Kept'
  BY <1>1 DEF TeamInv, Kept, Asked, Outcome, Targets
<1>3. ListsInv'
  BY <1>1 DEF TeamInv, ListsInv, Unloaded, Lists, LeftOut, Outcome
<1>4. ASSUME NEW x \in committed, Carried(x) PROVE Carried(x)'
  <2>1. PICK b \in Tasks : /\ x = Asked(b) /\ task[b].pc \in {"served", "load", "loaded"}
                           /\ task[b].pc = "loaded" => x \in task[b].has
    BY <1>4 DEF Carried
  <2>2. CASE b = c
    <3>1. /\ next.kind = task[c].kind /\ next.on = task[c].on
          /\ next.pc = "load" \/ (next.pc = "loaded" /\ x \in next.has)
      BY <2>1, <2>2
    <3>2. x = [kind |-> task'[c].kind, on |-> task'[c].on]
      BY <1>1, <2>1, <2>2, <3>1 DEF Asked
    <3> QED BY <1>1, <3>1, <3>2 DEF Carried, Asked
  <2>3. CASE b # c
    BY <1>1, <2>1, <2>3 DEF Carried, Asked
  <2> QED BY <2>2, <2>3
<1>5. DroppedInv'
  BY <1>4 DEF TeamInv, DroppedInv
<1> QED BY <1>1, <1>2, <1>3, <1>5 DEF TeamInv, TeamTypeOK

LEMMA AskTaskStep ==
  ASSUME TeamInv, NEW c \in Tasks,
         OpenTeam(c) \/ Invite(c) \/ \E m \in People : RemoveMember(c, m)
  PROVE  TeamInv'
<1>1. PICK kind \in {"load", "invite", "remove"}, m \in People \cup {Nobody},
           pc \in {"load", "sent"} :
        /\ AskTask(c, kind, m, pc) /\ NextTask(c)
        /\ pc = "sent" => kind # "load"
        /\ kind = "invite" => m = c
        /\ kind = "remove" => rows # {}
        /\ UNCHANGED <<members, elders, committed, rows, arrived, reflected, dropped>>
  <2>1. CASE OpenTeam(c)
    BY <2>1 DEF OpenTeam, database, listing
  <2>2. CASE Invite(c)
    BY <2>2 DEF Invite, People, database, listing
  <2>3. ASSUME NEW m \in People, RemoveMember(c, m)
        PROVE  /\ AskTask(c, "remove", m, "sent") /\ NextTask(c)
               /\ rows # {}
               /\ UNCHANGED <<members, elders, committed, rows, arrived, reflected, dropped>>
    BY <2>3 DEF RemoveMember, database, listing
  <2> QED BY <2>1, <2>2, <2>3
<1> DEFINE next == [Resting EXCEPT !.kind = kind, !.on = m, !.pc = pc]
<1>2. next \in TaskType /\ next.kind = kind /\ next.on = m /\ next.pc = pc
  BY RestingType DEF TaskType, Resting
<1>3. task' = [task EXCEPT ![c] = next] /\ task[c].pc = "idle"
  BY <1>1, SpareTask DEF AskTask
<1> HIDE DEF next
<1>4. Unloaded => next.kind # "remove"
  BY <1>1, <1>2 DEF Unloaded
<1> QED BY <1>1, <1>2, <1>3, <1>4, RestStays

LEMMA ServeTaskStep ==
  ASSUME TeamAssumption, TeamInv, NEW c \in Tasks, ServeTask(c)
  PROVE  TeamInv'
<1> DEFINE next == [task[c] EXCEPT !.pc = "served"]
           m == task[c].on
           kind == task[c].kind
           x == Asked(c)
<1>1. /\ task[c] \in TaskType /\ task[c].pc = "sent" /\ kind \in {"invite", "remove"}
      /\ kind = "invite" => m = c
      /\ UNCHANGED <<rows, arrived, reflected, dropped>>
      /\ committed' = committed \cup {x} /\ x.kind = kind /\ x.on = m
  BY DEF ServeTask, settings, listing, Asked, TeamInv, TeamTypeOK, Kept
<1>2. /\ next \in TaskType /\ next.pc = "served" /\ next.kind = kind
      /\ next.on = m /\ task' = [task EXCEPT ![c] = next]
  BY <1>1 DEF ServeTask, TaskType, TeamInv, TeamTypeOK
<1>3. x' = x
  BY <1>2 DEF Asked, TeamInv, TeamTypeOK
<1> HIDE DEF next, x
<1>4. /\ task' \in [Tasks -> TaskType] /\ task'[c] = next
      /\ \A b \in Tasks \ {c} : task'[b] = task[b]
  BY <1>2, TaskMoves DEF TeamInv
<1>5. /\ committed \in SUBSET TeamChange /\ members \in SUBSET People
      /\ members = Outcome(committed) /\ elders \in [People -> SUBSET People]
  BY DEF TeamInv, TeamTypeOK, Kept
<1>6. kind = "invite" =>
        /\ members' = members \cup {c} /\ c \notin Outcome(committed)
        /\ c \notin Targets(committed, "remove") /\ c \notin Targets(committed, "invite")
        /\ elders' \in [People -> SUBSET People]
        /\ \A n \in People \ {c} : elders'[n] = elders[n]
  <2> SUFFICES ASSUME kind = "invite"
               PROVE  /\ members' = members \cup {c} /\ c \notin Outcome(committed)
                      /\ c \notin Targets(committed, "remove")
                      /\ c \notin Targets(committed, "invite")
                      /\ elders' \in [People -> SUBSET People]
                      /\ \A n \in People \ {c} : elders'[n] = elders[n]
    OBVIOUS
  <2>1. c \notin Targets(committed, "invite")
    BY <1>1 DEF Targets, TeamInv, Kept
  <2>2. c \notin Targets(committed, "remove")
    BY <2>1 DEF Targets, TeamInv, Kept, TeamAssumption
  <2>3. c \notin Outcome(committed)
    BY <2>1 DEF Outcome, Targets, TeamAssumption
  <2>4. /\ members' = members \cup {m}
        /\ elders' = [elders EXCEPT ![m] = Colleagues \cup {y.on : y \in committed}]
    BY DEF ServeTask
  <2>5. Colleagues \cup {y.on : y \in committed} \in SUBSET People
    BY <1>5 DEF TeamChange, People
  <2> QED BY <1>1, <1>5, <2>1, <2>2, <2>3, <2>4, <2>5
<1>7. kind = "remove" =>
        m \in members /\ members' = members \ {m} /\ UNCHANGED elders
  BY DEF ServeTask
<1>8. m \in People
  BY <1>1, <1>5, <1>7 DEF People
<1>9. TeamTypeOK'
  <2>1. x \in TeamChange
    BY <1>1, <1>8 DEF TeamChange, x, Asked
  <2>2. members' \in SUBSET People
    BY <1>1, <1>5, <1>6, <1>7, <1>8
  <2> QED BY <1>1, <1>4, <1>5, <1>6, <1>7, <2>1, <2>2 DEF TeamInv, TeamTypeOK
<1>10. Kept'
  <2>1. \A k : Targets(committed', k) = IF k = kind THEN Targets(committed, k) \cup {m}
                                        ELSE Targets(committed, k)
    BY <1>1 DEF Targets
  <2>2. Outcome(committed') =
          (Colleagues \cup Targets(committed', "invite")) \ Targets(committed', "remove")
    BY DEF Outcome, Targets
  <2>3. Outcome(committed) =
          (Colleagues \cup Targets(committed, "invite")) \ Targets(committed, "remove")
    BY DEF Outcome, Targets
  <2> HIDE DEF kind, m
  <2>4. members' = Outcome(committed')
    <3>1. CASE kind = "invite"
      <4>1. /\ Targets(committed', "invite") = Targets(committed, "invite") \cup {c}
            /\ Targets(committed', "remove") = Targets(committed, "remove")
        BY <1>1, <2>1, <3>1
      <4> QED BY <1>5, <1>6, <2>2, <2>3, <3>1, <4>1
    <3>2. CASE kind = "remove"
      <4>1. /\ Targets(committed', "invite") = Targets(committed, "invite")
            /\ Targets(committed', "remove") = Targets(committed, "remove") \cup {m}
        BY <2>1, <3>2
      <4> QED BY <1>5, <1>7, <2>2, <2>3, <3>2, <4>1
    <3> QED BY <1>1, <3>1, <3>2
  <2>5. ASSUME NEW y \in committed'
        PROVE  /\ y.kind = "invite" => y.on \in Tasks /\ task'[y.on].pc \notin {"idle", "sent"}
               /\ y.kind = "remove" => y.on \in Colleagues \cup Targets(committed', "invite")
    <3>1. CASE y = x
      BY <1>1, <1>2, <1>4, <1>5, <1>7, <2>1, <2>3, <3>1
    <3>2. CASE y \in committed
      BY <1>1, <1>2, <1>4, <2>1, <3>2 DEF TeamInv, Kept
    <3> QED BY <1>1, <3>1, <3>2
  <2>6. \A b \in Tasks : task'[b].pc \in {"sent", "served"} =>
          /\ task'[b].kind \in {"invite", "remove"}
          /\ task'[b].pc = "sent" /\ task'[b].kind = "invite" => task'[b].on = b
          /\ task'[b].pc = "served" =>
               [kind |-> task'[b].kind, on |-> task'[b].on] \in committed'
    <3>1. [kind |-> next.kind, on |-> next.on] \in committed'
      BY <1>1, <1>2 DEF x, Asked, kind, m
    <3> QED BY <1>1, <1>2, <1>4, <3>1 DEF TeamInv, Kept, Asked
  <2> QED BY <2>4, <2>5, <2>6 DEF Kept, Asked, Outcome, Targets
<1>11. ASSUME NEW list, NEW has, Lists(list, has)
       PROVE  /\ has \subseteq committed' /\ list \subseteq Outcome(has)
              /\ \A n \in LeftOut(list, has) : Cardinality(elders'[n]) >= Limit
  <2>1. ASSUME NEW n \in LeftOut(list, has) PROVE elders'[n] = elders[n]
    <3>1. kind = "invite" => n \in People \ {c}
      <4>1. has \subseteq committed
        BY <1>11 DEF Lists
      <4>2. n \in Colleagues \cup Targets(has, "invite")
        BY <2>1 DEF LeftOut, Outcome, Targets
      <4>3. Targets(has, "invite") \subseteq Targets(committed, "invite")
        BY <4>1 DEF Targets
      <4>4. Targets(committed, "invite") \subseteq People
        BY <1>5 DEF Targets, TeamChange
      <4> QED BY <1>6, <4>2, <4>3, <4>4 DEF TeamAssumption, People
    <3> QED BY <1>1, <1>6, <1>7, <3>1
  <2> QED BY <1>1, <1>11, <2>1 DEF Lists
<1>12. ListsInv'
  <2>1. Unloaded => Unloaded'
    BY <1>1, <1>2, <1>4 DEF Unloaded
  <2>2. Lists(rows, reflected) => Lists(rows, reflected)'
    BY <1>1, <1>11 DEF Lists, LeftOut, Outcome
  <2>3. ASSUME NEW b \in Tasks, task'[b].pc = "loaded"
        PROVE  Lists(task[b].list, task[b].has)'
    <3>1. task'[b] = task[b] /\ Lists(task[b].list, task[b].has)
      BY <1>2, <1>4, <2>3 DEF TeamInv, ListsInv
    <3> QED BY <1>11, <3>1 DEF Lists, LeftOut, Outcome
  <2> QED BY <2>1, <2>2, <2>3 DEF TeamInv, ListsInv
<1>13. DroppedInv'
  <2>1. ASSUME NEW y, Carried(y) PROVE Carried(y)'
    <3>1. PICK b \in Tasks : /\ y = Asked(b) /\ task[b].pc \in {"served", "load", "loaded"}
                             /\ task[b].pc = "loaded" => y \in task[b].has
      BY <2>1 DEF Carried
    <3>2. b # c
      BY <1>1, <3>1
    <3> QED BY <1>4, <3>1, <3>2 DEF Carried, Asked
  <2>2. ASSUME NEW y, y = x PROVE Carried(y)'
    <3>1. y = [kind |-> task'[c].kind, on |-> task'[c].on]
      BY <1>2, <1>4, <2>2 DEF x, Asked
    <3> QED BY <1>2, <1>4, <3>1 DEF Carried, Asked
  <2>3. \A y \in committed' \ reflected' : y \in dropped' \/ Carried(y)'
    BY <1>1, <2>1, <2>2 DEF TeamInv, DroppedInv
  <2> QED BY <1>1, <2>3 DEF TeamInv, DroppedInv
<1> QED BY <1>9, <1>10, <1>12, <1>13 DEF TeamInv

(* The members that an answer leaves out: as many as Limit had joined      *)
(* before them, and are members still.                                     *)
LEMMA ReadMembersStep ==
  ASSUME TeamAssumption, TeamInv, NEW c \in Tasks, ReadMembers(c)
  PROVE  TeamInv'
<1> DEFINE list == {m \in members : Cardinality(elders[m] \cap members) < Limit}
           next == [task[c] EXCEPT !.pc = "loaded", !.list = list, !.has = committed]
<1>1. /\ task[c] \in TaskType /\ members \in SUBSET People /\ committed \in SUBSET TeamChange
      /\ task \in [Tasks -> TaskType] /\ members = Outcome(committed)
      /\ elders \in [People -> SUBSET People]
  BY DEF TeamInv, TeamTypeOK, Kept
<1>2. /\ list \subseteq members
      /\ \A m \in members \ list : ~(Cardinality(elders[m] \cap members) < Limit)
  OBVIOUS
<1>3. /\ next \in TaskType /\ next.pc = "loaded" /\ next.kind = task[c].kind
      /\ next.on = task[c].on /\ next.list = list /\ next.has = committed
      /\ task' = [task EXCEPT ![c] = next] /\ task[c].pc = "load"
      /\ UNCHANGED <<members, elders, committed, rows, arrived, reflected, dropped>>
  BY <1>1 DEF ReadMembers, settings, listing, database, TaskType
<1> HIDE DEF next, list
<1>4. ASSUME NEW m \in members \ list PROVE Cardinality(elders[m]) >= Limit
  <2>1. IsFiniteSet(elders[m]) /\ elders[m] \cap members \subseteq elders[m]
    <3>1. elders[m] \subseteq Tasks \cup Colleagues
      BY <1>1 DEF People
    <3> QED BY <3>1, FS_Subset DEF TeamAssumption
  <2>2. /\ IsFiniteSet(elders[m] \cap members)
        /\ Cardinality(elders[m] \cap members) <= Cardinality(elders[m])
    BY <2>1, FS_Subset
  <2>3. /\ Cardinality(elders[m] \cap members) \in Nat /\ Cardinality(elders[m]) \in Nat
        /\ Limit \in Nat
    BY <2>1, <2>2, FS_CardinalityType DEF TeamAssumption
  <2>4. ~(Cardinality(elders[m] \cap members) < Limit)
    BY <1>2, <1>4
  <2> QED BY <2>2, <2>3, <2>4
<1>5. Lists(list, committed)
  BY <1>1, <1>2, <1>4 DEF Lists, LeftOut
<1>6. Unloaded => next.kind # "remove"
  BY <1>3 DEF Unloaded
<1> QED BY <1>3, <1>5, <1>6, RestStays

LEMMA InvitedStep ==
  ASSUME TeamInv, NEW c \in Tasks, Invited(c)
  PROVE  TeamInv'
<1> DEFINE next == [task[c] EXCEPT !.pc = "load"]
<1>1. /\ next \in TaskType /\ next.pc = "load" /\ next.kind = "invite"
      /\ task[c].kind = "invite" /\ next.on = task[c].on
      /\ task' = [task EXCEPT ![c] = next] /\ task[c].pc = "served"
      /\ UNCHANGED <<members, elders, committed, rows, arrived, reflected, dropped>>
  BY DEF Invited, settings, listing, database, TaskType, TeamInv, TeamTypeOK
<1> HIDE DEF next
<1>2. next.pc \notin {"idle", "sent", "served", "loaded"} /\ next.kind # "remove"
  BY <1>1
<1> QED BY <1>1, <1>2, RestStays

(* A call that is over: what it brought is on the page, or is dropped.     *)
LEMMA EndTaskSteps ==
  ASSUME TeamInv, NEW c \in Tasks, Removed(c) \/ ShowMembers(c) \/ TaskFails(c)
  PROVE  TeamInv'
<1> DEFINE next == [Resting EXCEPT !.pc = "over"]
<1>1. /\ next \in TaskType /\ next.pc = "over" /\ next.kind = Nobody
      /\ task' = [task EXCEPT ![c] = next]
      /\ UNCHANGED <<members, elders, committed>>
  BY RestingType DEF Removed, ShowMembers, TaskFails, EndTask, TaskType, Resting, database
<1> HIDE DEF next
<1>2. /\ task' \in [Tasks -> TaskType] /\ task'[c] = next
      /\ \A b \in Tasks \ {c} : task'[b] = task[b]
  BY <1>1, TaskMoves DEF TeamInv
<1>3. Kept'
  BY <1>1, <1>2 DEF TeamInv, Kept, Asked, Outcome, Targets
<1>4. \A b \in Tasks : task'[b].pc = "loaded" => Lists(task'[b].list, task'[b].has)
  BY <1>1, <1>2 DEF TeamInv, ListsInv
<1>5. \A list, has : Lists(list, has)' <=> Lists(list, has)
  BY <1>1 DEF Lists, LeftOut, Outcome
<1>6. \A b \in Tasks : task'[b].pc = "loaded" => Lists(task[b].list, task[b].has)'
  BY <1>1, <1>4 DEF Lists, LeftOut, Outcome
<1>7. ASSUME NEW x, Carried(x) PROVE Carried(x)' \/ (x = Asked(c) /\ (task[c].pc = "loaded" => x \in task[c].has))
  <2>1. PICK b \in Tasks : /\ x = Asked(b) /\ task[b].pc \in {"served", "load", "loaded"}
                           /\ task[b].pc = "loaded" => x \in task[b].has
    BY <1>7 DEF Carried
  <2>2. CASE b = c
    BY <2>1, <2>2
  <2>3. CASE b # c
    BY <1>2, <2>1, <2>3 DEF Carried, Asked
  <2> QED BY <2>2, <2>3
<1>8. /\ committed \in SUBSET TeamChange /\ rows \in SUBSET People
      /\ reflected \subseteq committed /\ dropped \subseteq committed \ reflected
      /\ \A x \in committed \ reflected : x \in dropped \/ Carried(x)
      /\ task[c] \in TaskType
  BY DEF TeamInv, TeamTypeOK, DroppedInv
<1>9. ASSUME rows' \in SUBSET People, reflected' \subseteq committed,
             Unloaded' \/ Lists(rows', reflected'), dropped' \subseteq committed \ reflected',
             \A x \in committed \ reflected' : x \in dropped' \/ Carried(x)'
      PROVE  TeamInv'
  <2>1. TeamTypeOK'
    BY <1>1, <1>2, <1>8, <1>9 DEF TeamInv, TeamTypeOK
  <2>2. ListsInv'
    BY <1>1, <1>6, <1>9 DEF ListsInv, Lists, LeftOut, Outcome
  <2>3. DroppedInv'
    BY <1>1, <1>9 DEF DroppedInv
  <2> QED BY <1>3, <2>1, <2>2, <2>3 DEF TeamInv
<1>10. CASE Removed(c)
  <2> DEFINE x == Asked(c)
             m == task[c].on
  <2>1. /\ task[c].pc = "served" /\ task[c].kind = "remove" /\ x.kind = "remove" /\ x.on = m
        /\ rows' = rows \ {m} /\ reflected' = reflected \cup {x} /\ dropped' = dropped \ {x}
    BY <1>10 DEF Removed, Asked
  <2>2. Lists(rows, reflected)
    BY <2>1 DEF TeamInv, ListsInv, Unloaded
  <2>3. x \in committed
    BY <2>1 DEF TeamInv, Kept
  <2>4. Lists(rows', reflected')
    <3>1. Outcome(reflected') = Outcome(reflected) \ {m}
      BY <2>1 DEF Outcome
    <3> QED BY <2>1, <2>2, <2>3, <3>1 DEF Lists, LeftOut
  <2>5. ASSUME NEW y \in committed \ reflected' PROVE y \in dropped' \/ Carried(y)'
    <3>1. y # x /\ y \in committed \ reflected
      BY <2>1, <2>5
    <3> QED BY <1>7, <1>8, <2>1, <3>1
  <2> HIDE DEF x, m
  <2> QED BY <1>8, <1>9, <2>1, <2>3, <2>4, <2>5
<1>11. CASE ShowMembers(c)
  <2>1. /\ task[c].pc = "loaded" /\ rows' = task[c].list /\ reflected' = task[c].has
        /\ dropped' = (dropped \cup reflected) \ task[c].has
    BY <1>11 DEF ShowMembers
  <2>2. Lists(rows', reflected') /\ rows' \in SUBSET People /\ reflected' \subseteq committed
    BY <1>8, <2>1 DEF TeamInv, ListsInv, Lists, TaskType
  <2>3. ASSUME NEW y \in committed \ reflected' PROVE y \in dropped' \/ Carried(y)'
    BY <1>7, <1>8, <2>1, <2>3
  <2> QED BY <1>8, <1>9, <2>1, <2>2, <2>3
<1>12. CASE TaskFails(c)
  <2>1. /\ UNCHANGED <<rows, arrived, reflected>>
        /\ dropped' = dropped \cup (({Asked(c)} \cap committed) \ reflected)
    BY <1>12 DEF TaskFails
  <2>2. Unloaded => Unloaded'
    BY <1>1, <1>2, <2>1 DEF Unloaded, Nobody
  <2>3. ASSUME NEW y \in committed \ reflected' PROVE y \in dropped' \/ Carried(y)'
    BY <1>7, <1>8, <2>1, <2>3
  <2> QED BY <1>8, <1>9, <2>1, <2>2, <2>3 DEF TeamInv, ListsInv
<1> QED BY <1>10, <1>11, <1>12

LEMMA TeamLists == TeamInv => ListsMembers
<1> SUFFICES ASSUME TeamInv, arrived, \A c \in Tasks : task[c].pc \in {"idle", "over"}
             PROVE  ListsMembers
  BY DEF ListsMembers
<1>1. \A x : ~Carried(x)
  BY DEF Carried
<1>2. committed \ dropped = reflected
  BY <1>1 DEF TeamInv, DroppedInv
<1>3. Lists(rows, reflected)
  BY DEF TeamInv, ListsInv, Unloaded
<1> QED BY <1>2, <1>3 DEF ListsMembers, Lists, LeftOut

(* The team tab lists those whom its invitations and removals leave once   *)
(* its calls have ended, all of them before whom fewer than Limit joined   *)
(* (Settings, loadMembers, inviteMember, removeMember).                    *)
LEMMA MembersListed == ASSUME TeamAssumption PROVE TeamSpec => []ListsMembers
<1>1. TeamInv /\ [TeamNext]_teamVars => TeamInv'
  <2>1. \A c \in Tasks, m \in Colleagues \cup Tasks : m \in People
    BY DEF People
  <2> QED BY TeamAssumption, <2>1, PageSteps, AskTaskStep, ServeTaskStep, ReadMembersStep,
             InvitedStep, EndTaskSteps DEF TeamNext
<1> QED BY <1>1, TeamInit_Inv, TeamLists, PTL DEF TeamSpec
-----------------------------------------------------------------------------
(* Each page shows the outcome of what was done on it once its calls have  *)
(* ended, unless it shows an error: the versions and titles of a document, *)
(* the endpoints and whether they are enabled, the oldest members.  Each   *)
(* change that it does not show had a failed call, or was on the page      *)
(* until an older answer came (DocumentDetailClient,                       *)
(* WebhookEndpointsPanel, Settings).                                       *)
THEOREM PagesAreCurrent ==
  ASSUME TeamAssumption
  PROVE  DetailSpec /\ PanelSpec /\ TeamSpec => []PagesCurrent
<1>1. TeamSpec => []ListsMembers
  BY TeamAssumption, MembersListed
<1>2. ShowsOwnChanges /\ ListsEndpoints /\ ListsMembers => PagesCurrent
  BY DEF PagesCurrent
<1> QED BY <1>1, <1>2, DocumentShown, EndpointsListed, PTL
=============================================================================
