--------------------------- MODULE TemplateEditor ---------------------------
(***************************************************************************)
(* The template editor of the console: TemplateEditorClient, in one tab of *)
(* one browser.                                                            *)
(*                                                                         *)
(* A template is its fields, and a field is its page: moving, resizing or  *)
(* renaming one is a change like giving it another page.  The draft is one *)
(* entry of localStorage for all templates, written 400 ms after the last  *)
(* change by a timer.  React runs the effects of a change before the next  *)
(* event, so they are part of the action that makes the change.            *)
(*                                                                         *)
(* Left out: which field is selected, which only says what the inspector   *)
(* changes.                                                                *)
(***************************************************************************)
EXTENDS Integers, FiniteSets, FiniteSetsExt

CONSTANTS
  Templates,
  FieldIds,     \* fields placed at once (bound)
  Pages         \* pages of templates saved elsewhere, 1 .. n

EditorAssumption ==
  /\ IsFiniteSet(Pages) /\ Pages # {} /\ Pages = 1 .. Cardinality(Pages)
  /\ "nothing" \notin Templates

VARIABLES
  stored,      \* the fields of each template on the server
  draft,       \* the entry of localStorage
  editing,     \* the template that the tab shows, or none
  loading,
  fields,
  activePage,
  timers,      \* drafts that wait for their 400 ms
  patch,       \* the save under way
  left,        \* a save under way whose editor has been left
  wiped        \* the answer to such a save has taken the draft

editor == <<editing, loading, fields, activePage, timers, patch, left, wiped>>
editorVars == <<stored, draft, editor>>

Nothing == "nothing"
NoDraft == [template |-> Nothing, fields |-> {}]
NoPatch == [pc |-> "idle", template |-> Nothing, fields |-> {}]

EditorInit ==
  /\ stored = [t \in Templates |-> {}]
  /\ draft = NoDraft
  /\ editing = Nothing
  /\ loading = FALSE
  /\ fields = {}
  /\ activePage = 1
  /\ timers = {}
  /\ patch = NoPatch
  /\ left = NoPatch
  /\ wiped = FALSE

PageCount(fs) == Max({1} \cup {f.page : f \in fs})
Clamp(page, fs) == IF page > PageCount(fs) THEN PageCount(fs) ELSE page

Ready == editing # Nothing /\ ~loading

\* Slip: an older timer is not cleared.
StartTimerBeside(fs) == timers' = timers \cup {fs}

(* The effect on fields clears the timer that waits and starts another.    *)
StartTimer(fs) == timers' = {fs}

(* fields change, and with them whatever depends on fields.                *)
SetFields(fs) ==
  /\ fields' = fs
  /\ activePage' = Clamp(activePage, fs)
  /\ StartTimer(fs)

(***************************************************************************)
(* Opening and leaving.                                                    *)
(***************************************************************************)
OpenTemplate(t) ==
  /\ editing = Nothing
  /\ editing' = t
  /\ loading' = TRUE
  /\ UNCHANGED <<stored, draft, fields, activePage, timers, patch, left, wiped>>

(* load, and the effect that recovers a draft of this template unless it   *)
(* has no fields.                                                          *)
LoadTemplate ==
  LET recover == draft.template = editing /\ draft.fields # {}
      fs == IF recover THEN draft.fields ELSE stored[editing]
  IN  /\ loading
      /\ loading' = FALSE
      /\ fields' = fs
      /\ activePage' = 1
      /\ StartTimer(fs)
      /\ draft' = IF recover THEN NoDraft ELSE draft
      /\ UNCHANGED <<stored, editing, patch, left, wiped>>

(* Another page is shown: the timer is cleared, and a save goes on (one at *)
(* a time, a bound).                                                       *)
Leave ==
  /\ editing # Nothing
  /\ NoPatch \in {patch, left}
  /\ left' = IF patch = NoPatch THEN left ELSE patch
  /\ editing' = Nothing
  /\ loading' = FALSE
  /\ fields' = {}
  /\ activePage' = 1
  /\ timers' = {}
  /\ patch' = NoPatch
  /\ UNCHANGED <<stored, draft, wiped>>

(* Another member of the organization saves a template.                    *)
SaveElsewhere(t) ==
  /\ \E p \in Pages, f \in FieldIds :
       stored' = [stored EXCEPT ![t] = {[id |-> f, page |-> p]}]
  /\ UNCHANGED <<draft, editor>>

(***************************************************************************)
(* Editing.                                                                *)
(***************************************************************************)
AddField ==
  /\ Ready
  /\ \E f \in FieldIds \ {g.id : g \in fields} :
       SetFields(fields \cup {[id |-> f, page |-> activePage]})
  /\ UNCHANGED <<stored, draft, editing, loading, patch, left, wiped>>

(* updateField, from the inspector: the page is one of those there are.    *)
Inspect ==
  /\ Ready
  /\ \E f \in fields : \E p \in 1 .. PageCount(fields) :
       SetFields((fields \ {f}) \cup {[f EXCEPT !.page = p]})
  /\ UNCHANGED <<stored, draft, editing, loading, patch, left, wiped>>

(* onPointerMove: the same field elsewhere on its page.                    *)
Drag ==
  /\ Ready
  /\ \E f \in fields : f.page = activePage
  /\ SetFields(fields)
  /\ UNCHANGED <<stored, draft, editing, loading, patch, left, wiped>>

RemoveField ==
  /\ Ready
  /\ \E f \in fields : SetFields(fields \ {f})
  /\ UNCHANGED <<stored, draft, editing, loading, patch, left, wiped>>

(* "+" shows the page after the last, and the effect on activePage takes   *)
(* it back: no field can be placed on a page that has none.                *)
ShowPage ==
  /\ Ready
  /\ \E p \in 1 .. PageCount(fields) + 1 : activePage' = Clamp(p, fields)
  /\ UNCHANGED <<stored, draft, editing, loading, fields, timers, patch, left, wiped>>

(***************************************************************************)
(* Saving.                                                                 *)
(***************************************************************************)
WriteDraft ==
  /\ \E fs \in timers : /\ draft' = [template |-> editing, fields |-> fs]
                        /\ timers' = timers \ {fs}
  /\ wiped' = FALSE
  /\ UNCHANGED <<stored, editing, loading, fields, activePage, patch, left>>

Save ==
  /\ Ready /\ patch.pc = "idle"
  /\ patch' = [pc |-> "sent", template |-> editing, fields |-> fields]
  /\ UNCHANGED <<stored, draft, editing, loading, fields, activePage, timers, left, wiped>>

ServeSave ==
  /\ patch.pc = "sent"
  /\ stored' = [stored EXCEPT ![editing] = patch.fields]
  /\ patch' = [patch EXCEPT !.pc = "served"]
  /\ UNCHANGED <<draft, editing, loading, fields, activePage, timers, left, wiped>>

(* The answer replaces the fields, those changed since Save with them.     *)
Saved ==
  /\ patch.pc = "served"
  /\ SetFields(patch.fields)
  /\ draft' = NoDraft
  /\ patch' = NoPatch
  /\ UNCHANGED <<stored, editing, loading, left, wiped>>

(* Refused, or the answer is lost.                                         *)
SaveFails ==
  /\ patch.pc # "idle"
  /\ patch' = NoPatch
  /\ UNCHANGED <<stored, draft, editing, loading, fields, activePage, timers, left, wiped>>

(* What is left of save when its editor is no longer there: the answer     *)
(* removes the draft, whosever it is by then.                              *)
ServeLeft ==
  /\ left.pc = "sent"
  /\ stored' = [stored EXCEPT ![left.template] = left.fields]
  /\ left' = [left EXCEPT !.pc = "served"]
  /\ UNCHANGED <<draft, editing, loading, fields, activePage, timers, patch, wiped>>

SavedLeft ==
  /\ left.pc = "served"
  /\ draft' = NoDraft
  /\ wiped' = (wiped \/ Ready)
  /\ left' = NoPatch
  /\ UNCHANGED <<stored, editing, loading, fields, activePage, timers, patch>>

(* It fails, or the tab has been closed.                                   *)
SaveLeftFails ==
  /\ left.pc # "idle"
  /\ left' = NoPatch
  /\ UNCHANGED <<stored, draft, editing, loading, fields, activePage, timers,
                 patch, wiped>>

Edit == AddField \/ Inspect \/ Drag \/ RemoveField \/ ShowPage

EditorNext ==
  \/ \E t \in Templates : OpenTemplate(t) \/ SaveElsewhere(t)
  \/ LoadTemplate \/ Leave \/ Edit
  \/ WriteDraft \/ Save \/ ServeSave \/ Saved \/ SaveFails
  \/ ServeLeft \/ SavedLeft \/ SaveLeftFails

EditorSpec == EditorInit /\ [][EditorNext]_editorVars
-----------------------------------------------------------------------------
(* "Changes auto-save to this browser as a draft": when no timer waits,    *)
(* the draft is the template on the screen as it is there, whatever was    *)
(* recovered, changed, saved or answered before, and whatever draft of     *)
(* another template was in its place; only the answer to a save left       *)
(* behind can have taken it, and then there is none until the next change. *)
DraftFollowsEditor ==
  Ready /\ timers = {} =>
    \/ draft = [template |-> editing, fields |-> fields]
    \/ wiped /\ draft = NoDraft
=============================================================================
