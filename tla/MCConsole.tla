----------------------------- MODULE MCConsole -----------------------------
(***************************************************************************)
(* Instances of the screens of the web console for TLC.  Each has its own  *)
(* copy of the part of the server that it talks to, so a behaviour is one  *)
(* of one screen, chosen by screen.                                        *)
(***************************************************************************)
EXTENDS TemplateEditor, SendWizard, SigningRoom, ConsolePages

VARIABLE screen

ASSUME EditorAssumption /\ WizardAssumption /\ RoomAssumption /\ TeamAssumption

Init ==
  /\ screen \in {"editor", "wizard", "room", "detail", "panel", "team"}
  /\ EditorInit /\ WizardInit /\ RoomInit
  /\ DetailInit /\ PanelInit /\ TeamInit
  /\ screen # "room" => turn

Next ==
  /\ \/ screen = "editor" /\ EditorNext
        /\ UNCHANGED <<wizardVars, roomVars, detailVars, panelVars, teamVars>>
     \/ screen = "wizard" /\ WizardNext
        /\ UNCHANGED <<editorVars, roomVars, detailVars, panelVars, teamVars>>
     \/ screen = "room" /\ RoomNext
        /\ UNCHANGED <<editorVars, wizardVars, detailVars, panelVars, teamVars>>
     \/ screen = "detail" /\ DetailNext
        /\ UNCHANGED <<editorVars, wizardVars, roomVars, panelVars, teamVars>>
     \/ screen = "panel" /\ PanelNext
        /\ UNCHANGED <<editorVars, wizardVars, roomVars, detailVars, teamVars>>
     \/ screen = "team" /\ TeamNext
        /\ UNCHANGED <<editorVars, wizardVars, roomVars, detailVars, panelVars>>
  /\ UNCHANGED screen

Spec == Init /\ [][Next]_<<screen, editorVars, wizardVars, roomVars, detailVars,
                           panelVars, teamVars>>
=============================================================================
