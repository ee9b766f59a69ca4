----------------------------- MODULE MCDesktop -----------------------------
(***************************************************************************)
(* What becomes of a press: the mapping it finds (KeyMap) and the window   *)
(* its keys go to (Desktop).  The two share no state: a behaviour uses one *)
(* and leaves the other in an initial state.                               *)
(*                                                                         *)
(* Two windows of four kinds, and two profiles with one of three targets:  *)
(* enough for two windows of one class, of which one belongs to another    *)
(* program, cannot be read or is hidden, and for two profiles that name    *)
(* one program.  Two keys with two mappings between them, in four layers.  *)
(***************************************************************************)
EXTENDS Desktop, KeyMap

VARIABLE choice  \* the part in use

allVars == <<desktopVars, keyVars, choice>>

Editor == "c:/editor.exe"
Player == "c:/player.exe"

Paths == {Editor, Player}
Exes == {"edit", "editplay"}

Executables == Editor :> "edit" @@ Player :> "editplay"

Window(class, path, traits) == [class |-> class, path |-> path, traits |-> traits]

Kinds == {Window("main", Editor, {}), Window("main", Player, {}), Window("main", Empty, {}),
          Window("main", Editor, {"hidden"})}

Aim(class, exe, path) == [class |-> class, exe |-> exe, path |-> path]

Aims == {Aim("main", "edit", Empty), Aim("main", "editplay", Player), Aim("main", Empty, Empty)}

Parts == "edit" :> {"edit"} @@ "editplay" :> {"edit", "editplay"}

Ctrl == 0
Shift == 1

FnLayers == {{}, {Ctrl}, {Shift}, {Ctrl, Shift}}

OfDesktop(A) == choice = "window" /\ A /\ UNCHANGED <<keyVars, choice>>
OfKeyMap(A) == choice = "mapping" /\ A /\ UNCHANGED <<desktopVars, choice>>

ChoiceInit == DesktopInit /\ KeyMapInit /\ choice \in {"window", "mapping"}

ChoiceNext == OfDesktop(DesktopNext) \/ OfKeyMap(KeyMapNext)

ChoiceSpec ==
  ChoiceInit /\ [][ChoiceNext]_allVars /\ WF_allVars(OfDesktop(AutoSwitchOnForegroundChange))
=============================================================================
