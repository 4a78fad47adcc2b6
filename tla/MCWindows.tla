----------------------------- MODULE MCWindows -----------------------------
(***************************************************************************)
(* The windows of the suite for TLC: what the Launcher does to its own     *)
(* width, and what every application does to its main window, its tray     *)
(* icon and its tray menu.  The two are models of their own with their own *)
(* state, so that a behaviour is of one of them.                           *)
(***************************************************************************)
EXTENDS LauncherWindow, DesktopShell

VARIABLE scene   \* whose behaviour this is

Init ==
  /\ LauncherWindowInit /\ DesktopShellInit
  /\ scene \in {"launcher", "shell"}

Next ==
  \/ scene = "launcher" /\ LauncherWindowNext /\ UNCHANGED <<desktopShell, scene>>
  \/ scene = "shell" /\ DesktopShellNext /\ UNCHANGED <<launcherWindow, scene>>

Spec == Init /\ [][Next]_<<launcherWindow, desktopShell, scene>>
=============================================================================
