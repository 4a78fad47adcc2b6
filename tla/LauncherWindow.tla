--------------------------- MODULE LauncherWindow ---------------------------
(***************************************************************************)
(* The window of the Launcher across openings of views and restarts:       *)
(* slate_launcher_set_expanded and LauncherState in the backend            *)
(* (tauri/slate-launcher/src-tauri/src/commands/window.rs, state.rs), the  *)
(* hook that calls it (src/hooks/use-expanded-window.hook.ts), the geometry*)
(* persisted on every move and resize (slate-runtime commands/window.rs,   *)
(* packages/slate-ipc use-window-chrome.hook.ts) and restored by           *)
(* apply_chrome (slate-runtime window.rs).                                 *)
(*                                                                         *)
(* The frontend and the backend talk through invoke, so a command is on its*)
(* way while the user goes on; a command itself runs on the main thread in *)
(* one step.  A change of the window reaches the frontend only through     *)
(* listeners that are registered one after the other once the page is      *)
(* there, and a save may fail, which the page never looks at.  Heights and *)
(* vertical positions behave like widths without an expansion and are left *)
(* out; one display is connected.  A file that was cut so that the next    *)
(* start refuses it (ConfigStore) is a file nothing starts with any more.  *)
(***************************************************************************)
EXTENDS Integers, Sequences

CONSTANTS
  Expansion,    \* EXPANSION
  Display,      \* width of the display
  Widths,       \* widths the user drags the window to
  Places,       \* left edges the user drags the window to
  DefaultWidth, \* WindowConfig::default().width
  None,         \* Option::None
  MaxToggles,   \* bound: views opened or closed in one life of the process
  MaxStarts     \* bound: lives of the process

ASSUME LauncherWindowAssumption ==
  /\ Expansion \in Nat \ {0} /\ Display \in Nat \ {0}
  /\ Widths \subseteq Nat /\ DefaultWidth \in Nat
  /\ Places \subseteq 0 .. Display - 1
  /\ None \notin Int
  /\ MaxToggles \in Nat /\ MaxStarts \in Nat

VARIABLES
  up,         \* the process runs
  view,       \* activeView # null, in the frontend
  calls,      \* set_expanded calls on their way, by their argument
  hears,      \* the listeners the page has registered
  moved,      \* persist_geometry calls are on their way
  width, x,   \* the window, as it is while not maximised
  maximised,
  collapsed,  \* collapsed_width in LauncherState
  settings,   \* the window table of the configuration in memory
  disk,       \* the window table of the Launcher's configuration file
  behind,     \* history: a change was not heard or not saved since the last save
  base,       \* history: the width of the last drag, restore or retraction
  ignored,    \* history: the last set_expanded found the window maximised
  toggles, starts

window == <<width, x, maximised>>
counters == <<toggles, starts>>
file == <<settings, disk, behind>>
launcherWindow ==
  <<up, view, calls, hears, moved, window, collapsed, file, base, ignored, counters>>

(* WindowConfig, as far as it is about the width.                           *)
Table == [width : Nat, x : 0 .. Display \cup {None}, maximised : BOOLEAN]
Default == [width |-> DefaultWidth, x |-> None, maximised |-> FALSE]

TypeOK ==
  /\ up \in BOOLEAN /\ view \in BOOLEAN /\ moved \in BOOLEAN /\ behind \in BOOLEAN
  /\ hears \in {"none", "sizes", "all"}
  /\ calls \in Seq(BOOLEAN)
  /\ width \in Nat /\ x \in 0 .. Display /\ maximised \in BOOLEAN
  /\ collapsed \in Nat \cup {None}
  /\ settings \in Table /\ disk \in Table
  /\ base \in Nat /\ ignored \in BOOLEAN
  /\ toggles \in 0 .. MaxToggles /\ starts \in 0 .. MaxStarts

(* Nothing runs and the file holds the defaults. *)
LauncherWindowInit ==
  /\ up = FALSE /\ view = FALSE /\ calls = <<>>
  /\ hears = "none" /\ moved = FALSE /\ behind = FALSE
  /\ width = DefaultWidth /\ x = 0 /\ maximised = FALSE
  /\ collapsed = None /\ base = DefaultWidth /\ ignored = FALSE
  /\ settings = Default /\ disk = Default
  /\ toggles = 0 /\ starts = 0

-----------------------------------------------------------------------------
(* The process starts and ends. *)

Larger(a, b) == IF a > b THEN a ELSE b
Centred(w) == Larger((Display - w) \div 2, 0)

(* The configuration is loaded, restore_geometry, a new LauncherState, and a*)
(* page that mounts with no view open, which is the first run of the effect.*)
Start ==
  /\ ~up /\ starts < MaxStarts
  /\ up' = TRUE /\ starts' = starts + 1 /\ toggles' = 0
  /\ width' = disk.width /\ base' = disk.width
  /\ x' = IF disk.x = None THEN Centred(disk.width) ELSE disk.x
  /\ maximised' = disk.maximised
  /\ collapsed' = None
  /\ view' = FALSE /\ calls' = <<FALSE>> /\ ignored' = FALSE
  /\ hears' = "none" /\ moved' = FALSE
  /\ settings' = disk /\ behind' = FALSE
  /\ UNCHANGED disk

(* Quit in the tray menu, or the process dies. *)
End ==
  /\ up
  /\ up' = FALSE
  /\ view' = FALSE /\ calls' = <<>> /\ hears' = "none" /\ moved' = FALSE
  /\ UNCHANGED <<window, collapsed, file, base, ignored, counters>>

-----------------------------------------------------------------------------
(* What the page hears. *)

(* subscribe awaits onResized and then onMoved.                             *)
Listen ==
  /\ up /\ hears # "all"
  /\ hears' = IF hears = "none" THEN "sizes" ELSE "all"
  /\ UNCHANGED <<up, view, calls, moved, window, collapsed, file, base, ignored, counters>>

(* A change is heard by one of the listeners, which asks for a save, or not.*)
Reported(heard) ==
  /\ moved' = (moved \/ heard)
  /\ behind' = (behind \/ ~heard)
  /\ UNCHANGED <<hears, settings, disk>>
Resized == Reported(hears # "none")
Moved == Reported(hears = "all")
Unmoved == UNCHANGED <<hears, moved, file>>

-----------------------------------------------------------------------------
(* The user. *)

(* The effect runs when activeView becomes null or stops being it.          *)
Toggle ==
  /\ up /\ toggles < MaxToggles
  /\ toggles' = toggles + 1
  /\ view' = ~view
  /\ calls' = Append(calls, ~view)
  /\ Unmoved
  /\ UNCHANGED <<up, window, collapsed, base, ignored, starts>>

(* Moves the window or pulls one of its edges. *)
Drag(w, p) ==
  /\ up /\ ~maximised
  /\ <<w, p>> # <<width, x>>
  /\ width' = w /\ x' = p /\ base' = IF w = width THEN base ELSE w
  /\ IF w = width THEN Moved ELSE Resized
  /\ UNCHANGED <<up, view, calls, maximised, collapsed, ignored, counters>>

(* slate_window_toggle_maximize: Windows keeps the size to restore.         *)
MaximiseOrRestore ==
  /\ up
  /\ maximised' = ~maximised
  /\ Resized
  /\ UNCHANGED <<up, view, calls, width, x, collapsed, base, ignored, counters>>

(* slate_window_minimize, and the way back: events that report no change of *)
(* what the window returns to.                                              *)
MinimiseAndBack ==
  /\ up /\ hears # "none"
  /\ moved' = TRUE
  /\ UNCHANGED <<up, view, calls, hears, window, collapsed, file, base, ignored, counters>>

-----------------------------------------------------------------------------
(* slate_launcher_set_expanded. *)

Receives(b) ==
  /\ up /\ calls # <<>> /\ Head(calls) = b
  /\ calls' = Tail(calls)
  /\ ignored' = maximised
  /\ UNCHANGED <<up, view, maximised, counters>>

IgnoreMaximised ==
  /\ maximised
  /\ \E b \in BOOLEAN : Receives(b)
  /\ Unmoved
  /\ UNCHANGED <<width, x, collapsed, base>>

(* remember_collapsed_width: whether a width was there already.             *)
NeverRemembers == FALSE  \* mutant
HadWidth == collapsed # None

(* keep_on_screen: the left edge of a window that has become w wide.        *)
PushedBackBefore(p, w) == Larger(p - Larger(p + (w - Expansion) - Display, 0), 0)  \* mutant
PushedBack(p, w) == Larger(p - Larger(p + w - Display, 0), 0)
KeepOnScreen(p, w) == IF p + w > Display THEN PushedBack(p, w) ELSE p

Expand ==
  /\ Receives(TRUE) /\ ~maximised /\ ~HadWidth
  /\ collapsed' = width
  /\ width' = width + Expansion
  /\ x' = KeepOnScreen(x, width + Expansion)
  /\ Resized
  /\ UNCHANGED base

AlreadyExpanded ==
  /\ Receives(TRUE) /\ ~maximised /\ HadWidth
  /\ Unmoved
  /\ UNCHANGED <<width, x, collapsed, base>>

(* take_collapsed_width gives the width and forgets it. *)
Kept == collapsed  \* mutant
Taken == None

Retract ==
  /\ Receives(FALSE) /\ ~maximised /\ collapsed # None
  /\ width' = collapsed /\ base' = collapsed
  /\ collapsed' = Taken
  /\ Resized
  /\ UNCHANGED x

NothingToUndo ==
  /\ Receives(FALSE) /\ ~maximised /\ collapsed = None
  /\ Unmoved
  /\ UNCHANGED <<width, x, collapsed, base>>

-----------------------------------------------------------------------------
(* slate_window_persist_geometry: of a maximised window only the flag.      *)
RecordedStuck ==  \* mutant: the flag is never cleared
  IF maximised THEN [settings EXCEPT !.maximised = TRUE]
  ELSE [settings EXCEPT !.width = width, !.x = x]
Recorded ==
  IF maximised THEN [settings EXCEPT !.maximised = TRUE]
  ELSE [width |-> width, x |-> x, maximised |-> FALSE]

(* A table agrees with the window.  What a maximised window returns to may  *)
(* be older in it, if the window was maximised right after a move.          *)
Agrees(t) ==
  /\ t.maximised = maximised
  /\ ~maximised => t.width = width /\ t.x \in {x, None}

(* One of the calls on their way is handled.                                *)
PersistGeometry ==
  /\ up /\ moved
  /\ moved' \in BOOLEAN
  /\ settings' = Recorded /\ disk' = Recorded /\ behind' = FALSE
  /\ UNCHANGED <<up, view, calls, hears, window, collapsed, base, ignored, counters>>

(* What is left of a table when fs::write stops: the lines of it are in the *)
(* order of Table, a number may have lost digits, the rest is the default.  *)
Cut(t) ==
  {t, Default, [Default EXCEPT !.width = t.width]}
    \cup {[width |-> t.width, x |-> p, maximised |-> FALSE] :
            p \in IF t.x = None THEN {None} ELSE {q \in Places : q <= t.x}}

(* The window cannot be read, its size is refused, as that of a minimised   *)
(* window is, or the file cannot be written; the page drops the error.      *)
PersistFails ==
  /\ up /\ moved
  /\ moved' \in BOOLEAN
  /\ disk' \in {disk} \cup Cut(Recorded)
  /\ behind' = (behind \/ ~Agrees(disk'))
  /\ UNCHANGED <<up, view, calls, hears, window, collapsed, settings, base, ignored, counters>>

-----------------------------------------------------------------------------
SetExpanded ==
  IgnoreMaximised \/ Expand \/ AlreadyExpanded \/ Retract \/ NothingToUndo

LauncherWindowNext ==
  \/ Start \/ End \/ Listen \/ Toggle \/ MaximiseOrRestore \/ MinimiseAndBack
  \/ \E w \in Widths, p \in Places : Drag(w, p)
  \/ SetExpanded \/ PersistGeometry \/ PersistFails

LauncherWindowSpec == LauncherWindowInit /\ [][LauncherWindowNext]_launcherWindow

-----------------------------------------------------------------------------
(* Properties. *)

(* Once every call has been handled, the backend holds a width to return to *)
(* exactly while a view is open, unless the last call found the window      *)
(* maximised: a maximised window may keep a width for a closed view or lack *)
(* one for an open view, and nothing tells it when it is restored.          *)
WindowFollowsView ==
  up /\ calls = <<>> => ((collapsed # None) <=> view) \/ ignored

(* "Switching between two views must not widen twice": the window has the   *)
(* width the user or the file gave it, or is wider by one expansion and     *)
(* holds exactly the width to return to.                                    *)
WidensOnce ==
  up /\ width # base => width = base + Expansion /\ collapsed = base

(* "It stays on screen": a window that grows for a view ends within the     *)
(* display, or else starts at its left edge.                                *)
GrowsOnScreen ==
  [][up /\ Expand => x' + width' <= Display \/ x' = 0]_launcherWindow

(* When no call is on its way the file agrees with the window, unless a     *)
(* change came before the listeners or its save failed: such a gap lasts    *)
(* until the next save that succeeds, and whatever went wrong before, that  *)
(* save closes it.                                                          *)
DiskFollowsWindow ==
  up /\ ~moved /\ ~behind => Agrees(disk)

(* "Widens the window while a view is open, and retracts it when the view   *)
(* closes": with no view open and no call on its way the width is one that  *)
(* the user gave the window, or the default.  It is not: the width that is  *)
(* saved while a view is open is the expanded one, and what to return to    *)
(* dies with the process.                                                   *)
RetractsWithTheView ==
  up /\ ~view /\ calls = <<>> /\ ~ignored => width \in Widths \cup {DefaultWidth}
=============================================================================
