------------------------ MODULE LauncherWindowProofs ------------------------
(***************************************************************************)
(* What TLAPS proves of the Launcher's window, for every display, every    *)
(* expansion and every set of widths and places it may be dragged to.      *)
(***************************************************************************)
EXTENDS LauncherWindow, SequenceTheorems, TLAPS

(* Centring and keep_on_screen put the left edge within the display.        *)
LEMMA EdgeType ==
  /\ \A w \in Nat : Centred(w) \in 0 .. Display
  /\ \A p \in 0 .. Display, w \in Nat : KeepOnScreen(p, w) \in 0 .. Display
BY LauncherWindowAssumption DEF Centred, KeepOnScreen, PushedBack, Larger

(* The parts of the type invariant: the flags, the calls on their way, and  *)
(* the numbers.                                                             *)
FlagsOK ==
  /\ up \in BOOLEAN /\ view \in BOOLEAN /\ moved \in BOOLEAN
  /\ maximised \in BOOLEAN /\ ignored \in BOOLEAN /\ behind \in BOOLEAN
  /\ hears \in {"none", "sizes", "all"}
CallsOK == calls \in Seq(BOOLEAN)
NumbersOK ==
  /\ width \in Nat /\ x \in 0 .. Display /\ collapsed \in Nat \cup {None}
  /\ base \in Nat /\ toggles \in 0 .. MaxToggles /\ starts \in 0 .. MaxStarts
DiskOK == settings \in Table /\ disk \in Table

(* The type invariant is its parts. *)
LEMMA TypeParts == TypeOK <=> FlagsOK /\ CallsOK /\ NumbersOK /\ DiskOK
BY DEF TypeOK, FlagsOK, CallsOK, NumbersOK, DiskOK

(* Taking a call off a queue leaves a queue that is shorter by one. *)
LEMMA QueueTail ==
  ASSUME NEW S, NEW q \in Seq(S), q # <<>>
  PROVE  /\ Tail(q) \in Seq(S) /\ Head(q) \in S /\ Head(q) = q[1]
         /\ Len(q) \in Nat /\ Len(q) > 0
         /\ Len(Tail(q)) = Len(q) - 1
OBVIOUS

(* What is last stays last until it is taken.                               *)
LEMMA QueueLast ==
  ASSUME NEW S, NEW q \in Seq(S), q # <<>>
  PROVE  /\ Tail(q) = <<>> => Head(q) = q[Len(q)]
         /\ Tail(q) # <<>> => Tail(q)[Len(Tail(q))] = q[Len(q)]
<1>1. Len(q) \in Nat /\ Len(q) > 0 /\ Head(q) = q[1] /\ Len(Tail(q)) = Len(q) - 1
  BY QueueTail
<1>2. Tail(q) = <<>> <=> Len(Tail(q)) = 0
  BY QueueTail, EmptySeq, Zenon
<1>3. CASE Len(q) = 1
  <2>1. Tail(q) = <<>>
    BY <1>2, <1>1, <1>3
  <2>. QED
    BY <1>1, <1>3, <2>1
<1>4. CASE Len(q) > 1
  <2>1. Tail(q) # <<>>
    BY <1>2, <1>1, <1>4
  <2>2. Tail(q)[Len(q) - 1] = q[Len(q)]
    BY <1>1, <1>4
  <2>. QED
    BY <1>1, <2>1, <2>2
<1>. QED
  BY <1>1, <1>3, <1>4

(* What is added is last. *)
LEMMA QueueAppend ==
  ASSUME NEW S, NEW q \in Seq(S), NEW e \in S
  PROVE  /\ Append(q, e) \in Seq(S) /\ Append(q, e) # <<>>
         /\ Append(q, e)[Len(Append(q, e))] = e
OBVIOUS

(* A queue of one call. *)
LEMMA QueueOfOne ==
  ASSUME NEW S, NEW e \in S
  PROVE  <<e>> \in Seq(S) /\ <<e>> # <<>> /\ <<e>>[Len(<<e>>)] = e
OBVIOUS

(* A change of the window leaves the calls, the listeners and what was saved*)
(* as they should be, heard or not.                                         *)
LEMMA HeardOrNot ==
  ASSUME TypeOK, Resized \/ Moved \/ Unmoved
  PROVE  /\ moved' \in BOOLEAN /\ behind' \in BOOLEAN
         /\ UNCHANGED <<hears, settings, disk>>
<1>1. moved \in BOOLEAN /\ behind \in BOOLEAN
  BY DEF TypeOK
<1>2. CASE Resized
  <2>1. Reported(hears # "none")
    BY <1>2 DEF Resized
  <2>. QED
    BY <2>1 DEF Reported
<1>3. CASE Moved
  <2>1. Reported(hears = "all")
    BY <1>3 DEF Moved
  <2>. QED
    BY <2>1 DEF Reported
<1>4. CASE Unmoved
  BY <1>1, <1>4 DEF Unmoved, file
<1>. QED
  BY <1>2, <1>3, <1>4

(* What a step of set_expanded or of the user's mouse does to the window,   *)
(* one way or the other it is heard or not.                                 *)
LEMMA MouseReports ==
  ASSUME Toggle \/ MaximiseOrRestore \/ SetExpanded \/ \E w \in Widths, p \in Places : Drag(w, p)
  PROVE  Resized \/ Moved \/ Unmoved
BY Zenon DEF Toggle, MaximiseOrRestore, SetExpanded, Drag, IgnoreMaximised, Expand, AlreadyExpanded,
             Retract, NothingToUndo

(* A start finds no listener, and reads the file. *)
LEMMA FlagsOfStart == TypeOK /\ Start => FlagsOK'
BY DEF TypeOK, Table, Start, FlagsOK

(* The flags are kept. *)
LEMMA FlagsStep == TypeOK /\ [LauncherWindowNext]_launcherWindow => FlagsOK'
<1> SUFFICES ASSUME TypeOK, [LauncherWindowNext]_launcherWindow PROVE FlagsOK'
  OBVIOUS
<1>1. FlagsOK
  BY DEF TypeOK, FlagsOK
<1>. USE DEF FlagsOK, window, file
<1>2. CASE Start
  BY <1>2, FlagsOfStart
<1>3. CASE End \/ MinimiseAndBack
  BY <1>1, <1>3, Zenon DEF End, MinimiseAndBack
<1>4. CASE Listen
  BY <1>1, <1>4 DEF Listen
<1>5. CASE Toggle \/ MaximiseOrRestore \/ SetExpanded \/ \E w \in Widths, p \in Places : Drag(w, p)
  <2>1. moved' \in BOOLEAN /\ behind' \in BOOLEAN /\ hears' = hears
    BY <1>5, MouseReports, HeardOrNot
  <2>2. /\ up' = up /\ view' \in BOOLEAN
        /\ maximised' \in BOOLEAN /\ ignored' \in BOOLEAN
    BY <1>1, <1>5, Zenon
       DEF Toggle, MaximiseOrRestore, Drag, SetExpanded, IgnoreMaximised, Expand, AlreadyExpanded,
           Retract, NothingToUndo, Receives
  <2>. QED
    BY <1>1, <2>1, <2>2, Zenon
<1>6. CASE PersistGeometry
  BY <1>1, <1>6, Zenon DEF PersistGeometry
<1>7. CASE PersistFails
  <2>1. behind' \in BOOLEAN
    BY <1>7 DEF PersistFails
  <2>. QED
    BY <1>1, <1>7, <2>1, Zenon DEF PersistFails
<1>8. CASE UNCHANGED launcherWindow
  BY <1>1, <1>8, Zenon DEF launcherWindow
<1>. QED
  BY <1>2, <1>3, <1>4, <1>5, <1>6, <1>7, <1>8, Zenon DEF LauncherWindowNext

(* set_expanded calls are queued and taken, and nothing else changes them. *)
LEMMA CallsStep == TypeOK /\ [LauncherWindowNext]_launcherWindow => CallsOK'
<1> SUFFICES ASSUME TypeOK, [LauncherWindowNext]_launcherWindow PROVE CallsOK'
  OBVIOUS
<1>1. CallsOK /\ view \in BOOLEAN
  BY DEF TypeOK, CallsOK
<1>. USE DEF CallsOK
<1>2. CASE Start \/ End \/ Toggle
  <2>1. <<>> \in Seq(BOOLEAN) /\ <<FALSE>> \in Seq(BOOLEAN)
    BY EmptySeq, QueueOfOne, Zenon
  <2>2. Append(calls, ~view) \in Seq(BOOLEAN)
    BY <1>1, QueueAppend, Zenon
  <2>. QED
    BY <1>2, <2>1, <2>2, Zenon DEF Start, End, Toggle
<1>3. CASE SetExpanded
  <2>1. calls # <<>> => Tail(calls) \in Seq(BOOLEAN)
    BY <1>1, QueueTail, Zenon
  <2>2. calls # <<>> /\ calls' = Tail(calls)
    BY <1>3, Zenon
       DEF SetExpanded, IgnoreMaximised, Expand, AlreadyExpanded, Retract, NothingToUndo, Receives
  <2>. QED
    BY <2>1, <2>2, Zenon
<1>4. CASE UNCHANGED calls
  BY <1>1, <1>4, Zenon
<1>. QED
  BY <1>2, <1>3, <1>4, Zenon
     DEF LauncherWindowNext, Drag, MaximiseOrRestore, Listen, MinimiseAndBack, PersistGeometry,
         PersistFails, launcherWindow

(* Sizes, places and counters are kept. *)
LEMMA NumbersStep == TypeOK /\ [LauncherWindowNext]_launcherWindow => NumbersOK'
<1> SUFFICES ASSUME TypeOK, [LauncherWindowNext]_launcherWindow PROVE NumbersOK'
  OBVIOUS
<1>1. NumbersOK /\ disk.width \in Nat /\ disk.x \in 0 .. Display \cup {None}
  BY DEF TypeOK, NumbersOK, Table
<1>. USE LauncherWindowAssumption DEF NumbersOK, counters
<1>2. CASE Start
  <2>1. /\ width' = disk.width /\ base' = disk.width /\ collapsed' = None
        /\ x' = IF disk.x = None THEN Centred(disk.width) ELSE disk.x
        /\ toggles' = 0 /\ starts' = starts + 1 /\ starts < MaxStarts
    BY <1>2, Zenon DEF Start
  <2>2. x' \in 0 .. Display
    BY <1>1, <2>1, EdgeType
  <2>3. toggles' \in 0 .. MaxToggles /\ starts' \in 0 .. MaxStarts
    BY <1>1, <2>1
  <2>. QED
    BY <1>1, <2>1, <2>2, <2>3
<1>3. CASE End \/ MaximiseOrRestore \/ Listen \/ MinimiseAndBack \/ PersistGeometry \/ PersistFails
  BY <1>1, <1>3 DEF End, MaximiseOrRestore, Listen, MinimiseAndBack, PersistGeometry,
                    PersistFails, window
<1>4. CASE Toggle
  BY <1>1, <1>4 DEF Toggle, window
<1>5. ASSUME NEW w \in Widths, NEW p \in Places, Drag(w, p)
      PROVE  NumbersOK'
  BY <1>1, <1>5 DEF Drag
<1>6. CASE IgnoreMaximised \/ AlreadyExpanded \/ NothingToUndo
  BY <1>1, <1>6 DEF IgnoreMaximised, AlreadyExpanded, NothingToUndo, Receives
<1>7. CASE Expand
  <2>1. /\ width' = width + Expansion /\ base' = base /\ collapsed' = width
        /\ x' = KeepOnScreen(x, width + Expansion)
        /\ toggles' = toggles /\ starts' = starts
    BY <1>7, Zenon DEF Expand, Receives
  <2>. QED
    BY <1>1, <2>1, EdgeType
<1>8. CASE Retract
  BY <1>1, <1>8 DEF Retract, Receives, Taken
<1>9. CASE UNCHANGED launcherWindow
  BY <1>1, <1>9 DEF launcherWindow, window
<1>. QED
  BY <1>2, <1>3, <1>4, <1>5, <1>6, <1>7, <1>8, <1>9 DEF LauncherWindowNext, SetExpanded

(* What a save records, and what is left of it when the write stops, are    *)
(* tables.                                                                  *)
LEMMA TablesType ==
  ASSUME TypeOK
  PROVE  /\ Recorded \in Table /\ Default \in Table
         /\ \A t \in Table : Cut(t) \subseteq Table
<1>1. width \in Nat /\ x \in 0 .. Display /\ maximised \in BOOLEAN /\ settings \in Table
  BY DEF TypeOK
<1>2. Recorded \in Table
  BY <1>1 DEF Recorded, Table
<1>3. Default \in Table
  BY LauncherWindowAssumption DEF Default, Table
<1>4. ASSUME NEW t \in Table
      PROVE  Cut(t) \subseteq Table
  <2>1. t.width \in Nat
    BY DEF Table
  <2>2. [Default EXCEPT !.width = t.width] \in Table
    BY <1>3, <2>1 DEF Table
  <2>3. ASSUME NEW p \in Places \cup {None}
        PROVE  [width |-> t.width, x |-> p, maximised |-> FALSE] \in Table
    <3>1. p \in 0 .. Display \cup {None}
      BY LauncherWindowAssumption
    <3>. QED
      BY <2>1, <3>1 DEF Table
  <2>. QED
    BY <1>3, <2>2, <2>3 DEF Cut
<1>. QED
  BY <1>2, <1>3, <1>4

(* Only a persist call writes the file, and only it and a start the         *)
(* configuration in memory.                                                 *)
LEMMA DiskStep == TypeOK /\ [LauncherWindowNext]_launcherWindow => DiskOK'
<1> SUFFICES ASSUME TypeOK, [LauncherWindowNext]_launcherWindow PROVE DiskOK'
  OBVIOUS
<1>1. settings \in Table /\ disk \in Table /\ Recorded \in Table /\ Cut(Recorded) \subseteq Table
  BY TablesType DEF TypeOK
<1>. USE DEF DiskOK
<1>2. CASE Start
  BY <1>1, <1>2, Zenon DEF Start
<1>3. CASE PersistGeometry
  BY <1>1, <1>3, Zenon DEF PersistGeometry
<1>4. CASE PersistFails
  <2>1. disk' \in {disk} \cup Cut(Recorded) /\ settings' = settings
    BY <1>4, Zenon DEF PersistFails
  <2>. QED
    BY <1>1, <2>1
<1>5. CASE Toggle \/ MaximiseOrRestore \/ SetExpanded \/ \E w \in Widths, p \in Places : Drag(w, p)
  BY <1>1, <1>5, MouseReports, HeardOrNot
<1>6. CASE UNCHANGED file
  BY <1>1, <1>6 DEF file
<1>. QED
  BY <1>2, <1>3, <1>4, <1>5, <1>6, Zenon
     DEF LauncherWindowNext, End, Listen, MinimiseAndBack, launcherWindow

(* Before the first start. *)
LEMMA InitType == LauncherWindowInit => TypeOK
<1>1. LauncherWindowInit => FlagsOK
  BY Zenon DEF LauncherWindowInit, FlagsOK
<1>2. LauncherWindowInit => CallsOK
  BY EmptySeq, Zenon DEF LauncherWindowInit, CallsOK
<1>3. LauncherWindowInit => NumbersOK
  BY LauncherWindowAssumption DEF LauncherWindowInit, NumbersOK
<1>4. LauncherWindowInit => DiskOK
  BY LauncherWindowAssumption DEF LauncherWindowInit, DiskOK, Default, Table
<1>. QED
  BY <1>1, <1>2, <1>3, <1>4, TypeParts

(* Every step keeps the type. *)
LEMMA TypeStep == TypeOK /\ [LauncherWindowNext]_launcherWindow => TypeOK'
BY TypeParts, FlagsStep, CallsStep, NumbersStep, DiskStep
   DEF TypeOK, FlagsOK, CallsOK, NumbersOK, DiskOK

(* Every state of the window, of the calls on their way and of the file has *)
(* its type; the left edge never leaves the display.                        *)
THEOREM TypeCorrect == LauncherWindowSpec => []TypeOK
BY InitType, TypeStep, PTL DEF LauncherWindowSpec

(* The last call on its way carries the view as it is.                      *)
LastCall ==
  up /\ calls # <<>> => calls[Len(calls)] = view

(* Handling a call leaves the last one in its place, or none, and then the  *)
(* call handled was the last one.                                           *)
LEMMA ReceiveStep ==
  ASSUME TypeOK, LastCall, NEW b \in BOOLEAN, Receives(b)
  PROVE  /\ LastCall'
         /\ calls' = <<>> => b = view'
<1>1. /\ calls # <<>> /\ calls' = Tail(calls) /\ Head(calls) = b
      /\ up /\ view' = view
  BY Zenon DEF Receives
<1>2. calls \in Seq(BOOLEAN)
  BY DEF TypeOK
<1>3. calls[Len(calls)] = view
  BY <1>1, Zenon DEF LastCall
<1>4. /\ Tail(calls) = <<>> => Head(calls) = calls[Len(calls)]
      /\ Tail(calls) # <<>> => Tail(calls)[Len(Tail(calls))] = calls[Len(calls)]
  BY <1>1, <1>2, QueueLast, Zenon
<1>5. calls' # <<>> => calls'[Len(calls')] = view'
  BY <1>1, <1>3, <1>4
<1>. QED
  BY <1>1, <1>3, <1>4, <1>5, Zenon DEF LastCall

(* The invariant of the window: with the type and the last call, the three  *)
(* state properties are inductive together.                                 *)
WindowInv == TypeOK /\ LastCall /\ WindowFollowsView /\ WidensOnce /\ DiskFollowsWindow

(* A change is on its way to the file, or was not heard. *)
LEMMA UnheardIsBehind ==
  ASSUME Resized \/ Moved
  PROVE  DiskFollowsWindow'
<1>1. CASE Resized
  <2>1. Reported(hears # "none")
    BY <1>1 DEF Resized
  <2>. QED
    BY <2>1 DEF Reported, DiskFollowsWindow
<1>2. CASE Moved
  <2>1. Reported(hears = "all")
    BY <1>2 DEF Moved
  <2>. QED
    BY <2>1 DEF Reported, DiskFollowsWindow
<1>. QED
  BY <1>1, <1>2

(* A call finds the window maximised. *)
LEMMA IgnoreStep == WindowInv /\ IgnoreMaximised => WindowInv'
<1> SUFFICES ASSUME WindowInv, IgnoreMaximised PROVE WindowInv'
  OBVIOUS
<1>1. PICK b \in BOOLEAN : Receives(b)
  BY DEF IgnoreMaximised
<1>2. TypeOK'
  BY TypeStep DEF WindowInv, LauncherWindowNext, SetExpanded
<1>3. LastCall'
  BY <1>1, ReceiveStep DEF WindowInv
<1>4. WindowFollowsView'
  BY <1>1 DEF WindowFollowsView, Receives, IgnoreMaximised
<1>5. WidensOnce' /\ DiskFollowsWindow'
  BY <1>1 DEF WindowInv, WidensOnce, DiskFollowsWindow, Agrees, Receives, IgnoreMaximised, Unmoved,
              file
<1>. QED
  BY <1>2, <1>3, <1>4, <1>5 DEF WindowInv

(* A call expands or retracts the window, or finds nothing to do. *)
LEMMA ExpansionStep ==
  WindowInv /\ (Expand \/ AlreadyExpanded \/ Retract \/ NothingToUndo) => WindowInv'
<1> SUFFICES ASSUME WindowInv, Expand \/ AlreadyExpanded \/ Retract \/ NothingToUndo
             PROVE  WindowInv'
  OBVIOUS
<1>1. TypeOK /\ TypeOK'
  BY TypeStep DEF WindowInv, LauncherWindowNext, SetExpanded
<1>2. /\ width \in Nat /\ width # None /\ base \in Nat /\ base # None
      /\ collapsed \in Nat \cup {None}
  BY <1>1, LauncherWindowAssumption DEF TypeOK
<1>3. PICK b \in BOOLEAN : Receives(b) /\ ((collapsed' # None) <=> b)
  BY <1>2, Zenon DEF Expand, AlreadyExpanded, Retract, NothingToUndo, HadWidth, Taken
<1>4. LastCall' /\ (calls' = <<>> => b = view')
  BY <1>1, <1>3, ReceiveStep, Zenon DEF WindowInv
<1>5. WindowFollowsView'
  <2>1. calls' = <<>> => ((collapsed' # None) <=> view')
    BY <1>3, <1>4
  <2>. QED
    BY <2>1, Zenon DEF WindowFollowsView
<1>6. up /\ (width # base => width = base + Expansion /\ collapsed = base)
  BY <1>3, Zenon DEF WindowInv, WidensOnce, Receives
<1>7. WidensOnce'
  <2>1. CASE Expand
    <3>1. width' = width + Expansion /\ collapsed' = width /\ base' = base /\ collapsed = None
      BY <2>1, Zenon DEF Expand, HadWidth
    <3>. QED
      BY <1>2, <1>6, <3>1 DEF WidensOnce
  <2>2. CASE AlreadyExpanded \/ NothingToUndo
    <3>1. UNCHANGED <<width, collapsed, base>>
      BY <2>2, Zenon DEF AlreadyExpanded, NothingToUndo
    <3>. QED
      BY <1>6, <3>1 DEF WidensOnce
  <2>3. CASE Retract
    BY <2>3, Zenon DEF Retract, WidensOnce
  <2>. QED
    BY <2>1, <2>2, <2>3
<1>8. DiskFollowsWindow'
  <2>1. CASE Expand \/ Retract
    <3>1. Resized
      BY <2>1, Zenon DEF Expand, Retract
    <3>. QED
      BY <3>1, UnheardIsBehind
  <2>2. CASE AlreadyExpanded \/ NothingToUndo
    <3>1. /\ UNCHANGED <<width, x, maximised, up>> /\ Unmoved
      BY <2>2, Zenon DEF AlreadyExpanded, NothingToUndo, Receives
    <3>. QED
      BY <3>1 DEF WindowInv, DiskFollowsWindow, Agrees, Unmoved, file
  <2>. QED
    BY <2>1, <2>2
<1>. QED
  BY <1>1, <1>4, <1>5, <1>7, <1>8 DEF WindowInv

(* The user opens or closes a view. *)
LEMMA ToggleStep == WindowInv /\ Toggle => WindowInv'
<1> SUFFICES ASSUME WindowInv, Toggle PROVE WindowInv'
  OBVIOUS
<1>1. TypeOK'
  BY TypeStep DEF WindowInv, LauncherWindowNext
<1>2. /\ calls' = Append(calls, ~view) /\ calls \in Seq(BOOLEAN)
      /\ view' = ~view /\ view \in BOOLEAN
  BY DEF Toggle, WindowInv, TypeOK
<1>3. /\ calls'[Len(calls')] = (~view) /\ calls' # <<>>
  BY <1>2
<1>4. LastCall' /\ WindowFollowsView'
  BY <1>2, <1>3 DEF LastCall, WindowFollowsView
<1>5. WidensOnce' /\ DiskFollowsWindow'
  BY DEF WindowInv, WidensOnce, DiskFollowsWindow, Agrees, Toggle, window, Unmoved, file
<1>. QED
  BY <1>1, <1>4, <1>5 DEF WindowInv

(* The window is as the file has it when it starts. *)
LEMMA StartStep == WindowInv /\ Start => WindowInv'
<1> SUFFICES ASSUME WindowInv, Start PROVE WindowInv'
  OBVIOUS
<1>1. TypeOK'
  BY TypeStep DEF WindowInv, LauncherWindowNext
<1>2. calls'[Len(calls')] = FALSE /\ calls' # <<>> /\ view' = FALSE
  BY DEF Start
<1>3. width' = base' /\ LastCall' /\ WindowFollowsView'
  BY <1>2 DEF Start, LastCall, WindowFollowsView
<1>4. DiskFollowsWindow'
  BY DEF Start, DiskFollowsWindow, Agrees
<1>. QED
  BY <1>1, <1>3, <1>4 DEF WindowInv, WidensOnce

(* The user moves, resizes or maximises the window. *)
LEMMA MouseStep ==
  WindowInv /\ (MaximiseOrRestore \/ \E w \in Widths, p \in Places : Drag(w, p)) => WindowInv'
<1> SUFFICES ASSUME WindowInv, MaximiseOrRestore \/ \E w \in Widths, p \in Places : Drag(w, p)
             PROVE  WindowInv'
  OBVIOUS
<1>1. TypeOK'
  BY TypeStep DEF WindowInv, LauncherWindowNext
<1>2. DiskFollowsWindow'
  <2>1. Resized \/ Moved
    BY Zenon DEF MaximiseOrRestore, Drag
  <2>. QED
    BY <2>1, UnheardIsBehind
<1>3. LastCall' /\ WindowFollowsView'
  BY DEF WindowInv, LastCall, WindowFollowsView, MaximiseOrRestore, Drag
<1>4. WidensOnce'
  BY DEF WindowInv, WidensOnce, MaximiseOrRestore, Drag
<1>. QED
  BY <1>1, <1>2, <1>3, <1>4 DEF WindowInv

(* A save succeeds, and then the file agrees whatever went wrong before, or *)
(* it fails.                                                                *)
LEMMA PersistStep == WindowInv /\ (PersistGeometry \/ PersistFails) => WindowInv'
<1> SUFFICES ASSUME WindowInv, PersistGeometry \/ PersistFails PROVE WindowInv'
  OBVIOUS
<1>1. TypeOK /\ TypeOK'
  BY TypeStep DEF WindowInv, LauncherWindowNext
<1>2. LastCall' /\ WindowFollowsView' /\ WidensOnce'
  BY DEF WindowInv, LastCall, WindowFollowsView, WidensOnce, PersistGeometry, PersistFails, window
<1>3. DiskFollowsWindow'
  <2>1. CASE PersistGeometry
    BY <1>1, <2>1 DEF PersistGeometry, Recorded, DiskFollowsWindow, Agrees, window, TypeOK, Table
  <2>2. CASE PersistFails
    BY <2>2 DEF PersistFails, DiskFollowsWindow, Agrees, window
  <2>. QED
    BY <2>1, <2>2
<1>. QED
  BY <1>1, <1>2, <1>3 DEF WindowInv

(* Every step keeps the invariant. *)
LEMMA WindowStep == WindowInv /\ [LauncherWindowNext]_launcherWindow => WindowInv'
<1> SUFFICES ASSUME WindowInv, [LauncherWindowNext]_launcherWindow PROVE WindowInv'
  OBVIOUS
<1>. USE DEF WindowInv, LastCall, WindowFollowsView, WidensOnce, DiskFollowsWindow, Agrees, window,
             file
<1>1. TypeOK'
  BY TypeStep
<1>2. CASE End
  BY <1>1, <1>2 DEF End
<1>3. CASE Listen \/ MinimiseAndBack
  BY <1>1, <1>3 DEF Listen, MinimiseAndBack
<1>4. CASE UNCHANGED launcherWindow
  BY <1>1, <1>4 DEF launcherWindow
<1>. QED
  BY <1>2, <1>3, <1>4, StartStep, ToggleStep, MouseStep, IgnoreStep, ExpansionStep, PersistStep
     DEF LauncherWindowNext, SetExpanded

(* The invariant holds from the first start on, over every life of the      *)
(* process.                                                                 *)
THEOREM WindowInvariant == LauncherWindowSpec => []WindowInv
<1>1. LauncherWindowInit => WindowInv
  <2>1. LauncherWindowInit => TypeOK
    BY InitType
  <2>. QED
    BY <2>1, Zenon
       DEF LauncherWindowInit, WindowInv, LastCall, WindowFollowsView, WidensOnce, DiskFollowsWindow
<1>. QED
  BY <1>1, WindowStep, PTL DEF LauncherWindowSpec

(* Views opened and closed faster than the backend answers leave the window *)
(* as the open view wants it.                                               *)
THEOREM WindowFollows == LauncherWindowSpec => []WindowFollowsView
<1>1. WindowInv => WindowFollowsView
  BY DEF WindowInv
<1>. QED
  BY <1>1, WindowInvariant, PTL

(* The window is never more than one expansion wider than the user, the     *)
(* file or the last retraction left it.                                     *)
THEOREM WidensOnlyOnce == LauncherWindowSpec => []WidensOnce
<1>1. WindowInv => WidensOnce
  BY DEF WindowInv
<1>. QED
  BY <1>1, WindowInvariant, PTL

(* The file agrees with the window whenever no persist call is on its way,  *)
(* save for changes before the listeners and failed saves, until a save     *)
(* succeeds.                                                                *)
THEOREM FileFollows == LauncherWindowSpec => []DiskFollowsWindow
<1>1. WindowInv => DiskFollowsWindow
  BY DEF WindowInv
<1>. QED
  BY <1>1, WindowInvariant, PTL

(* A window that grows for a view ends within the display or starts at its  *)
(* left edge, however wide it is.                                           *)
THEOREM GrowthStaysOnScreen == LauncherWindowSpec => GrowsOnScreen
<1>1. TypeOK /\ Expand => x' + width' <= Display \/ x' = 0
  <2> SUFFICES ASSUME TypeOK, Expand PROVE x' + width' <= Display \/ x' = 0
    OBVIOUS
  <2>1. x \in 0 .. Display /\ width \in Nat /\ Expansion \in Nat /\ Display \in Nat
    BY LauncherWindowAssumption DEF TypeOK
  <2>2. width' = width + Expansion /\ x' = KeepOnScreen(x, width + Expansion)
    BY Zenon DEF Expand
  <2>. QED
    BY <2>1, <2>2 DEF KeepOnScreen, PushedBack, Larger
<1>2. TypeOK /\ [LauncherWindowNext]_launcherWindow
      => [up /\ Expand => x' + width' <= Display \/ x' = 0]_launcherWindow
  BY <1>1
<1>. QED
  BY <1>2, TypeCorrect, PTL DEF LauncherWindowSpec, GrowsOnScreen
=============================================================================
