-------------------------- MODULE DesktopShellProofs --------------------------
(***************************************************************************)
(* What TLAPS proves of an application on the desktop, for any number of   *)
(* messages on their way: the item of the tray's menu agrees with the main *)
(* window, the popup fits the screen above a taskbar at the bottom, and    *)
(* the title bar ends up showing what the window is.                       *)
(***************************************************************************)
EXTENDS DesktopShell, SequenceTheorems, TLAPS

(* What a window may be like, and the states of the popup's page. *)
MainWindow == [visible : BOOLEAN, minimised : BOOLEAN, maximised : BOOLEAN, onTop : BOOLEAN]
Views == {"menu", "update-notice"}
Heights == {1, 4, 6, 9}

(* A queue whose messages nothing needs to be known of. *)
IsQueue(q) == \E S : q \in Seq(S)

TypeInv ==
    /\ main \in MainWindow
    /\ popup \in [visible : BOOLEAN, top : Int, height : Heights]
    /\ tray \in [isMainWindowVisible : BOOLEAN, view : Views]
    /\ trayListening \in BOOLEAN /\ excused \in BOOLEAN
    /\ IsQueue(trayCommands) /\ IsQueue(trayEvents) /\ trayAnswers \in Seq(BOOLEAN)

(* Only a popup on the screen has the focus. *)
FocusInv == focus = "popup" => popup.visible

(* No question about the main window is still to be executed, and what the *)
(* page knows of it, or will once the answers have arrived.                *)
NoneAsked == \A i \in 1 .. Len(trayCommands) : trayCommands[i] # "isVisible"
LastKnown ==
    IF trayAnswers = << >> THEN tray.isMainWindowVisible ELSE trayAnswers[Len(trayAnswers)]

(* While no question is on its way, the last answer still holds. *)
KnowsInv ==
    popup.visible /\ ~excused /\ trayEvents = << >> /\ NoneAsked => LastKnown = main.visible

(* The popup stands above the icon, whatever its height. *)
PlaceInv == popup.visible /\ taskbar = "bottom" => popup.top + popup.height = IconTop - EDGE_GAP

IInv == TypeInv /\ FocusInv /\ KnowsInv /\ PlaceInv
-----------------------------------------------------------------------------
(* Adding to a queue and taking from it leaves a queue. *)
LEMMA QueueGrows ==
    ASSUME NEW q, IsQueue(q), NEW e
    PROVE  /\ IsQueue(Append(q, e)) /\ Append(q, e) # << >>
           /\ Len(Append(q, e)) = Len(q) + 1 /\ Len(q) \in Nat
           /\ Append(q, e)[Len(q) + 1] = e
           /\ \A i \in 1 .. Len(q) : Append(q, e)[i] = q[i]
<1>1. PICK S : q \in Seq(S)
  BY DEF IsQueue
<1>2. q \in Seq(S \cup {e}) /\ e \in S \cup {e}
  BY <1>1
<1>3. Append(q, e) \in Seq(S \cup {e})
  BY <1>2
<1>. QED
  BY <1>2, <1>3 DEF IsQueue

(* Two commands sent together are two commands sent one after the other. *)
LEMMA QueueGrowsByTwo ==
    ASSUME NEW q, IsQueue(q), NEW d, NEW e
    PROVE  q \o <<d, e>> = Append(Append(q, d), e)
<1>1. PICK S : q \in Seq(S)
  BY DEF IsQueue
<1>2. q \in Seq(S \cup {d, e}) /\ d \in S \cup {d, e} /\ e \in S \cup {d, e}
  BY <1>1
<1>. QED
  BY <1>2

LEMMA QueueShrinks ==
    ASSUME NEW q, IsQueue(q), q # << >>
    PROVE  /\ IsQueue(Tail(q)) /\ Len(q) \in Nat /\ Len(Tail(q)) = Len(q) - 1 /\ Head(q) = q[1]
           /\ \A i \in 1 .. Len(q) - 1 : Tail(q)[i] = q[i + 1]
<1>1. PICK S : q \in Seq(S)
  BY DEF IsQueue
<1>2. Tail(q) \in Seq(S)
  BY <1>1
<1>. QED
  BY <1>1, <1>2 DEF IsQueue

(* Adding nothing changes nothing, adding an event leaves one. *)
LEMMA QueueOfEvents ==
    ASSUME NEW q, IsQueue(q), NEW e
    PROVE  q \o << >> = q /\ q \o <<e>> = Append(q, e)
<1>1. PICK S : q \in Seq(S)
  BY DEF IsQueue
<1>2. q \in Seq(S \cup {e}) /\ e \in S \cup {e}
  BY <1>1
<1>. QED
  BY <1>2

(* The newest answer is the newest until it is the only one and is taken.  *)
LEMMA NewestStays ==
    ASSUME NEW S, NEW q \in Seq(S), q # << >>
    PROVE  /\ Tail(q) = << >> => Head(q) = q[Len(q)]
           /\ Tail(q) # << >> => Tail(q)[Len(Tail(q))] = q[Len(q)]
<1>1. Len(q) \in Nat /\ Len(q) > 0 /\ Head(q) = q[1] /\ Len(Tail(q)) = Len(q) - 1
  OBVIOUS
<1>2. Tail(q) = << >> <=> Len(Tail(q)) = 0
  <2>1. Tail(q) \in Seq(S)
    OBVIOUS
  <2>. QED
    BY <2>1, EmptySeq, Zenon
<1>3. CASE Len(q) = 1
  <2>1. Tail(q) = << >>
    BY <1>1, <1>2, <1>3
  <2>. QED
    BY <1>1, <1>3, <2>1
<1>4. CASE Len(q) > 1
  <2>1. Tail(q) # << >>
    BY <1>1, <1>2, <1>4
  <2>2. Tail(q)[Len(q) - 1] = q[Len(q)]
    BY <1>1, <1>4
  <2>. QED
    BY <1>1, <2>1, <2>2
<1>. QED
  BY <1>1, <1>3, <1>4

(* NoneAsked is about the members of the queue. *)
LEMMA NoneAskedMeaning == "isVisible" \notin ToSet(trayCommands) /\ IsQueue(trayCommands) => NoneAsked
<1>. SUFFICES ASSUME "isVisible" \notin ToSet(trayCommands), IsQueue(trayCommands),
                     NEW i \in 1 .. Len(trayCommands)
              PROVE  trayCommands[i] # "isVisible"
  BY DEF NoneAsked
<1>1. PICK S : trayCommands \in Seq(S)
  BY DEF IsQueue
<1>2. i \in DOMAIN trayCommands
  BY <1>1
<1>. QED
  BY <1>2 DEF ToSet
-----------------------------------------------------------------------------
(* How the process starts, the first time and after the menu's Quit.       *)
Starting ==
    /\ main = MainAtStart /\ focus = "main" /\ popup = PopupAtStart
    /\ tray = TrayAtStart /\ trayListening = FALSE /\ trayCommands = MountedCommands
    /\ trayAnswers = << >> /\ trayEvents = << >> /\ excused = FALSE

LEMMA StartsRight == Starting => IInv
<1>. SUFFICES ASSUME Starting PROVE IInv
  OBVIOUS
<1>1. IsQueue(trayCommands) /\ IsQueue(trayEvents)
  <2>1. << >> \in Seq({}) /\ MountedCommands \in Seq({"readyMenu", "isVisible"})
    BY DEF MountedCommands, Ready
  <2>. QED
    BY <2>1 DEF Starting, IsQueue
<1>2. TypeInv
  <2>1. main \in MainWindow
    BY DEF Starting, MainAtStart, MainWindow
  <2>2. popup \in [visible : BOOLEAN, top : Int, height : Heights]
    BY DEF Starting, PopupAtStart, Heights, INITIAL_HEIGHT
  <2>3. tray \in [isMainWindowVisible : BOOLEAN, view : Views] /\ trayListening \in BOOLEAN
    BY DEF Starting, TrayAtStart, Views
  <2>4. trayAnswers \in Seq(BOOLEAN) /\ excused \in BOOLEAN
    <3>1. << >> \in Seq(BOOLEAN)
      OBVIOUS
    <3>2. trayAnswers = << >> /\ excused = FALSE
      BY DEF Starting
    <3>. QED
      BY <3>1, <3>2, Zenon
  <2>. QED
    BY <1>1, <2>1, <2>2, <2>3, <2>4 DEF TypeInv
<1>3. FocusInv /\ KnowsInv /\ PlaceInv
  BY DEF Starting, FocusInv, KnowsInv, PlaceInv, PopupAtStart
<1>. QED
  BY <1>2, <1>3 DEF IInv

(* Steps that leave all the invariant is about as it is. *)
Aside == UNCHANGED <<taskbar, main, focus, popup, tray, trayListening, trayCommands,
                     trayAnswers, trayEvents, excused>>
LEMMA AsideStep == IInv /\ Aside => IInv'
BY DEF IInv, Aside, TypeInv, FocusInv, KnowsInv, PlaceInv, NoneAsked, LastKnown, IconTop

(* A step of the main window and the focus. The popup loses the focus or   *)
(* keeps it, and is excused if the window came or went under it.           *)
LEMMA ShownStep ==
    ASSUME IInv, NEW window \in MainWindow, NEW target \in {"main", "none", focus}, NEW resized,
           Shown(window, target, resized),
           UNCHANGED <<taskbar, tray, trayListening, trayAnswers, trayCommands>>
    PROVE  IInv'
<1>. USE DEF IInv
<1>1. /\ main' = window /\ focus' = target
      /\ popup' = [popup EXCEPT !.visible = popup.visible /\ target = "popup"]
      /\ excused' = (excused \/ (popup.visible /\ main'.visible # main.visible))
      /\ trayEvents' = trayEvents \o PopupFocusEvents(target)
  BY DEF Shown, DismissOnBlur, Excused
<1>2. trayEvents' = trayEvents
  <2>1. PopupFocusEvents(target) = << >>
    BY DEF PopupFocusEvents
  <2>. QED
    BY <1>1, <2>1, QueueOfEvents DEF TypeInv
<1>3. /\ popup'.visible \in BOOLEAN /\ popup'.visible = (popup.visible /\ target = "popup")
      /\ popup'.top = popup.top /\ popup'.height = popup.height
      /\ popup' \in [visible : BOOLEAN, top : Int, height : Heights]
  BY <1>1 DEF TypeInv
<1>4. TypeInv'
  BY <1>1, <1>2, <1>3 DEF TypeInv
<1>5. FocusInv'
  BY <1>1, <1>3 DEF FocusInv
<1>6. KnowsInv'
  <2>. SUFFICES ASSUME popup'.visible, ~excused', trayEvents' = << >>, NoneAsked'
                PROVE  LastKnown' = main'.visible
    BY DEF KnowsInv
  <2>1. popup.visible /\ ~excused /\ main'.visible = main.visible
    BY <1>1, <1>3
  <2>2. LastKnown = main.visible /\ LastKnown' = LastKnown
    BY <2>1, <1>2 DEF KnowsInv, NoneAsked, LastKnown
  <2>. QED
    BY <2>1, <2>2
<1>7. PlaceInv'
  BY <1>3 DEF PlaceInv, IconTop
<1>. QED
  BY <1>4, <1>5, <1>6, <1>7

(* Showing the popup puts it above the icon; it has no focus event to come *)
(* only if it had the focus already.                                       *)
LEMMA PopupShownStep ==
    ASSUME IInv, NEW from \in {"none", focus}, ShowPopupNear(from)
    PROVE  IInv'
<1>. USE DEF IInv
<1>1. /\ popup' = [popup EXCEPT !.visible = TRUE, !.top = TopNear(popup.height)]
      /\ focus' = "popup"
      /\ trayEvents' = trayEvents \o
           (IF trayListening /\ from # "popup" THEN <<"focused">> ELSE << >>)
      /\ excused' = IF popup.visible /\ from = "popup" THEN excused ELSE ~trayListening
      /\ UNCHANGED <<taskbar, main, tray, trayListening, trayCommands, trayAnswers>>
  BY DEF ShowPopupNear, fixed
<1>2. popup.height \in Int /\ TopNear(popup.height) \in Int
  BY DEF TypeInv, Heights, TopNear, IconTop, IconHeight, EDGE_GAP, ScreenHeight
<1>3. /\ popup'.visible = TRUE /\ popup'.top = TopNear(popup.height)
      /\ popup'.height = popup.height
      /\ popup' \in [visible : BOOLEAN, top : Int, height : Heights]
  BY <1>1, <1>2 DEF TypeInv
<1>4. IF trayListening /\ from # "popup"
      THEN trayEvents' = Append(trayEvents, "focused") ELSE trayEvents' = trayEvents
  BY <1>1, QueueOfEvents DEF TypeInv
<1>5. IsQueue(trayEvents') /\ (trayListening /\ from # "popup" => trayEvents' # << >>)
  <2>1. IsQueue(trayEvents)
    BY DEF TypeInv
  <2>2. IsQueue(Append(trayEvents, "focused")) /\ Append(trayEvents, "focused") # << >>
    BY <2>1, QueueGrows
  <2>3. CASE trayListening /\ from # "popup"
    BY <1>4, <2>2, <2>3, Zenon
  <2>4. CASE ~(trayListening /\ from # "popup")
    BY <1>4, <2>1, <2>4, Zenon
  <2>. QED
    BY <2>3, <2>4
<1>6. TypeInv'
  BY <1>1, <1>3, <1>5 DEF TypeInv
<1>7. FocusInv'
  BY <1>3 DEF FocusInv
<1>8. KnowsInv'
  <2>. SUFFICES ASSUME ~excused', trayEvents' = << >>, NoneAsked'
                PROVE  LastKnown' = main'.visible
    BY DEF KnowsInv
  <2>1. from = "popup" => popup.visible
    BY DEF FocusInv
  <2>2. popup.visible /\ ~excused /\ trayEvents = << >>
    BY <1>1, <1>4, <1>5, <2>1 DEF TypeInv
  <2>3. LastKnown = main.visible
    BY <1>1, <2>2 DEF KnowsInv, NoneAsked
  <2>. QED
    BY <1>1, <2>3 DEF LastKnown
<1>9. PlaceInv'
  <2>. SUFFICES ASSUME taskbar = "bottom"
                PROVE  TopNear(popup.height) + popup.height = IconTop - EDGE_GAP
    BY <1>1, <1>3 DEF PlaceInv, IconTop
  <2>1. popup.height \in Heights
    BY DEF TypeInv
  <2>. QED
    BY <2>1 DEF TopNear, IconTop, IconHeight, EDGE_GAP, ScreenHeight, Heights
<1>. QED
  BY <1>6, <1>7, <1>8, <1>9
-----------------------------------------------------------------------------
(* A command taken to be executed leaves the others, and no question has   *)
(* gone from the queue unless it is this one.                              *)
LEMMA Executed ==
    ASSUME IInv, NEW command, TrayExecuting(command)
    PROVE  /\ IsQueue(trayCommands')
           /\ command # "isVisible" /\ NoneAsked' => NoneAsked
<1>1. IsQueue(trayCommands) /\ trayCommands # << >> /\ Head(trayCommands) = command
      /\ trayCommands' = Tail(trayCommands)
  BY DEF IInv, TypeInv, TrayExecuting
<1>2. /\ IsQueue(Tail(trayCommands)) /\ Len(trayCommands) \in Nat
      /\ Len(Tail(trayCommands)) = Len(trayCommands) - 1 /\ Head(trayCommands) = trayCommands[1]
      /\ \A i \in 1 .. Len(trayCommands) - 1 : Tail(trayCommands)[i] = trayCommands[i + 1]
  BY <1>1, QueueShrinks
<1>3. ASSUME command # "isVisible", NoneAsked', NEW i \in 1 .. Len(trayCommands)
      PROVE  trayCommands[i] # "isVisible"
  <2>1. CASE i = 1
    BY <1>1, <1>2, <1>3, <2>1
  <2>2. CASE i # 1
    <3>1. i - 1 \in 1 .. Len(Tail(trayCommands)) /\ Tail(trayCommands)[i - 1] = trayCommands[i]
      BY <1>2, <2>2
    <3>. QED
      BY <1>1, <1>3, <3>1 DEF NoneAsked
  <2>. QED
    BY <2>1, <2>2
<1>. QED
  BY <1>1, <1>2, <1>3, Zenon DEF NoneAsked

(* A command sent leaves a queue, and takes no question from it. *)
LEMMA Sent ==
    ASSUME IInv, NEW command, trayCommands' = Append(trayCommands, command)
    PROVE  /\ IsQueue(trayCommands') /\ (NoneAsked' => NoneAsked)
           /\ command = "isVisible" => ~NoneAsked'
<1>1. IsQueue(trayCommands)
  BY DEF IInv, TypeInv
<1>2. /\ IsQueue(trayCommands') /\ Len(trayCommands') = Len(trayCommands) + 1
      /\ Len(trayCommands) \in Nat /\ trayCommands'[Len(trayCommands) + 1] = command
      /\ \A i \in 1 .. Len(trayCommands) : trayCommands'[i] = trayCommands[i]
  BY <1>1, QueueGrows
<1>3. NoneAsked' => NoneAsked
  BY <1>2 DEF NoneAsked
<1>4. command = "isVisible" => ~NoneAsked'
  <2>1. Len(trayCommands) + 1 \in 1 .. Len(trayCommands')
    BY <1>2
  <2>. QED
    BY <1>2, <2>1 DEF NoneAsked
<1>. QED
  BY <1>2, <1>3, <1>4

LEMMA SentTwo ==
    ASSUME IInv, NEW command, trayCommands' = trayCommands \o <<command, "dismiss">>
    PROVE  IsQueue(trayCommands') /\ (NoneAsked' => NoneAsked)
<1>1. IsQueue(trayCommands) /\ trayCommands' = Append(Append(trayCommands, command), "dismiss")
  BY QueueGrowsByTwo DEF IInv, TypeInv
<1>. DEFINE between == Append(trayCommands, command)
<1>2. /\ IsQueue(between) /\ Len(between) = Len(trayCommands) + 1 /\ Len(trayCommands) \in Nat
      /\ \A i \in 1 .. Len(trayCommands) : between[i] = trayCommands[i]
  BY <1>1, QueueGrows
<1>3. trayCommands' = Append(between, "dismiss")
  BY <1>1
<1>. HIDE DEF between
<1>4. /\ IsQueue(Append(between, "dismiss"))
      /\ Len(Append(between, "dismiss")) = Len(between) + 1
      /\ \A i \in 1 .. Len(between) : Append(between, "dismiss")[i] = between[i]
  BY <1>2, QueueGrows
<1>5. NoneAsked' => NoneAsked
  BY <1>2, <1>3, <1>4 DEF NoneAsked
<1>. QED
  BY <1>3, <1>4, <1>5

(* A step that keeps the popup where it is, or dismisses it, with no       *)
(* question answered and the windows as they are.                          *)
LEMMA CommandsStep ==
    ASSUME IInv, IsQueue(trayCommands'), NoneAsked' => NoneAsked,
           tray' \in [isMainWindowVisible : BOOLEAN, view : Views],
           tray'.isMainWindowVisible = tray.isMainWindowVisible,
           UNCHANGED <<taskbar, main, focus, popup, trayListening, trayAnswers, trayEvents, excused>>
    PROVE  IInv'
<1>1. TypeInv' /\ FocusInv' /\ PlaceInv'
  BY DEF IInv, TypeInv, FocusInv, PlaceInv, IconTop
<1>2. LastKnown' = LastKnown
  BY DEF LastKnown
<1>3. KnowsInv'
  BY <1>2 DEF IInv, KnowsInv
<1>. QED
  BY <1>1, <1>3 DEF IInv

(* A step that takes the popup off the screen, and the focus from it.      *)
LEMMA DismissedStep ==
    ASSUME IInv, IsQueue(trayCommands'), Dismissed, focus' # "popup", main' \in MainWindow,
           UNCHANGED <<taskbar, tray, trayListening, trayAnswers, trayEvents, excused>>
    PROVE  IInv'
<1>1. ~popup'.visible /\ popup' \in [visible : BOOLEAN, top : Int, height : Heights]
  BY DEF Dismissed, IInv, TypeInv
<1>2. TypeInv'
  BY <1>1 DEF IInv, TypeInv
<1>3. FocusInv' /\ KnowsInv' /\ PlaceInv'
  BY <1>1 DEF FocusInv, KnowsInv, PlaceInv
<1>. QED
  BY <1>2, <1>3 DEF IInv
-----------------------------------------------------------------------------
(* The commands and listeners of the main window's page, the taskbar and   *)
(* other programs.                                                         *)
LEMMA MainSteps ==
    ASSUME IInv,
           \/ State \/ Minimise \/ ToggleMaximise \/ Close \/ Hide
           \/ \E command \in {"pin", "unpin"} : SetAlwaysOnTop(command)
           \/ TaskbarButton \/ ClickElsewhere \/ ClickWindow
    PROVE  IInv'
<1>. DEFINE Kept == UNCHANGED <<taskbar, tray, trayListening, trayAnswers, trayCommands>>
<1>1. /\ \A command : Executing(command) => Kept
      /\ OutsidePages => Kept
  BY DEF Executing, OutsidePages, fixed
<1>2. main \in MainWindow /\ Unfocused("main") \in {"main", "none", focus}
  BY DEF IInv, TypeInv, Unfocused
<1>. HIDE DEF Kept
<1>3. \A window \in MainWindow, target \in {"main", "none", focus}, resized \in BOOLEAN :
        Shown(window, target, resized) /\ Kept => IInv'
  BY ShownStep DEF Kept
<1>4. CASE State
  BY <1>1, <1>2, <1>3, <1>4 DEF State
<1>5. CASE Minimise
  <2>1. PICK visible \in {main.visible, TRUE} :
          Shown([main EXCEPT !.minimised = TRUE, !.visible = visible], Unfocused("main"), TRUE)
    BY <1>5 DEF Minimise
  <2>2. [main EXCEPT !.minimised = TRUE, !.visible = visible] \in MainWindow
    BY <1>2 DEF MainWindow
  <2>. QED
    BY <1>1, <1>2, <1>3, <1>5, <2>1, <2>2 DEF Minimise
<1>6. CASE ToggleMaximise
  <2>1. PICK minimised \in {main.minimised, FALSE} :
          Shown([main EXCEPT !.maximised = ~@, !.minimised = minimised], focus, TRUE)
    BY <1>6 DEF ToggleMaximise
  <2>2. [main EXCEPT !.maximised = ~@, !.minimised = minimised] \in MainWindow
    BY <1>2 DEF MainWindow
  <2>. QED
    BY <1>1, <1>3, <1>6, <2>1, <2>2 DEF ToggleMaximise
<1>7. CASE Close \/ Hide
  <2>1. [main EXCEPT !.visible = FALSE] \in MainWindow
    BY <1>2 DEF MainWindow
  <2>. QED
    BY <1>1, <1>2, <1>3, <1>7, <2>1 DEF Close, Hide
<1>8. CASE \E command \in {"pin", "unpin"} : SetAlwaysOnTop(command)
  <2>1. PICK command \in {"pin", "unpin"} : SetAlwaysOnTop(command)
    BY <1>8
  <2>2. [main EXCEPT !.onTop = command = "pin"] \in MainWindow
    BY <1>2 DEF MainWindow
  <2>. QED
    BY <1>1, <1>3, <2>1, <2>2 DEF SetAlwaysOnTop
<1>9. CASE TaskbarButton
  <2>1. /\ [main EXCEPT !.minimised = TRUE] \in MainWindow
        /\ [main EXCEPT !.minimised = FALSE] \in MainWindow /\ main.minimised \in BOOLEAN
    BY <1>2 DEF MainWindow
  <2>. QED
    BY <1>1, <1>3, <1>9, <2>1 DEF TaskbarButton
<1>10. CASE ClickElsewhere \/ ClickWindow
  BY <1>1, <1>2, <1>3, <1>10 DEF ClickElsewhere, ClickWindow
<1>. QED
  BY <1>4, <1>5, <1>6, <1>7, <1>8, <1>9, <1>10

(* The commands of the popup's page. *)
LEMMA TrayCommandSteps ==
    ASSUME IInv,
           \/ \E view \in {"menu", "update-notice"} : MenuReady(view)
           \/ MainWindowIsVisible \/ MenuDismiss \/ ShowMainWindow \/ HideMainWindow
           \/ OpenElsewhere
    PROVE  IInv'
<1>. USE DEF IInv
<1>1. CASE \E view \in {"menu", "update-notice"} : MenuReady(view)
  <2>1. PICK view \in {"menu", "update-notice"} : MenuReady(view)
    BY <1>1
  <2>2. /\ TrayExecuting(Ready(view)) /\ Ready(view) # "isVisible"
        /\ UNCHANGED <<taskbar, main, focus, tray, trayListening, trayAnswers, trayEvents, excused>>
    BY <2>1 DEF MenuReady, TrayExecuting, Ready, fixed
  <2>3. ContentHeight(view) \in Heights /\ ContentHeight(view) \in Int
    BY DEF ContentHeight, Heights
  <2>4. popup' = [popup EXCEPT !.height = ContentHeight(view),
                               !.top = popup.top + popup.height - ContentHeight(view)]
    BY <2>1 DEF MenuReady, ResizePopup
  <2>5. popup.top \in Int /\ popup.height \in Int
    BY DEF TypeInv, Heights
  <2>6. /\ popup'.visible = popup.visible /\ popup'.top + popup'.height = popup.top + popup.height
        /\ popup' \in [visible : BOOLEAN, top : Int, height : Heights]
    <3>. DEFINE height == ContentHeight(view)
                top == popup.top + popup.height - height
    <3>1. height \in Heights /\ top \in Int /\ top + height = popup.top + popup.height
      BY <2>3, <2>5
    <3>2. popup' = [popup EXCEPT !.height = height, !.top = top]
      BY <2>4
    <3>. HIDE DEF height, top
    <3>3. popup \in [visible : BOOLEAN, top : Int, height : Heights]
      BY DEF TypeInv
    <3>4. popup'.visible = popup.visible /\ popup'.top = top /\ popup'.height = height
      BY <3>2, <3>3
    <3>5. popup' \in [visible : BOOLEAN, top : Int, height : Heights]
      BY <3>1, <3>2, <3>3
    <3>. QED
      BY <3>1, <3>4, <3>5
  <2>7. IsQueue(trayCommands') /\ (NoneAsked' => NoneAsked)
    BY <2>2, Executed
  <2>8. TypeInv' /\ FocusInv' /\ PlaceInv'
    BY <2>2, <2>6, <2>7 DEF TypeInv, FocusInv, PlaceInv, IconTop
  <2>9. KnowsInv'
    BY <2>2, <2>6, <2>7 DEF KnowsInv, LastKnown
  <2>. QED
    BY <2>8, <2>9
<1>2. CASE MainWindowIsVisible
  <2>1. /\ IsQueue(trayCommands') /\ trayAnswers' = Append(trayAnswers, main.visible)
        /\ UNCHANGED <<taskbar, main, focus, tray, trayListening, trayEvents, popup, excused>>
    BY <1>2, Executed DEF MainWindowIsVisible, TrayExecuting, fixed
  <2>2. main.visible \in BOOLEAN /\ trayAnswers \in Seq(BOOLEAN)
    BY DEF TypeInv, MainWindow
  <2>3. /\ trayAnswers' \in Seq(BOOLEAN) /\ trayAnswers' # << >>
        /\ trayAnswers'[Len(trayAnswers')] = main.visible
    BY <2>1, <2>2
  <2>4. TypeInv' /\ FocusInv' /\ PlaceInv'
    BY <2>1, <2>3 DEF TypeInv, FocusInv, PlaceInv, IconTop
  <2>5. KnowsInv'
    BY <2>1, <2>3 DEF KnowsInv, LastKnown
  <2>. QED
    BY <2>4, <2>5
<1>3. CASE MenuDismiss \/ ShowMainWindow \/ HideMainWindow
  <2>1. Dismissed /\ UNCHANGED <<taskbar, tray, trayListening, trayAnswers, trayEvents, excused>>
    BY <1>3 DEF MenuDismiss, ShowMainWindow, HideMainWindow, TrayExecuting, fixed
  <2>2. IsQueue(trayCommands')
    BY <1>3, Executed DEF MenuDismiss, ShowMainWindow, HideMainWindow
  <2>3. focus' # "popup"
    BY <1>3 DEF MenuDismiss, ShowMainWindow, HideMainWindow, Unfocused
  <2>4. main' \in MainWindow
    BY <1>3 DEF MenuDismiss, ShowMainWindow, HideMainWindow, TypeInv, MainWindow
  <2>. QED
    BY <2>1, <2>2, <2>3, <2>4, DismissedStep
<1>4. CASE OpenElsewhere
  <2>1. TrayExecuting("open")
    BY <1>4 DEF OpenElsewhere
  <2>2. IsQueue(trayCommands') /\ (NoneAsked' => NoneAsked)
    BY <2>1, Executed
  <2>3. /\ tray' = tray /\ tray \in [isMainWindowVisible : BOOLEAN, view : Views]
        /\ UNCHANGED <<taskbar, main, focus, popup, trayListening, trayAnswers, trayEvents, excused>>
    BY <1>4 DEF OpenElsewhere, TrayExecuting, fixed, TypeInv
  <2>. QED
    BY <2>2, <2>3, CommandsStep
<1>. QED
  BY <1>1, <1>2, <1>3, <1>4

(* The popup's page: its listener, the answers, and what the user does.    *)
LEMMA TrayPageSteps ==
    ASSUME IInv, TraySubscribe \/ TrayFocused \/ TrayAnswered \/ InMenu \/ UpdateNotice
    PROVE  IInv'
<1>. USE DEF IInv
<1>1. CASE TraySubscribe
  <2>1. trayListening' = TRUE /\ UNCHANGED <<taskbar, main, focus, popup, tray, trayCommands,
                                            trayAnswers, trayEvents, excused>>
    BY <1>1 DEF TraySubscribe, TrayPageOnly, fixed, mainWindow
  <2>. QED
    BY <2>1 DEF TypeInv, FocusInv, KnowsInv, PlaceInv, NoneAsked, LastKnown, IconTop
<1>2. CASE TrayFocused
  <2>1. /\ trayCommands' = Append(trayCommands, "isVisible") /\ trayEvents # << >>
        /\ trayEvents' = Tail(trayEvents) /\ IsQueue(trayEvents)
        /\ UNCHANGED <<taskbar, main, focus, popup, tray, trayListening, trayAnswers, excused>>
    BY <1>2 DEF TrayFocused, TrayPageOnly, fixed, mainWindow, TypeInv
  <2>2. IsQueue(trayCommands') /\ ~NoneAsked'
    BY <2>1, Sent
  <2>3. IsQueue(trayEvents')
    BY <2>1, QueueShrinks
  <2>4. TypeInv' /\ FocusInv' /\ PlaceInv'
    BY <2>1, <2>2, <2>3 DEF TypeInv, FocusInv, PlaceInv, IconTop
  <2>5. KnowsInv'
    BY <2>2 DEF KnowsInv
  <2>. QED
    BY <2>4, <2>5
<1>3. CASE TrayAnswered
  <2>1. /\ trayAnswers # << >> /\ trayAnswers' = Tail(trayAnswers)
        /\ tray' = [tray EXCEPT !.isMainWindowVisible = Head(trayAnswers)]
        /\ UNCHANGED <<taskbar, main, focus, popup, trayListening, trayCommands, trayEvents, excused>>
    BY <1>3 DEF TrayAnswered, TrayPageOnly, fixed, mainWindow
  <2>2. trayAnswers \in Seq(BOOLEAN) /\ Head(trayAnswers) \in BOOLEAN /\ trayAnswers' \in Seq(BOOLEAN)
    BY <2>1 DEF TypeInv
  <2>3. /\ tray'.isMainWindowVisible = Head(trayAnswers)
        /\ tray' \in [isMainWindowVisible : BOOLEAN, view : Views]
    BY <2>1, <2>2 DEF TypeInv
  <2>4. LastKnown' = LastKnown
    <3>1. /\ Tail(trayAnswers) = << >> => Head(trayAnswers) = trayAnswers[Len(trayAnswers)]
          /\ Tail(trayAnswers) # << >> =>
               Tail(trayAnswers)[Len(Tail(trayAnswers))] = trayAnswers[Len(trayAnswers)]
      BY <2>1, <2>2, NewestStays
    <3>. QED
      BY <2>1, <2>3, <3>1 DEF LastKnown
  <2>5. TypeInv' /\ FocusInv' /\ PlaceInv'
    BY <2>1, <2>2, <2>3 DEF TypeInv, FocusInv, PlaceInv, IconTop
  <2>6. KnowsInv'
    BY <2>1, <2>4 DEF KnowsInv, NoneAsked
  <2>. QED
    BY <2>5, <2>6
<1>4. CASE InMenu \/ UpdateNotice
  <2>1. UNCHANGED <<taskbar, main, focus, popup, trayListening, trayAnswers, trayEvents, excused>>
    BY <1>4 DEF InMenu, UpdateNotice, InPopup, TrayPageOnly, fixed, mainWindow
  <2>2. tray \in [isMainWindowVisible : BOOLEAN, view : Views]
    BY DEF TypeInv
  <2>3. ASSUME NEW view \in Views, SetView(view) PROVE IInv'
    <3>1. tray' = [tray EXCEPT !.view = view] /\ trayCommands' = Append(trayCommands, Ready(view))
      BY <2>3 DEF SetView
    <3>2. IsQueue(trayCommands') /\ (NoneAsked' => NoneAsked)
      BY <3>1, Sent
    <3>3. /\ tray' \in [isMainWindowVisible : BOOLEAN, view : Views]
          /\ tray'.isMainWindowVisible = tray.isMainWindowVisible
      BY <2>2, <3>1
    <3>. QED
      BY <2>1, <3>2, <3>3, CommandsStep
  <2>4. ASSUME NEW entry, ChooseAndDismiss(entry) PROVE IInv'
    <3>1. tray' = tray /\ trayCommands' = trayCommands \o <<entry.command, "dismiss">>
      BY <2>4 DEF ChooseAndDismiss
    <3>2. IsQueue(trayCommands') /\ (NoneAsked' => NoneAsked)
      BY <3>1, SentTwo
    <3>. QED
      BY <2>1, <2>2, <3>1, <3>2, CommandsStep
  <2>5. ASSUME MenuEscape PROVE IInv'
    <3>1. tray' = tray /\ trayCommands' = Append(trayCommands, "dismiss")
      BY <2>5 DEF MenuEscape
    <3>2. IsQueue(trayCommands') /\ (NoneAsked' => NoneAsked)
      BY <3>1, Sent
    <3>. QED
      BY <2>1, <2>2, <3>1, <3>2, CommandsStep
  <2>6. \A entry : Choose(entry) => IInv'
    BY <2>3, <2>4 DEF Choose, Views
  <2>7. MenuEnter => IInv'
    BY <2>6, Zenon DEF MenuEnter
  <2>. QED
    BY <1>4, <2>3, <2>5, <2>7 DEF InMenu, UpdateNotice, Views
<1>. QED
  BY <1>1, <1>2, <1>3, <1>4
-----------------------------------------------------------------------------
(* Every step keeps the invariant. *)
LEMMA StepsKeep == IInv /\ [DesktopShellNext]_desktopShell => IInv'
<1>. SUFFICES ASSUME IInv, [DesktopShellNext]_desktopShell PROVE IInv'
  OBVIOUS
<1>1. CASE \/ Subscribe \/ ReceiveEvent \/ ReceiveAnswer
           \/ \E command \in TitleBar : Click(command)
           \/ \E entry \in ToSet(TitlebarMenu) : ChooseFromTitlebar(entry)
  <2>1. PageKept
    BY <1>1, Zenon DEF Subscribe, ReceiveEvent, ReceiveAnswer, Click, ChooseFromTitlebar
  <2>2. Aside
    BY <2>1 DEF PageKept, Aside, fixed, trayPage
  <2>. QED
    BY <2>2, AsideStep
<1>2. CASE \/ State \/ Minimise \/ ToggleMaximise \/ Close \/ Hide
           \/ \E command \in {"pin", "unpin"} : SetAlwaysOnTop(command)
           \/ TaskbarButton \/ ClickElsewhere \/ ClickWindow
  BY <1>2, MainSteps
<1>3. CASE TrayPress \/ TrayRelease
  BY <1>3, PopupShownStep DEF TrayPress, TrayRelease
<1>4. CASE \/ \E view \in {"menu", "update-notice"} : MenuReady(view)
           \/ MainWindowIsVisible \/ MenuDismiss \/ ShowMainWindow \/ HideMainWindow
           \/ OpenElsewhere
  BY <1>4, TrayCommandSteps
<1>5. CASE TraySubscribe \/ TrayFocused \/ TrayAnswered \/ InMenu \/ UpdateNotice
  BY <1>5, TrayPageSteps
<1>6. CASE Quit
  <2>1. Starting'
    BY <1>6 DEF Quit, Starting
  <2>2. (Starting => IInv)'
    BY StartsRight, PTL
  <2>. QED
    BY <2>1, <2>2
<1>7. CASE UNCHANGED desktopShell
  <2>1. Aside
    BY <1>7 DEF desktopShell, fixed, mainWindow, trayPage, Aside
  <2>. QED
    BY <2>1, AsideStep
<1>. QED
  BY <1>1, <1>2, <1>3, <1>4, <1>5, <1>6, <1>7 DEF DesktopShellNext

(* The invariant holds in every state. *)
LEMMA Invariant == DesktopShellSpec => []IInv
<1>1. DesktopShellInit => IInv
  BY StartsRight DEF DesktopShellInit, Starting
<1>. QED
  BY <1>1, StepsKeep, PTL DEF DesktopShellSpec

(* The tray menu offers to hide a window that is shown and to show one that *)
(* is hidden (commands/tray.rs), however many messages are on their way     *)
(* between the two pages and the main thread.                               *)
THEOREM MenuAgrees == DesktopShellSpec => []ItemMatchesWindow
<1>1. IInv => ItemMatchesWindow
  <2>. SUFFICES ASSUME IInv, popup.visible, "isVisible" \notin ToSet(trayCommands),
                       trayAnswers = << >>, trayEvents = << >>, ~excused
                PROVE  tray.isMainWindowVisible = main.visible
    BY DEF ItemMatchesWindow
  <2>1. NoneAsked
    BY NoneAskedMeaning DEF IInv, TypeInv
  <2>2. LastKnown = main.visible
    BY <2>1 DEF IInv, KnowsInv
  <2>. QED
    BY <2>2 DEF LastKnown
<1>. QED
  BY <1>1, Invariant, PTL

(* A popup over a taskbar at the bottom stays on the screen and off the     *)
(* taskbar through every change of its height (tray.rs, resize_popup).      *)
THEOREM PopupStaysInPlace == DesktopShellSpec => []PopupFits
<1>1. IInv => PopupFits
  BY DEF IInv, TypeInv, PlaceInv, PopupFits, Heights, IconTop, EDGE_GAP, ScreenHeight
<1>. QED
  BY <1>1, Invariant, PTL

-----------------------------------------------------------------------------
(* What the chrome of the main window knows. Each of its three fields is    *)
(* told by some of the answers, and the last of those that is still on its  *)
(* way will be what the page shows.                                        *)
Visibilities == {"minimised", "visible", "hidden"}
PageStates ==
    [isMaximized : BOOLEAN, isFocused : BOOLEAN, visibility : Visibilities, isAlwaysOnTop : BOOLEAN]
Answers == [to : {"state", "toggle", "hide", "pin", "unpin"}, state : PageStates]
MainEvents == {"focused", "blurred", "resized"}

ChromeTypeInv ==
    /\ chrome \in PageStates /\ listening \in 0..3
    /\ answers \in Seq(Answers) /\ IsQueue(commands) /\ events \in Seq(MainEvents)

(* The last of the answers to one of some commands, and whether there is none.*)
LastTo(q, names, i) ==
    /\ i \in 1 .. Len(q) /\ q[i].to \in names
    /\ \A j \in 1 .. Len(q) : q[j].to \in names => j <= i
NoneTo(q, names) == \A i \in 1 .. Len(q) : q[i].to \notin names

TellsMaximised == {"state", "toggle"}
MaximisedInv ==
    /\ \A i : LastTo(answers, TellsMaximised, i) => answers[i].state.isMaximized = main.maximised
    /\ NoneTo(answers, TellsMaximised) => chrome.isMaximized = main.maximised

TellsPinned == {"state", "pin", "unpin"}
PinnedInv ==
    /\ \A i : LastTo(answers, TellsPinned, i) => answers[i].state.isAlwaysOnTop = main.onTop
    /\ NoneTo(answers, TellsPinned) => chrome.isAlwaysOnTop = main.onTop

(* Whether the window is minimised is not told by the command that does it, *)
(* but asked for by the listener of the resize. An answer to Hide says that *)
(* it is hidden; it was clicked in a window that was not minimised.         *)
TellsMinimised == {"state", "hide"}
SaysMinimised(answer) == answer.to = "state" /\ answer.state.visibility = "minimised"
Resized(es) == \E i \in 1 .. Len(es) : es[i] = "resized"
LastIn(q, names, i) ==
    /\ i \in 1 .. Len(q) /\ q[i] \in names
    /\ \A j \in 1 .. Len(q) : q[j] \in names => j <= i
NoneIn(q, names) == \A i \in 1 .. Len(q) : q[i] \notin names
MinimisedInv ==
    listening = 3 /\ ~Resized(events) =>
        /\ \A i : LastIn(commands, TellsMinimised, i) /\ commands[i] = "hide" => ~main.minimised
        /\ NoneIn(commands, TellsMinimised) =>
             /\ \A i : LastTo(answers, TellsMinimised, i) =>
                    (SaysMinimised(answers[i]) <=> main.minimised)
             /\ NoneTo(answers, TellsMinimised) =>
                    ((chrome.visibility = "minimised") <=> main.minimised)

ChromeInv == ChromeTypeInv /\ MaximisedInv /\ PinnedInv /\ MinimisedInv

(* Messages put behind the others, and the first one taken. *)
LEMMA LastToAppend ==
    ASSUME NEW q, IsQueue(q), NEW e, NEW names
    PROVE  /\ e.to \in names =>
                /\ \A i : LastTo(Append(q, e), names, i) => Append(q, e)[i] = e
                /\ ~NoneTo(Append(q, e), names)
           /\ e.to \notin names =>
                /\ \A i : LastTo(Append(q, e), names, i) =>
                        LastTo(q, names, i) /\ Append(q, e)[i] = q[i]
                /\ NoneTo(Append(q, e), names) => NoneTo(q, names)
<1>1. /\ Len(Append(q, e)) = Len(q) + 1 /\ Len(q) \in Nat
      /\ Append(q, e)[Len(q) + 1] = e
      /\ \A i \in 1 .. Len(q) : Append(q, e)[i] = q[i]
  BY QueueGrows
<1>2. Len(q) + 1 \in 1 .. Len(q) + 1 /\ 1 .. Len(q) + 1 = 1 .. Len(q) \cup {Len(q) + 1}
  BY <1>1
<1>. QED
  BY <1>1, <1>2 DEF LastTo, NoneTo

LEMMA LastToTail ==
    ASSUME NEW q, IsQueue(q), q # << >>, NEW names
    PROVE  /\ \A i : LastTo(Tail(q), names, i) => LastTo(q, names, i + 1) /\ Tail(q)[i] = q[i + 1]
           /\ NoneTo(Tail(q), names) =>
                IF Head(q).to \in names THEN LastTo(q, names, 1) ELSE NoneTo(q, names)
<1>1. /\ Len(q) \in Nat /\ Len(Tail(q)) = Len(q) - 1 /\ Head(q) = q[1]
      /\ \A i \in 1 .. Len(q) - 1 : Tail(q)[i] = q[i + 1]
  BY QueueShrinks
<1>2. 1 \in 1 .. Len(q)
  <2>1. PICK S : q \in Seq(S)
    BY DEF IsQueue
  <2>. QED
    BY <2>1
<1>3. \A j \in 1 .. Len(q) : j = 1 \/ (j - 1 \in 1 .. Len(q) - 1 /\ Tail(q)[j - 1] = q[j])
  BY <1>1
<1>4. ASSUME NEW i, LastTo(Tail(q), names, i)
      PROVE  LastTo(q, names, i + 1) /\ Tail(q)[i] = q[i + 1]
  <2>1. i \in 1 .. Len(q) - 1 /\ Tail(q)[i] = q[i + 1] /\ q[i + 1].to \in names
    BY <1>1, <1>4 DEF LastTo
  <2>2. ASSUME NEW j \in 1 .. Len(q), q[j].to \in names
        PROVE  j <= i + 1
    <3>1. CASE j = 1
      BY <2>1, <3>1
    <3>2. CASE j # 1
      <4>1. j - 1 \in 1 .. Len(q) - 1 /\ Tail(q)[j - 1].to \in names
        BY <1>3, <2>2, <3>2
      <4>2. j - 1 <= i
        BY <1>1, <1>4, <4>1 DEF LastTo
      <4>. QED
        BY <1>1, <2>1, <4>2
    <3>. QED
      BY <3>1, <3>2
  <2>. QED
    BY <1>1, <2>1, <2>2 DEF LastTo
<1>5. ASSUME NoneTo(Tail(q), names)
      PROVE  \A j \in 1 .. Len(q) : q[j].to \in names => j = 1
  BY <1>1, <1>3, <1>5 DEF NoneTo
<1>6. ASSUME NoneTo(Tail(q), names)
      PROVE  IF Head(q).to \in names THEN LastTo(q, names, 1) ELSE NoneTo(q, names)
  BY <1>1, <1>2, <1>5, <1>6 DEF NoneTo, LastTo
<1>. QED
  BY <1>4, <1>6

LEMMA LastInAppend ==
    ASSUME NEW q, IsQueue(q), NEW e, NEW names
    PROVE  /\ e \in names =>
                /\ \A i : LastIn(Append(q, e), names, i) => Append(q, e)[i] = e
                /\ ~NoneIn(Append(q, e), names)
           /\ e \notin names =>
                /\ \A i : LastIn(Append(q, e), names, i) =>
                        LastIn(q, names, i) /\ Append(q, e)[i] = q[i]
                /\ NoneIn(Append(q, e), names) => NoneIn(q, names)
<1>1. /\ Len(Append(q, e)) = Len(q) + 1 /\ Len(q) \in Nat
      /\ Append(q, e)[Len(q) + 1] = e
      /\ \A i \in 1 .. Len(q) : Append(q, e)[i] = q[i]
  BY QueueGrows
<1>2. Len(q) + 1 \in 1 .. Len(q) + 1 /\ 1 .. Len(q) + 1 = 1 .. Len(q) \cup {Len(q) + 1}
  BY <1>1
<1>. QED
  BY <1>1, <1>2 DEF LastIn, NoneIn

LEMMA LastInTail ==
    ASSUME NEW q, IsQueue(q), q # << >>, NEW names
    PROVE  /\ \A i : LastIn(Tail(q), names, i) => LastIn(q, names, i + 1) /\ Tail(q)[i] = q[i + 1]
           /\ NoneIn(Tail(q), names) =>
                IF Head(q) \in names THEN LastIn(q, names, 1) /\ q[1] = Head(q) ELSE NoneIn(q, names)
<1>1. /\ Len(q) \in Nat /\ Len(Tail(q)) = Len(q) - 1 /\ Head(q) = q[1]
      /\ \A i \in 1 .. Len(q) - 1 : Tail(q)[i] = q[i + 1]
  BY QueueShrinks
<1>2. 1 \in 1 .. Len(q)
  <2>1. PICK S : q \in Seq(S)
    BY DEF IsQueue
  <2>. QED
    BY <2>1
<1>3. \A j \in 1 .. Len(q) : j = 1 \/ (j - 1 \in 1 .. Len(q) - 1 /\ Tail(q)[j - 1] = q[j])
  BY <1>1
<1>4. ASSUME NEW i, LastIn(Tail(q), names, i)
      PROVE  LastIn(q, names, i + 1) /\ Tail(q)[i] = q[i + 1]
  <2>1. i \in 1 .. Len(q) - 1 /\ Tail(q)[i] = q[i + 1] /\ q[i + 1] \in names
    BY <1>1, <1>4 DEF LastIn
  <2>2. ASSUME NEW j \in 1 .. Len(q), q[j] \in names
        PROVE  j <= i + 1
    <3>1. CASE j = 1
      BY <2>1, <3>1
    <3>2. CASE j # 1
      <4>1. j - 1 \in 1 .. Len(q) - 1 /\ Tail(q)[j - 1] \in names
        BY <1>3, <2>2, <3>2
      <4>2. j - 1 <= i
        BY <1>1, <1>4, <4>1 DEF LastIn
      <4>. QED
        BY <1>1, <2>1, <4>2
    <3>. QED
      BY <3>1, <3>2
  <2>. QED
    BY <1>1, <2>1, <2>2 DEF LastIn
<1>5. ASSUME NoneIn(Tail(q), names)
      PROVE  \A j \in 1 .. Len(q) : q[j] \in names => j = 1
  BY <1>1, <1>3, <1>5 DEF NoneIn
<1>6. ASSUME NoneIn(Tail(q), names)
      PROVE  IF Head(q) \in names THEN LastIn(q, names, 1) /\ q[1] = Head(q) ELSE NoneIn(q, names)
  BY <1>1, <1>2, <1>5, <1>6 DEF NoneIn, LastIn
<1>. QED
  BY <1>4, <1>6

-----------------------------------------------------------------------------
(* What slate_window_state answers. *)
LEMMA WindowStateTells ==
    main \in MainWindow =>
        /\ WindowState \in PageStates
        /\ WindowState.isMaximized = main.maximised /\ WindowState.isAlwaysOnTop = main.onTop
        /\ (WindowState.visibility = "minimised") <=> main.minimised
<1>. SUFFICES ASSUME main \in MainWindow
              PROVE  /\ WindowState \in PageStates
                     /\ WindowState.isMaximized = main.maximised
                     /\ WindowState.isAlwaysOnTop = main.onTop
                     /\ (WindowState.visibility = "minimised") <=> main.minimised
  OBVIOUS
<1>1. /\ main.maximised \in BOOLEAN /\ main.onTop \in BOOLEAN /\ (focus = "main") \in BOOLEAN
      /\ main.minimised \in BOOLEAN /\ main.visible \in BOOLEAN
  BY DEF MainWindow
<1>2. PICK v : v = IF main.minimised THEN "minimised" ELSE IF main.visible THEN "visible" ELSE "hidden"
  OBVIOUS
<1>3. v \in Visibilities /\ ((v = "minimised") <=> main.minimised)
  BY <1>1, <1>2 DEF Visibilities
<1>4. WindowState = [isMaximized |-> main.maximised, isFocused |-> focus = "main",
                     visibility |-> v, isAlwaysOnTop |-> main.onTop]
  BY <1>2, Zenon DEF WindowState
<1>. QED
  BY <1>1, <1>3, <1>4 DEF PageStates

(* More events leave a resize that is coming where it is. *)
LEMMA EventsGrow ==
    ASSUME NEW q \in Seq(MainEvents), NEW r \in Seq(MainEvents)
    PROVE  /\ q \o r \in Seq(MainEvents)
           /\ Resized(q) \/ Resized(r) => Resized(q \o r)
<1>1. /\ q \o r \in Seq(MainEvents) /\ Len(q \o r) = Len(q) + Len(r)
      /\ Len(q) \in Nat /\ Len(r) \in Nat
      /\ \A i \in 1 .. Len(q) : (q \o r)[i] = q[i]
      /\ \A i \in 1 .. Len(r) : (q \o r)[Len(q) + i] = r[i]
  OBVIOUS
<1>2. Resized(q) => Resized(q \o r)
  BY <1>1 DEF Resized
<1>3. ASSUME NEW i \in 1 .. Len(r), r[i] = "resized"
      PROVE  Resized(q \o r)
  <2>1. Len(q) + i \in 1 .. Len(q \o r) /\ (q \o r)[Len(q) + i] = "resized"
    BY <1>1, <1>3
  <2>. QED
    BY <2>1 DEF Resized
<1>. QED
  BY <1>1, <1>2, <1>3 DEF Resized

LEMMA EventsOfFocus ==
    ASSUME NEW target
    PROVE  FocusEvents(target) \in Seq(MainEvents)
<1>1. << >> \in Seq(MainEvents) /\ <<"focused">> \in Seq(MainEvents) /\ <<"blurred">> \in Seq(MainEvents)
  BY DEF MainEvents
<1>. QED
  BY <1>1 DEF FocusEvents

LEMMA EventsOfResize ==
    ASSUME ChromeTypeInv
    PROVE  /\ ResizedEvents \in Seq(MainEvents) /\ << >> \in Seq(MainEvents)
           /\ listening = 3 => Resized(ResizedEvents)
<1>1. << >> \in Seq(MainEvents) /\ <<"resized">> \in Seq(MainEvents) /\ Resized(<<"resized">>)
  BY DEF MainEvents, Resized
<1>. QED
  BY <1>1 DEF ResizedEvents, ChromeTypeInv

LEMMA ShownEvents ==
    ASSUME ChromeTypeInv, NEW window, NEW target, NEW resized \in BOOLEAN, Shown(window, target, resized)
    PROVE  /\ events' \in Seq(MainEvents) /\ (Resized(events) => Resized(events'))
           /\ resized /\ listening = 3 => Resized(events')
<1>1. PICK r : r = IF resized THEN ResizedEvents ELSE << >>
  OBVIOUS
<1>2. events' = events \o FocusEvents(target) \o r
  BY <1>1 DEF Shown
<1>3. r \in Seq(MainEvents) /\ (resized /\ listening = 3 => Resized(r))
  BY <1>1, EventsOfResize
<1>4. /\ events \o FocusEvents(target) \in Seq(MainEvents)
      /\ Resized(events) => Resized(events \o FocusEvents(target))
  BY EventsOfFocus, EventsGrow DEF ChromeTypeInv
<1>. QED
  BY <1>2, <1>3, <1>4, EventsGrow

(* Steps in which the page and its commands take no part. *)
LEMMA OutsideStep ==
    ASSUME ChromeInv, UNCHANGED <<chrome, listening, commands, answers>>,
           events' \in Seq(MainEvents), Resized(events) => Resized(events'),
           main'.maximised = main.maximised, main'.onTop = main.onTop,
           main'.minimised = main.minimised \/ listening # 3 \/ Resized(events')
    PROVE  ChromeInv'
<1>1. ChromeTypeInv'
  BY DEF ChromeInv, ChromeTypeInv
<1>2. MaximisedInv' /\ PinnedInv'
  BY DEF ChromeInv, MaximisedInv, PinnedInv
<1>3. MinimisedInv'
  BY DEF ChromeInv, MinimisedInv, Resized
<1>. QED
  BY <1>1, <1>2, <1>3 DEF ChromeInv

(* A command is executed, and answered or not. *)
LEMMA AnsweredStep ==
    ASSUME ChromeInv, main \in MainWindow, main' \in MainWindow,
           commands # << >>, commands' = Tail(commands),
           NEW c \in {"state", "toggle", "hide", "pin", "unpin"}, Head(commands) = c,
           answers' = Append(answers, [to |-> c, state |-> WindowState']),
           UNCHANGED <<chrome, listening>>,
           events' \in Seq(MainEvents), Resized(events) => Resized(events'),
           c \in TellsMaximised \/ main'.maximised = main.maximised,
           c \in TellsPinned \/ main'.onTop = main.onTop,
           main'.minimised = main.minimised \/ listening # 3 \/ Resized(events')
    PROVE  ChromeInv'
<1>1. PICK a : a = [to |-> c, state |-> WindowState']
  OBVIOUS
<1>2. /\ WindowState' \in PageStates
      /\ WindowState'.isMaximized = main'.maximised /\ WindowState'.isAlwaysOnTop = main'.onTop
      /\ (WindowState'.visibility = "minimised") <=> main'.minimised
  <2>1. (main \in MainWindow =>
            /\ WindowState \in PageStates
            /\ WindowState.isMaximized = main.maximised /\ WindowState.isAlwaysOnTop = main.onTop
            /\ (WindowState.visibility = "minimised") <=> main.minimised)'
    BY WindowStateTells, PTL
  <2>. QED
    BY <2>1
<1>3. /\ a \in Answers /\ a.to = c /\ a.state.isMaximized = main'.maximised
      /\ a.state.isAlwaysOnTop = main'.onTop
      /\ SaysMinimised(a) <=> c = "state" /\ main'.minimised
  <2>1. a.to = c /\ a.state = WindowState'
    BY <1>1
  <2>2. a \in Answers
    BY <1>1, <1>2 DEF Answers
  <2>. QED
    BY <1>2, <2>1, <2>2 DEF SaysMinimised
<1>4. IsQueue(answers) /\ IsQueue(commands) /\ answers' = Append(answers, a)
  BY <1>1 DEF ChromeInv, ChromeTypeInv, IsQueue
<1>5. ChromeTypeInv'
  <2>1. IsQueue(commands')
    BY <1>4, QueueShrinks
  <2>2. answers' \in Seq(Answers)
    BY <1>3, <1>4 DEF ChromeInv, ChromeTypeInv
  <2>. QED
    BY <2>1, <2>2 DEF ChromeInv, ChromeTypeInv
<1>6. \A names :
        /\ c \in names =>
             /\ \A i : LastTo(answers', names, i) => answers'[i] = a
             /\ ~NoneTo(answers', names)
        /\ c \notin names =>
             /\ \A i : LastTo(answers', names, i) => LastTo(answers, names, i) /\ answers'[i] = answers[i]
             /\ NoneTo(answers', names) => NoneTo(answers, names)
  <2>. TAKE names
  <2>1. a.to = c
    BY <1>3
  <2>2. /\ a.to \in names =>
             /\ \A i : LastTo(Append(answers, a), names, i) => Append(answers, a)[i] = a
             /\ ~NoneTo(Append(answers, a), names)
        /\ a.to \notin names =>
             /\ \A i : LastTo(Append(answers, a), names, i) =>
                     LastTo(answers, names, i) /\ Append(answers, a)[i] = answers[i]
             /\ NoneTo(Append(answers, a), names) => NoneTo(answers, names)
    BY <1>4, LastToAppend
  <2>. QED
    BY <1>4, <2>1, <2>2, Zenon
<1>7. /\ \A i : LastIn(commands', TellsMinimised, i) =>
               LastIn(commands, TellsMinimised, i + 1) /\ commands'[i] = commands[i + 1]
      /\ NoneIn(commands', TellsMinimised) =>
            IF c \in TellsMinimised
            THEN LastIn(commands, TellsMinimised, 1) /\ commands[1] = c
            ELSE NoneIn(commands, TellsMinimised)
  BY <1>4, LastInTail
<1>8. MaximisedInv'
  <2>1. CASE c \in TellsMaximised
    BY <1>3, <1>6, <2>1 DEF MaximisedInv
  <2>2. CASE c \notin TellsMaximised
    BY <1>6, <2>2 DEF MaximisedInv, ChromeInv
  <2>. QED
    BY <2>1, <2>2
<1>9. PinnedInv'
  <2>1. CASE c \in TellsPinned
    BY <1>3, <1>6, <2>1 DEF PinnedInv
  <2>2. CASE c \notin TellsPinned
    BY <1>6, <2>2 DEF PinnedInv, ChromeInv
  <2>. QED
    BY <2>1, <2>2
<1>10. MinimisedInv'
  <2>. SUFFICES ASSUME listening = 3, ~Resized(events')
                PROVE  /\ \A i : LastIn(commands', TellsMinimised, i) /\ commands'[i] = "hide" =>
                                    ~main'.minimised
                       /\ NoneIn(commands', TellsMinimised) =>
                            /\ \A i : LastTo(answers', TellsMinimised, i) =>
                                    (SaysMinimised(answers'[i]) <=> main'.minimised)
                            /\ NoneTo(answers', TellsMinimised) =>
                                    ((chrome.visibility = "minimised") <=> main'.minimised)
    BY DEF MinimisedInv, SaysMinimised
  <2>1. main'.minimised = main.minimised /\ ~Resized(events)
    OBVIOUS
  <2>2. \A i : LastIn(commands', TellsMinimised, i) /\ commands'[i] = "hide" => ~main'.minimised
    BY <1>7, <2>1 DEF ChromeInv, MinimisedInv
  <2>3. ASSUME NoneIn(commands', TellsMinimised)
        PROVE  /\ \A i : LastTo(answers', TellsMinimised, i) =>
                    (SaysMinimised(answers'[i]) <=> main'.minimised)
               /\ NoneTo(answers', TellsMinimised) =>
                    ((chrome.visibility = "minimised") <=> main'.minimised)
    <3>1. CASE c \in TellsMinimised
      <4>1. LastIn(commands, TellsMinimised, 1) /\ commands[1] = c
        BY <1>7, <2>3, <3>1
      <4>2. c = "hide" => ~main'.minimised
        BY <2>1, <4>1 DEF ChromeInv, MinimisedInv
      <4>3. SaysMinimised(a) <=> main'.minimised
        BY <1>3, <3>1, <4>2 DEF TellsMinimised
      <4>. QED
        BY <1>6, <3>1, <4>3
    <3>2. CASE c \notin TellsMinimised
      <4>1. NoneIn(commands, TellsMinimised)
        BY <1>7, <2>3, <3>2
      <4>2. /\ \A i : LastTo(answers, TellsMinimised, i) => (SaysMinimised(answers[i]) <=> main.minimised)
            /\ NoneTo(answers, TellsMinimised) => ((chrome.visibility = "minimised") <=> main.minimised)
        BY <2>1, <4>1 DEF ChromeInv, MinimisedInv
      <4>. QED
        BY <1>6, <2>1, <3>2, <4>2
    <3>. QED
      BY <3>1, <3>2
  <2>. QED
    BY <2>2, <2>3
<1>. QED
  BY <1>5, <1>8, <1>9, <1>10 DEF ChromeInv

LEMMA UnansweredStep ==
    ASSUME ChromeInv, commands # << >>, commands' = Tail(commands), Head(commands) \notin TellsMinimised,
           UNCHANGED <<chrome, listening, answers>>,
           events' \in Seq(MainEvents), Resized(events) => Resized(events'),
           main'.maximised = main.maximised, main'.onTop = main.onTop,
           main'.minimised = main.minimised \/ listening # 3 \/ Resized(events')
    PROVE  ChromeInv'
<1>1. IsQueue(commands) /\ IsQueue(commands')
  BY QueueShrinks DEF ChromeInv, ChromeTypeInv
<1>2. /\ \A i : LastIn(commands', TellsMinimised, i) =>
               LastIn(commands, TellsMinimised, i + 1) /\ commands'[i] = commands[i + 1]
      /\ NoneIn(commands', TellsMinimised) => NoneIn(commands, TellsMinimised)
  <2>1. /\ \A i : LastIn(Tail(commands), TellsMinimised, i) =>
                 LastIn(commands, TellsMinimised, i + 1) /\ Tail(commands)[i] = commands[i + 1]
        /\ NoneIn(Tail(commands), TellsMinimised) =>
                 IF Head(commands) \in TellsMinimised
                 THEN LastIn(commands, TellsMinimised, 1) /\ commands[1] = Head(commands)
                 ELSE NoneIn(commands, TellsMinimised)
    BY <1>1, LastInTail
  <2>. QED
    BY <2>1, Zenon
<1>3. ChromeTypeInv'
  BY <1>1 DEF ChromeInv, ChromeTypeInv
<1>4. MaximisedInv' /\ PinnedInv'
  BY DEF ChromeInv, MaximisedInv, PinnedInv
<1>5. MinimisedInv'
  <2>. SUFFICES ASSUME listening = 3, ~Resized(events')
                PROVE  /\ \A i : LastIn(commands', TellsMinimised, i) /\ commands'[i] = "hide" =>
                                    ~main'.minimised
                       /\ NoneIn(commands', TellsMinimised) =>
                            /\ \A i : LastTo(answers, TellsMinimised, i) =>
                                    (SaysMinimised(answers[i]) <=> main'.minimised)
                            /\ NoneTo(answers, TellsMinimised) =>
                                    ((chrome.visibility = "minimised") <=> main'.minimised)
    BY DEF MinimisedInv, SaysMinimised
  <2>1. main'.minimised = main.minimised /\ ~Resized(events)
    OBVIOUS
  <2>2. \A i : LastIn(commands', TellsMinimised, i) /\ commands'[i] = "hide" => ~main'.minimised
    BY <1>2, <2>1 DEF ChromeInv, MinimisedInv
  <2>. QED
    BY <1>2, <2>1, <2>2 DEF ChromeInv, MinimisedInv
<1>. QED
  BY <1>3, <1>4, <1>5 DEF ChromeInv

(* The page sends a command: a question about the window, or one that is    *)
(* chosen in a window that is not minimised.                               *)
LEMMA AskingStep ==
    ASSUME ChromeInv, commands' = Append(commands, "state"), events' \in Seq(MainEvents),
           listening' \in 0..3, UNCHANGED <<main, chrome, answers>>
    PROVE  ChromeInv'
<1>1. IsQueue(commands) /\ IsQueue(commands')
  BY QueueGrows DEF ChromeInv, ChromeTypeInv
<1>2. "state" \in TellsMinimised
  BY DEF TellsMinimised
<1>3. /\ \A i : LastIn(commands', TellsMinimised, i) => commands'[i] = "state"
      /\ ~NoneIn(commands', TellsMinimised)
  <2>1. /\ \A i : LastIn(Append(commands, "state"), TellsMinimised, i) =>
                 Append(commands, "state")[i] = "state"
        /\ ~NoneIn(Append(commands, "state"), TellsMinimised)
    BY <1>1, <1>2, LastInAppend
  <2>. QED
    BY <2>1, Zenon
<1>4. ChromeTypeInv'
  BY <1>1 DEF ChromeInv, ChromeTypeInv
<1>5. MaximisedInv' /\ PinnedInv'
  BY DEF ChromeInv, MaximisedInv, PinnedInv
<1>6. MinimisedInv'
  BY <1>3 DEF MinimisedInv
<1>. QED
  BY <1>4, <1>5, <1>6 DEF ChromeInv

LEMMA ClickStep ==
    ASSUME ChromeInv, NEW c, Click(c)
    PROVE  ChromeInv'
<1>1. /\ commands' = Append(commands, c) /\ ~main.minimised
      /\ UNCHANGED <<main, chrome, listening, answers, events>>
  BY DEF Click, OnScreen, PageKept, fixed
<1>2. IsQueue(commands) /\ IsQueue(commands')
  BY <1>1, QueueGrows DEF ChromeInv, ChromeTypeInv
<1>3. CASE c \in TellsMinimised
  <2>1. ~NoneIn(commands', TellsMinimised)
    BY <1>1, <1>2, <1>3, LastInAppend
  <2>2. MinimisedInv'
    BY <1>1, <2>1 DEF MinimisedInv
  <2>. QED
    BY <1>1, <1>2, <2>2 DEF ChromeInv, ChromeTypeInv, MaximisedInv, PinnedInv
<1>4. CASE c \notin TellsMinimised
  <2>1. NoneIn(commands', TellsMinimised) => NoneIn(commands, TellsMinimised)
    BY <1>1, <1>2, <1>4, LastInAppend
  <2>2. MinimisedInv'
    BY <1>1, <2>1 DEF ChromeInv, MinimisedInv, SaysMinimised, Resized
  <2>. QED
    BY <1>1, <1>2, <2>2 DEF ChromeInv, ChromeTypeInv, MaximisedInv, PinnedInv
<1>. QED
  BY <1>3, <1>4

LEMMA SubscribeStep ==
    ASSUME ChromeInv, Subscribe
    PROVE  ChromeInv'
<1>1. /\ listening < 3 /\ listening' = listening + 1
      /\ commands' = IF listening' = 3 THEN Append(commands, "state") ELSE commands
      /\ UNCHANGED <<main, chrome, answers, events>> /\ events \in Seq(MainEvents)
      /\ listening \in 0..3 /\ listening' \in 0..3
  BY DEF Subscribe, PageKept, fixed, ChromeInv, ChromeTypeInv
<1>2. CASE listening' = 3
  BY <1>1, <1>2, AskingStep
<1>3. CASE listening' # 3
  BY <1>1, <1>3 DEF ChromeInv, ChromeTypeInv, MaximisedInv, PinnedInv, MinimisedInv
<1>. QED
  BY <1>2, <1>3

LEMMA EventStep ==
    ASSUME ChromeInv, ReceiveEvent
    PROVE  ChromeInv'
<1>1. /\ events # << >> /\ events' = Tail(events) /\ events \in Seq(MainEvents)
      /\ UNCHANGED <<main, listening, answers>> /\ listening' \in 0..3
  BY DEF ReceiveEvent, PageKept, fixed, ChromeInv, ChromeTypeInv
<1>2. /\ events' \in Seq(MainEvents) /\ Len(events) \in Nat /\ Len(events') = Len(events) - 1
      /\ Head(events) = events[1] /\ \A i \in 1 .. Len(events) - 1 : events'[i] = events[i + 1]
  BY <1>1
<1>3. CASE Head(events) = "resized"
  <2>1. commands' = Append(commands, "state") /\ UNCHANGED chrome
    BY <1>3 DEF ReceiveEvent
  <2>. QED
    BY <1>1, <1>2, <2>1, AskingStep
<1>4. CASE Head(events) # "resized"
  <2>1. chrome' = [chrome EXCEPT !.isFocused = Head(events) = "focused"] /\ UNCHANGED commands
    BY <1>4 DEF ReceiveEvent
  <2>2. PICK f : f = (Head(events) = "focused") /\ f \in BOOLEAN
    OBVIOUS
  <2>3. chrome \in PageStates
    BY DEF ChromeInv, ChromeTypeInv
  <2>4. chrome' = [chrome EXCEPT !.isFocused = f]
    BY <2>1, <2>2, Zenon
  <2>5. /\ chrome' \in PageStates /\ chrome'.isMaximized = chrome.isMaximized
        /\ chrome'.isAlwaysOnTop = chrome.isAlwaysOnTop /\ chrome'.visibility = chrome.visibility
    BY <2>2, <2>3, <2>4 DEF PageStates
  <2>6. Resized(events) => Resized(events')
    <3>. SUFFICES ASSUME NEW i \in 1 .. Len(events), events[i] = "resized"
                  PROVE  Resized(events')
      BY DEF Resized
    <3>1. i # 1
      BY <1>2, <1>4
    <3>2. i - 1 \in 1 .. Len(events') /\ events'[i - 1] = "resized"
      BY <1>2, <3>1
    <3>. QED
      BY <3>2 DEF Resized
  <2>7. ChromeTypeInv'
    BY <1>1, <1>2, <2>1, <2>5 DEF ChromeInv, ChromeTypeInv
  <2>8. MaximisedInv' /\ PinnedInv'
    BY <1>1, <2>5 DEF ChromeInv, MaximisedInv, PinnedInv
  <2>9. MinimisedInv'
    BY <1>1, <2>1, <2>5, <2>6 DEF ChromeInv, MinimisedInv, SaysMinimised
  <2>. QED
    BY <2>7, <2>8, <2>9 DEF ChromeInv
<1>. QED
  BY <1>3, <1>4

(* An answer is taken from the queue and shown. *)
LEMMA AnswerStep ==
    ASSUME ChromeInv, ReceiveAnswer
    PROVE  ChromeInv'
<1>1. /\ answers # << >> /\ answers' = Tail(answers) /\ answers \in Seq(Answers)
      /\ UNCHANGED <<main, listening, commands, events>> /\ chrome \in PageStates
  BY DEF ReceiveAnswer, PageKept, fixed, ChromeInv, ChromeTypeInv
<1>2. PICK a : a = Head(answers)
  OBVIOUS
<1>3. a \in Answers /\ a = answers[1] /\ answers' \in Seq(Answers) /\ IsQueue(answers)
  BY <1>1, <1>2 DEF IsQueue
<1>4. a.to \in {"state", "toggle", "hide", "pin", "unpin"} /\ a.state \in PageStates
  BY <1>3 DEF Answers
<1>5. chrome' = CASE a.to = "state" -> a.state
                  [] a.to = "toggle" -> [chrome EXCEPT !.isMaximized = a.state.isMaximized]
                  [] a.to = "hide" -> [chrome EXCEPT !.visibility = "hidden"]
                  [] OTHER -> [chrome EXCEPT !.isAlwaysOnTop = a.state.isAlwaysOnTop]
  BY <1>2 DEF ReceiveAnswer
<1>6. /\ chrome' \in PageStates
      /\ chrome'.isMaximized =
            IF a.to \in TellsMaximised THEN a.state.isMaximized ELSE chrome.isMaximized
      /\ chrome'.isAlwaysOnTop =
            IF a.to \in TellsPinned THEN a.state.isAlwaysOnTop ELSE chrome.isAlwaysOnTop
      /\ (chrome'.visibility = "minimised") <=>
            IF a.to \in TellsMinimised THEN SaysMinimised(a) ELSE chrome.visibility = "minimised"
  <2>. USE DEF PageStates, Visibilities, TellsMaximised, TellsPinned, TellsMinimised, SaysMinimised
  <2>1. CASE a.to = "state"
    <3>1. chrome' = a.state
      BY <1>5, <2>1
    <3>. QED
      BY <1>4, <2>1, <3>1
  <2>2. CASE a.to = "toggle"
    <3>1. chrome' = [chrome EXCEPT !.isMaximized = a.state.isMaximized]
      BY <1>5, <2>2
    <3>. QED
      BY <1>1, <1>4, <2>2, <3>1
  <2>3. CASE a.to = "hide"
    <3>1. chrome' = [chrome EXCEPT !.visibility = "hidden"]
      BY <1>5, <2>3
    <3>. QED
      BY <1>1, <1>4, <2>3, <3>1
  <2>4. CASE a.to \in {"pin", "unpin"}
    <3>1. chrome' = [chrome EXCEPT !.isAlwaysOnTop = a.state.isAlwaysOnTop]
      BY <1>5, <2>4
    <3>. QED
      BY <1>1, <1>4, <2>4, <3>1
  <2>. QED
    BY <1>4, <2>1, <2>2, <2>3, <2>4
<1>7. \A names :
        /\ \A i : LastTo(answers', names, i) => LastTo(answers, names, i + 1) /\ answers'[i] = answers[i + 1]
        /\ NoneTo(answers', names) =>
             IF a.to \in names THEN LastTo(answers, names, 1) ELSE NoneTo(answers, names)
  <2>. TAKE names
  <2>1. /\ \A i : LastTo(Tail(answers), names, i) =>
                LastTo(answers, names, i + 1) /\ Tail(answers)[i] = answers[i + 1]
        /\ NoneTo(Tail(answers), names) =>
                IF Head(answers).to \in names THEN LastTo(answers, names, 1) ELSE NoneTo(answers, names)
    BY <1>1, <1>3, LastToTail
  <2>. QED
    BY <1>1, <1>2, <2>1, Zenon
<1>8. ChromeTypeInv'
  BY <1>1, <1>3, <1>6 DEF ChromeInv, ChromeTypeInv
<1>9. MaximisedInv'
  <2>1. /\ \A i : LastTo(answers, TellsMaximised, i) => answers[i].state.isMaximized = main.maximised
        /\ NoneTo(answers, TellsMaximised) => chrome.isMaximized = main.maximised
    BY DEF ChromeInv, MaximisedInv
  <2>2. \A i : LastTo(answers', TellsMaximised, i) => answers'[i].state.isMaximized = main.maximised
    BY <1>7, <2>1
  <2>3. NoneTo(answers', TellsMaximised) => chrome'.isMaximized = main.maximised
    BY <1>3, <1>6, <1>7, <2>1
  <2>. QED
    BY <1>1, <2>2, <2>3 DEF MaximisedInv
<1>10. PinnedInv'
  <2>1. /\ \A i : LastTo(answers, TellsPinned, i) => answers[i].state.isAlwaysOnTop = main.onTop
        /\ NoneTo(answers, TellsPinned) => chrome.isAlwaysOnTop = main.onTop
    BY DEF ChromeInv, PinnedInv
  <2>2. \A i : LastTo(answers', TellsPinned, i) => answers'[i].state.isAlwaysOnTop = main.onTop
    BY <1>7, <2>1
  <2>3. NoneTo(answers', TellsPinned) => chrome'.isAlwaysOnTop = main.onTop
    BY <1>3, <1>6, <1>7, <2>1
  <2>. QED
    BY <1>1, <2>2, <2>3 DEF PinnedInv
<1>11. MinimisedInv'
  <2>. SUFFICES ASSUME listening = 3, ~Resized(events)
                PROVE  /\ \A i : LastIn(commands, TellsMinimised, i) /\ commands[i] = "hide" => ~main.minimised
                       /\ NoneIn(commands, TellsMinimised) =>
                            /\ \A i : LastTo(answers', TellsMinimised, i) =>
                                    (SaysMinimised(answers'[i]) <=> main.minimised)
                            /\ NoneTo(answers', TellsMinimised) =>
                                    ((chrome'.visibility = "minimised") <=> main.minimised)
    BY <1>1 DEF MinimisedInv, SaysMinimised
  <2>1. \A i : LastIn(commands, TellsMinimised, i) /\ commands[i] = "hide" => ~main.minimised
    BY DEF ChromeInv, MinimisedInv
  <2>2. ASSUME NoneIn(commands, TellsMinimised)
        PROVE  /\ \A i : LastTo(answers, TellsMinimised, i) => (SaysMinimised(answers[i]) <=> main.minimised)
               /\ NoneTo(answers, TellsMinimised) => ((chrome.visibility = "minimised") <=> main.minimised)
    BY <2>2 DEF ChromeInv, MinimisedInv
  <2>3. ASSUME NoneIn(commands, TellsMinimised)
        PROVE  /\ \A i : LastTo(answers', TellsMinimised, i) =>
                    (SaysMinimised(answers'[i]) <=> main.minimised)
               /\ NoneTo(answers', TellsMinimised) =>
                    ((chrome'.visibility = "minimised") <=> main.minimised)
    BY <1>3, <1>6, <1>7, <2>2, <2>3
  <2>. QED
    BY <2>1, <2>3
<1>. QED
  BY <1>8, <1>9, <1>10, <1>11 DEF ChromeInv

(* The commands of the page, as the main thread executes them. *)
LEMMA CommandSteps ==
    ASSUME ChromeInv, main \in MainWindow, main' \in MainWindow,
           \/ State \/ Minimise \/ ToggleMaximise \/ Close \/ Hide
           \/ \E command \in {"pin", "unpin"} : SetAlwaysOnTop(command)
    PROVE  ChromeInv'
<1>1. ASSUME NEW command, Executing(command)
      PROVE  /\ commands # << >> /\ commands' = Tail(commands) /\ Head(commands) = command
             /\ UNCHANGED <<chrome, listening>>
  BY <1>1 DEF Executing
<1>2. ASSUME NEW window, NEW target, NEW resized \in BOOLEAN, Shown(window, target, resized)
      PROVE  /\ main' = window /\ events' \in Seq(MainEvents)
             /\ Resized(events) => Resized(events')
             /\ resized /\ listening = 3 => Resized(events')
  BY <1>2, ShownEvents DEF ChromeInv, Shown
<1>3. CASE State
  <2>1. Executing("state") /\ Shown(main, focus, FALSE)
        /\ answers' = Append(answers, [to |-> "state", state |-> WindowState'])
    BY <1>3 DEF State, Answer
  <2>2. /\ main' = main /\ events' \in Seq(MainEvents) /\ (Resized(events) => Resized(events'))
        /\ commands # << >> /\ commands' = Tail(commands) /\ Head(commands) = "state"
        /\ UNCHANGED <<chrome, listening>>
    BY <1>1, <1>2, <2>1
  <2>. QED
    BY <2>1, <2>2, AnsweredStep
<1>4. CASE Minimise
  <2>1. PICK visible \in {main.visible, TRUE} :
          Shown([main EXCEPT !.minimised = TRUE, !.visible = visible], Unfocused("main"), TRUE)
    BY <1>4 DEF Minimise
  <2>2. Executing("minimise") /\ UNCHANGED answers
    BY <1>4 DEF Minimise
  <2>3. /\ main' = [main EXCEPT !.minimised = TRUE, !.visible = visible]
        /\ events' \in Seq(MainEvents) /\ (Resized(events) => Resized(events'))
        /\ listening = 3 => Resized(events')
    BY <1>2, <2>1
  <2>4. main'.maximised = main.maximised /\ main'.onTop = main.onTop
    BY <2>3 DEF MainWindow
  <2>5. Head(commands) \notin TellsMinimised
    BY <1>1, <2>2 DEF TellsMinimised
  <2>. QED
    BY <1>1, <2>2, <2>3, <2>4, <2>5, UnansweredStep
<1>5. CASE ToggleMaximise
  <2>1. PICK minimised \in {main.minimised, FALSE} :
          Shown([main EXCEPT !.maximised = ~@, !.minimised = minimised], focus, TRUE)
    BY <1>5 DEF ToggleMaximise
  <2>2. Executing("toggle") /\ answers' = Append(answers, [to |-> "toggle", state |-> WindowState'])
    BY <1>5 DEF ToggleMaximise, Answer
  <2>3. /\ main' = [main EXCEPT !.maximised = ~@, !.minimised = minimised]
        /\ events' \in Seq(MainEvents) /\ (Resized(events) => Resized(events'))
        /\ listening = 3 => Resized(events')
    BY <1>2, <2>1
  <2>4. main'.onTop = main.onTop /\ "toggle" \in TellsMaximised
    BY <2>3 DEF MainWindow, TellsMaximised
  <2>. QED
    BY <1>1, <2>2, <2>3, <2>4, AnsweredStep
<1>6. CASE Close
  <2>1. /\ Executing("close") /\ UNCHANGED answers
        /\ Shown([main EXCEPT !.visible = FALSE], Unfocused("main"), FALSE)
    BY <1>6 DEF Close
  <2>2. /\ main' = [main EXCEPT !.visible = FALSE]
        /\ events' \in Seq(MainEvents) /\ (Resized(events) => Resized(events'))
    BY <1>2, <2>1
  <2>3. main'.maximised = main.maximised /\ main'.onTop = main.onTop /\ main'.minimised = main.minimised
    BY <2>2 DEF MainWindow
  <2>4. Head(commands) \notin TellsMinimised
    BY <1>1, <2>1 DEF TellsMinimised
  <2>. QED
    BY <1>1, <2>1, <2>2, <2>3, <2>4, UnansweredStep
<1>7. CASE Hide
  <2>1. /\ Executing("hide") /\ answers' = Append(answers, [to |-> "hide", state |-> WindowState'])
        /\ Shown([main EXCEPT !.visible = FALSE], Unfocused("main"), FALSE)
    BY <1>7 DEF Hide, Answer
  <2>2. /\ main' = [main EXCEPT !.visible = FALSE]
        /\ events' \in Seq(MainEvents) /\ (Resized(events) => Resized(events'))
    BY <1>2, <2>1
  <2>3. main'.maximised = main.maximised /\ main'.onTop = main.onTop /\ main'.minimised = main.minimised
    BY <2>2 DEF MainWindow
  <2>. QED
    BY <1>1, <2>1, <2>2, <2>3, AnsweredStep
<1>8. ASSUME NEW c \in {"pin", "unpin"}, SetAlwaysOnTop(c)
      PROVE  ChromeInv'
  <2>1. /\ Executing(c) /\ answers' = Append(answers, [to |-> c, state |-> WindowState'])
        /\ Shown([main EXCEPT !.onTop = c = "pin"], focus, FALSE)
    BY <1>8 DEF SetAlwaysOnTop, Answer
  <2>2. /\ main' = [main EXCEPT !.onTop = c = "pin"]
        /\ events' \in Seq(MainEvents) /\ (Resized(events) => Resized(events'))
    BY <1>2, <2>1
  <2>3. main'.maximised = main.maximised /\ main'.minimised = main.minimised /\ c \in TellsPinned
    BY <2>2 DEF MainWindow, TellsPinned
  <2>. QED
    BY <1>1, <2>1, <2>2, <2>3, AnsweredStep
<1>. QED
  BY <1>3, <1>4, <1>5, <1>6, <1>7, <1>8

(* What the window system, the tray and its popup do to the main window.   *)
LEMMA OutsideSteps ==
    ASSUME ChromeInv, main \in MainWindow,
           \/ TaskbarButton \/ ClickElsewhere \/ ClickWindow \/ TrayPress \/ TrayRelease
           \/ \E view \in {"menu", "update-notice"} : MenuReady(view)
           \/ MainWindowIsVisible \/ MenuDismiss \/ ShowMainWindow \/ HideMainWindow
           \/ OpenElsewhere
    PROVE  ChromeInv'
<1>. DEFINE Kept == UNCHANGED <<chrome, listening, commands, answers>>
<1>1. /\ events \in Seq(MainEvents) /\ \A target : FocusEvents(target) \in Seq(MainEvents)
      /\ ResizedEvents \in Seq(MainEvents) /\ << >> \in Seq(MainEvents)
      /\ listening = 3 => Resized(ResizedEvents)
  BY EventsOfFocus, EventsOfResize DEF ChromeInv, ChromeTypeInv
<1>2. /\ OutsidePages => Kept
      /\ \A command : TrayExecuting(command) => Kept
      /\ \A from : ShowPopupNear(from) => Kept
  BY DEF OutsidePages, TrayExecuting, ShowPopupNear
<1>3. ASSUME NEW window, NEW target, NEW resized \in BOOLEAN, Shown(window, target, resized),
             OutsidePages, window.maximised = main.maximised, window.onTop = main.onTop,
             window.minimised = main.minimised \/ resized
      PROVE  ChromeInv'
  <2>1. /\ main' = window /\ events' \in Seq(MainEvents) /\ (Resized(events) => Resized(events'))
        /\ resized /\ listening = 3 => Resized(events')
    BY <1>3, ShownEvents DEF ChromeInv, Shown
  <2>. QED
    BY <1>2, <1>3, <2>1, OutsideStep
<1>4. ASSUME Kept, UNCHANGED <<main, events>>
      PROVE  ChromeInv'
  BY <1>1, <1>4, OutsideStep
<1>5. CASE TaskbarButton
  <2>1. CASE focus = "main"
    <3>1. Shown([main EXCEPT !.minimised = TRUE], "none", TRUE) /\ OutsidePages
      BY <1>5, <2>1 DEF TaskbarButton
    <3>2. PICK w : w = [main EXCEPT !.minimised = TRUE]
      OBVIOUS
    <3>3. w.maximised = main.maximised /\ w.onTop = main.onTop
      BY <3>2 DEF MainWindow
    <3>. QED
      BY <1>3, <3>1, <3>2, <3>3
  <2>2. CASE focus # "main"
    <3>1. Shown([main EXCEPT !.minimised = FALSE], "main", main.minimised) /\ OutsidePages
      BY <1>5, <2>2 DEF TaskbarButton
    <3>2. PICK w : w = [main EXCEPT !.minimised = FALSE]
      OBVIOUS
    <3>3. /\ w.maximised = main.maximised /\ w.onTop = main.onTop /\ main.minimised \in BOOLEAN
          /\ w.minimised = main.minimised \/ main.minimised
      BY <3>2 DEF MainWindow
    <3>. QED
      BY <1>3, <3>1, <3>2, <3>3
  <2>. QED
    BY <2>1, <2>2
<1>6. CASE ClickElsewhere
  BY <1>3, <1>6 DEF ClickElsewhere
<1>7. CASE ClickWindow
  BY <1>3, <1>7 DEF ClickWindow
<1>8. CASE TrayPress \/ TrayRelease
  <2>1. Kept /\ main' = main /\ events' = events \o FocusEvents("popup")
    BY <1>2, <1>8 DEF TrayPress, TrayRelease, ShowPopupNear
  <2>2. events' \in Seq(MainEvents) /\ (Resized(events) => Resized(events'))
    BY <1>1, <2>1, EventsGrow
  <2>. QED
    BY <2>1, <2>2, OutsideStep
<1>9. CASE \/ \E view \in {"menu", "update-notice"} : MenuReady(view)
           \/ MainWindowIsVisible \/ MenuDismiss \/ OpenElsewhere
  <2>1. Kept /\ UNCHANGED <<main, events>>
    BY <1>2, <1>9 DEF MenuReady, MainWindowIsVisible, MenuDismiss, OpenElsewhere
  <2>. QED
    BY <1>4, <2>1
<1>10. CASE ShowMainWindow
  <2>1. PICK r : r = IF main.minimised THEN ResizedEvents ELSE << >>
    OBVIOUS
  <2>2. /\ Kept /\ main' = [main EXCEPT !.visible = TRUE, !.minimised = FALSE]
        /\ events' = events \o r \o FocusEvents("main")
    BY <1>2, <1>10, <2>1 DEF ShowMainWindow
  <2>3. r \in Seq(MainEvents) /\ (main.minimised /\ listening = 3 => Resized(r))
    BY <1>1, <2>1
  <2>4. events \o r \in Seq(MainEvents) /\ (Resized(events) \/ Resized(r) => Resized(events \o r))
    BY <1>1, <2>3, EventsGrow
  <2>5. /\ events' \in Seq(MainEvents) /\ (Resized(events \o r) => Resized(events'))
    BY <1>1, <2>2, <2>4, EventsGrow
  <2>6. /\ main'.maximised = main.maximised /\ main'.onTop = main.onTop
        /\ main'.minimised = main.minimised \/ main.minimised
    BY <2>2 DEF MainWindow
  <2>. QED
    BY <2>2, <2>3, <2>4, <2>5, <2>6, OutsideStep
<1>11. CASE HideMainWindow
  <2>1. /\ Kept /\ main' = [main EXCEPT !.visible = FALSE]
        /\ events' = events \o FocusEvents("none")
    BY <1>2, <1>11 DEF HideMainWindow
  <2>2. events' \in Seq(MainEvents) /\ (Resized(events) => Resized(events'))
    BY <1>1, <2>1, EventsGrow
  <2>3. /\ main'.maximised = main.maximised /\ main'.onTop = main.onTop
        /\ main'.minimised = main.minimised
    BY <2>1 DEF MainWindow
  <2>. QED
    BY <2>1, <2>2, <2>3, OutsideStep
<1>. QED
  BY <1>5, <1>6, <1>7, <1>8, <1>9, <1>10, <1>11

(* How the page starts, the first time and after the menu's Quit. *)
ChromeStarting ==
    /\ main = MainAtStart /\ chrome = INITIAL /\ listening = 0
    /\ commands = << >> /\ answers = << >> /\ events = << >>

LEMMA ChromeStartsRight == ChromeStarting => ChromeInv
<1>. SUFFICES ASSUME ChromeStarting PROVE ChromeInv
  OBVIOUS
<1>1. /\ chrome \in PageStates /\ chrome.isMaximized = FALSE /\ chrome.isAlwaysOnTop = FALSE
      /\ main.maximised = FALSE /\ main.onTop = FALSE
  BY DEF ChromeStarting, INITIAL, PageStates, Visibilities, MainAtStart
<1>2. << >> \in Seq(Answers) /\ << >> \in Seq(MainEvents) /\ << >> \in Seq({})
  OBVIOUS
<1>3. ChromeTypeInv
  BY <1>1, <1>2 DEF ChromeStarting, ChromeTypeInv, IsQueue
<1>4. MaximisedInv /\ PinnedInv
  <2>1. answers = << >> /\ \A names, i : ~LastTo(answers, names, i)
    BY DEF ChromeStarting, LastTo
  <2>. QED
    BY <1>1, <2>1 DEF MaximisedInv, PinnedInv
<1>5. MinimisedInv
  BY DEF ChromeStarting, MinimisedInv
<1>. QED
  BY <1>3, <1>4, <1>5 DEF ChromeInv

LEMMA ChromeStepsKeep == IInv /\ IInv' /\ ChromeInv /\ [DesktopShellNext]_desktopShell => ChromeInv'
<1>. SUFFICES ASSUME IInv, IInv', ChromeInv, [DesktopShellNext]_desktopShell PROVE ChromeInv'
  OBVIOUS
<1>1. main \in MainWindow /\ main' \in MainWindow
  BY DEF IInv, TypeInv
<1>2. CASE Subscribe \/ ReceiveEvent \/ ReceiveAnswer
  BY <1>2, SubscribeStep, EventStep, AnswerStep
<1>3. CASE \/ \E command \in TitleBar : Click(command)
           \/ \E entry \in ToSet(TitlebarMenu) : ChooseFromTitlebar(entry)
  BY <1>3, ClickStep DEF ChooseFromTitlebar
<1>4. CASE \/ State \/ Minimise \/ ToggleMaximise \/ Close \/ Hide
           \/ \E command \in {"pin", "unpin"} : SetAlwaysOnTop(command)
  BY <1>1, <1>4, CommandSteps
<1>5. CASE \/ TaskbarButton \/ ClickElsewhere \/ ClickWindow \/ TrayPress \/ TrayRelease
           \/ \E view \in {"menu", "update-notice"} : MenuReady(view)
           \/ MainWindowIsVisible \/ MenuDismiss \/ ShowMainWindow \/ HideMainWindow
           \/ OpenElsewhere
  BY <1>1, <1>5, OutsideSteps
<1>6. CASE TraySubscribe \/ TrayFocused \/ TrayAnswered \/ InMenu \/ UpdateNotice \/ UNCHANGED desktopShell
  <2>1. UNCHANGED mainWindow
    BY <1>6, Zenon DEF TraySubscribe, TrayFocused, TrayAnswered, InMenu, UpdateNotice, InPopup,
                TrayPageOnly, desktopShell
  <2>2. UNCHANGED <<main, chrome, listening, commands, answers, events>>
    BY <2>1 DEF mainWindow
  <2>3. events' \in Seq(MainEvents) /\ (Resized(events) => Resized(events'))
    BY <2>2 DEF ChromeInv, ChromeTypeInv
  <2>. QED
    BY <2>2, <2>3, OutsideStep
<1>7. CASE Quit
  <2>1. ChromeStarting'
    BY <1>7 DEF Quit, ChromeStarting
  <2>2. (ChromeStarting => ChromeInv)'
    BY ChromeStartsRight, PTL
  <2>. QED
    BY <2>1, <2>2
<1>. QED
  BY <1>2, <1>3, <1>4, <1>5, <1>6, <1>7 DEF DesktopShellNext

(* Once its messages have arrived, the title bar of the main window shows   *)
(* whether the window is maximised, minimised and pinned as it is           *)
(* (useWindowChrome), however the clicks, the taskbar, the tray and the     *)
(* listeners being registered interleaved, and however many messages were   *)
(* on their way.                                                           *)
THEOREM TitleBarAgrees == DesktopShellSpec => []ChromeSettles
<1>1. ChromeInv => ChromeSettles
  <2>. SUFFICES ASSUME ChromeInv, listening = 3, commands = << >>, answers = << >>, events = << >>
                PROVE  /\ chrome.isMaximized = main.maximised
                       /\ chrome.isAlwaysOnTop = main.onTop
                       /\ (chrome.visibility = "minimised") <=> main.minimised
    BY DEF ChromeSettles
  <2>1. /\ ~Resized(events) /\ NoneIn(commands, TellsMinimised)
        /\ \A names : NoneTo(answers, names)
    BY DEF Resized, NoneIn, NoneTo
  <2>. QED
    BY <2>1 DEF ChromeInv, MaximisedInv, PinnedInv, MinimisedInv
<1>2. DesktopShellInit => ChromeInv
  BY ChromeStartsRight DEF DesktopShellInit, ChromeStarting
<1>. QED
  BY <1>1, <1>2, ChromeStepsKeep, Invariant, PTL DEF DesktopShellSpec
=============================================================================
