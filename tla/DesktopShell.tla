---------------------------- MODULE DesktopShell ----------------------------
(***************************************************************************)
(* One application on the desktop: its main window with the chrome the     *)
(* page draws (useWindowChrome, the title bar and its menu), its tray icon,*)
(* and the popup window that draws the tray's menu (useTrayMenu, TrayMenu- *)
(* Root).                                                                  *)
(*                                                                         *)
(* A page sends commands with invoke. They are executed one at a time on   *)
(* the main thread, in the order they were sent, and their answers come    *)
(* back in that order; events of a window reach its page by another way,   *)
(* so an event may overtake an answer or be overtaken by one. The two pages *)
(* are separate processes. Moves are left out (they only save geometry),   *)
(* and so is everything horizontal.                                        *)
(***************************************************************************)
EXTENDS Integers, Sequences, SequencesExt

CONSTANTS
    Apps,           \* which of "launcher", "terminal", "explorer" is running
    Edges,          \* the edges of the screen the taskbar may be on
    MaxPending      \* bound: messages on their way while someone acts

VARIABLES
    app,            \* the application
    taskbar,        \* the edge its tray icon is on
    main,           \* the main window, as the window system has it
    focus,          \* which window has the focus: "main", "popup", "none"
    chrome,         \* the state useWindowChrome shows
    listening,      \* how many of the page's three listeners are registered
    commands,       \* its commands not yet executed
    answers,        \* the answers to them not yet received
    events,         \* the events of the main window not yet received
    popup,          \* the popup window
    pressed,        \* the tray icon is held down
    tray,           \* the state of the popup's page
    trayListening,  \* its focus listener is registered
    trayCommands, trayAnswers, trayEvents,
    excused         \* history: the popup's page could not have known better

mainWindow == <<main, chrome, listening, commands, answers, events>>
trayPage == <<tray, trayListening, trayAnswers, trayEvents>>
fixed == <<app, taskbar>>
desktopShell == <<fixed, mainWindow, focus, popup, pressed, trayPage, trayCommands, excused>>
-----------------------------------------------------------------------------
(***************************************************************************)
(* The menus. An item is its identifier and the command it sends.          *)
(***************************************************************************)
Separator == [kind |-> "separator"]
Item(id, command) ==
    [kind |-> "item", id |-> id, command |-> command, disabled |-> FALSE,
     hasReason |-> FALSE, keepOpen |-> FALSE]
IsSeparator(entry) == entry.kind = "separator"

ShowOrHide(isVisible) ==
    IF isVisible THEN Item("hide-window", "hideMain") ELSE Item("show-window", "showMain")

LauncherMenu(isVisible) == <<
    ShowOrHide(isVisible),
    Item("preferences", "open"),
    Separator,
    Item("open-terminal", "open"),
    Item("open-explorer", "open"),
    Separator,
    [Item("check-updates", "none") EXCEPT !.keepOpen = TRUE],
    Separator,
    Item("quit", "quit") >>

TerminalMenu(isVisible) == <<
    ShowOrHide(isVisible),
    Item("preferences", "open"),
    Separator,
    [Item("check-updates", "none") EXCEPT !.disabled = TRUE, !.hasReason = TRUE],
    Separator,
    Item("quit", "quit") >>

ExplorerMenu(isVisible) == TerminalMenu(isVisible)   \* another name, the same items

\* What the popup lists: an item that is disabled without a reason is not.
Entries ==
    SelectSeq(CASE app = "launcher" -> LauncherMenu(tray.isMainWindowVisible)
                [] app = "terminal" -> TerminalMenu(tray.isMainWindowVisible)
                [] OTHER -> ExplorerMenu(tray.isMainWindowVisible),
              LAMBDA entry : IsSeparator(entry) \/ ~entry.disabled \/ entry.hasReason)

\* The indexes the highlight may take, in order.
Selectable ==
    SelectSeq([i \in DOMAIN Entries |-> i],
              LAMBDA i : ~IsSeparator(Entries[i]) /\ ~Entries[i].disabled)

\* The title bar's menu: what it offers, from the state the page shows.
TitlebarMenu ==
    << [Item("minimise", "minimise") EXCEPT !.disabled = chrome.visibility = "minimised"],
       Item("toggle-maximise", "toggle"),
       Separator,
       Item("always-on-top", IF chrome.isAlwaysOnTop THEN "unpin" ELSE "pin"),
       Separator,
       Item("hide", "hide"),
       Item("close", "close") >>

\* The three lights, and the double click on the bar beside them.
TrafficLights == {"close", "minimise", "toggle"}
TitleBar == TrafficLights \cup {"toggle"}
-----------------------------------------------------------------------------
(***************************************************************************)
(* Windows and messages.                                                   *)
(***************************************************************************)
ScreenHeight == 20      \* bound: heights are in units of the taskbar's
EDGE_GAP == 1
INITIAL_HEIGHT == 1
IconTop == IF taskbar = "bottom" THEN ScreenHeight - 1 ELSE 0
IconHeight == 1

\* How tall the menu, or the notice in its place, turns out.
ContentHeight(view) ==
    IF view = "update-notice" THEN 4
    ELSE IF app = "launcher" THEN 9
    ELSE 6

\* slate_window_state.
WindowState ==
    [isMaximized |-> main.maximised,
     isFocused |-> focus = "main",
     visibility |-> IF main.minimised THEN "minimised"
                    ELSE IF main.visible THEN "visible"
                    ELSE "hidden",
     isAlwaysOnTop |-> main.onTop]

INITIAL == [isMaximized |-> FALSE, isFocused |-> TRUE, visibility |-> "visible",
            isAlwaysOnTop |-> FALSE]

\* The focus goes to a window, or to none of the application's. A page hears
\* of it if it listens, and the popup hides as it loses it.
FocusEvents(target) ==
    IF listening < 1 \/ (focus = "main") = (target = "main") THEN << >>
    ELSE <<IF target = "main" THEN "focused" ELSE "blurred">>
PopupFocusEvents(target) ==
    IF trayListening /\ focus # "popup" /\ target = "popup" THEN <<"focused">> ELSE << >>
DismissOnBlur(target) == [popup EXCEPT !.visible = @ /\ target = "popup"]
ResizedEvents == IF listening < 2 THEN << >> ELSE <<"resized">>

\* A window that leaves the screen leaves the focus to another program.
Unfocused(window) == IF focus = window THEN "none" ELSE focus

\* The popup's menu is about a window that has come or gone behind its back.
Excused == excused \/ (popup.visible /\ main'.visible # main.visible)

Pending == Len(commands) + Len(answers) + Len(events)
           + Len(trayCommands) + Len(trayAnswers) + Len(trayEvents)
Free == Pending < MaxPending
-----------------------------------------------------------------------------
MainAtStart == [visible |-> TRUE, minimised |-> FALSE, maximised |-> FALSE, onTop |-> FALSE]
PopupAtStart == [visible |-> FALSE, top |-> 0, height |-> INITIAL_HEIGHT]
TrayAtStart == [isMainWindowVisible |-> TRUE, view |-> "menu"]

\* The surface was measured with this view on it.
Ready(view) == IF view = "menu" THEN "readyMenu" ELSE "readyNotice"

\* The effects of the popup's page run in order: it reports its size, asks
\* for the main window, and registers its listener. The observer it starts
\* reports the size once more.
MountedCommands == <<Ready("menu"), "isVisible", Ready("menu")>>

DesktopShellInit ==
    /\ app \in Apps /\ taskbar \in Edges
    /\ main = MainAtStart /\ focus = "main"
    /\ chrome = INITIAL /\ listening = 0
    /\ commands = << >> /\ answers = << >> /\ events = << >>
    /\ popup = PopupAtStart /\ pressed = FALSE
    /\ tray = TrayAtStart /\ trayListening = FALSE
    /\ trayCommands = MountedCommands /\ trayAnswers = << >> /\ trayEvents = << >>
    /\ excused = FALSE
-----------------------------------------------------------------------------
(***************************************************************************)
(* The main window's page.                                                 *)
(***************************************************************************)
PageKept == UNCHANGED <<fixed, main, focus, popup, pressed, trayPage, trayCommands, excused>>

\* Mutant: asks for the state once the first listener is there.
SubscribeEarly ==
    /\ listening < 3
    /\ listening' = listening + 1
    /\ commands' = IF listening' = 1 THEN Append(commands, "state") ELSE commands
    /\ PageKept /\ UNCHANGED <<chrome, answers, events>>

\* subscribe: three listeners one after the other, and then the state.
Subscribe ==
    /\ listening < 3
    /\ listening' = listening + 1
    /\ commands' = IF listening' = 3 THEN Append(commands, "state") ELSE commands
    /\ PageKept /\ UNCHANGED <<chrome, answers, events>>

\* A listener runs: focus is taken from the event, a resize asks for all.
ReceiveEvent ==
    /\ events # << >>
    /\ events' = Tail(events)
    /\ IF Head(events) = "resized"
       THEN commands' = Append(commands, "state") /\ UNCHANGED chrome
       ELSE chrome' = [chrome EXCEPT !.isFocused = Head(events) = "focused"] /\ UNCHANGED commands
    /\ PageKept /\ UNCHANGED <<listening, answers>>

\* An answer replaces what it answers for, whatever came in between.
ReceiveAnswer ==
    /\ answers # << >>
    /\ answers' = Tail(answers)
    /\ LET answer == Head(answers)
       IN  chrome' = CASE answer.to = "state" -> answer.state
                       [] answer.to = "toggle" -> [chrome EXCEPT !.isMaximized = answer.state.isMaximized]
                       [] answer.to = "hide" -> [chrome EXCEPT !.visibility = "hidden"]
                       [] OTHER -> [chrome EXCEPT !.isAlwaysOnTop = answer.state.isAlwaysOnTop]
    /\ PageKept /\ UNCHANGED <<listening, commands, events>>

OnScreen == main.visible /\ ~main.minimised

\* The user clicks a light, double-clicks the bar or chooses from its menu.
Click(command) ==
    /\ OnScreen /\ focus = "main" /\ Free
    /\ commands' = Append(commands, command)
    /\ PageKept /\ UNCHANGED <<chrome, listening, answers, events>>

ChooseFromTitlebar(entry) ==
    /\ ~IsSeparator(entry) /\ ~entry.disabled
    /\ Click(entry.command)
-----------------------------------------------------------------------------
(***************************************************************************)
(* The commands of the main window's page, on the main thread.             *)
(***************************************************************************)
Answer(command) == answers' = Append(answers, [to |-> command, state |-> WindowState'])
Executing(command) ==
    /\ commands # << >> /\ Head(commands) = command
    /\ commands' = Tail(commands)
    /\ UNCHANGED <<fixed, chrome, listening, pressed, trayListening, trayCommands, trayAnswers, tray>>

\* What a step that changes the main window and the focus tells the pages.
Shown(window, target, resized) ==
    /\ main' = window
    /\ focus' = target
    /\ events' = events \o FocusEvents(target) \o (IF resized THEN ResizedEvents ELSE << >>)
    /\ trayEvents' = trayEvents \o PopupFocusEvents(target)
    /\ popup' = DismissOnBlur(target)
    /\ excused' = Excused

State ==
    /\ Executing("state")
    /\ Shown(main, focus, FALSE)
    /\ Answer("state")

\* Minimising a hidden window may put it on the taskbar.
Minimise ==
    /\ Executing("minimise")
    /\ \E visible \in {main.visible, TRUE} :
        Shown([main EXCEPT !.minimised = TRUE, !.visible = visible], Unfocused("main"), TRUE)
    /\ UNCHANGED answers

\* Maximising a window that is minimised may bring it back.
ToggleMaximise ==
    /\ Executing("toggle")
    /\ \E minimised \in {main.minimised, FALSE} :
        Shown([main EXCEPT !.maximised = ~@, !.minimised = minimised], focus, TRUE)
    /\ Answer("toggle")

\* Closing asks the window, which hides instead.
Close ==
    /\ Executing("close")
    /\ Shown([main EXCEPT !.visible = FALSE], Unfocused("main"), FALSE)
    /\ UNCHANGED answers

Hide ==
    /\ Executing("hide")
    /\ Shown([main EXCEPT !.visible = FALSE], Unfocused("main"), FALSE)
    /\ Answer("hide")

SetAlwaysOnTop(command) ==
    /\ Executing(command)
    /\ Shown([main EXCEPT !.onTop = command = "pin"], focus, FALSE)
    /\ Answer(command)
-----------------------------------------------------------------------------
(***************************************************************************)
(* The user and the window system: the taskbar's button for the window,    *)
(* other programs, the window itself.                                      *)
(***************************************************************************)
OutsidePages ==
    UNCHANGED <<fixed, chrome, listening, commands, answers, pressed,
                tray, trayListening, trayCommands, trayAnswers>>

TaskbarButton ==
    /\ main.visible /\ Free
    /\ IF focus = "main" THEN Shown([main EXCEPT !.minimised = TRUE], "none", TRUE)
       ELSE Shown([main EXCEPT !.minimised = FALSE], "main", main.minimised)
    /\ OutsidePages

ClickElsewhere ==
    /\ focus # "none" /\ Free
    /\ Shown(main, "none", FALSE)
    /\ OutsidePages

ClickWindow ==
    /\ OnScreen /\ focus # "main" /\ Free
    /\ Shown(main, "main", FALSE)
    /\ OutsidePages
-----------------------------------------------------------------------------
(***************************************************************************)
(* The tray icon and the popup window.                                     *)
(***************************************************************************)
\* Above the icon, or under it where there is no room above.
TopNear(height) ==
    IF IconTop - height - EDGE_GAP < 0 THEN IconTop + IconHeight + EDGE_GAP
    ELSE IconTop - height - EDGE_GAP

ShowPopupNear(from) ==
    /\ popup' = [popup EXCEPT !.visible = TRUE, !.top = TopNear(popup.height)]
    /\ focus' = "popup"
    /\ events' = events \o FocusEvents("popup")
    /\ trayEvents' = trayEvents \o
        (IF trayListening /\ from # "popup" THEN <<"focused">> ELSE << >>)
    /\ excused' = IF popup.visible /\ from = "popup" THEN excused ELSE ~trayListening
    /\ UNCHANGED <<fixed, main, chrome, listening, commands, answers,
                   tray, trayListening, trayCommands, trayAnswers>>

\* Every event of a click shows it: the press, which has taken the focus to
\* the taskbar and so dismissed it, and the release.
TrayPress == ~pressed /\ Free /\ pressed' = TRUE /\ ShowPopupNear("none")
TrayRelease == pressed /\ Free /\ pressed' = FALSE /\ ShowPopupNear(focus)

TrayExecuting(command) ==
    /\ trayCommands # << >> /\ Head(trayCommands) = command
    /\ trayCommands' = Tail(trayCommands)
    /\ UNCHANGED <<fixed, chrome, listening, commands, answers, pressed, tray, trayListening>>

\* Mutant: the popup keeps its top edge.
ResizeDown(height) == popup' = [popup EXCEPT !.height = height]

\* The popup keeps its bottom edge as its content grows and shrinks.
ResizePopup(height) ==
    popup' = [popup EXCEPT !.height = height, !.top = @ + popup.height - height]

MenuReady(view) ==
    /\ TrayExecuting(Ready(view))
    /\ ResizePopup(ContentHeight(view))
    /\ UNCHANGED <<main, focus, events, trayEvents, trayAnswers, excused>>

MainWindowIsVisible ==
    /\ TrayExecuting("isVisible")
    /\ trayAnswers' = Append(trayAnswers, main.visible)
    /\ UNCHANGED <<main, focus, events, trayEvents, popup, excused>>

\* Hides the popup first; the focus leaves it.
Dismissed == popup' = [popup EXCEPT !.visible = FALSE]
MenuDismiss ==
    /\ TrayExecuting("dismiss")
    /\ Dismissed /\ focus' = Unfocused("popup")
    /\ UNCHANGED <<main, events, trayEvents, trayAnswers, excused>>

\* Unminimised, shown and focused.
ShowMainWindow ==
    /\ TrayExecuting("showMain")
    /\ Dismissed
    /\ main' = [main EXCEPT !.visible = TRUE, !.minimised = FALSE]
    /\ focus' = "main"
    /\ events' = events \o (IF main.minimised THEN ResizedEvents ELSE << >>) \o FocusEvents("main")
    /\ UNCHANGED <<trayEvents, trayAnswers, excused>>

HideMainWindow ==
    /\ TrayExecuting("hideMain")
    /\ Dismissed
    /\ main' = [main EXCEPT !.visible = FALSE]
    /\ focus' = "none"
    /\ events' = events \o FocusEvents("none")
    /\ UNCHANGED <<trayEvents, trayAnswers, excused>>

\* The configuration file, or another application, is opened elsewhere.
OpenElsewhere ==
    /\ TrayExecuting("open")
    /\ UNCHANGED <<main, focus, events, popup, trayEvents, trayAnswers, excused>>

\* The process ends and is started again.
Quit ==
    /\ trayCommands # << >> /\ Head(trayCommands) = "quit"
    /\ main' = MainAtStart /\ focus' = "main"
    /\ chrome' = INITIAL /\ listening' = 0
    /\ commands' = << >> /\ answers' = << >> /\ events' = << >>
    /\ popup' = PopupAtStart /\ pressed' = FALSE
    /\ tray' = TrayAtStart /\ trayListening' = FALSE
    /\ trayCommands' = MountedCommands /\ trayAnswers' = << >> /\ trayEvents' = << >>
    /\ excused' = FALSE
    /\ UNCHANGED fixed
-----------------------------------------------------------------------------
(***************************************************************************)
(* The popup's page.                                                       *)
(***************************************************************************)
TrayPageOnly ==
    UNCHANGED <<fixed, mainWindow, focus, popup, pressed, excused>>

TraySubscribe ==
    /\ ~trayListening /\ trayListening' = TRUE
    /\ TrayPageOnly /\ UNCHANGED <<tray, trayCommands, trayAnswers, trayEvents>>

\* Mutant: asked when the page mounted and never again.
TrayFocusedAgain ==
    /\ trayEvents # << >>
    /\ trayEvents' = Tail(trayEvents)
    /\ TrayPageOnly /\ UNCHANGED <<tray, trayListening, trayCommands, trayAnswers>>

TrayFocused ==
    /\ trayEvents # << >>
    /\ trayEvents' = Tail(trayEvents)
    /\ trayCommands' = Append(trayCommands, "isVisible")
    /\ TrayPageOnly /\ UNCHANGED <<tray, trayListening, trayAnswers>>

TrayAnswered ==
    /\ trayAnswers # << >>
    /\ trayAnswers' = Tail(trayAnswers)
    /\ tray' = [tray EXCEPT !.isMainWindowVisible = Head(trayAnswers)]
    /\ TrayPageOnly /\ UNCHANGED <<trayListening, trayCommands, trayEvents>>

InPopup ==
    /\ popup.visible /\ focus = "popup" /\ Free
    /\ TrayPageOnly /\ UNCHANGED <<trayListening, trayAnswers, trayEvents>>

\* The menu and the notice differ in height, which the observer reports.
SetView(view) ==
    /\ tray' = [tray EXCEPT !.view = view]
    /\ trayCommands' = Append(trayCommands, Ready(view))

\* The Launcher's menu may keep open; the others' always close.
ChooseAndDismiss(entry) ==
    /\ trayCommands' = trayCommands \o <<entry.command, "dismiss">>
    /\ UNCHANGED tray
Choose(entry) ==
    IF app = "launcher" /\ entry.keepOpen THEN SetView("update-notice")
    ELSE ChooseAndDismiss(entry)

\* An item clicked, or reached with the keys and entered: the highlight goes
\* round the items that may be chosen and rests on no other.
MenuEnter == \E index \in ToSet(Selectable) : Choose(Entries[index])
MenuEscape == trayCommands' = Append(trayCommands, "dismiss") /\ UNCHANGED tray

InMenu ==
    /\ InPopup /\ tray.view = "menu"
    /\ MenuEnter \/ MenuEscape

\* The notice has one control, and Escape does what it does.
UpdateNotice ==
    /\ InPopup /\ tray.view = "update-notice"
    /\ SetView("menu")
-----------------------------------------------------------------------------
DesktopShellNext ==
    \/ Subscribe \/ ReceiveEvent \/ ReceiveAnswer
    \/ \E command \in TitleBar : Click(command)
    \/ \E entry \in ToSet(TitlebarMenu) : ChooseFromTitlebar(entry)
    \/ State \/ Minimise \/ ToggleMaximise \/ Close \/ Hide
    \/ \E command \in {"pin", "unpin"} : SetAlwaysOnTop(command)
    \/ TaskbarButton \/ ClickElsewhere \/ ClickWindow
    \/ TrayPress \/ TrayRelease
    \/ \E view \in {"menu", "update-notice"} : MenuReady(view)
    \/ MainWindowIsVisible \/ MenuDismiss \/ ShowMainWindow \/ HideMainWindow
    \/ OpenElsewhere \/ Quit
    \/ TraySubscribe \/ TrayFocused \/ TrayAnswered
    \/ InMenu \/ UpdateNotice

DesktopShellSpec == DesktopShellInit /\ [][DesktopShellNext]_desktopShell
-----------------------------------------------------------------------------
\* Once every message has arrived, the page of the main window shows whether
\* it is maximised, minimised and pinned as it is, however the clicks, the
\* taskbar, the tray and the listeners being registered interleaved.
ChromeSettles ==
    listening = 3 /\ commands = << >> /\ answers = << >> /\ events = << >> =>
        /\ chrome.isMaximized = main.maximised
        /\ chrome.isAlwaysOnTop = main.onTop
        /\ (chrome.visibility = "minimised") <=> main.minimised

\* Once its messages have arrived, the item of a popup on the screen says Hide
\* exactly if the main window is shown (commands/tray.rs: asking when the menu
\* opens), unless it opened before the page listened, or a command of the main
\* window's page moved the window under it.
ItemMatchesWindow ==
    popup.visible /\ "isVisible" \notin ToSet(trayCommands) /\ trayAnswers = << >> /\ trayEvents = << >>
        => tray.isMainWindowVisible = main.visible \/ excused

\* With the taskbar at the bottom the popup is never above the screen nor over
\* the taskbar, whatever it showed when it was opened and since (tray.rs:
\* a menu drawn off the screen is simply lost).
PopupFits ==
    popup.visible /\ taskbar = "bottom" =>
        popup.top >= 0 /\ popup.top + popup.height + EDGE_GAP <= IconTop
=============================================================================
