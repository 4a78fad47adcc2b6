----------------------------- MODULE CommandBar -----------------------------
(***************************************************************************)
(* The Launcher's window as its user works it: the command bar, the list   *)
(* or the results under it, the views that take their place, and what each *)
(* key and click does to the store and asks of the rest of the suite.      *)
(*                                                                         *)
(* The store is a React store: one handler runs at a time and what the     *)
(* screen shows of the text (derived) is worked out anew before the next   *)
(* event, so each handler is one step.                                     *)
(* The section a view shows is local to ViewFrame, which stays mounted     *)
(* while one view replaces another. sent is what the last step gave out:   *)
(* the command added to the history, and the calls it made.                *)
(***************************************************************************)
EXTENDS Commands, Applications, Expression

CONSTANTS
    Texts,      \* what the user may type or paste into the bar
    Memo        \* what was derived before, of some texts and pins (useMemo)

VARIABLES
    activeView,     \* the open view, or NoView at rest
    sectionId,      \* ViewFrame's section; NoSection while it is not mounted
    query,          \* the text in the bar
    derived,        \* what ContentLayout keeps of its rows, matches and answer
    selectedIndex,  \* the highlighted row, counted from zero
    pinnedIds,      \* the pinned applications, in the order of pinning
    sent

vars == <<activeView, sectionId, query, derived, selectedIndex, pinnedIds, sent>>

NoView == "none"
NoSection == ""
Nothing == [ran |-> "", calls |-> {}]
Calls(calls) == [ran |-> "", calls |-> calls]

VIEWS == [
    storage  |-> <<"folders", "volume">>,
    add      |-> <<"catalogue", "folder">>,
    console  |-> <<"output", "history">>,
    settings |-> <<"appearance", "applications", "storage", "privacy", "advanced">>,
    about    |-> <<"suite", "volume">>,
    help     |-> <<"commands">>,
    updates  |-> <<"available">>]
RAIL_VIEWS == DOMAIN VIEWS \ {"help", "updates"}

SectionsOf(view) == IF view = NoView THEN {} ELSE ToSet(VIEWS[view])
-----------------------------------------------------------------------------
(***************************************************************************)
(* What is on the screen, all of it derived from the store.                *)
(***************************************************************************)
SuggestionsFor(text) == IF IsCommand(text) THEN PredictCommands(ParseCommand(text)) ELSE << >>

Derived(text, pins) ==
    [suggestions |-> SuggestionsFor(text),
     apps |-> FlattenSections(GroupApps(FilterApps(APPS, text), pins)),
     answer |-> IF IsCommand(text) THEN NoAnswer ELSE Evaluate(text)]

\* What was derived before need not be derived again. (TLC works out a
\* definition once, and the definition a constant stands for at every use.)
ASSUME MemoAssumption == \A known \in DOMAIN Memo : Memo[known] = Derived(known[1], known[2])
Known == Memo
DerivedFrom(text, pins) ==
    IF <<text, pins>> \in DOMAIN Known THEN Known[<<text, pins>>] ELSE Derived(text, pins)

Suggestions == derived.suggestions
Answer == derived.answer
VisibleApps == derived.apps
RowCount == IF IsCommand(query) THEN Len(Suggestions) ELSE Len(VisibleApps)
Ghost == IF IsCommand(query) THEN GhostCompletion(query, Suggestions) ELSE ""

\* At rest, the results stand in the place of the list.
AtRest == activeView = NoView
ResultsShown == AtRest /\ (IsCommand(query) \/ Answer # NoAnswer)
AppListShown == AtRest /\ ~IsCommand(query) /\ Answer = NoAnswer

\* The page each view shows for a section: the last one of the file is shown
\* for every section the view does not know.
StorageView(section) == IF section = "volume" THEN "volume" ELSE "folders"
AddAppView(section) == IF section = "catalogue" THEN "catalogue" ELSE "folder"
ConsoleView(section) == IF section = "history" THEN "history" ELSE "output"
SettingsView(section) ==
    IF section \in {"appearance", "applications", "storage", "privacy"} THEN section ELSE "advanced"
AboutView(section) == IF section = "volume" THEN "volume" ELSE "suite"
HelpView == "commands"
UpdatesView == "available"

Page(view, section) ==
    CASE view = "storage" -> StorageView(section)
      [] view = "add" -> AddAppView(section)
      [] view = "console" -> ConsoleView(section)
      [] view = "settings" -> SettingsView(section)
      [] view = "about" -> AboutView(section)
      [] view = "help" -> HelpView
      [] view = "updates" -> UpdatesView
      [] OTHER -> "none"
-----------------------------------------------------------------------------
(***************************************************************************)
(* The store.                                                              *)
(***************************************************************************)
Init ==
    /\ activeView = NoView
    /\ sectionId = NoSection
    /\ query = ""
    /\ derived = Derived("", << >>)
    /\ selectedIndex = 0
    /\ pinnedIds = << >>
    /\ sent = Nothing

\* Mutant: a view opened from rest shows the section that was left.
OpenViewAsIs(view) == activeView' = view /\ UNCHANGED sectionId

\* A view mounts ViewFrame with its first section, unless another view has
\* it mounted already.
OpenView(view) ==
    /\ activeView' = view
    /\ sectionId' = IF AtRest THEN VIEWS[view][1] ELSE sectionId

CloseView ==
    /\ activeView' = NoView
    /\ sectionId' = NoSection

\* Mutant: the highlight is kept when the text changes.
SetQueryOnly(text) == query' = text /\ UNCHANGED selectedIndex

SetQuery(text) ==
    /\ query' = text
    /\ selectedIndex' = 0

MovedSelection(delta, count) == IF count = 0 THEN 0 ELSE (selectedIndex + delta) % count

TogglePin(id) ==
    pinnedIds' = IF \E k \in DOMAIN pinnedIds : pinnedIds[k] = id
                 THEN SelectSeq(pinnedIds, LAMBDA pinned : pinned # id)
                 ELSE Append(pinnedIds, id)
-----------------------------------------------------------------------------
(***************************************************************************)
(* run-command.service.ts. Each command is what it calls outside the store *)
(* and what it does to it; every one clears the bar.                       *)
(***************************************************************************)
FirstWord(parsed) == IF parsed.positional = << >> THEN "" ELSE parsed.positional[1]
FirstFlag(parsed) ==
    LET named == {k \in DOMAIN parsed.flags : parsed.flags[k][1] # ""}
    IN  IF named = {} THEN "" ELSE parsed.flags[Min(named)][1]

\* /config changes what it names of the three settings that can be changed.
SettingValues == [theme   |-> {"system", "light", "dark"},
            accent  |-> {"teal", "cyan", "blue"},
            density |-> {"comfortable", "compact"}]
ApplyConfig(parsed) ==
    {<<setting, ValueOf(parsed, setting)>> :
        setting \in {s \in DOMAIN SettingValues : IsGiven(parsed, s) /\ ValueOf(parsed, s) \in SettingValues[s]}}

Started(parsed) ==
    IF FirstFlag(parsed) # "" THEN "slate-" \o FirstFlag(parsed) ELSE ResolveApp(FirstWord(parsed))
Folder(parsed) == IF FirstFlag(parsed) # "" THEN FirstFlag(parsed) ELSE FirstWord(parsed)

CommandCalls(parsed) ==
    CASE parsed.name = "run" /\ Started(parsed) # NoApp -> {<<"launch", Started(parsed)>>}
      [] parsed.name = "open" /\ Folder(parsed) \in ToSet(FOLDERS) -> {<<"reveal", Folder(parsed)>>}
      [] parsed.name = "reveal" ->
            {<<"reveal", IF FirstFlag(parsed) = "" THEN "root" ELSE FirstFlag(parsed)>>}
      [] parsed.name = "config" -> ApplyConfig(parsed)
      [] parsed.name = "theme" /\ FirstWord(parsed) \in SettingValues.theme -> {<<"theme", FirstWord(parsed)>>}
      [] parsed.name = "quit" -> {<<"quit", "">>}
      [] OTHER -> {}

RunCommand(text) ==
    \E parsed \in {ParseCommand(text)} : \E word \in {ResolveApp(FirstWord(parsed))} :
        /\ SetQuery("")
        /\ sent' = [ran |-> text, calls |-> CommandCalls(parsed)]
        /\ IF parsed.name \in {"add", "about", "help"} THEN OpenView(parsed.name)
           ELSE UNCHANGED <<activeView, sectionId>>
        /\ IF parsed.name \in {"pin", "unpin"} /\ word # NoApp THEN TogglePin(word)
           ELSE UNCHANGED pinnedIds

Launch(id) ==
    /\ sent' = Calls({<<"launch", id>>})
    /\ UNCHANGED <<activeView, sectionId, query, pinnedIds>>
-----------------------------------------------------------------------------
(***************************************************************************)
(* The keys of the bar.                                                    *)
(***************************************************************************)
Quiet == sent' = Nothing
ViewKept == UNCHANGED <<activeView, sectionId, pinnedIds>>
BarKept == UNCHANGED <<query, derived, selectedIndex, pinnedIds>>

Type(text) ==
    /\ text # query
    /\ SetQuery(text)
    /\ Quiet /\ ViewKept

Arrow(delta) ==
    /\ selectedIndex' = MovedSelection(delta, RowCount)
    /\ Quiet /\ ViewKept /\ UNCHANGED <<query, derived>>

\* Tab takes the highlighted row while a ghost is shown, or the first one.
Accepted ==
    IF selectedIndex < Len(Suggestions) THEN Suggestions[selectedIndex + 1] ELSE Suggestions[1]
Tab ==
    /\ Ghost # ""
    /\ SetQuery(Accepted.completion)
    /\ Quiet /\ ViewKept

RunRow(index) == RunCommand(Trim(Suggestions[index + 1].completion))

Enter ==
    /\ selectedIndex < RowCount
    /\ IF IsCommand(query) THEN RunRow(selectedIndex)
       ELSE Launch(VisibleApps[selectedIndex + 1].id) /\ UNCHANGED selectedIndex

\* One level at a time: out of the text first, then out of the view.
Escape ==
    \/ /\ query # ""
       /\ SetQuery("")
       /\ Quiet /\ ViewKept
    \/ /\ query = "" /\ ~AtRest
       /\ CloseView
       /\ Quiet /\ BarKept
-----------------------------------------------------------------------------
(***************************************************************************)
(* The pointer, and the keys outside the bar.                              *)
(***************************************************************************)
RowsShown ==
    CASE ResultsShown -> Len(Suggestions)
      [] AppListShown -> Len(VisibleApps)
      [] OTHER -> 0

Hover(index) ==
    /\ selectedIndex' = index
    /\ Quiet /\ ViewKept /\ UNCHANGED <<query, derived>>

\* A click focuses the row, which highlights it, and then activates it.
ClickCommand(index) ==
    /\ ResultsShown
    /\ RunRow(index)
ClickApp(index) ==
    /\ AppListShown
    /\ selectedIndex' = index
    /\ Launch(VisibleApps[index + 1].id)
    /\ UNCHANGED derived

\* The rail's buttons stay on the screen when a view is open.
RailAction(view) == view \in RAIL_VIEWS /\ OpenView(view) /\ Quiet /\ BarKept
HelpKey == OpenView("help") /\ Quiet /\ BarKept
UpdatesButton == CountUpdates(APPS) > 0 /\ OpenView("updates") /\ Quiet /\ BarKept
Preferences == OpenView("settings") /\ Quiet /\ BarKept
CloseButton == ~AtRest /\ CloseView /\ Quiet /\ BarKept

ChooseSection(section) ==
    /\ section \in SectionsOf(activeView)
    /\ sectionId' = section
    /\ Quiet /\ BarKept /\ UNCHANGED activeView

\* The folders of the rail, and of the storage view.
OpenFolder(folder) ==
    /\ AtRest \/ (activeView = "storage" /\ Page(activeView, sectionId) = "folders")
    /\ folder \in ToSet(FOLDERS)
    /\ sent' = Calls({<<"reveal", folder>>})
    /\ BarKept /\ UNCHANGED <<activeView, sectionId>>

\* A setting of the appearance page.
ChangeSetting(setting, value) ==
    /\ activeView = "settings" /\ Page(activeView, sectionId) = "appearance"
    /\ value \in SettingValues[setting]
    /\ sent' = Calls({<<setting, value>>})
    /\ BarKept /\ UNCHANGED <<activeView, sectionId>>

\* What may change the text, after which all that depends on it is derived.
TextEvent ==
    /\ \/ \E text \in Texts : Type(text)
       \/ Tab \/ Enter \/ Escape
       \/ \E index \in 0..RowsShown - 1 : ClickCommand(index)
    /\ derived' = DerivedFrom(query', pinnedIds')

Next ==
    \/ TextEvent
    \/ \E delta \in {-1, 1} : Arrow(delta)
    \/ \E index \in 0..RowsShown - 1 : Hover(index) \/ ClickApp(index)
    \/ \E view \in DOMAIN VIEWS : RailAction(view)
    \/ HelpKey \/ UpdatesButton \/ Preferences \/ CloseButton
    \/ \E section \in SectionsOf(activeView) : ChooseSection(section)
    \/ \E folder \in ToSet(FOLDERS) : OpenFolder(folder)
    \/ \E setting \in DOMAIN SettingValues : \E value \in SettingValues[setting] : ChangeSetting(setting, value)

Spec == Init /\ [][Next]_vars
-----------------------------------------------------------------------------
\* The highlight is on a row of the list the bar is choosing from, or at zero
\* when there is none, whatever was typed, completed, run or hovered before:
\* launcher.store.ts resets it with every change of the text because Enter
\* acts on the row with its number and not on the row that was shown.
HighlightIsOnARow == selectedIndex < RowCount \/ (selectedIndex = 0 /\ RowCount = 0)

\* What Tab writes into the bar leads on: whichever row is accepted, the bar
\* has rows for the text it becomes, and Enter then runs that text or what its
\* first row makes of it, never another command.
AcceptedStaysBest ==
    \A k \in DOMAIN Suggestions :
        LET text == Suggestions[k].completion
            rows == DerivedFrom(text, pinnedIds).suggestions
        IN  rows # << >> /\ StartsWith(rows[1].completion, Trim(text))

\* An answer takes the place of the application list on the screen while Enter
\* still launches the highlighted application: no text has both, so nothing
\* is launched that is not shown at rest.
AnswerHidesNoApp == Answer # NoAnswer => VisibleApps = << >>

\* A view opened from rest shows one of its own sections until it is closed;
\* only a view that replaces another keeps the other's section, which its
\* menu does not list (ViewFrame is not mounted anew).
SectionStraysOnlyBetweenViews ==
    [][activeView' # NoView /\ sectionId' \notin SectionsOf(activeView')
         => /\ ~AtRest
            /\ activeView' # activeView \/ sectionId \notin SectionsOf(activeView)]_vars

\* "Keep an application at the top of the list", "/pin terminal": Enter on a
\* text that names an application to be pinned pins it, or takes it off. It does
\* not: a row is run as its completion, and no completion of /pin carries the
\* word that was typed after it.
PinTakesEffect ==
    [][Enter /\ IsCommand(query)
         /\ ParseCommand(query).name = "pin" /\ ResolveApp(FirstWord(ParseCommand(query))) # NoApp
         => pinnedIds' # pinnedIds]_vars
=============================================================================
