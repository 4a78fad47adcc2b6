-------------------------- MODULE CommandBarProofs --------------------------
(***************************************************************************)
(* What the keys and clicks of the Launcher's window can never bring       *)
(* about, whatever is typed.                                               *)
(***************************************************************************)
EXTENDS CommandBar, FiniteSetTheorems, WellFoundedInduction, TLAPS

\* The lists of the bar are sequences: only their lengths matter here.
IsList(s) == s \in Seq({s[i] : i \in DOMAIN s})

\* A list has a length and its indices run up to it.
LEMMA Lengths ==
    ASSUME NEW s, IsList(s)
    PROVE  Len(s) \in Nat /\ DOMAIN s = 1..Len(s)
BY DEF IsList

\* What is a sequence over some set is a list.
LEMMA MembersOfAList ==
    ASSUME NEW S, NEW s \in Seq(S)
    PROVE  IsList(s)
BY DEF IsList

\* A function of 1..n is a list.
LEMMA NumberedIsList ==
    ASSUME NEW n \in Nat, NEW f, f = [k \in 1..n |-> f[k]]
    PROVE  IsList(f)
BY DEF IsList

\* Appending one list to another gives a list.
LEMMA JoinedIsList ==
    ASSUME NEW s, IsList(s), NEW t, IsList(t)
    PROVE  IsList(s \o t)
<1> DEFINE S == {s[i] : i \in DOMAIN s} \cup {t[i] : i \in DOMAIN t}
<1>1. s \in Seq(S) /\ t \in Seq(S)
  BY DEF IsList
<1> HIDE DEF S
<1>2. s \o t \in Seq(S)
  BY <1>1
<1> QED
  BY <1>2, MembersOfAList

\* The empty sequence is a list.
LEMMA NothingIsList == IsList(<< >>)
BY DEF IsList

\* There are finitely many indices in a list.
LEMMA IndicesAreFinite ==
    ASSUME NEW s, IsList(s), NEW I \in SUBSET DOMAIN s
    PROVE  IsFiniteSet(I) /\ Cardinality(I) \in Nat
<1>1. IsFiniteSet(1..Len(s))
  BY Lengths, FS_Interval
<1> QED
  BY <1>1, Lengths, FS_Subset, FS_CardinalityType

\* What a search finds is a list, whatever is searched for.
LEMMA RankedIsList ==
    ASSUME NEW items, IsList(items), NEW needle, NEW texts
    PROVE  IsList(RankByMatch(items, needle, texts))
<1> DEFINE Tried == [i \in DOMAIN items |-> [at |-> i, match |-> Match(needle, texts[i])]]
           matches == {[at |-> i, match |-> Match(needle, texts[i])] : i \in DOMAIN items}
           found == {m \in matches : m.match.found}
           n == Cardinality(found)
           order == [k \in 1..n |->
                        CHOOSE m \in found :
                            Cardinality({j \in found :
                                \/ j.match.score > m.match.score
                                \/ j.match.score = m.match.score /\ j.at < m.at}) = k - 1]
           ranked == [k \in DOMAIN order |-> items[order[k].at]]
<1>1. n \in Nat
  <2>1. Tried \in Surjection(DOMAIN items, matches)
    BY DEF Surjection
  <2>2. IsFiniteSet(DOMAIN items)
    BY IndicesAreFinite
  <2> HIDE DEF Tried, matches
  <2>3. IsFiniteSet(matches)
    BY <2>1, <2>2, FS_Surjection
  <2>4. IsFiniteSet(found)
    BY <2>3, FS_Subset
  <2> QED
    BY <2>4, FS_CardinalityType
<1>2. RankByMatch(items, needle, texts) = << >> \o ranked
  BY DEF RankByMatch, Each, Sorted
<1>3. IsList(ranked)
  <2>1. DOMAIN order = 1..n
    OBVIOUS
  <2> HIDE DEF order, n
  <2>2. ranked = [k \in 1..n |-> ranked[k]]
    BY <2>1
  <2> HIDE DEF ranked
  <2> QED
    BY <1>1, <2>2, NumberedIsList
<1> HIDE DEF ranked
<1> QED
  BY <1>2, <1>3, NothingIsList, JoinedIsList

\* What a filter keeps of a list is a list.
LEMMA KeptIsList ==
    ASSUME NEW s, IsList(s), NEW I \in SUBSET DOMAIN s
    PROVE  IsList(Kept(s, I))
<1> DEFINE n == Cardinality(I)
           order == [k \in 1..n |-> CHOOSE i \in I : Cardinality({j \in I : j < i}) = k - 1]
           kept == [k \in DOMAIN order |-> s[order[k]]]
<1>1. n \in Nat
  BY IndicesAreFinite
<1>2. Kept(s, I) = << >> \o kept
  BY DEF Kept, Each, Sorted
<1>3. IsList(kept)
  <2>1. DOMAIN order = 1..n
    OBVIOUS
  <2> HIDE DEF order, n
  <2>2. kept = [k \in 1..n |-> kept[k]]
    BY <2>1
  <2> HIDE DEF kept
  <2> QED
    BY <1>1, <2>2, NumberedIsList
<1> HIDE DEF kept
<1> QED
  BY <1>2, <1>3, NothingIsList, JoinedIsList

\* The applications of the Launcher are a list.
LEMMA SuiteIsList == IsList(APPS)
BY DEF IsList, APPS

\* So is what the search box leaves of them.
LEMMA FilteredIsList ==
    ASSUME NEW text
    PROVE  IsList(FilterApps(APPS, text))
BY SuiteIsList, RankedIsList DEF FilterApps

\* The sections, one after another, are a list, whatever is pinned.
LEMMA GroupedIsList ==
    ASSUME NEW apps, IsList(apps), NEW pins
    PROVE  IsList(FlattenSections(GroupApps(apps, pins)))
<1> DEFINE Pins(i) == {k \in DOMAIN pins : pins[k] = apps[i].id}
           pinned == {i \in DOMAIN apps : Pins(i) # {}}
           suite == {i \in DOMAIN apps \ pinned : apps[i].source = "gencore"}
           n == Cardinality(pinned)
           order == [k \in 1..n |->
                        CHOOSE i \in pinned :
                            Cardinality({j \in pinned : Min(Pins(j)) < Min(Pins(i))}) = k - 1]
           first == [k \in DOMAIN order |-> apps[order[k]]]
<1>1. FlattenSections(GroupApps(apps, pins))
      = << >> \o first \o Kept(apps, suite) \o Kept(apps, DOMAIN apps \ (pinned \cup suite))
  BY DEF FlattenSections, GroupApps, Each, Sorted
<1>2. IsList(first)
  <2>1. n \in Nat
    BY IndicesAreFinite
  <2>2. DOMAIN order = 1..n
    OBVIOUS
  <2> HIDE DEF order, n
  <2>3. first = [k \in 1..n |-> first[k]]
    BY <2>2
  <2> HIDE DEF first
  <2> QED
    BY <2>1, <2>3, NumberedIsList
<1> HIDE DEF first
<1>3. IsList(Kept(apps, suite)) /\ IsList(Kept(apps, DOMAIN apps \ (pinned \cup suite)))
  BY KeptIsList
<1> HIDE DEF suite, pinned
<1>4. IsList(<< >> \o first)
  BY <1>2, NothingIsList, JoinedIsList
<1>5. IsList(<< >> \o first \o Kept(apps, suite))
  BY <1>3, <1>4, JoinedIsList
<1> QED
  BY <1>1, <1>3, <1>5, JoinedIsList

\* A list's items, each replaced by another, are a list.
LEMMA RowsAreList ==
    ASSUME NEW s, IsList(s), NEW f, f = [i \in DOMAIN s |-> f[i]]
    PROVE  IsList(<< >> \o f)
BY Lengths, NumberedIsList, NothingIsList, JoinedIsList

\* Lists written out, as those of the registry are.
LEMMA TuplesAreLists ==
    /\ \A a : IsList(<<a>>)
    /\ \A a, b : IsList(<<a, b>>)
    /\ \A a, b, c : IsList(<<a, b, c>>)
    /\ \A a, b, c, d : IsList(<<a, b, c, d>>)
    /\ \A a, b, c, d, e, f, g, h, i, j, k, l : IsList(<<a, b, c, d, e, f, g, h, i, j, k, l>>)
BY DEF IsList

\* The registry is a list, and so are a command's arguments and their values.
LEMMA RegistryIsList ==
    /\ IsList(COMMAND_SPECS)
    /\ \A k \in DOMAIN COMMAND_SPECS :
        /\ IsList(COMMAND_SPECS[k].args)
        /\ \A i \in DOMAIN COMMAND_SPECS[k].args : IsList(COMMAND_SPECS[k].args[i].values)
<1> DEFINE Fit(spec) == IsList(spec.args) /\ \A i \in DOMAIN spec.args : IsList(spec.args[i].values)
<1>1. \A name : Fit(Command(name, << >>))
  BY NothingIsList DEF Command
<1>2. \A flag : IsList(Switch(flag).values)
  BY NothingIsList DEF Switch
<1>3. IsList(COMMAND_SPECS) /\ DOMAIN COMMAND_SPECS = 1..12
  BY TuplesAreLists DEF COMMAND_SPECS
<1>4. Fit(COMMAND_SPECS[1])
  <2>1. COMMAND_SPECS[1].args = <<Switch("terminal"), Switch("explorer")>>
    BY DEF COMMAND_SPECS, Command
  <2> QED
    BY <1>2, <2>1, TuplesAreLists
<1>5. Fit(COMMAND_SPECS[2])
  <2>1. COMMAND_SPECS[2].args = [i \in DOMAIN FOLDERS |-> Switch(FOLDERS[i])]
    BY DEF COMMAND_SPECS, Command
  <2>2. DOMAIN FOLDERS = 1..6
    BY DEF FOLDERS
  <2> QED
    BY <1>2, <2>1, <2>2, NumberedIsList
<1>6. Fit(COMMAND_SPECS[3])
  BY NothingIsList DEF COMMAND_SPECS
<1>7. Fit(COMMAND_SPECS[4])
  <2>1. COMMAND_SPECS[4].args = <<Setting("theme", <<"system", "light", "dark">>),
                                  Setting("accent", <<"teal", "cyan", "blue">>),
                                  Setting("density", <<"comfortable", "compact">>),
                                  Setting("material", <<"solid", "mica", "acrylic">>)>>
    BY DEF COMMAND_SPECS, Command
  <2>2. \A flag, values : Setting(flag, values).values = values
    BY DEF Setting
  <2> QED
    BY <2>1, <2>2, TuplesAreLists
<1>8. Fit(COMMAND_SPECS[8])
  <2>1. COMMAND_SPECS[8].args = <<Switch("root"), Switch("config"), Switch("logs")>>
    BY DEF COMMAND_SPECS, Command
  <2> QED
    BY <1>2, <2>1, TuplesAreLists
<1>9. \A k \in {5, 6, 7, 9, 10, 11, 12} : Fit(COMMAND_SPECS[k])
  BY <1>1 DEF COMMAND_SPECS
<1> HIDE DEF Fit
<1>10. \A k \in 1..12 : Fit(COMMAND_SPECS[k])
  BY <1>4, <1>5, <1>6, <1>7, <1>8, <1>9
<1> QED
  BY <1>3, <1>10 DEF Fit

\* Some number of a set is its least.
LEMMA Least ==
    ASSUME NEW S \in SUBSET Nat, S # {}
    PROVE  Min(S) \in S
<1> DEFINE Less == {pair \in Nat \X Nat : pair[1] < pair[2]}
<1>1. IsWellFoundedOn(Less, Nat)
  BY NatLessThanWellFounded, Zenon DEF OpToRel
<1>2. PICK least \in S : \A n \in S : <<n, least>> \notin Less
  <2> HIDE DEF Less
  <2> QED
    BY <1>1, WFMin
<1>3. ASSUME NEW n \in S
      PROVE  least =< n
  <2>1. ~(<<n, least>> \in Nat \X Nat /\ <<n, least>>[1] < <<n, least>>[2])
    BY <1>2, Zenon
  <2> QED
    BY <2>1
<1> QED
  BY <1>3 DEF Min

\* The rows of a command are a list, whatever is typed.
LEMMA PredictedIsList ==
    ASSUME NEW parsed
    PROVE  IsList(PredictCommands(parsed))
<1> DEFINE spec == FindCommand(parsed.name)
<1>1. IsList(SuggestCommands(parsed))
  BY RegistryIsList, RankedIsList, RowsAreList DEF SuggestCommands, Each
<1>2. ASSUME IsKnown(parsed.name)
      PROVE  IsList(spec.args) /\ \A i \in DOMAIN spec.args : IsList(spec.args[i].values)
  BY <1>2, RegistryIsList DEF IsKnown, FindCommand
<1>3. ASSUME IsList(spec.args)
      PROVE  IsList(SuggestFlags(spec, parsed))
  BY <1>3, RankedIsList, RowsAreList DEF SuggestFlags, Each
<1>4. ASSUME NEW name, NEW arg, NEW typed, IsList(arg.values)
      PROVE  IsList(ValueRows(name, arg, typed))
  BY <1>4, RankedIsList, RowsAreList DEF ValueRows, Each
<1>5. ASSUME IsKnown(parsed.name)
      PROVE  IsList(SuggestValues(spec, parsed))
  <2> DEFINE pending == {k \in DOMAIN spec.args : IsPending(spec.args[k], parsed)}
  <2>1. CASE pending = {}
    BY <2>1, NothingIsList DEF SuggestValues
  <2>2. CASE pending # {}
    <3>1. pending \in SUBSET Nat
      BY <1>2, <1>5, Lengths
    <3>2. Min(pending) \in pending
      BY <2>2, <3>1, Least
    <3> QED
      BY <1>2, <1>4, <1>5, <2>2, <3>2 DEF SuggestValues
  <2> QED
    BY <2>1, <2>2
<1>6. IsList(<<ToCommandSuggestion(spec)>>)
  BY TuplesAreLists
<1> QED
  BY <1>1, <1>2, <1>3, <1>5, <1>6 DEF PredictCommands

-----------------------------------------------------------------------------
\* What was remembered is what would be derived.
LEMMA MemoIsTransparent ==
    ASSUME NEW text, NEW pins
    PROVE  DerivedFrom(text, pins) = Derived(text, pins)
<1> DEFINE known == <<text, pins>>
<1>1. known[1] = text /\ known[2] = pins
  OBVIOUS
<1>2. known \in DOMAIN Memo => Memo[known] = Derived(text, pins)
  BY <1>1, MemoAssumption
<1> QED
  BY <1>2 DEF DerivedFrom, Known

\* Whatever is in the bar, there are rows and applications to count.
LEMMA DerivedLengths ==
    ASSUME NEW text, NEW pins
    PROVE  /\ Len(Derived(text, pins).suggestions) \in Nat
           /\ Len(Derived(text, pins).apps) \in Nat
           /\ ~IsCommand(text) => Derived(text, pins).suggestions = << >>
<1>1. IsList(SuggestionsFor(text))
  BY PredictedIsList, NothingIsList DEF SuggestionsFor
<1>2. IsList(FlattenSections(GroupApps(FilterApps(APPS, text), pins)))
  BY FilteredIsList, GroupedIsList
<1> QED
  BY <1>1, <1>2, Lengths DEF Derived, SuggestionsFor

\* The screen shows what the text and the pins give; the highlight is on it.
BarInv ==
    /\ activeView \in DOMAIN VIEWS \cup {NoView}
    /\ derived = Derived(query, pinnedIds)
    /\ selectedIndex \in Nat
    /\ HighlightIsOnARow

\* The rows are counted, and those on the screen are the ones the bar counts.
LEMMA CountsAreNumbers ==
    ASSUME derived = Derived(query, pinnedIds)
    PROVE  /\ Len(Suggestions) \in Nat /\ Len(VisibleApps) \in Nat
           /\ RowCount \in Nat
           /\ RowsShown \in {0, RowCount}
<1>1. Len(Suggestions) \in Nat /\ Len(VisibleApps) \in Nat
  BY DerivedLengths DEF Suggestions, VisibleApps
<1>2. ~IsCommand(query) => Len(Suggestions) = 0
  BY DerivedLengths DEF Suggestions
<1>3. RowCount \in Nat
  BY <1>1 DEF RowCount
<1>4. RowsShown \in {0, RowCount}
  BY <1>2 DEF RowsShown, RowCount, ResultsShown, AppListShown
<1> QED
  BY <1>1, <1>3, <1>4

\* There is a number of rows after a step too.
LEMMA CountAfterAStep ==
    ASSUME derived' = Derived(query', pinnedIds')
    PROVE  RowCount' \in Nat
<1>1. Len(derived'.suggestions) \in Nat /\ Len(derived'.apps) \in Nat
  BY DerivedLengths
<1> QED
  BY <1>1 DEF RowCount, Suggestions, VisibleApps

\* The views by their names.
LEMMA ViewNames ==
    /\ DOMAIN VIEWS = {"storage", "add", "console", "settings", "about", "help", "updates"}
    /\ NoView \notin DOMAIN VIEWS
BY DEF VIEWS, NoView

ViewTyped == activeView \in DOMAIN VIEWS \cup {NoView}

\* A command clears the bar, and opens a view of the window if any.
LEMMA RunningClears ==
    ASSUME NEW text, RunCommand(text), ViewTyped
    PROVE  selectedIndex' = 0 /\ ViewTyped'
<1>1. selectedIndex' = 0
  BY DEF RunCommand, SetQuery
<1>2. activeView' = activeView \/ activeView' \in {"add", "about", "help"}
  BY DEF RunCommand, OpenView
<1> QED
  BY <1>1, <1>2, ViewNames DEF ViewTyped

\* A key or a click that may change the text leaves the highlight on a row:
\* it goes back to the first one, or text and rows are as they were.
LEMMA TextEventKeeps ==
    ASSUME BarInv, TextEvent
    PROVE  BarInv'
<1> USE DEF ViewTyped
<1>1. derived' = Derived(query', pinnedIds')
  BY MemoIsTransparent DEF TextEvent
<1>2. RowCount' \in Nat
  BY <1>1, CountAfterAStep
<1>3. ASSUME selectedIndex' = 0, ViewTyped'
      PROVE  BarInv'
  BY <1>1, <1>2, <1>3 DEF BarInv, HighlightIsOnARow
<1>4. ASSUME UNCHANGED <<query, selectedIndex, pinnedIds>>, ViewTyped'
      PROVE  BarInv'
  <2>1. derived' = derived
    BY <1>1, <1>4 DEF BarInv
  <2>2. RowCount' = RowCount
    BY <1>4, <2>1 DEF RowCount, Suggestions, VisibleApps
  <2> QED
    BY <1>1, <1>4, <2>2 DEF BarInv, HighlightIsOnARow
<1>5. ASSUME NEW text \in Texts, Type(text)
      PROVE  BarInv'
  BY <1>3, <1>5 DEF Type, SetQuery, ViewKept, BarInv
<1>6. CASE Tab
  BY <1>3, <1>6 DEF Tab, SetQuery, ViewKept, BarInv
<1>7. CASE Enter
  <2>1. CASE IsCommand(query)
    <3>1. RunCommand(Trim(Suggestions[selectedIndex + 1].completion))
      BY <1>7, <2>1 DEF Enter, RunRow
    <3> QED
      BY <1>3, <3>1, RunningClears DEF BarInv
  <2>2. CASE ~IsCommand(query)
    BY <1>4, <1>7, <2>2 DEF Enter, Launch, BarInv
  <2> QED
    BY <2>1, <2>2
<1>8. CASE Escape
  <2>1. ASSUME SetQuery(""), ViewKept
        PROVE  BarInv'
    BY <1>3, <2>1 DEF SetQuery, ViewKept, BarInv
  <2>2. ASSUME CloseView, BarKept
        PROVE  BarInv'
    BY <1>4, <2>2 DEF CloseView, BarKept, BarInv
  <2> QED
    BY <1>8, <2>1, <2>2 DEF Escape
<1>9. ASSUME NEW index \in 0..RowsShown - 1, ClickCommand(index)
      PROVE  BarInv'
  <2>1. RunCommand(Trim(Suggestions[index + 1].completion))
    BY <1>9 DEF ClickCommand, RunRow
  <2> QED
    BY <1>3, <2>1, RunningClears DEF BarInv
<1> QED
  BY <1>5, <1>6, <1>7, <1>8, <1>9 DEF TextEvent

\* What leaves the bar alone leaves the highlight where it is.
LEMMA BarKeptKeeps ==
    ASSUME BarInv, BarKept, ViewTyped'
    PROVE  BarInv'
<1>1. RowCount' = RowCount
  BY DEF BarKept, RowCount, Suggestions, VisibleApps
<1> QED
  BY <1>1 DEF BarInv, BarKept, HighlightIsOnARow, ViewTyped

\* Moving the highlight keeps it on a row, since the rows on the screen are
\* the ones the bar counts.
LEMMA MovingKeeps ==
    ASSUME BarInv, NEW index \in Nat,
           selectedIndex' = index, index < RowCount \/ (index = 0 /\ RowCount = 0),
           UNCHANGED <<activeView, query, derived, pinnedIds>>
    PROVE  BarInv'
<1>1. RowCount' = RowCount
  BY DEF RowCount, Suggestions, VisibleApps
<1> QED
  BY <1>1 DEF BarInv, HighlightIsOnARow

\* One case for each key and click.
LEMMA BarInvHolds == Spec => []BarInv
<1>1. Init => BarInv
  <2> SUFFICES ASSUME Init PROVE BarInv
    OBVIOUS
  <2>1. derived = Derived(query, pinnedIds)
    BY DEF Init
  <2>2. RowCount \in Nat
    BY <2>1, CountsAreNumbers
  <2>3. selectedIndex = 0 /\ activeView = NoView
    BY DEF Init
  <2> QED
    BY <2>1, <2>2, <2>3 DEF BarInv, HighlightIsOnARow
<1>2. BarInv /\ [Next]_vars => BarInv'
  <2> SUFFICES ASSUME BarInv, [Next]_vars PROVE BarInv'
    OBVIOUS
  <2>1. RowCount \in Nat /\ RowsShown \in {0, RowCount} /\ Len(VisibleApps) \in Nat
    BY CountsAreNumbers DEF BarInv
  <2>2. CASE TextEvent
    BY <2>2, TextEventKeeps
  <2>3. ASSUME NEW delta \in {-1, 1}, Arrow(delta)
        PROVE  BarInv'
    <3> DEFINE index == MovedSelection(delta, RowCount)
    <3>1. index \in Nat /\ (index < RowCount \/ (index = 0 /\ RowCount = 0))
      BY <2>1 DEF MovedSelection, BarInv
    <3> QED
      BY <2>3, <3>1, MovingKeeps DEF Arrow, ViewKept
  <2>4. ASSUME NEW index \in 0..RowsShown - 1, Hover(index)
        PROVE  BarInv'
    BY <2>1, <2>4, MovingKeeps DEF Hover, ViewKept
  <2>5. ASSUME NEW index \in 0..RowsShown - 1, ClickApp(index)
        PROVE  BarInv'
    BY <2>1, <2>5, MovingKeeps DEF ClickApp, Launch
  <2>6. ASSUME NEW view \in DOMAIN VIEWS, RailAction(view)
        PROVE  BarInv'
    BY <2>6, BarKeptKeeps DEF RailAction, OpenView, ViewTyped
  <2>7. CASE HelpKey
    BY <2>7, BarKeptKeeps, ViewNames DEF HelpKey, OpenView, ViewTyped
  <2>8. CASE UpdatesButton
    BY <2>8, BarKeptKeeps, ViewNames DEF UpdatesButton, OpenView, ViewTyped
  <2>9. CASE Preferences
    BY <2>9, BarKeptKeeps, ViewNames DEF Preferences, OpenView, ViewTyped
  <2>10. CASE CloseButton
    BY <2>10, BarKeptKeeps DEF CloseButton, CloseView, ViewTyped
  <2>11. ASSUME NEW section \in SectionsOf(activeView), ChooseSection(section)
         PROVE  BarInv'
    BY <2>11, BarKeptKeeps DEF ChooseSection, ViewTyped, BarInv
  <2>12. ASSUME NEW folder \in ToSet(FOLDERS), OpenFolder(folder)
         PROVE  BarInv'
    BY <2>12, BarKeptKeeps DEF OpenFolder, ViewTyped, BarInv
  <2>13. ASSUME NEW setting \in DOMAIN SettingValues, NEW value \in SettingValues[setting],
                ChangeSetting(setting, value)
         PROVE  BarInv'
    BY <2>13, BarKeptKeeps DEF ChangeSetting, ViewTyped, BarInv
  <2>14. CASE UNCHANGED vars
    BY <2>14, BarKeptKeeps DEF vars, BarKept, ViewTyped, BarInv
  <2> QED
    BY <2>2, <2>3, <2>4, <2>5, <2>6, <2>7, <2>8, <2>9, <2>10, <2>11, <2>12, <2>13, <2>14
    DEF Next
<1> QED
  BY <1>1, <1>2, PTL DEF Spec

\* Whatever is typed, completed, run, hovered or clicked, in whatever order,
\* Enter acts on a row that is there: the highlight is on a row, or at zero
\* when there is none (moveSelection, setQuery and ContentLayout's count).
THEOREM HighlightStaysOnARow == Spec => []HighlightIsOnARow
<1>1. BarInv => HighlightIsOnARow
  BY DEF BarInv
<1> QED
  BY <1>1, BarInvHolds, PTL
-----------------------------------------------------------------------------
\* The first section of a view is one of its own.
LEMMA FirstSectionIsOwn ==
    ASSUME NEW view \in DOMAIN VIEWS
    PROVE  VIEWS[view][1] \in SectionsOf(view)
<1>1. view # NoView
  BY ViewNames
<1>2. 1 \in DOMAIN VIEWS[view]
  BY ViewNames DEF VIEWS
<1> QED
  BY <1>1, <1>2 DEF SectionsOf, ToSet

\* What the property says of one step.
Strays ==
    activeView' # NoView /\ sectionId' \notin SectionsOf(activeView')
    => /\ ~AtRest
       /\ activeView' # activeView \/ sectionId \notin SectionsOf(activeView)

\* OpenView keeps a foreign section only when a view was open.
LEMMA OpeningStrays ==
    ASSUME NEW view \in DOMAIN VIEWS, OpenView(view)
    PROVE  Strays
<1>1. AtRest => sectionId' \in SectionsOf(view)
  BY FirstSectionIsOwn DEF OpenView
<1>2. ~AtRest => sectionId' = sectionId
  BY DEF OpenView
<1> QED
  BY <1>1, <1>2 DEF Strays, OpenView

\* A step that touches neither view nor section changes nothing about them.
LEMMA ViewKeptStrays ==
    ASSUME UNCHANGED <<activeView, sectionId>>
    PROVE  Strays
BY DEF Strays, AtRest

\* No view is left that could show a foreign section.
LEMMA ClosingStrays ==
    ASSUME CloseView
    PROVE  Strays
BY DEF CloseView, Strays

\* A command opens a view as a button does, or leaves it alone.
LEMMA RunningStrays ==
    ASSUME NEW text, RunCommand(text)
    PROVE  Strays
<1>1. CASE UNCHANGED <<activeView, sectionId>>
  BY <1>1, ViewKeptStrays
<1>2. ASSUME NEW view \in {"add", "about", "help"}, OpenView(view)
      PROVE  Strays
  BY <1>2, OpeningStrays, ViewNames
<1> QED
  BY <1>1, <1>2 DEF RunCommand

\* A view that is opened from rest shows a section of its own until it is
\* closed: only a view that takes another's place, without ViewFrame being
\* mounted anew, shows a section its menu does not list.
THEOREM SectionsAreTheViewsOwn == Spec => SectionStraysOnlyBetweenViews
<1>1. [Next]_vars => [Strays]_vars
  <2> SUFFICES ASSUME Next PROVE Strays
    OBVIOUS
  <2>1. CASE TextEvent
    <3>1. ASSUME NEW text \in Texts, Type(text)
          PROVE  Strays
      BY <3>1, ViewKeptStrays DEF Type, ViewKept
    <3>2. CASE Tab
      BY <3>2, ViewKeptStrays DEF Tab, ViewKept
    <3>3. CASE Enter
      <4>1. CASE IsCommand(query)
        <5>1. RunCommand(Trim(Suggestions[selectedIndex + 1].completion))
          BY <3>3, <4>1 DEF Enter, RunRow
        <5> QED
          BY <5>1, RunningStrays
      <4>2. CASE ~IsCommand(query)
        BY <3>3, <4>2, ViewKeptStrays DEF Enter, Launch
      <4> QED
        BY <4>1, <4>2
    <3>4. CASE Escape
      BY <3>4, ViewKeptStrays, ClosingStrays DEF Escape, ViewKept
    <3>5. ASSUME NEW index \in 0..RowsShown - 1, ClickCommand(index)
          PROVE  Strays
      <4>1. RunCommand(Trim(Suggestions[index + 1].completion))
        BY <3>5 DEF ClickCommand, RunRow
      <4> QED
        BY <4>1, RunningStrays
    <3> QED
      BY <2>1, <3>1, <3>2, <3>3, <3>4, <3>5 DEF TextEvent
  <2>2. ASSUME NEW delta \in {-1, 1}, Arrow(delta)
        PROVE  Strays
    BY <2>2, ViewKeptStrays DEF Arrow, ViewKept
  <2>3. ASSUME NEW index \in 0..RowsShown - 1, Hover(index) \/ ClickApp(index)
        PROVE  Strays
    BY <2>3, ViewKeptStrays DEF Hover, ClickApp, Launch, ViewKept
  <2>4. ASSUME NEW view \in DOMAIN VIEWS, RailAction(view)
        PROVE  Strays
    BY <2>4, OpeningStrays DEF RailAction
  <2>5. CASE HelpKey \/ UpdatesButton \/ Preferences
    <3>1. OpenView("help") \/ OpenView("updates") \/ OpenView("settings")
      BY <2>5 DEF HelpKey, UpdatesButton, Preferences
    <3> QED
      BY <3>1, OpeningStrays, ViewNames
  <2>6. CASE CloseButton
    BY <2>6, ClosingStrays DEF CloseButton
  <2>7. ASSUME NEW section \in SectionsOf(activeView), ChooseSection(section)
        PROVE  Strays
    BY <2>7 DEF ChooseSection, Strays
  <2>8. ASSUME NEW folder \in ToSet(FOLDERS), OpenFolder(folder)
        PROVE  Strays
    BY <2>8, ViewKeptStrays DEF OpenFolder
  <2>9. ASSUME NEW setting \in DOMAIN SettingValues, NEW value \in SettingValues[setting],
               ChangeSetting(setting, value)
        PROVE  Strays
    BY <2>9, ViewKeptStrays DEF ChangeSetting
  <2> QED
    BY <2>1, <2>2, <2>3, <2>4, <2>5, <2>6, <2>7, <2>8, <2>9 DEF Next
<1> QED
  BY <1>1, PTL DEF Spec, SectionStraysOnlyBetweenViews, Strays
=============================================================================
