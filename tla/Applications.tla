---------------------------- MODULE Applications ----------------------------
(***************************************************************************)
(* The Launcher's application list: the entries, the filter behind the     *)
(* search box and the grouping into the sections the column draws.         *)
(***************************************************************************)
EXTENDS FuzzyMatch

App(id, name, source, state) == [id |-> id, name |-> name, source |-> source, state |-> state]
Portable(id, name) == App(id, name, "portable", "ready")

APPS == <<
    App("slate-terminal", "Terminal", "gencore", "running"),
    App("slate-explorer", "Explorer", "gencore", "ready"),
    Portable("browser", "Browser"), Portable("calculator", "Calculator"),
    Portable("code", "Code"), Portable("crypto", "Crypto"),
    App("downloader", "Downloader", "portable", "update"),
    Portable("editor", "Editor"), Portable("filesync", "FileSync"),
    Portable("gallery", "Gallery"), Portable("notes", "Notes"),
    App("packer", "Packer", "portable", "update"),
    Portable("player", "Player"), Portable("search", "Search"),
    Portable("studio", "Studio"), Portable("sync", "Sync") >>

Names(apps) == [i \in DOMAIN apps |-> apps[i].name]

\* Mutant: a search that finds nothing shows everything.
FilterOrAll(apps, query) ==
    LET found == RankByMatch(apps, Trim(query), Names(apps))
    IN  IF found = << >> THEN apps ELSE found

\* Best first; an empty query keeps the list as it is.
FilterApps(apps, query) ==
    IF Trim(query) = "" THEN apps
    ELSE RankByMatch(apps, Trim(query), Names(apps))

\* Pinned in the order of pinning, then the suite's own, then the portable
\* ones. A section without applications is dropped before it is drawn; it
\* adds nothing to the flattened list.
GroupApps(apps, pinnedIds) ==
    LET Pins(i) == {k \in DOMAIN pinnedIds : pinnedIds[k] = apps[i].id}
        pinned == {i \in DOMAIN apps : Pins(i) # {}}
        suite == {i \in DOMAIN apps \ pinned : apps[i].source = "gencore"}
    IN  [pinned |-> Each(LAMBDA i : apps[i], Sorted(pinned, LAMBDA i, j : Min(Pins(i)) < Min(Pins(j)))),
         suite |-> Kept(apps, suite),
         portable |-> Kept(apps, DOMAIN apps \ (pinned \cup suite))]

FlattenSections(sections) == sections.pinned \o sections.suite \o sections.portable

CountUpdates(apps) == Len(SelectSeq(apps, LAMBDA app : app.state = "update"))

\* The application a word names, found as the search box would find it.
NoApp == ""
ResolveApp(term) ==
    LET ranked == RankByMatch(APPS, term, Names(APPS))
    IN  IF term = "" \/ ranked = << >> THEN NoApp ELSE ranked[1].id
=============================================================================
