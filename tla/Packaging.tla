----------------------------- MODULE Packaging -----------------------------
(***************************************************************************)
(* The scripts that make a release out of a checkout: bun-version (writes  *)
(* the version everywhere, or checks it), bun-webview2 (fills the cache of *)
(* the browser runtime), bun-package (builds, assembles, embeds, verifies  *)
(* and archives) and its --verify-only.                                    *)
(*                                                                         *)
(* A script is the sequence of its steps; one runs at a time, and dies, or *)
(* has a command fail, at any of them. Meanwhile the developer edits the   *)
(* files that hold versions and cleans the build.                          *)
(***************************************************************************)
EXTENDS Integers, FiniteSets, Sequences, SequencesExt

CONSTANTS
    Apps,           \* the applications of the suite
    Icons,          \* those whose icon the checkout has
    MaxMishaps      \* bound: edits, deaths and failures, all told

\* SUITE_APPS is a list.
ASSUME PackagingAssumption == IsFiniteSet(Apps)

VARIABLES
    repo,           \* the version each file of the checkout holds
    built,          \* the version of each executable under target/release
    cache,          \* .cache/webview2: files at its root, and one directory down
    tree,           \* dist/installDir: the files there are, and their content
    dist,           \* for each version, its zip and the checksum beside it
    job,            \* the script that runs
    outcome,        \* how the last one ended
    agreed,         \* history: a bun-version that ended well saw the files as they are
    cut,            \* history: a fetch was cut short, and none completed since
    gutted,         \* history: a removal of the tree was cut short
    mishaps

packaging == <<repo, built, cache, tree, dist, job, outcome, agreed, cut, gutted, mishaps>>
-----------------------------------------------------------------------------
SUITE_APPS == SetToSeq(Apps)
Versions == 1..2
Unset == 0          \* no version in the file
Missing == -1       \* no file
Torn == -2          \* a file whose writing was cut short

\* The files bun-version keeps in step with the root package.json.
Targets == <<<<"cargo", "workspace">>>>
           \o [i \in DOMAIN SUITE_APPS |-> <<"conf", SUITE_APPS[i]>>]
           \o [i \in DOMAIN SUITE_APPS |-> <<"package", SUITE_APPS[i]>>]
Cargo == <<"cargo", "workspace">>

\* The paths of an install: a kind and a name.
LAYOUT_DIRECTORIES == <<<<"dir", "appdata/resources">>, <<"dir", "storage/music">>>>
Executable(name) == <<"exe", name>>
Executables == Append([i \in DOMAIN SUITE_APPS |-> Executable(SUITE_APPS[i])], Executable("Slate"))
layoutFiles ==
    <<[path |-> Executable("Slate"), required |-> TRUE]>>
    \o [i \in 1 .. 2 * Len(SUITE_APPS) |->
            LET name == SUITE_APPS[(i + 1) \div 2]
            IN  IF i % 2 = 1 THEN [path |-> Executable(name), required |-> TRUE]
                ELSE [path |-> <<"icon", name>>, required |-> FALSE]]
seedConfig == <<<<"seed", "suite">>>> \o [i \in DOMAIN SUITE_APPS |-> <<"seed", SUITE_APPS[i]>>]
Resources == <<<<"resource", "fonts">>>>
rootMarker == <<"root", "marker">>
rootReadme == <<"root", "readme">>
RuntimeFiles == {"msedgewebview2.exe", "msedge.dll"}
Runtime == {<<"runtime", file>> : file \in RuntimeFiles}
Kinds == {"dir", "exe", "icon", "seed", "resource", "runtime", "root"}

RequiredFiles == {file.path : file \in {f \in ToSet(layoutFiles) : f.required}}
Declared == ToSet(LAYOUT_DIRECTORIES) \cup RequiredFiles \cup ToSet(seedConfig)
            \cup ToSet(Resources) \cup {rootMarker, rootReadme}

Put(path, content) == [p \in DOMAIN tree \cup {path} |-> IF p = path THEN content ELSE tree[p]]
Without(paths) == [p \in DOMAIN tree \ paths |-> tree[p]]
Empty == [p \in {} |-> 0]
-----------------------------------------------------------------------------
(***************************************************************************)
(* Scripts.                                                                *)
(***************************************************************************)
Step(do, on) == [do |-> do, on |-> on]
Steps(do, paths) == [i \in DOMAIN paths |-> Step(do, paths[i])]
Once(do) == <<Step(do, <<"", "">>)>>

Idle == [script |-> "none", version |-> 0, todo |-> << >>, problem |-> FALSE, undisturbed |-> TRUE]
Running == job.script # "none"
Doing(do) == Running /\ job.todo # << >> /\ Head(job.todo).do = do
On == Head(job.todo).on

\* Mutant: builds what is not there yet.
buildMissing ==
    Steps("build", SelectSeq(Executables, LAMBDA exe : built[exe] = Missing))

buildEverything == Steps("build", Executables)

\* Mutant: the files at the root before those below it.
assembleRootFirst ==
    Once("remove") \o Steps("mkdir", LAYOUT_DIRECTORIES)
    \o Steps("copy", [i \in DOMAIN layoutFiles |-> layoutFiles[i].path]) \o Once("complete")
    \o <<Step("mark", rootMarker), Step("mark", rootReadme)>>
    \o Steps("write", seedConfig) \o Steps("write", Resources)

assemble ==
    Once("remove") \o Steps("mkdir", LAYOUT_DIRECTORIES)
    \o Steps("copy", [i \in DOMAIN layoutFiles |-> layoutFiles[i].path]) \o Once("complete")
    \o Steps("write", seedConfig) \o Steps("write", Resources)
    \o <<Step("mark", rootMarker), Step("mark", rootReadme)>>

archive == Once("remove-zip") \o Once("compress") \o Once("checksum")

package == buildEverything \o assemble \o Once("embed") \o Once("verify") \o archive

\* What expand finds in the archive: the files, or a directory of them.
fetchRuntime(files, place) ==
    Once("clear-cache")
    \o [i \in DOMAIN files |-> Step("expand", <<place, files[i]>>)]
    \o Once("flatten") \o Once("cached")

Start(script, todo) ==
    /\ ~Running
    /\ job' = [Idle EXCEPT !.script = script, !.version = repo.root, !.todo = todo]
    /\ outcome' = "none"
    /\ UNCHANGED <<repo, built, cache, tree, dist, agreed, cut, gutted, mishaps>>

Package == \E script \in {"package", "release"} : Start(script, package)
VerifyOnly == Start("verify", Once("verify"))
VersionScript == \E script \in {"version", "check"} : Start(script, Steps("target", Targets))
Fetch ==
    \E files \in SetToSeqs(RuntimeFiles), place \in {"root", "inner"} :
        Start("fetch", fetchRuntime(files, place))

Advance == job' = [job EXCEPT !.todo = Tail(@)] /\ UNCHANGED <<outcome, mishaps>>
Throw == job' = Idle /\ outcome' = "failed" /\ UNCHANGED mishaps

\* The script comes to its end.
End ==
    /\ Running /\ job.todo = << >>
    /\ job' = Idle
    /\ outcome' = IF job.problem THEN "failed" ELSE job.script
    /\ agreed' = (agreed \/ (job.script \in {"version", "check"} /\ ~job.problem /\ job.undisturbed))
    /\ cut' = (cut /\ job.script # "fetch")
    /\ UNCHANGED <<repo, built, cache, tree, dist, gutted, mishaps>>
-----------------------------------------------------------------------------
(***************************************************************************)
(* bun-version: one target after the other.                                *)
(***************************************************************************)
\* The pattern finds no place in a manifest without a version; an object
\* takes one. What is no object any more throws as it is read.
Rewritten(target) ==
    IF target = Cargo /\ repo.holds[target] \in {Unset, Torn} THEN repo.holds[target]
    ELSE job.version
Unreadable(target) == target # Cargo /\ repo.holds[target] = Torn
Mismatch ==
    /\ job' = [job EXCEPT !.todo = Tail(@), !.problem = TRUE]
    /\ UNCHANGED <<outcome, mishaps>>

Target ==
    /\ Doing("target")
    /\ \/ Unreadable(On) /\ Throw /\ UNCHANGED repo
       \/ repo.holds[On] = job.version /\ Advance /\ UNCHANGED repo
       \/ /\ ~Unreadable(On) /\ repo.holds[On] # job.version
          /\ IF repo.holds[On] = Missing \/ job.script = "check" \/ Rewritten(On) # job.version
             THEN Mismatch /\ UNCHANGED repo
             ELSE Advance /\ repo' = [repo EXCEPT !.holds[On] = Rewritten(On)]
    /\ UNCHANGED <<built, cache, tree, dist, agreed, cut, gutted>>
-----------------------------------------------------------------------------
(***************************************************************************)
(* bun-webview2.                                                           *)
(***************************************************************************)
isCached == "msedgewebview2.exe" \in cache.root

CacheOnly == UNCHANGED <<repo, built, tree, dist, agreed, gutted>>

ClearCache ==
    /\ Doing("clear-cache")
    /\ cache' = [root |-> {}, inner |-> {}]
    /\ Advance /\ CacheOnly /\ UNCHANGED cut

Expand ==
    /\ Doing("expand")
    /\ cache' = [cache EXCEPT ![On[1]] = @ \cup {On[2]}]
    /\ Advance /\ CacheOnly /\ UNCHANGED cut

\* A runtime found one directory down is moved up, file by file.
Flatten ==
    /\ Doing("flatten")
    /\ IF isCached \/ "msedgewebview2.exe" \notin cache.inner THEN Advance
       ELSE \E children \in SetToSeqs(cache.inner) :
            /\ job' = [job EXCEPT !.todo =
                    [i \in DOMAIN children |-> Step("move", <<"inner", children[i]>>)] \o Tail(@)]
            /\ UNCHANGED <<outcome, mishaps>>
    /\ CacheOnly /\ UNCHANGED <<cache, cut>>

Move ==
    /\ Doing("move")
    /\ cache' = [root |-> cache.root \cup {On[2]}, inner |-> cache.inner \ {On[2]}]
    /\ Advance /\ CacheOnly /\ UNCHANGED cut

Cached ==
    /\ Doing("cached")
    /\ IF isCached THEN Advance ELSE Throw
    /\ CacheOnly /\ UNCHANGED <<cache, cut>>
-----------------------------------------------------------------------------
(***************************************************************************)
(* bun-package.                                                            *)
(***************************************************************************)
TreeOnly == UNCHANGED <<repo, built, cache, dist, agreed, cut>>

\* The CLI builds an application of the version its configuration names, or
\* else the workspace's; cargo has no other.
VersionBuilt(exe) ==
    IF exe = Executable("Slate") \/ repo.holds[<<"conf", exe[2]>>] = Unset THEN repo.holds[Cargo]
    ELSE repo.holds[<<"conf", exe[2]>>]

Compile ==
    /\ Doing("build")
    /\ IF VersionBuilt(On) \in Versions /\ repo.holds[Cargo] \in Versions
       THEN built' = [built EXCEPT ![On] = VersionBuilt(On)] /\ Advance
       ELSE Throw /\ UNCHANGED built
    /\ UNCHANGED <<repo, cache, tree, dist, agreed, cut, gutted>>

RemoveTree ==
    /\ Doing("remove")
    /\ tree' = Empty /\ gutted' = FALSE
    /\ Advance /\ TreeOnly

MakeDirectory ==
    /\ Doing("mkdir")
    /\ tree' = Put(On, 0)
    /\ Advance /\ TreeOnly /\ UNCHANGED gutted

\* A source that is not there is skipped; what was required is told at the end.
IsIcon(path) == path[1] = "icon"
HasSource(path) == IF IsIcon(path) THEN path[2] \in Icons ELSE built[path] # Missing
Copy ==
    /\ Doing("copy")
    /\ tree' = IF HasSource(On) THEN Put(On, IF IsIcon(On) THEN 0 ELSE built[On]) ELSE tree
    /\ Advance /\ TreeOnly /\ UNCHANGED gutted

Complete ==
    /\ Doing("complete")
    /\ IF RequiredFiles \subseteq DOMAIN tree THEN Advance ELSE Throw
    /\ TreeOnly /\ UNCHANGED <<tree, gutted>>

Write ==
    /\ Doing("write")
    /\ tree' = Put(On, 0)
    /\ Advance /\ TreeOnly /\ UNCHANGED gutted

Mark ==
    /\ Doing("mark")
    /\ tree' = Put(On, job.version)
    /\ Advance /\ TreeOnly /\ UNCHANGED gutted

\* Every file of the cache is copied, whichever there are. (What a Flatten cut
\* short left one directory down is copied there too; nothing looks for it.)
Embedded(copied) ==
    [p \in DOMAIN tree \cup {<<"runtime", f>> : f \in copied} |->
        IF p \in DOMAIN tree THEN tree[p] ELSE 0]
EmbedWebView2 ==
    /\ Doing("embed")
    /\ IF isCached
       THEN tree' = Embedded(cache.root) /\ Advance
       ELSE /\ IF job.script = "release" THEN Throw ELSE Advance
            /\ UNCHANGED tree
    /\ TreeOnly /\ UNCHANGED gutted

\* Looks for the directories and for the required files, not into them.
Verified == ToSet(LAYOUT_DIRECTORIES) \cup RequiredFiles \cup {rootMarker, rootReadme}
Verify ==
    /\ Doing("verify")
    /\ IF Verified \subseteq DOMAIN tree THEN Advance ELSE Throw
    /\ TreeOnly /\ UNCHANGED <<tree, gutted>>

ZipOnly == UNCHANGED <<repo, built, cache, tree, agreed, cut, gutted>>
Zipped(whole) == [tree |-> tree, whole |-> whole, release |-> job.script = "release", cut |-> cut]

RemoveZip ==
    /\ Doing("remove-zip")
    /\ dist' = [dist EXCEPT ![job.version].zip = {}]
    /\ Advance /\ ZipOnly

\* Mutant: goes on though the command failed.
CompressRegardless ==
    /\ Doing("compress")
    /\ \E whole \in BOOLEAN : dist' = [dist EXCEPT ![job.version].zip = {Zipped(whole)}]
    /\ Advance /\ ZipOnly

Compress ==
    /\ Doing("compress")
    /\ dist' = [dist EXCEPT ![job.version].zip = {Zipped(TRUE)}]
    /\ Advance /\ ZipOnly

Checksum ==
    /\ Doing("checksum")
    /\ dist' = [dist EXCEPT ![job.version].sha = dist[job.version].zip]
    /\ Advance /\ ZipOnly
-----------------------------------------------------------------------------
(***************************************************************************)
(* Mishaps. Each counts against the bound.                                 *)
(***************************************************************************)
Mishap == mishaps < MaxMishaps /\ mishaps' = mishaps + 1

\* What a step leaves that is cut short.
HalfRemoved ==
    /\ Doing("remove")
    /\ \E kind \in Kinds : tree' = Without({p \in DOMAIN tree : p[1] = kind})
    /\ gutted' = TRUE /\ UNCHANGED <<repo, cache, dist>>
HalfWritten ==
    /\ (Doing("copy") /\ HasSource(On)) \/ Doing("write") \/ Doing("mark")
    /\ tree' = Put(On, Torn) /\ UNCHANGED <<repo, cache, dist, gutted>>
HalfEmbedded ==
    /\ Doing("embed") /\ isCached
    /\ \E copied \in SUBSET cache.root : tree' = Embedded(copied)
    /\ UNCHANGED <<repo, cache, dist, gutted>>
HalfRewritten ==
    /\ Doing("target") /\ job.script = "version"
    /\ repo.holds[On] \notin {job.version, Missing, Torn}
    /\ repo' = [repo EXCEPT !.holds[On] = Torn] /\ UNCHANGED <<tree, cache, dist, gutted>>
HalfCleared ==
    /\ Doing("clear-cache")
    /\ \E file \in cache.root : cache' = [cache EXCEPT !.root = @ \ {file}]
    /\ UNCHANGED <<repo, tree, dist, gutted>>
HalfZipped ==
    /\ Doing("compress")
    /\ dist' = [dist EXCEPT ![job.version].zip = {Zipped(FALSE)}]
    /\ UNCHANGED <<repo, tree, cache, gutted>>
HalfSummed ==
    /\ Doing("checksum")
    /\ dist' = [dist EXCEPT ![job.version].sha = {}]
    /\ UNCHANGED <<repo, tree, cache, gutted>>

\* The script dies, or the command it runs fails, before a step or in it.
Die ==
    /\ Running /\ job.todo # << >> /\ Mishap
    /\ job' = Idle /\ outcome' = "failed"
    /\ cut' = (cut \/ job.script = "fetch")
    /\ \/ HalfRemoved \/ HalfWritten \/ HalfEmbedded \/ HalfRewritten \/ HalfCleared \/ HalfZipped
       \/ HalfSummed
       \/ UNCHANGED <<repo, tree, cache, dist, gutted>>
    /\ UNCHANGED <<built, agreed>>

Disturb == job' = [job EXCEPT !.undisturbed = ~Running] /\ outcome' = "none" /\ agreed' = FALSE

\* The version is bumped, or a file edited by hand.
Bump ==
    /\ Mishap /\ Disturb
    /\ \E version \in Versions \ {repo.root} : repo' = [repo EXCEPT !.root = version]
    /\ UNCHANGED <<built, cache, tree, dist, cut, gutted>>
EditByHand ==
    /\ Mishap /\ Disturb
    /\ \E target \in ToSet(Targets), held \in Versions \cup {Unset, Missing} :
        /\ held # repo.holds[target]
        /\ repo' = [repo EXCEPT !.holds[target] = held]
    /\ UNCHANGED <<built, cache, tree, dist, cut, gutted>>

Clean ==
    /\ Mishap
    /\ built' = [exe \in DOMAIN built |-> Missing]
    /\ UNCHANGED <<repo, cache, tree, dist, job, outcome, agreed, cut, gutted>>
-----------------------------------------------------------------------------
PackagingInit ==
    /\ repo = [root |-> 1, holds |-> [target \in ToSet(Targets) |-> 1]]
    /\ built = [exe \in {Executable(name) : name \in Apps \cup {"Slate"}} |-> Missing]
    /\ cache = [root |-> {}, inner |-> {}]
    /\ tree = Empty
    /\ dist = [version \in Versions |-> [zip |-> {}, sha |-> {}]]
    /\ job = Idle /\ outcome = "none"
    /\ agreed = FALSE /\ cut = FALSE /\ gutted = FALSE /\ mishaps = 0

PackagingNext ==
    \/ Package \/ VerifyOnly \/ VersionScript \/ Fetch \/ End
    \/ Target
    \/ ClearCache \/ Expand \/ Flatten \/ Move \/ Cached
    \/ Compile \/ RemoveTree \/ MakeDirectory \/ Copy \/ Complete \/ Write \/ Mark
    \/ EmbedWebView2 \/ Verify \/ RemoveZip \/ Compress \/ Checksum
    \/ Die \/ Bump \/ EditByHand \/ Clean

PackagingSpec == PackagingInit /\ [][PackagingNext]_packaging
-----------------------------------------------------------------------------
\* An archive that its checksum vouches for is whole: everything the layout
\* declares is in it, and in a release the browser runtime, unless the runtime
\* was extracted by a fetch that was cut short (isCached asks for one file).
VouchedIsWhole ==
    \A version \in Versions :
        dist[version].sha # {} /\ dist[version].sha = dist[version].zip =>
            \A zip \in dist[version].zip :
                /\ zip.whole
                /\ \A path \in Declared : path \in DOMAIN zip.tree /\ zip.tree[path] # Torn
                /\ zip.release => Runtime \subseteq DOMAIN zip.tree \/ zip.cut

\* A tree that --verify-only passes has its configuration and resources too,
\* which it does not look for: the files at the root, which it does, are written
\* last. A removal cut short is the exception.
VerifiedIsWhole ==
    outcome = "verify" =>
        \/ \A path \in Declared \ {rootReadme} : path \in DOMAIN tree /\ tree[path] # Torn
        \/ gutted

\* Between a bun-version that ended well and a package, with no file edited,
\* every executable shipped is of the version its archive is named after.
PackagedInOneVersion ==
    outcome \in {"package", "release"} /\ agreed =>
        \A exe \in RequiredFiles : tree[exe] = tree[rootMarker]
=============================================================================
