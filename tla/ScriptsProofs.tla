---------------------------- MODULE ScriptsProofs ----------------------------
(***************************************************************************)
(* What TLAPS proves of the scripts, for a suite of any number of          *)
(* applications and rules and for as many edits, deaths and failures as    *)
(* one likes: an archive its checksum vouches for is whole, what           *)
(* --verify-only passes is whole, a package is of one version, and the     *)
(* instruction files are what the rules say once sync-agents says so.      *)
(***************************************************************************)
EXTENDS Packaging, AgentRules, FiniteSetTheorems, TLAPS

-----------------------------------------------------------------------------
(***************************************************************************)
(* The steps of each script, and their order.                              *)
(***************************************************************************)
Single(do) == Step(do, <<"", "">>)
All(do, paths) == {Step(do, path) : path \in paths}

Exes == {Executable(name) : name \in Apps \cup {"Slate"}}
IconFiles == {<<"icon", name>> : name \in Apps}
Content == ToSet(seedConfig) \cup ToSet(Resources)
Marks == {rootMarker, rootReadme}
Directories == ToSet(LAYOUT_DIRECTORIES)

PackageScripts == {"package", "release"}
PackageSteps ==
  All("build", Exes) \cup All("mkdir", Directories) \cup All("copy", Exes \cup IconFiles)
  \cup All("write", Content) \cup All("mark", Marks)
  \cup {Single(do) : do \in {"remove", "complete", "embed", "verify",
                             "remove-zip", "compress", "checksum"}}
FetchSteps ==
  All("expand", {"root", "inner"} \X RuntimeFiles) \cup All("move", {"inner"} \X RuntimeFiles)
  \cup {Single(do) : do \in {"clear-cache", "flatten", "cached"}}
StepsOf(script) ==
  IF script \in PackageScripts THEN PackageSteps
  ELSE IF script = "fetch" THEN FetchSteps
  ELSE IF script = "verify" THEN {Single("verify")}
  ELSE IF script \in {"version", "check"} THEN All("target", ToSet(Targets))
  ELSE {}

(* Where a step stands in its script. *)
Rank(step) ==
  CASE step.do = "build" -> 1
    [] step.do = "remove" -> 2
    [] step.do = "mkdir" -> 3
    [] step.do = "copy" -> 4
    [] step.do = "complete" -> 5
    [] step.do = "write" -> 6
    [] step.do = "mark" -> IF step.on = rootMarker THEN 7 ELSE 8
    [] step.do = "embed" -> 9
    [] step.do = "verify" -> 10
    [] step.do = "remove-zip" -> 11
    [] step.do = "compress" -> 12
    [] step.do = "checksum" -> 13
    [] step.do = "clear-cache" -> 21
    [] step.do = "expand" -> 22
    [] step.do = "flatten" -> 23
    [] step.do = "move" -> 24
    [] step.do = "cached" -> 25
    [] OTHER -> 30
(* One step comes before another; of some kinds there are several steps. *)
Several == {"build", "mkdir", "copy", "write", "expand", "move", "target"}
Before(s, t) == Rank(s) < Rank(t) \/ (s.do = t.do /\ s.do \in Several)
Ordered(todo) == \A i, j \in DOMAIN todo : i < j => Before(todo[i], todo[j])

Due(step) == step \in ToSet(job.todo)

-----------------------------------------------------------------------------
(***************************************************************************)
(* The inductive invariant.                                                *)
(***************************************************************************)
PackagingTypeInv ==
  /\ repo \in [root : Versions, holds : [ToSet(Targets) -> Int]]
  /\ built \in [Exes -> Versions \cup {Missing}]
  /\ cache \in [root : SUBSET RuntimeFiles, inner : SUBSET RuntimeFiles]
  /\ dist = [v \in Versions |-> [zip |-> dist[v].zip, sha |-> dist[v].sha]]
  /\ agreed \in BOOLEAN /\ cut \in BOOLEAN /\ gutted \in BOOLEAN

Jobs(todos) ==
  [script : {"none", "package", "release", "verify", "version", "check", "fetch"},
   version : Int, todo : todos, problem : BOOLEAN, undisturbed : BOOLEAN]

(* What is left of a script is the rest of it. *)
QueueInv ==
  /\ job \in Jobs(Seq(StepsOf(job.script)))
  /\ ~Running => job = Idle
  /\ Running => job.version \in Versions /\ outcome = "none"
  /\ Ordered(job.todo)
  /\ job.script \in PackageScripts =>
       \A s \in PackageSteps : Due(s) \/ \A t \in ToSet(job.todo) : Before(s, t)

Whole(path) == path \in DOMAIN tree /\ tree[path] # Torn

(* The files at the root are written last. *)
TreeInv ==
  ~gutted =>
    /\ rootMarker \in DOMAIN tree => \A path \in Declared \ Marks : Whole(path)
    /\ rootReadme \in DOMAIN tree => Whole(rootMarker)

(* What a package has written since it removed the tree. *)
Assembling == job.script \in PackageScripts /\ ~Due(Single("remove"))
AssembleInv ==
  Assembling =>
    /\ ~gutted
    /\ \A path \in DOMAIN tree : tree[path] # Torn
    /\ \A path \in Directories : Due(Step("mkdir", path)) \/ path \in DOMAIN tree
    /\ \A path \in Content : Due(Step("write", path)) \/ path \in DOMAIN tree
    /\ \A path \in Marks : Due(Step("mark", path)) <=> path \notin DOMAIN tree
    /\ Due(Single("complete")) \/ RequiredFiles \subseteq DOMAIN tree
    /\ rootMarker \in DOMAIN tree => tree[rootMarker] = job.version
    /\ job.script = "release" =>
         Due(Single("embed")) \/ Runtime \subseteq DOMAIN tree \/ cut

(* The archives. *)
Good(zip) ==
  /\ zip.whole
  /\ \A path \in Declared : path \in DOMAIN zip.tree /\ zip.tree[path] # Torn
  /\ zip.release => Runtime \subseteq DOMAIN zip.tree \/ zip.cut
DistInv ==
  /\ \A v \in Versions : \A zip \in dist[v].sha : Good(zip)
  /\ job.script \in PackageScripts /\ ~Due(Single("compress")) =>
       \A zip \in dist[job.version].zip : Good(zip)

(* The versions, from a bun-version on. *)
VersionInv ==
  /\ Running /\ job.undisturbed => job.version = repo.root
  /\ agreed => /\ \A target \in ToSet(Targets) : repo.holds[target] = repo.root
               /\ Running => job.undisturbed
  /\ job.script \in {"version", "check"} /\ job.undisturbed /\ ~job.problem =>
       \A target \in ToSet(Targets) :
         Due(Step("target", target)) \/ repo.holds[target] = job.version
  /\ agreed /\ job.script \in PackageScripts =>
       /\ \A exe \in Exes : Due(Step("build", exe)) \/ built[exe] \in {job.version, Missing}
       /\ ~Due(Single("remove")) =>
            \A exe \in Exes : exe \in DOMAIN tree => tree[exe] = job.version

(* The cache of the browser runtime has all of it or not the file that is  *)
(* asked for, but for what a fetch cut short leaves.                       *)
CacheInv ==
  /\ job.script # "fetch" => cut \/ ~isCached \/ RuntimeFiles \subseteq cache.root
  /\ job.script = "fetch" =>
       /\ \A f \in RuntimeFiles :
            \/ \E place \in {"root", "inner"} : Due(Step("expand", <<place, f>>))
            \/ ~Due(Single("clear-cache")) /\ f \in cache.root \cup cache.inner
       /\ Due(Single("flatten")) =>
            \E place \in {"root", "inner"} :
              /\ \A f \in RuntimeFiles : ~Due(Step("expand", <<place, f>>))
              /\ Due(Single("clear-cache")) \/ cache[place] = {}
       /\ ~Due(Single("flatten")) =>
            /\ ~Due(Single("clear-cache"))
            /\ \A f \in RuntimeFiles :
                 f \in cache.root \/ (f \in cache.inner /\ Due(Step("move", <<"inner", f>>)))

OutcomeInv ==
  /\ job.script = "verify" => Due(Single("verify")) \/ Verified \subseteq DOMAIN tree
  /\ outcome = "verify" => Verified \subseteq DOMAIN tree
  /\ PackagedInOneVersion

PackagingInv ==
  /\ PackagingTypeInv /\ QueueInv /\ TreeInv /\ AssembleInv /\ DistInv
  /\ VersionInv /\ CacheInv /\ OutcomeInv

-----------------------------------------------------------------------------
(***************************************************************************)
(* The suite's applications and the files of an install.                   *)
(***************************************************************************)
LEMMA SequenceOfSet ==
  ASSUME NEW S, IsFiniteSet(S), NEW s \in SetToSeqs(S)
  PROVE  s \in Seq(S) /\ ToSet(s) = S
<1>. DEFINE n == Cardinality(S)
<1>1. n \in Nat
  BY FS_CardinalityType
<1>2. s \in [1 .. n -> S] /\ \A i, j \in 1 .. n : i # j => s[i] # s[j]
  BY DEF SetToSeqs
<1>3. s \in Injection(1 .. n, S)
  BY <1>2 DEF Injection, IsInjective
<1>4. IsFiniteSet(1 .. n) /\ Cardinality(1 .. n) = n
  BY <1>1, FS_Interval
<1>5. s \in Surjection(1 .. n, S)
  BY <1>3, <1>4, FS_Injection
<1>. QED
  BY <1>1, <1>2, <1>5 DEF Surjection, ToSet

LEMMA SetListed ==
  ASSUME NEW S, IsFiniteSet(S)
  PROVE  SetToSeq(S) \in Seq(S) /\ ToSet(SetToSeq(S)) = S
<1>. DEFINE n == Cardinality(S)
<1>1. n \in Nat /\ ExistsBijection(1 .. n, S)
  BY FS_CardinalityType
<1>2. PICK f : f \in Bijection(1 .. n, S)
  BY <1>1 DEF ExistsBijection
<1>3. f \in [1 .. n -> S] /\ IsInjective(f)
  BY <1>2 DEF Bijection, Injection, IsInjective
<1>4. SetToSeq(S) \in [1 .. n -> S] /\ IsInjective(SetToSeq(S))
  BY <1>3 DEF SetToSeq
<1>5. SetToSeq(S) \in SetToSeqs(S)
  BY <1>4 DEF SetToSeqs, IsInjective
<1>. QED
  BY <1>5, SequenceOfSet

LEMMA SuiteApps == SUITE_APPS \in Seq(Apps) /\ ToSet(SUITE_APPS) = Apps
BY PackagingAssumption, SetListed DEF SUITE_APPS

(* A list is a sequence of its items. *)
IsList(s) == s \in Seq(ToSet(s))

LEMMA Lists == \A S : \A s \in Seq(S) : IsList(s) /\ ToSet(s) \subseteq S
<1>. SUFFICES ASSUME NEW S, NEW s \in Seq(S) PROVE IsList(s) /\ ToSet(s) \subseteq S
  OBVIOUS
<1>1. s \in [1 .. Len(s) -> S] /\ Len(s) \in Nat
  OBVIOUS
<1>2. \A i \in 1 .. Len(s) : s[i] \in ToSet(s)
  BY <1>1 DEF ToSet
<1>3. ToSet(s) \subseteq S
  BY <1>1 DEF ToSet
<1>4. s \in [1 .. Len(s) -> ToSet(s)]
  BY <1>1, <1>2
<1>. QED
  BY <1>1, <1>3, <1>4 DEF IsList

LEMMA Widened ==
  ASSUME NEW s, NEW S, IsList(s), ToSet(s) \subseteq S
  PROVE  s \in Seq(S)
<1>1. s \in [1 .. Len(s) -> ToSet(s)] /\ Len(s) \in Nat
  BY DEF IsList
<1>2. s \in [1 .. Len(s) -> S]
  BY <1>1
<1>. QED
  BY <1>1, <1>2

LEMMA Concatenation ==
  ASSUME NEW s, NEW t, IsList(s), IsList(t)
  PROVE  IsList(s \o t) /\ ToSet(s \o t) = ToSet(s) \cup ToSet(t)
<1>. DEFINE S == ToSet(s) \cup ToSet(t)
<1>0. s \in Seq(S) /\ t \in Seq(S)
  BY DEF IsList
<1>. HIDE DEF S
<1>1. s \o t \in Seq(S) /\ Len(s \o t) = Len(s) + Len(t)
  BY <1>0
<1>2. ASSUME NEW i \in 1 .. Len(s) PROVE (s \o t)[i] = s[i] /\ i \in 1 .. Len(s \o t)
  BY <1>0, <1>1
<1>3. ASSUME NEW i \in 1 .. Len(t)
      PROVE  (s \o t)[Len(s) + i] = t[i] /\ Len(s) + i \in 1 .. Len(s \o t)
  BY <1>0, <1>1
<1>4. ASSUME NEW i \in 1 .. Len(s \o t)
      PROVE  (s \o t)[i] \in ToSet(s) \cup ToSet(t)
  <2>1. CASE i <= Len(s)
    BY <1>0, <2>1 DEF ToSet
  <2>2. CASE i > Len(s)
    <3>1. (s \o t)[i] = t[i - Len(s)] /\ i - Len(s) \in 1 .. Len(t)
      BY <1>0, <1>1, <2>2
    <3>. QED
      BY <1>0, <3>1 DEF ToSet
  <2>. QED
    BY <2>1, <2>2
<1>5. DOMAIN s = 1 .. Len(s) /\ DOMAIN t = 1 .. Len(t) /\ DOMAIN (s \o t) = 1 .. Len(s \o t)
  BY <1>0, <1>1
<1>6. ToSet(s \o t) \subseteq ToSet(s) \cup ToSet(t)
  BY <1>4, <1>5 DEF ToSet
<1>7. ToSet(s) \subseteq ToSet(s \o t)
  BY <1>2, <1>5 DEF ToSet
<1>8. ToSet(t) \subseteq ToSet(s \o t)
  <2>. SUFFICES ASSUME NEW i \in 1 .. Len(t) PROVE t[i] \in ToSet(s \o t)
    BY <1>5 DEF ToSet
  <2>. QED
    BY <1>3, <1>5 DEF ToSet
<1>. QED
  BY <1>1, <1>6, <1>7, <1>8, Lists

LEMMA OneItem == \A x : IsList(<<x>>) /\ ToSet(<<x>>) = {x}
<1>. TAKE x
<1>1. <<x>> \in Seq({x}) /\ DOMAIN <<x>> = {1} /\ <<x>>[1] = x
  OBVIOUS
<1>2. ToSet(<<x>>) = {x}
  BY <1>1 DEF ToSet
<1>. QED
  BY <1>1, <1>2 DEF IsList

LEMMA AppIndices ==
  /\ DOMAIN SUITE_APPS = 1 .. Len(SUITE_APPS) /\ Len(SUITE_APPS) \in Nat
  /\ \A i \in DOMAIN SUITE_APPS : SUITE_APPS[i] \in Apps
  /\ \A app \in Apps : \E i \in DOMAIN SUITE_APPS : app = SUITE_APPS[i]
BY SuiteApps DEF ToSet

(* A list with as many items as another. *)
LEMMA ItemForEach ==
  ASSUME NEW n \in Nat, NEW s, s = [i \in 1 .. n |-> s[i]]
  PROVE  IsList(s) /\ DOMAIN s = 1 .. n
<1>. DEFINE S == {s[i] : i \in 1 .. n}
<1>1. s \in [1 .. n -> S]
  OBVIOUS
<1>2. s \in Seq(S) /\ DOMAIN s = 1 .. n
  BY <1>1
<1>. QED
  BY <1>2, Lists

LEMMA ExecutablesListed == IsList(Executables) /\ ToSet(Executables) = Exes
<1>. DEFINE s == [i \in DOMAIN SUITE_APPS |-> Executable(SUITE_APPS[i])]
            slate == Executable("Slate")
<1>1. s = [i \in 1 .. Len(SUITE_APPS) |-> s[i]]
  BY AppIndices
<1>2. \A i \in DOMAIN SUITE_APPS : s[i] = Executable(SUITE_APPS[i])
  OBVIOUS
<1>3. Executables = Append(s, slate)
  BY DEF Executables
<1>4. Exes = {Executable(app) : app \in Apps} \cup {slate}
  BY DEF Exes
<1>. HIDE DEF s, slate
<1>5. IsList(s) /\ DOMAIN s = DOMAIN SUITE_APPS
  BY <1>1, ItemForEach, AppIndices
<1>6. Append(s, slate) = s \o <<slate>>
  BY <1>5 DEF IsList
<1>7. IsList(s \o <<slate>>) /\ ToSet(s \o <<slate>>) = ToSet(s) \cup {slate}
  BY <1>5, OneItem, Concatenation
<1>8. ToSet(s) = {Executable(app) : app \in Apps}
  BY <1>2, <1>5, AppIndices DEF ToSet
<1>. QED
  BY <1>3, <1>4, <1>6, <1>7, <1>8

LEMMA TwoItems == \A x, y : IsList(<<x, y>>) /\ ToSet(<<x, y>>) = {x, y}
<1>. TAKE x, y
<1>1. <<x, y>> \in Seq({x, y}) /\ DOMAIN <<x, y>> = {1, 2} /\ <<x, y>>[1] = x /\ <<x, y>>[2] = y
  OBVIOUS
<1>2. ToSet(<<x, y>>) = {x, y}
  BY <1>1 DEF ToSet
<1>. QED
  BY <1>1, <1>2 DEF IsList

LEMMA ContentListed == IsList(seedConfig) /\ IsList(Resources) /\ IsList(LAYOUT_DIRECTORIES)
<1>. DEFINE s == [i \in DOMAIN SUITE_APPS |-> <<"seed", SUITE_APPS[i]>>]
<1>1. s = [i \in 1 .. Len(SUITE_APPS) |-> s[i]]
  BY AppIndices
<1>2. seedConfig = <<<<"seed", "suite">>>> \o s
  BY DEF seedConfig
<1>. HIDE DEF s
<1>3. IsList(s)
  BY <1>1, ItemForEach, AppIndices
<1>4. IsList(seedConfig)
  BY <1>2, <1>3, OneItem, Concatenation
<1>. QED
  BY <1>4, OneItem, TwoItems DEF Resources, LAYOUT_DIRECTORIES

LEMMA TargetsListed ==
  /\ IsList(Targets)
  /\ Cargo \in ToSet(Targets)
  /\ \A app \in Apps : <<"conf", app>> \in ToSet(Targets)
<1>. DEFINE confs == [i \in DOMAIN SUITE_APPS |-> <<"conf", SUITE_APPS[i]>>]
            packages == [i \in DOMAIN SUITE_APPS |-> <<"package", SUITE_APPS[i]>>]
<1>1. /\ confs = [i \in 1 .. Len(SUITE_APPS) |-> confs[i]]
      /\ packages = [i \in 1 .. Len(SUITE_APPS) |-> packages[i]]
  BY AppIndices
<1>2. \A i \in DOMAIN SUITE_APPS : confs[i] = <<"conf", SUITE_APPS[i]>>
  OBVIOUS
<1>3. Targets = (<<Cargo>> \o confs) \o packages
  BY DEF Targets, Cargo
<1>. HIDE DEF confs, packages
<1>4. IsList(confs) /\ IsList(packages) /\ DOMAIN confs = DOMAIN SUITE_APPS
  BY <1>1, ItemForEach, AppIndices
<1>5. /\ IsList(<<Cargo>> \o confs)
      /\ ToSet(<<Cargo>> \o confs) = {Cargo} \cup ToSet(confs)
  BY <1>4, OneItem, Concatenation
<1>6. /\ IsList((<<Cargo>> \o confs) \o packages)
      /\ ToSet((<<Cargo>> \o confs) \o packages) = ToSet(<<Cargo>> \o confs) \cup ToSet(packages)
  BY <1>4, <1>5, Concatenation
<1>7. \A app \in Apps : <<"conf", app>> \in ToSet(confs)
  BY <1>2, <1>4, AppIndices DEF ToSet
<1>. QED
  BY <1>3, <1>5, <1>6, <1>7

(* The files copied, and those that must have been. *)
LayoutPaths == [i \in DOMAIN layoutFiles |-> layoutFiles[i].path]
ExeFile(app) == [path |-> Executable(app), required |-> TRUE]
IconFile(app) == [path |-> <<"icon", app>>, required |-> FALSE]
AppFile(i) == LET name == SUITE_APPS[(i + 1) \div 2]
              IN  IF i % 2 = 1 THEN ExeFile(name) ELSE IconFile(name)

LEMMA AppFiles ==
  /\ \A i \in 1 .. 2 * Len(SUITE_APPS) :
       \E app \in Apps : AppFile(i) \in {ExeFile(app), IconFile(app)}
  /\ \A app \in Apps : /\ \E i \in 1 .. 2 * Len(SUITE_APPS) : AppFile(i) = ExeFile(app)
                       /\ \E i \in 1 .. 2 * Len(SUITE_APPS) : AppFile(i) = IconFile(app)
<1>. DEFINE n == Len(SUITE_APPS)
<1>1. n \in Nat /\ DOMAIN SUITE_APPS = 1 .. n
  BY AppIndices
<1>2. ASSUME NEW i \in 1 .. 2 * n
      PROVE  \E app \in Apps : AppFile(i) \in {ExeFile(app), IconFile(app)}
  <2>1. (i + 1) \div 2 \in 1 .. n
    BY <1>1
  <2>2. SUITE_APPS[(i + 1) \div 2] \in Apps
    BY <1>1, <2>1, AppIndices
  <2>. QED
    BY <2>2 DEF AppFile
<1>3. ASSUME NEW app \in Apps
      PROVE  /\ \E i \in 1 .. 2 * n : AppFile(i) = ExeFile(app)
             /\ \E i \in 1 .. 2 * n : AppFile(i) = IconFile(app)
  <2>1. PICK k \in 1 .. n : SUITE_APPS[k] = app
    BY <1>1, AppIndices
  <2>2. /\ 2 * k - 1 \in 1 .. 2 * n /\ (2 * k - 1) % 2 = 1 /\ ((2 * k - 1) + 1) \div 2 = k
        /\ 2 * k \in 1 .. 2 * n /\ (2 * k) % 2 # 1 /\ (2 * k + 1) \div 2 = k
    BY <1>1
  <2>3. AppFile(2 * k - 1) = ExeFile(app)
    BY <2>1, <2>2 DEF AppFile
  <2>4. AppFile(2 * k) = IconFile(app)
    BY <2>1, <2>2 DEF AppFile
  <2>. QED
    BY <2>2, <2>3, <2>4
<1>. QED
  BY <1>2, <1>3

LEMMA LayoutListed ==
  /\ IsList(LayoutPaths) /\ ToSet(LayoutPaths) = Exes \cup IconFiles
  /\ RequiredFiles = Exes
<1>. DEFINE s == [i \in 1 .. 2 * Len(SUITE_APPS) |-> AppFile(i)]
            slate == [path |-> Executable("Slate"), required |-> TRUE]
<1>1. layoutFiles = <<slate>> \o s
  BY DEF layoutFiles, AppFile, ExeFile, IconFile
<1>2. 2 * Len(SUITE_APPS) \in Nat /\ s = [i \in 1 .. 2 * Len(SUITE_APPS) |-> s[i]]
  BY AppIndices
<1>3. \A i \in 1 .. 2 * Len(SUITE_APPS) : s[i] = AppFile(i)
  OBVIOUS
<1>. HIDE DEF s
<1>4. IsList(s) /\ DOMAIN s = 1 .. 2 * Len(SUITE_APPS)
  BY <1>2, ItemForEach
<1>5. IsList(<<slate>>) /\ ToSet(<<slate>>) = {slate}
  BY OneItem
<1>6. IsList(layoutFiles) /\ ToSet(layoutFiles) = {slate} \cup ToSet(s)
  BY <1>1, <1>4, <1>5, Concatenation
<1>7. \A f \in ToSet(s) : \E app \in Apps : f \in {ExeFile(app), IconFile(app)}
  BY <1>3, <1>4, AppFiles DEF ToSet
<1>71. \A app \in Apps : ExeFile(app) \in ToSet(s) /\ IconFile(app) \in ToSet(s)
  BY <1>3, <1>4, AppFiles DEF ToSet
<1>72. \A app : /\ ExeFile(app).path = Executable(app) /\ ExeFile(app).required
                /\ IconFile(app).path = <<"icon", app>> /\ ~IconFile(app).required
  BY DEF ExeFile, IconFile
<1>73. slate.path = Executable("Slate") /\ slate.required
  OBVIOUS
<1>. HIDE DEF slate
<1>8. RequiredFiles = Exes
  <2>1. ASSUME NEW f \in ToSet(layoutFiles), f.required PROVE f.path \in Exes
    BY <2>1, <1>6, <1>7, <1>72, <1>73 DEF Exes
  <2>2. ASSUME NEW app \in Apps \cup {"Slate"}
        PROVE  \E f \in ToSet(layoutFiles) : f.required /\ f.path = Executable(app)
    BY <1>6, <1>71, <1>72, <1>73
  <2>. QED
    BY <2>1, <2>2 DEF RequiredFiles, Exes
<1>9. {f.path : f \in ToSet(layoutFiles)} = Exes \cup IconFiles
  <2>1. ASSUME NEW f \in ToSet(layoutFiles) PROVE f.path \in Exes \cup IconFiles
    BY <1>6, <1>7, <1>72, <1>73 DEF Exes, IconFiles
  <2>2. ASSUME NEW path \in Exes \cup IconFiles
        PROVE  \E f \in ToSet(layoutFiles) : f.path = path
    BY <1>6, <1>71, <1>72, <1>73 DEF Exes, IconFiles
  <2>. QED
    BY <2>1, <2>2
<1>10. LayoutPaths = [i \in 1 .. Len(layoutFiles) |-> LayoutPaths[i]] /\ Len(layoutFiles) \in Nat
  BY <1>6 DEF LayoutPaths, IsList
<1>11. DOMAIN LayoutPaths = DOMAIN layoutFiles
       /\ \A i \in DOMAIN layoutFiles : LayoutPaths[i] = layoutFiles[i].path
  BY DEF LayoutPaths
<1>12. ToSet(LayoutPaths) = {f.path : f \in ToSet(layoutFiles)}
  BY <1>11 DEF ToSet
<1>. QED
  BY <1>8, <1>9, <1>10, <1>12, ItemForEach

-----------------------------------------------------------------------------
(***************************************************************************)
(* The steps of a script, in order.                                        *)
(***************************************************************************)
LEMMA StepsListed ==
  ASSUME NEW do, NEW paths, IsList(paths)
  PROVE  /\ IsList(Steps(do, paths))
         /\ ToSet(Steps(do, paths)) = All(do, ToSet(paths))
         /\ do \in Several => Ordered(Steps(do, paths))
<1>. DEFINE s == Steps(do, paths)
<1>1. DOMAIN paths = 1 .. Len(paths) /\ Len(paths) \in Nat
  BY DEF IsList
<1>2. s = [i \in 1 .. Len(paths) |-> s[i]] /\ \A i \in DOMAIN paths : s[i] = Step(do, paths[i])
  BY <1>1 DEF Steps
<1>. HIDE DEF s
<1>3. IsList(s) /\ DOMAIN s = DOMAIN paths
  BY <1>1, <1>2, ItemForEach
<1>4. ToSet(s) = All(do, ToSet(paths))
  BY <1>2, <1>3 DEF ToSet, All
<1>5. ASSUME do \in Several PROVE Ordered(s)
  <2>1. \A path : Step(do, path).do = do
    BY DEF Step
  <2>2. \A i \in DOMAIN s : s[i].do = do
    BY <1>2, <1>3, <2>1
  <2>. QED
    BY <1>5, <2>2 DEF Ordered, Before
<1>. QED
  BY <1>3, <1>4, <1>5 DEF s

(* A stretch of a script, between two ranks. *)
Stretch(s, low, high) ==
  IsList(s) /\ Ordered(s) /\ \A step \in ToSet(s) : Rank(step) \in low .. high

LEMMA InOrder2 ==
  ASSUME NEW s, NEW t, IsList(s), IsList(t), Ordered(s), Ordered(t),
         \A a \in ToSet(s), b \in ToSet(t) : Before(a, b)
  PROVE  Ordered(s \o t)
<1>. DEFINE S == ToSet(s) \cup ToSet(t)
<1>1. s \in Seq(S) /\ t \in Seq(S)
  BY DEF IsList
<1>. HIDE DEF S
<1>2. /\ DOMAIN s = 1 .. Len(s) /\ DOMAIN t = 1 .. Len(t)
      /\ DOMAIN (s \o t) = 1 .. Len(s) + Len(t) /\ Len(s) \in Nat /\ Len(t) \in Nat
  BY <1>1
<1>3. \A i \in 1 .. Len(s) + Len(t) :
        (s \o t)[i] = IF i <= Len(s) THEN s[i] ELSE t[i - Len(s)]
  BY <1>1
<1>4. \A i \in 1 .. Len(s) : s[i] \in ToSet(s)
  BY <1>2 DEF ToSet
<1>5. \A i \in 1 .. Len(t) : t[i] \in ToSet(t)
  BY <1>2 DEF ToSet
<1>6. ASSUME NEW i \in 1 .. Len(s) + Len(t), NEW j \in 1 .. Len(s) + Len(t), i < j
      PROVE  Before((s \o t)[i], (s \o t)[j])
  <2>1. CASE j <= Len(s)
    <3>1. i \in 1 .. Len(s) /\ j \in 1 .. Len(s) /\ (s \o t)[i] = s[i] /\ (s \o t)[j] = s[j]
      BY <1>2, <1>3, <1>6, <2>1
    <3>. QED
      BY <1>2, <1>6, <3>1 DEF Ordered
  <2>2. CASE i > Len(s)
    <3>1. /\ i - Len(s) \in 1 .. Len(t) /\ j - Len(s) \in 1 .. Len(t) /\ i - Len(s) < j - Len(s)
          /\ (s \o t)[i] = t[i - Len(s)] /\ (s \o t)[j] = t[j - Len(s)]
      BY <1>2, <1>3, <1>6, <2>2
    <3>. QED
      BY <1>2, <3>1 DEF Ordered
  <2>3. CASE i <= Len(s) /\ j > Len(s)
    <3>1. /\ i \in 1 .. Len(s) /\ j - Len(s) \in 1 .. Len(t)
          /\ (s \o t)[i] = s[i] /\ (s \o t)[j] = t[j - Len(s)]
      BY <1>2, <1>3, <1>6, <2>3
    <3>. QED
      BY <1>4, <1>5, <3>1
  <2>. QED
    BY <1>2, <2>1, <2>2, <2>3
<1>. QED
  BY <1>2, <1>6 DEF Ordered

LEMMA StretchesJoin ==
  ASSUME NEW s, NEW t, NEW a \in Int, NEW b \in Int, NEW c \in Int, NEW d \in Int,
         Stretch(s, a, b), Stretch(t, c, d), b < c, a <= b, c <= d
  PROVE  Stretch(s \o t, a, d) /\ ToSet(s \o t) = ToSet(s) \cup ToSet(t)
<1>1. IsList(s \o t) /\ ToSet(s \o t) = ToSet(s) \cup ToSet(t)
  BY Concatenation DEF Stretch
<1>2. \A x \in ToSet(s), y \in ToSet(t) : Before(x, y)
  BY DEF Stretch, Before
<1>3. Ordered(s \o t)
  BY <1>2, InOrder2 DEF Stretch
<1>4. \A x \in ToSet(s \o t) : Rank(x) \in a .. d
  BY <1>1 DEF Stretch
<1>. QED
  BY <1>1, <1>3, <1>4 DEF Stretch

LEMMA OnceListed ==
  \A do : IsList(Once(do)) /\ Ordered(Once(do)) /\ ToSet(Once(do)) = {Single(do)}
<1>. TAKE do
<1>1. Once(do) = <<Single(do)>> /\ DOMAIN <<Single(do)>> = {1}
  BY DEF Once, Single
<1>. QED
  BY <1>1, OneItem DEF Ordered

LEMMA Ranks ==
  /\ \A path : /\ Rank(Step("build", path)) = 1 /\ Rank(Step("mkdir", path)) = 3
               /\ Rank(Step("copy", path)) = 4 /\ Rank(Step("write", path)) = 6
               /\ Rank(Step("expand", path)) = 22 /\ Rank(Step("move", path)) = 24
               /\ Rank(Step("target", path)) = 30
  /\ Rank(Step("mark", rootMarker)) = 7 /\ Rank(Step("mark", rootReadme)) = 8
  /\ Rank(Single("remove")) = 2 /\ Rank(Single("complete")) = 5
  /\ Rank(Single("embed")) = 9 /\ Rank(Single("verify")) = 10
  /\ Rank(Single("remove-zip")) = 11 /\ Rank(Single("compress")) = 12
  /\ Rank(Single("checksum")) = 13
  /\ Rank(Single("clear-cache")) = 21 /\ Rank(Single("flatten")) = 23
  /\ Rank(Single("cached")) = 25
<1>1. /\ Step("mark", rootMarker).on = rootMarker /\ Step("mark", rootReadme).on # rootMarker
      /\ Step("mark", rootMarker).do = "mark" /\ Step("mark", rootReadme).do = "mark"
  BY DEF Step, rootMarker, rootReadme
<1>2. \A do, path : Step(do, path).do = do /\ Single(do).do = do
  BY DEF Step, Single
<1>3. Rank(Step("mark", rootMarker)) = 7 /\ Rank(Step("mark", rootReadme)) = 8
  BY <1>1 DEF Rank
<1>4. \A path : /\ Rank(Step("build", path)) = 1 /\ Rank(Step("mkdir", path)) = 3
                /\ Rank(Step("copy", path)) = 4 /\ Rank(Step("write", path)) = 6
                /\ Rank(Step("expand", path)) = 22 /\ Rank(Step("move", path)) = 24
                /\ Rank(Step("target", path)) = 30
  BY <1>2 DEF Rank
<1>5. /\ Rank(Single("remove")) = 2 /\ Rank(Single("complete")) = 5
      /\ Rank(Single("embed")) = 9 /\ Rank(Single("verify")) = 10
      /\ Rank(Single("remove-zip")) = 11 /\ Rank(Single("compress")) = 12
      /\ Rank(Single("checksum")) = 13
  BY <1>2 DEF Rank
<1>6. /\ Rank(Single("clear-cache")) = 21 /\ Rank(Single("flatten")) = 23
      /\ Rank(Single("cached")) = 25
  BY <1>2 DEF Rank
<1>. QED
  BY <1>3, <1>4, <1>5, <1>6

LEMMA Associative ==
  ASSUME NEW s, NEW t, NEW u, IsList(s), IsList(t), IsList(u)
  PROVE  (s \o t) \o u = s \o (t \o u)
<1>. DEFINE S == ToSet(s) \cup ToSet(t) \cup ToSet(u)
<1>1. s \in Seq(S) /\ t \in Seq(S) /\ u \in Seq(S)
  BY DEF IsList
<1>. HIDE DEF S
<1>. QED
  BY <1>1

(* The steps of a package are those, one stretch after the other. *)
LEMMA AssembleListed ==
  /\ Stretch(assemble, 2, 8)
  /\ ToSet(assemble) = All("mkdir", Directories) \cup All("copy", Exes \cup IconFiles)
                       \cup All("write", Content) \cup All("mark", Marks)
                       \cup {Single("remove"), Single("complete")}
<1>. DEFINE remove == Once("remove")
            mkdirs == Steps("mkdir", LAYOUT_DIRECTORIES)
            copies == Steps("copy", LayoutPaths)
            complete == Once("complete")
            seeds == Steps("write", seedConfig)
            resources == Steps("write", Resources)
            marks == <<Step("mark", rootMarker), Step("mark", rootReadme)>>
<1>1. Stretch(remove, 2, 2) /\ ToSet(remove) = {Single("remove")}
  BY OnceListed, Ranks DEF Stretch
<1>2. Stretch(mkdirs, 3, 3) /\ ToSet(mkdirs) = All("mkdir", Directories)
  <2>1. IsList(mkdirs) /\ Ordered(mkdirs) /\ ToSet(mkdirs) = All("mkdir", Directories)
    BY StepsListed, ContentListed DEF Directories, Several
  <2>. QED
    BY <2>1, Ranks DEF Stretch, All
<1>3. Stretch(copies, 4, 4) /\ ToSet(copies) = All("copy", Exes \cup IconFiles)
  <2>1. IsList(copies) /\ Ordered(copies) /\ ToSet(copies) = All("copy", Exes \cup IconFiles)
    BY StepsListed, LayoutListed DEF Several
  <2>. QED
    BY <2>1, Ranks DEF Stretch, All
<1>4. Stretch(complete, 5, 5) /\ ToSet(complete) = {Single("complete")}
  BY OnceListed, Ranks DEF Stretch
<1>5. Stretch(seeds \o resources, 6, 6) /\ ToSet(seeds \o resources) = All("write", Content)
  <2>1. IsList(seeds) /\ Ordered(seeds) /\ ToSet(seeds) = All("write", ToSet(seedConfig))
    BY StepsListed, ContentListed DEF Several
  <2>2. IsList(resources) /\ Ordered(resources) /\ ToSet(resources) = All("write", ToSet(Resources))
    BY StepsListed, ContentListed DEF Several
  <2>3. \A paths : \A s \in All("write", paths) : s.do = "write" /\ Rank(s) = 6
    BY Ranks DEF All, Step
  <2>4. \A a \in ToSet(seeds), b \in ToSet(resources) : Before(a, b)
    BY <2>1, <2>2, <2>3 DEF Before, Several
  <2>. HIDE DEF seeds, resources
  <2>5. IsList(seeds \o resources) /\ ToSet(seeds \o resources) = ToSet(seeds) \cup ToSet(resources)
    BY <2>1, <2>2, Concatenation
  <2>6. Ordered(seeds \o resources)
    BY <2>1, <2>2, <2>4, InOrder2
  <2>7. ToSet(seeds) \cup ToSet(resources) = All("write", Content)
    BY <2>1, <2>2 DEF All, Content
  <2>. QED
    BY <2>3, <2>5, <2>6, <2>7 DEF Stretch
<1>6. Stretch(marks, 7, 8) /\ ToSet(marks) = All("mark", Marks)
  <2>1. IsList(marks) /\ ToSet(marks) = {Step("mark", rootMarker), Step("mark", rootReadme)}
    BY TwoItems
  <2>2. DOMAIN marks = {1, 2} /\ marks[1] = Step("mark", rootMarker) /\ marks[2] = Step("mark", rootReadme)
    OBVIOUS
  <2>3. Ordered(marks)
    BY <2>2, Ranks DEF Ordered, Before
  <2>. QED
    BY <2>1, <2>3, Ranks DEF Stretch, All, Marks
<1>. DEFINE to3 == remove \o mkdirs
            to4 == to3 \o copies
            to5 == to4 \o complete
            to6 == to5 \o (seeds \o resources)
<1>. HIDE DEF remove, mkdirs, copies, complete, seeds, resources, marks
<1>7. Stretch(to3, 2, 3) /\ ToSet(to3) = ToSet(remove) \cup ToSet(mkdirs)
  BY <1>1, <1>2, 2 \in Int, 3 \in Int, 2 < 3, 2 <= 2, 3 <= 3, StretchesJoin, Zenon
<1>8. Stretch(to4, 2, 4) /\ ToSet(to4) = ToSet(to3) \cup ToSet(copies)
  <2>. HIDE DEF to3
  <2>. QED
    BY <1>3, <1>7, 2 \in Int, 3 \in Int, 4 \in Int, 3 < 4, 2 <= 3, 4 <= 4, StretchesJoin, Zenon
<1>9. Stretch(to5, 2, 5) /\ ToSet(to5) = ToSet(to4) \cup ToSet(complete)
  <2>. HIDE DEF to4
  <2>. QED
    BY <1>4, <1>8, 2 \in Int, 4 \in Int, 5 \in Int, 4 < 5, 2 <= 4, 5 <= 5, StretchesJoin, Zenon
<1>10. Stretch(to6, 2, 6) /\ ToSet(to6) = ToSet(to5) \cup ToSet(seeds \o resources)
  <2>. HIDE DEF to5
  <2>. QED
    BY <1>5, <1>9, 2 \in Int, 5 \in Int, 6 \in Int, 5 < 6, 2 <= 5, 6 <= 6, StretchesJoin, Zenon
<1>11. Stretch(to6 \o marks, 2, 8) /\ ToSet(to6 \o marks) = ToSet(to6) \cup ToSet(marks)
  <2>. HIDE DEF to6
  <2>. QED
    BY <1>6, <1>10, 2 \in Int, 6 \in Int, 7 \in Int, 8 \in Int, 6 < 7, 2 <= 6, 7 <= 8, StretchesJoin, Zenon
<1>12. assemble = ((to5 \o seeds) \o resources) \o marks
  BY DEF assemble, LayoutPaths, remove, mkdirs, copies, complete, seeds, resources, marks
<1>13. IsList(to5) /\ IsList(seeds) /\ IsList(resources)
  BY <1>9, StepsListed, ContentListed DEF Stretch, seeds, resources
<1>14. (to5 \o seeds) \o resources = to6
  <2>. HIDE DEF to5
  <2>. QED
    BY <1>13, Associative
<1>. HIDE DEF to3, to4, to5, to6
<1>. QED
  BY <1>1, <1>2, <1>3, <1>4, <1>5, <1>6, <1>7, <1>8, <1>9, <1>10, <1>11, <1>12, <1>14

LEMMA PackageListed == Stretch(package, 1, 13) /\ ToSet(package) = PackageSteps
<1>. DEFINE embed == Once("embed")
            verify == Once("verify")
            removeZip == Once("remove-zip")
            compress == Once("compress")
            checksum == Once("checksum")
<1>1. Stretch(buildEverything, 1, 1) /\ ToSet(buildEverything) = All("build", Exes)
  <2>1. /\ IsList(buildEverything) /\ Ordered(buildEverything)
        /\ ToSet(buildEverything) = All("build", Exes)
    BY StepsListed, ExecutablesListed DEF buildEverything, Several
  <2>. QED
    BY <2>1, Ranks DEF Stretch, All
<1>2. /\ Stretch(embed, 9, 9) /\ ToSet(embed) = {Single("embed")}
      /\ Stretch(verify, 10, 10) /\ ToSet(verify) = {Single("verify")}
      /\ Stretch(removeZip, 11, 11) /\ ToSet(removeZip) = {Single("remove-zip")}
      /\ Stretch(compress, 12, 12) /\ ToSet(compress) = {Single("compress")}
      /\ Stretch(checksum, 13, 13) /\ ToSet(checksum) = {Single("checksum")}
  BY OnceListed, Ranks DEF Stretch
<1>. HIDE DEF embed, verify, removeZip, compress, checksum
<1>. DEFINE to8 == buildEverything \o assemble
            to9 == to8 \o embed
            to10 == to9 \o verify
            zip == removeZip \o compress
<1>3. Stretch(to8, 1, 8) /\ ToSet(to8) = ToSet(buildEverything) \cup ToSet(assemble)
  BY <1>1, AssembleListed, 1 \in Int, 2 \in Int, 8 \in Int, 1 < 2, 1 <= 1, 2 <= 8, StretchesJoin, Zenon
<1>4. Stretch(to9, 1, 9) /\ ToSet(to9) = ToSet(to8) \cup ToSet(embed)
  <2>. HIDE DEF to8
  <2>. QED
    BY <1>2, <1>3, 1 \in Int, 8 \in Int, 9 \in Int, 8 < 9, 1 <= 8, 9 <= 9, StretchesJoin, Zenon
<1>5. Stretch(to10, 1, 10) /\ ToSet(to10) = ToSet(to9) \cup ToSet(verify)
  <2>. HIDE DEF to9
  <2>. QED
    BY <1>2, <1>4, 1 \in Int, 9 \in Int, 10 \in Int, 9 < 10, 1 <= 9, 10 <= 10, StretchesJoin, Zenon
<1>6. Stretch(zip, 11, 12) /\ ToSet(zip) = ToSet(removeZip) \cup ToSet(compress)
  BY <1>2, 11 \in Int, 12 \in Int, 11 < 12, 11 <= 11, 12 <= 12, StretchesJoin, Zenon
<1>7. Stretch(zip \o checksum, 11, 13) /\ ToSet(zip \o checksum) = ToSet(zip) \cup ToSet(checksum)
  <2>. HIDE DEF zip
  <2>. QED
    BY <1>2, <1>6, 11 \in Int, 12 \in Int, 13 \in Int, 12 < 13, 11 <= 12, 13 <= 13, StretchesJoin, Zenon
<1>8. archive = zip \o checksum
  BY DEF archive, removeZip, compress, checksum
<1>9. Stretch(to10 \o archive, 1, 13) /\ ToSet(to10 \o archive) = ToSet(to10) \cup ToSet(archive)
  <2>. HIDE DEF to10, zip
  <2>. QED
    BY <1>5, <1>7, <1>8, 1 \in Int, 10 \in Int, 11 \in Int, 13 \in Int, 10 < 11, 1 <= 10, 11 <= 13,
       StretchesJoin, Zenon
<1>10. package = to10 \o archive
  BY DEF package, embed, verify
<1>. HIDE DEF to8, to9, to10, zip
<1>11. ToSet(package) = All("build", Exes) \cup ToSet(assemble) \cup
         {Single("embed"), Single("verify"), Single("remove-zip"), Single("compress"), Single("checksum")}
  BY <1>1, <1>2, <1>3, <1>4, <1>5, <1>6, <1>7, <1>8, <1>9, <1>10
<1>12. ToSet(package) = PackageSteps
  BY <1>11, AssembleListed DEF PackageSteps
<1>. QED
  BY <1>9, <1>10, <1>12

(* The steps of a fetch, and those that flattening puts before the rest. *)
FileSteps(do, place, names) == [i \in DOMAIN names |-> Step(do, <<place, names[i]>>)]

LEMMA FilesListed ==
  ASSUME NEW do \in {"expand", "move"}, NEW place,
         NEW found \in SUBSET RuntimeFiles, NEW names \in SetToSeqs(found)
  PROVE  /\ IsList(FileSteps(do, place, names)) /\ Ordered(FileSteps(do, place, names))
         /\ ToSet(FileSteps(do, place, names)) = {Step(do, <<place, f>>) : f \in found}
<1>1. IsFiniteSet(RuntimeFiles)
  <2>1. RuntimeFiles = ({} \cup {"msedgewebview2.exe"}) \cup {"msedge.dll"}
    BY DEF RuntimeFiles
  <2>. QED
    BY <2>1, FS_EmptySet, FS_AddElement
<1>2. IsFiniteSet(found)
  BY <1>1, FS_Subset
<1>3. names \in Seq(found) /\ ToSet(names) = found
  BY <1>2, SequenceOfSet
<1>4. DOMAIN names = 1 .. Len(names) /\ Len(names) \in Nat
  BY <1>3
<1>. DEFINE s == FileSteps(do, place, names)
<1>5. s = [i \in 1 .. Len(names) |-> s[i]] /\ \A i \in DOMAIN names : s[i] = Step(do, <<place, names[i]>>)
  BY <1>4 DEF FileSteps
<1>. HIDE DEF s
<1>6. IsList(s) /\ DOMAIN s = DOMAIN names
  BY <1>4, <1>5, ItemForEach
<1>7. ToSet(s) = {Step(do, <<place, f>>) : f \in ToSet(names)}
  BY <1>5, <1>6 DEF ToSet
<1>8. Ordered(s)
  <2>1. \A path : Step(do, path).do = do
    BY DEF Step
  <2>2. \A i \in DOMAIN s : s[i].do = do
    BY <1>5, <1>6, <2>1
  <2>3. do \in Several
    BY DEF Several
  <2>. QED
    BY <2>2, <2>3 DEF Ordered, Before
<1>. QED
  BY <1>3, <1>6, <1>7, <1>8 DEF s

LEMMA FetchListed ==
  ASSUME NEW names \in SetToSeqs(RuntimeFiles), NEW place \in {"root", "inner"}
  PROVE  /\ IsList(fetchRuntime(names, place)) /\ Ordered(fetchRuntime(names, place))
         /\ ToSet(fetchRuntime(names, place))
              = {Step("expand", <<place, f>>) : f \in RuntimeFiles}
                \cup {Single("clear-cache"), Single("flatten"), Single("cached")}
<1>. DEFINE clear == Once("clear-cache")
            expand == FileSteps("expand", place, names)
            flatten == Once("flatten")
            cached == Once("cached")
<1>1. /\ Stretch(clear, 21, 21) /\ ToSet(clear) = {Single("clear-cache")}
      /\ Stretch(flatten, 23, 23) /\ ToSet(flatten) = {Single("flatten")}
      /\ Stretch(cached, 25, 25) /\ ToSet(cached) = {Single("cached")}
  BY OnceListed, Ranks DEF Stretch
<1>2. Stretch(expand, 22, 22) /\ ToSet(expand) = {Step("expand", <<place, f>>) : f \in RuntimeFiles}
  <2>1. /\ IsList(expand) /\ Ordered(expand)
        /\ ToSet(expand) = {Step("expand", <<place, f>>) : f \in RuntimeFiles}
    BY FilesListed
  <2>. HIDE DEF expand
  <2>2. \A step \in ToSet(expand) : Rank(step) = 22
    BY <2>1, Ranks
  <2>. QED
    BY <2>1, <2>2 DEF Stretch
<1>. HIDE DEF clear, expand, flatten, cached
<1>. DEFINE to22 == clear \o expand
            to23 == to22 \o flatten
<1>3. Stretch(to22, 21, 22) /\ ToSet(to22) = ToSet(clear) \cup ToSet(expand)
  BY <1>1, <1>2, 21 \in Int, 22 \in Int, 21 < 22, 21 <= 21, 22 <= 22, StretchesJoin, Zenon
<1>4. Stretch(to23, 21, 23) /\ ToSet(to23) = ToSet(to22) \cup ToSet(flatten)
  <2>. HIDE DEF to22
  <2>. QED
    BY <1>1, <1>3, 21 \in Int, 22 \in Int, 23 \in Int, 22 < 23, 21 <= 22, 23 <= 23, StretchesJoin, Zenon
<1>5. Stretch(to23 \o cached, 21, 25) /\ ToSet(to23 \o cached) = ToSet(to23) \cup ToSet(cached)
  <2>. HIDE DEF to23
  <2>. QED
    BY <1>1, <1>4, 21 \in Int, 23 \in Int, 25 \in Int, 23 < 25, 21 <= 23, 25 <= 25, StretchesJoin, Zenon
<1>6. fetchRuntime(names, place) = to23 \o cached
  BY DEF fetchRuntime, FileSteps, clear, expand, flatten, cached
<1>. HIDE DEF to22, to23
<1>. QED
  BY <1>1, <1>2, <1>3, <1>4, <1>5, <1>6 DEF Stretch

LEMMA CheckingListed ==
  /\ IsList(Steps("target", Targets)) /\ Ordered(Steps("target", Targets))
  /\ ToSet(Steps("target", Targets)) = All("target", ToSet(Targets))
  /\ IsList(Once("verify")) /\ Ordered(Once("verify")) /\ ToSet(Once("verify")) = {Single("verify")}
BY StepsListed, TargetsListed, OnceListed DEF Several

-----------------------------------------------------------------------------
(***************************************************************************)
(* What a script does next, and what it leaves due.                        *)
(***************************************************************************)
LEMMA StepForms ==
  ASSUME NEW script, NEW s \in StepsOf(script)
  PROVE  /\ s.do \in {"build", "mkdir", "copy", "write", "mark", "remove", "complete", "embed",
                      "remove-zip", "compress", "checksum"} =>
              script \in PackageScripts /\ s \in PackageSteps
         /\ s.do \in {"clear-cache", "expand", "flatten", "move", "cached"} =>
              script = "fetch" /\ s \in FetchSteps
         /\ s.do = "target" => script \in {"version", "check"} /\ s \in All("target", ToSet(Targets))
         /\ s.do = "verify" => script \in PackageScripts \cup {"verify"} /\ s = Single("verify")
<1>1. \A do, path : Step(do, path).do = do /\ Single(do).do = do
  BY DEF Step, Single
<1>2. CASE script \in PackageScripts
  <2>1. s \in PackageSteps
    BY <1>2 DEF StepsOf
  <2>2. s.do \notin {"clear-cache", "expand", "flatten", "move", "cached", "target"}
    BY <1>1, <2>1 DEF PackageSteps, All
  <2>3. s.do = "verify" => s = Single("verify")
    BY <1>1, <2>1 DEF PackageSteps, All
  <2>. QED
    BY <1>2, <2>1, <2>2, <2>3
<1>3. CASE script = "fetch"
  <2>1. s \in FetchSteps
    BY <1>3 DEF StepsOf, PackageScripts
  <2>2. s.do \in {"clear-cache", "expand", "flatten", "move", "cached"}
    BY <1>1, <2>1 DEF FetchSteps, All
  <2>. QED
    BY <1>3, <2>1, <2>2
<1>4. CASE script = "verify"
  <2>1. s = Single("verify") /\ s.do = "verify"
    BY <1>1, <1>4 DEF StepsOf, PackageScripts
  <2>. QED
    BY <1>4, <2>1
<1>5. CASE script \in {"version", "check"}
  <2>1. s \in All("target", ToSet(Targets))
    BY <1>5 DEF StepsOf, PackageScripts
  <2>2. s.do = "target"
    BY <1>1, <2>1 DEF All
  <2>. QED
    BY <1>5, <2>1, <2>2
<1>. QED
  BY <1>2, <1>3, <1>4, <1>5 DEF StepsOf

(* The steps of a package and of a fetch by what they do. *)
LEMMA PackageStepForms ==
  ASSUME NEW s \in PackageSteps
  PROVE  /\ s.do = "build" => s.on \in Exes /\ s = Step("build", s.on)
         /\ s.do = "mkdir" => s.on \in Directories /\ s = Step("mkdir", s.on)
         /\ s.do = "copy" => s.on \in Exes \cup IconFiles /\ s = Step("copy", s.on)
         /\ s.do = "write" => s.on \in Content /\ s = Step("write", s.on)
         /\ s.do = "mark" => s.on \in Marks /\ s = Step("mark", s.on)
         /\ \A do \in {"remove", "complete", "embed", "verify", "remove-zip", "compress", "checksum"} :
              s.do = do => s = Single(do)
<1>1. \A do, path : Step(do, path).do = do /\ Step(do, path).on = path
  BY DEF Step
<1>2. \A do : Single(do).do = do
  BY DEF Step, Single
<1>3. ASSUME NEW do, NEW paths, s \in All(do, paths)
      PROVE  s.do = do /\ s.on \in paths /\ s = Step(do, s.on)
  BY <1>1, <1>3 DEF All
<1>4. CASE \E do \in {"remove", "complete", "embed", "verify", "remove-zip", "compress", "checksum"} :
              s = Single(do)
  BY <1>2, <1>4
<1>. QED
  BY <1>3, <1>4 DEF PackageSteps

LEMMA FetchStepForms ==
  ASSUME NEW s \in FetchSteps
  PROVE  /\ s.do \in {"expand", "move"} =>
              \E f \in RuntimeFiles, place \in {"root", "inner"} :
                /\ s.on = <<place, f>> /\ s = Step(s.do, <<place, f>>)
                /\ s.do = "move" => place = "inner"
         /\ \A do \in {"clear-cache", "flatten", "cached"} : s.do = do => s = Single(do)
<1>1. \A do, path : Step(do, path).do = do /\ Step(do, path).on = path
  BY DEF Step
<1>2. \A do : Single(do).do = do
  BY DEF Step, Single
<1>3. CASE s \in All("expand", {"root", "inner"} \X RuntimeFiles)
  <2>1. PICK path \in {"root", "inner"} \X RuntimeFiles : s = Step("expand", path)
    BY <1>3 DEF All
  <2>2. path = <<path[1], path[2]>> /\ path[1] \in {"root", "inner"} /\ path[2] \in RuntimeFiles
    OBVIOUS
  <2>. QED
    BY <1>1, <2>1, <2>2
<1>4. CASE s \in All("move", {"inner"} \X RuntimeFiles)
  <2>1. PICK path \in {"inner"} \X RuntimeFiles : s = Step("move", path)
    BY <1>4 DEF All
  <2>2. path = <<"inner", path[2]>> /\ path[2] \in RuntimeFiles
    OBVIOUS
  <2>. QED
    BY <1>1, <2>1, <2>2
<1>5. CASE s \in {Single(do) : do \in {"clear-cache", "flatten", "cached"}}
  BY <1>2, <1>5
<1>. QED
  BY <1>3, <1>4, <1>5 DEF FetchSteps

(* A script goes on to its next step. *)
Takes ==
  /\ Running /\ job.todo # << >>
  /\ \/ job' = [job EXCEPT !.todo = Tail(@)]
     \/ job' = [job EXCEPT !.todo = Tail(@), !.problem = TRUE]
  /\ outcome' = outcome
NextStep == Head(job.todo)

LEMMA TailOf ==
  ASSUME NEW S, NEW todo \in Seq(S), todo # << >>, Ordered(todo)
  PROVE  /\ Head(todo) \in ToSet(todo) /\ Head(todo) \in S
         /\ Tail(todo) \in Seq(S) /\ Ordered(Tail(todo))
         /\ \A s \in ToSet(Tail(todo)) : s \in ToSet(todo) /\ Before(Head(todo), s)
         /\ \A s \in ToSet(todo) : s = Head(todo) \/ s \in ToSet(Tail(todo))
<1>1. /\ Head(todo) = todo[1] /\ Tail(todo) \in Seq(S) /\ Len(Tail(todo)) = Len(todo) - 1
      /\ \A i \in 1 .. Len(todo) - 1 : Tail(todo)[i] = todo[i + 1]
      /\ Len(todo) \in Nat \ {0}
  OBVIOUS
<1>2. DOMAIN todo = 1 .. Len(todo) /\ DOMAIN Tail(todo) = 1 .. Len(todo) - 1
  BY <1>1
<1>3. Head(todo) \in ToSet(todo) /\ Head(todo) \in S
  BY <1>1, <1>2 DEF ToSet
<1>4. ASSUME NEW i \in DOMAIN Tail(todo), NEW j \in DOMAIN Tail(todo), i < j
      PROVE  Before(Tail(todo)[i], Tail(todo)[j])
  <2>1. /\ i + 1 \in DOMAIN todo /\ j + 1 \in DOMAIN todo /\ i + 1 < j + 1
        /\ Tail(todo)[i] = todo[i + 1] /\ Tail(todo)[j] = todo[j + 1]
    BY <1>1, <1>2, <1>4
  <2>. QED
    BY <2>1 DEF Ordered
<1>5. ASSUME NEW i \in DOMAIN Tail(todo)
      PROVE  Tail(todo)[i] \in ToSet(todo) /\ Before(Head(todo), Tail(todo)[i])
  <2>1. i + 1 \in DOMAIN todo /\ 1 \in DOMAIN todo /\ 1 < i + 1 /\ Tail(todo)[i] = todo[i + 1]
    BY <1>1, <1>2
  <2>. QED
    BY <1>1, <2>1 DEF Ordered, ToSet
<1>6. ASSUME NEW i \in DOMAIN todo
      PROVE  todo[i] = Head(todo) \/ todo[i] \in ToSet(Tail(todo))
  <2>1. CASE i = 1
    BY <1>1, <2>1
  <2>2. CASE i # 1
    <3>1. i - 1 \in DOMAIN Tail(todo) /\ Tail(todo)[i - 1] = todo[i]
      BY <1>1, <1>2, <2>2
    <3>. QED
      BY <3>1 DEF ToSet
  <2>. QED
    BY <2>1, <2>2
<1>. QED
  BY <1>1, <1>3, <1>4, <1>5, <1>6 DEF ToSet, Ordered

LEMMA TakesGoesOn ==
  ASSUME QueueInv, Takes
  PROVE  /\ QueueInv'
         /\ job'.script = job.script /\ job'.version = job.version
         /\ job'.undisturbed = job.undisturbed /\ job'.problem \in {job.problem, TRUE}
         /\ Running' /\ NextStep \in StepsOf(job.script) /\ Due(NextStep)
         /\ \A s : Due(s)' => Due(s) /\ Before(NextStep, s)
         /\ \A s : Due(s) => s = NextStep \/ Due(s)'
<1>1. job \in Jobs(Seq(StepsOf(job.script)))
  BY DEF QueueInv
<1>2. /\ job'.script = job.script /\ job'.version = job.version /\ job'.todo = Tail(job.todo)
      /\ job'.undisturbed = job.undisturbed /\ job'.problem \in {job.problem, TRUE}
      /\ job' \in Jobs({Tail(job.todo)})
  BY <1>1 DEF Jobs, Takes
<1>3. job.todo \in Seq(StepsOf(job.script)) /\ job.todo # << >> /\ Ordered(job.todo)
  BY <1>1 DEF Jobs, Takes, QueueInv
<1>4. /\ Head(job.todo) \in ToSet(job.todo) /\ Head(job.todo) \in StepsOf(job.script)
      /\ Tail(job.todo) \in Seq(StepsOf(job.script)) /\ Ordered(Tail(job.todo))
      /\ \A s \in ToSet(Tail(job.todo)) : s \in ToSet(job.todo) /\ Before(Head(job.todo), s)
      /\ \A s \in ToSet(job.todo) : s = Head(job.todo) \/ s \in ToSet(Tail(job.todo))
  BY <1>3, TailOf
<1>5. Running /\ Running'
  BY <1>2 DEF Takes, Running
<1>6. /\ \A s : Due(s)' => Due(s) /\ Before(NextStep, s)
      /\ \A s : Due(s) => s = NextStep \/ Due(s)'
      /\ Due(NextStep) /\ NextStep \in StepsOf(job.script)
  BY <1>2, <1>4 DEF Due, NextStep
<1>7. job'.script \in PackageScripts =>
        \A s \in PackageSteps : Due(s)' \/ \A t \in ToSet(job'.todo) : Before(s, t)
  BY <1>2, <1>6 DEF QueueInv, Due
<1>8. StepsOf(job'.script) = StepsOf(job.script)
  BY <1>2
<1>9. job' \in Jobs(Seq(StepsOf(job'.script)))
  BY <1>2, <1>4, <1>8 DEF Jobs
<1>10. job'.version \in Versions /\ outcome' = "none"
  BY <1>2 DEF QueueInv, Takes
<1>11. QueueInv'
  BY <1>2, <1>4, <1>5, <1>7, <1>9, <1>10 DEF QueueInv
<1>. QED
  BY <1>2, <1>5, <1>6, <1>11

LEMMA Stopped ==
  ASSUME job' = Idle
  PROVE  QueueInv' /\ ~Running' /\ job'.script = "none" /\ \A s : ~Due(s)'
<1>1. /\ Idle.script = "none" /\ Idle.todo = << >> /\ Idle.version = 0
      /\ Idle.problem = FALSE /\ Idle.undisturbed = TRUE
      /\ Idle = [script |-> "none", version |-> 0, todo |-> << >>, problem |-> FALSE,
                 undisturbed |-> TRUE]
  BY DEF Idle
<1>2. DOMAIN << >> = {} /\ ToSet(<< >>) = {} /\ Ordered(<< >>) /\ << >> \in Seq(StepsOf("none"))
  BY DEF ToSet, Ordered
<1>3. job'.script = "none" /\ job'.todo = << >> /\ ~Running'
  BY <1>1 DEF Running
<1>4. \A s : ~Due(s)'
  BY <1>2, <1>3 DEF Due
<1>5. job' \in Jobs(Seq(StepsOf(job'.script)))
  BY <1>1, <1>2 DEF Jobs
<1>6. QueueInv'
  BY <1>2, <1>3, <1>5 DEF QueueInv, PackageScripts
<1>. QED
  BY <1>3, <1>4, <1>6

LEMMA Started ==
  ASSUME PackagingTypeInv, QueueInv,
         NEW script \in {"package", "release", "verify", "version", "check", "fetch"}, NEW todo,
         Start(script, todo), todo \in Seq(StepsOf(script)), Ordered(todo),
         script \in PackageScripts => ToSet(todo) = PackageSteps
  PROVE  /\ QueueInv' /\ Running' /\ job'.script = script /\ job'.version = repo.root
         /\ job'.undisturbed /\ ~job'.problem /\ outcome' = "none"
         /\ \A s : Due(s)' <=> s \in ToSet(todo)
<1>1. /\ job' = [script |-> script, version |-> repo.root, todo |-> todo, problem |-> FALSE,
                 undisturbed |-> TRUE]
      /\ outcome' = "none" /\ UNCHANGED repo
  BY DEF Start, Idle
<1>2. repo.root \in Int /\ repo.root \in Versions
  BY DEF PackagingTypeInv, Versions
<1>3. /\ job'.script = script /\ job'.version = repo.root /\ job'.todo = todo
      /\ job'.undisturbed = TRUE /\ job'.problem = FALSE
  BY <1>1
<1>4. Running'
  BY <1>3 DEF Running
<1>5. job' \in Jobs(Seq(StepsOf(job'.script)))
  BY <1>1, <1>2, <1>3 DEF Jobs
<1>6. \A s : Due(s)' <=> s \in ToSet(todo)
  BY <1>3 DEF Due
<1>7. QueueInv'
  BY <1>1, <1>2, <1>3, <1>4, <1>5, <1>6 DEF QueueInv
<1>. QED
  BY <1>1, <1>3, <1>4, <1>6, <1>7

(* The scripts that may be started, and what is due then. *)
Starts == Package \/ VerifyOnly \/ VersionScript \/ Fetch

LEMMA Begun ==
  ASSUME PackagingTypeInv, QueueInv, Starts
  PROVE  /\ QueueInv' /\ Running' /\ job'.version = repo.root
         /\ job'.undisturbed /\ ~job'.problem /\ outcome' = "none"
         /\ UNCHANGED <<repo, built, cache, tree, dist, agreed, cut, gutted>>
         /\ job'.script \in PackageScripts => \A s \in PackageSteps : Due(s)'
         /\ job'.script = "verify" => Due(Single("verify"))'
         /\ job'.script \in {"version", "check"} =>
              \A target \in ToSet(Targets) : Due(Step("target", target))'
         /\ job'.script = "fetch" =>
              /\ Due(Single("clear-cache"))' /\ Due(Single("flatten"))'
              /\ \E place \in {"root", "inner"} :
                   \A f \in RuntimeFiles : ~Due(Step("expand", <<place, f>>))'
              /\ \A f \in RuntimeFiles :
                   \E place \in {"root", "inner"} : Due(Step("expand", <<place, f>>))'
<1>1. CASE Package
  <2>1. PICK script \in {"package", "release"} : Start(script, package)
    BY <1>1 DEF Package
  <2>2. package \in Seq(StepsOf(script)) /\ Ordered(package) /\ ToSet(package) = PackageSteps
    BY PackageListed DEF Stretch, IsList, StepsOf, PackageScripts
  <2>3. /\ QueueInv' /\ Running' /\ job'.script = script /\ job'.version = repo.root
        /\ job'.undisturbed /\ ~job'.problem /\ outcome' = "none"
        /\ \A s : Due(s)' <=> s \in ToSet(package)
    BY <2>1, <2>2, Started
  <2>4. UNCHANGED <<repo, built, cache, tree, dist, agreed, cut, gutted>>
    BY <2>1 DEF Start
  <2>. QED
    BY <2>2, <2>3, <2>4
<1>2. CASE VerifyOnly
  <2>1. Start("verify", Once("verify"))
    BY <1>2 DEF VerifyOnly
  <2>2. Once("verify") \in Seq(StepsOf("verify")) /\ Ordered(Once("verify"))
        /\ ToSet(Once("verify")) = {Single("verify")}
    BY CheckingListed DEF IsList, StepsOf, PackageScripts
  <2>3. /\ QueueInv' /\ Running' /\ job'.script = "verify" /\ job'.version = repo.root
        /\ job'.undisturbed /\ ~job'.problem /\ outcome' = "none"
        /\ \A s : Due(s)' <=> s \in ToSet(Once("verify"))
    BY <2>1, <2>2, Started DEF PackageScripts
  <2>4. UNCHANGED <<repo, built, cache, tree, dist, agreed, cut, gutted>>
    BY <2>1 DEF Start
  <2>. QED
    BY <2>2, <2>3, <2>4 DEF PackageScripts
<1>3. CASE VersionScript
  <2>1. PICK script \in {"version", "check"} : Start(script, Steps("target", Targets))
    BY <1>3 DEF VersionScript
  <2>2. /\ Steps("target", Targets) \in Seq(StepsOf(script)) /\ Ordered(Steps("target", Targets))
        /\ ToSet(Steps("target", Targets)) = All("target", ToSet(Targets))
    BY CheckingListed DEF IsList, StepsOf, PackageScripts
  <2>3. /\ QueueInv' /\ Running' /\ job'.script = script /\ job'.version = repo.root
        /\ job'.undisturbed /\ ~job'.problem /\ outcome' = "none"
        /\ \A s : Due(s)' <=> s \in ToSet(Steps("target", Targets))
    BY <2>1, <2>2, Started DEF PackageScripts
  <2>4. UNCHANGED <<repo, built, cache, tree, dist, agreed, cut, gutted>>
    BY <2>1 DEF Start
  <2>5. \A target \in ToSet(Targets) : Due(Step("target", target))'
    BY <2>2, <2>3 DEF All
  <2>. QED
    BY <2>3, <2>4, <2>5 DEF PackageScripts
<1>4. CASE Fetch
  <2>1. PICK names \in SetToSeqs(RuntimeFiles), place \in {"root", "inner"} :
          Start("fetch", fetchRuntime(names, place))
    BY <1>4 DEF Fetch
  <2>. DEFINE todo == fetchRuntime(names, place)
              other == IF place = "root" THEN "inner" ELSE "root"
  <2>2. /\ IsList(todo) /\ Ordered(todo)
        /\ ToSet(todo) = {Step("expand", <<place, f>>) : f \in RuntimeFiles}
                         \cup {Single("clear-cache"), Single("flatten"), Single("cached")}
    BY FetchListed
  <2>. HIDE DEF todo
  <2>3. \A f \in RuntimeFiles : Step("expand", <<place, f>>) \in FetchSteps
    BY DEF FetchSteps, All
  <2>4. ToSet(todo) \subseteq StepsOf("fetch")
    BY <2>2, <2>3 DEF StepsOf, PackageScripts, FetchSteps
  <2>5. todo \in Seq(StepsOf("fetch"))
    BY <2>2, <2>4, Widened
  <2>6. /\ QueueInv' /\ Running' /\ job'.script = "fetch" /\ job'.version = repo.root
        /\ job'.undisturbed /\ ~job'.problem /\ outcome' = "none"
        /\ \A s : Due(s)' <=> s \in ToSet(todo)
    BY <2>1, <2>2, <2>5, Started DEF PackageScripts, todo
  <2>7. UNCHANGED <<repo, built, cache, tree, dist, agreed, cut, gutted>>
    BY <2>1 DEF Start
  <2>8. \A f \in RuntimeFiles : Step("expand", <<other, f>>) \notin ToSet(todo)
    <3>1. other # place
      OBVIOUS
    <3>2. \A f, g : Step("expand", <<other, f>>) # Step("expand", <<place, g>>)
      BY <3>1 DEF Step
    <3>3. \A f : /\ Step("expand", <<other, f>>) # Single("clear-cache")
                 /\ Step("expand", <<other, f>>) # Single("flatten")
                 /\ Step("expand", <<other, f>>) # Single("cached")
      BY DEF Step, Single
    <3>. QED
      BY <2>2, <3>2, <3>3
  <2>9. other \in {"root", "inner"} /\ \A f \in RuntimeFiles : ~Due(Step("expand", <<other, f>>))'
    BY <2>6, <2>8
  <2>10. \A f \in RuntimeFiles : Due(Step("expand", <<place, f>>))'
    BY <2>2, <2>6
  <2>. QED
    BY <2>2, <2>6, <2>7, <2>9, <2>10 DEF PackageScripts
<1>. QED
  BY <1>1, <1>2, <1>3, <1>4 DEF Starts

(* Flattening puts a move before the rest for each file one directory down. *)
LEMMA Flattened ==
  ASSUME QueueInv, Doing("flatten"), outcome' = outcome, cache.inner \subseteq RuntimeFiles,
         NEW children \in SetToSeqs(cache.inner),
         job' = [job EXCEPT !.todo =
                   [i \in DOMAIN children |-> Step("move", <<"inner", children[i]>>)] \o Tail(@)]
  PROVE  /\ QueueInv' /\ Running'
         /\ job'.script = "fetch" /\ job.script = "fetch" /\ job'.version = job.version
         /\ job'.undisturbed = job.undisturbed
         /\ \A f \in cache.inner : Due(Step("move", <<"inner", f>>))'
         /\ ~Due(Single("flatten"))' /\ Due(Single("flatten")) /\ ~Due(Single("clear-cache"))'
         /\ \A s : Due(s) => Before(NextStep, s) \/ s = NextStep
<1>. DEFINE moves == FileSteps("move", "inner", children)
            rest == Tail(job.todo)
<1>1. job \in Jobs(Seq(StepsOf(job.script)))
  BY DEF QueueInv
<1>2. job' = [job EXCEPT !.todo = moves \o rest]
  BY DEF FileSteps
<1>3. /\ IsList(moves) /\ Ordered(moves)
      /\ ToSet(moves) = {Step("move", <<"inner", f>>) : f \in cache.inner}
  BY FilesListed
<1>4. job.todo \in Seq(StepsOf(job.script)) /\ job.todo # << >> /\ Ordered(job.todo)
  BY <1>1 DEF Jobs, Doing, QueueInv
<1>5. /\ Head(job.todo) \in ToSet(job.todo) /\ Head(job.todo) \in StepsOf(job.script)
      /\ rest \in Seq(StepsOf(job.script)) /\ Ordered(rest)
      /\ \A s \in ToSet(rest) : s \in ToSet(job.todo) /\ Before(Head(job.todo), s)
      /\ \A s \in ToSet(job.todo) : s = Head(job.todo) \/ s \in ToSet(rest)
  BY <1>4, TailOf
<1>6. /\ job.script = "fetch" /\ Head(job.todo) \in FetchSteps /\ Head(job.todo).do = "flatten"
  BY <1>5, StepForms DEF Doing
<1>7. Head(job.todo) = Single("flatten")
  BY <1>6, FetchStepForms
<1>. HIDE DEF moves, rest
<1>8. IsList(rest) /\ ToSet(rest) \subseteq FetchSteps
  BY <1>5, <1>6, Lists DEF StepsOf, PackageScripts
<1>9. \A s \in ToSet(rest) : Rank(s) > 23
  <2>1. Single("flatten").do = "flatten"
    BY DEF Single, Step
  <2>. QED
    BY <1>5, <1>7, <2>1, Ranks DEF Before, Several
<1>10. \A s \in ToSet(rest) : s.do = "move" \/ Rank(s) > 24
  <2>1. \A s \in FetchSteps : s.do = "move" \/ Rank(s) \in {21, 22, 23, 25}
    <3>1. \A s \in All("move", {"inner"} \X RuntimeFiles) : s.do = "move"
      BY DEF All, Step
    <3>2. \A s \in All("expand", {"root", "inner"} \X RuntimeFiles) : Rank(s) = 22
      BY Ranks DEF All
    <3>. QED
      BY <3>1, <3>2, Ranks DEF FetchSteps
  <2>. QED
    BY <1>8, <1>9, <2>1
<1>11. \A s \in ToSet(moves) : s.do = "move" /\ Rank(s) = 24
  BY <1>3, Ranks DEF Step
<1>12. \A s \in ToSet(moves), t \in ToSet(rest) : Before(s, t)
  BY <1>10, <1>11 DEF Before, Several
<1>13. IsList(moves \o rest) /\ ToSet(moves \o rest) = ToSet(moves) \cup ToSet(rest)
  BY <1>3, <1>8, Concatenation
<1>14. Ordered(moves \o rest)
  BY <1>3, <1>5, <1>8, <1>12, InOrder2
<1>15. ToSet(moves \o rest) \subseteq FetchSteps
  <2>1. \A f \in cache.inner : Step("move", <<"inner", f>>) \in FetchSteps
    BY DEF FetchSteps, All
  <2>. QED
    BY <1>3, <1>8, <1>13, <2>1
<1>16. moves \o rest \in Seq(StepsOf("fetch"))
  BY <1>13, <1>15, Widened DEF StepsOf, PackageScripts
<1>17. /\ job'.script = "fetch" /\ job'.version = job.version /\ job'.todo = moves \o rest
       /\ job'.undisturbed = job.undisturbed
       /\ job' \in Jobs({moves \o rest})
  BY <1>1, <1>2, <1>6 DEF Jobs
<1>18. Running /\ Running'
  BY <1>6, <1>17 DEF Running
<1>19. job' \in Jobs(Seq(StepsOf(job'.script)))
  BY <1>16, <1>17 DEF Jobs
<1>20. job'.version \in Versions /\ outcome' = "none"
  BY <1>17, <1>18 DEF QueueInv
<1>21. QueueInv'
  BY <1>14, <1>17, <1>18, <1>19, <1>20 DEF QueueInv, PackageScripts
<1>22. ~Due(Single("flatten"))' /\ ~Due(Single("clear-cache"))'
  <2>1. {Single("flatten"), Single("clear-cache")} \cap ToSet(moves \o rest) = {}
    BY <1>9, <1>11, <1>13, Ranks
  <2>. QED
    BY <1>17, <2>1 DEF Due
<1>23. \A f \in cache.inner : Due(Step("move", <<"inner", f>>))'
  BY <1>3, <1>13, <1>17 DEF Due
<1>24. Due(Single("flatten")) /\ \A s : Due(s) => Before(NextStep, s) \/ s = NextStep
  BY <1>5, <1>7 DEF Due, NextStep
<1>. QED
  BY <1>6, <1>17, <1>18, <1>21, <1>22, <1>23, <1>24

(* What a developer does meanwhile, and what ends a script. *)
Meddles == Bump \/ EditByHand \/ Clean
Stops == job' = Idle /\ Running
Moves ==
  /\ Doing("flatten") /\ ~isCached
  /\ \E children \in SetToSeqs(cache.inner) :
       job' = [job EXCEPT !.todo =
                 [i \in DOMAIN children |-> Step("move", <<"inner", children[i]>>)] \o Tail(@)]
  /\ UNCHANGED <<repo, built, cache, tree, dist, outcome, agreed, cut, gutted>>

LEMMA StepKinds ==
  ASSUME PackagingNext
  PROVE  Starts \/ Stops \/ Takes \/ Moves \/ Meddles
<1>1. CASE Package \/ VerifyOnly \/ VersionScript \/ Fetch
  BY <1>1 DEF Starts
<1>2. CASE End \/ Die
  BY <1>2 DEF End, Die, Stops
<1>3. CASE Target
  BY <1>3 DEF Target, Doing, Advance, Throw, Mismatch, Takes, Stops
<1>4. CASE ClearCache \/ Expand \/ Move \/ Cached
  BY <1>4 DEF ClearCache, Expand, Move, Cached, Doing, Advance, Throw, Takes, Stops
<1>5. CASE Flatten
  BY <1>5 DEF Flatten, Doing, Advance, Takes, Moves, CacheOnly
<1>6. CASE Compile \/ RemoveTree \/ MakeDirectory \/ Copy \/ Complete \/ Write \/ Mark
  BY <1>6 DEF Compile, RemoveTree, MakeDirectory, Copy, Complete, Write, Mark, Doing, Advance, Throw,
              Takes, Stops
<1>7. CASE EmbedWebView2 \/ Verify \/ RemoveZip \/ Compress \/ Checksum
  BY <1>7 DEF EmbedWebView2, Verify, RemoveZip, Compress, Checksum, Doing, Advance, Throw,
              Takes, Stops
<1>8. CASE Bump \/ EditByHand \/ Clean
  BY <1>8 DEF Meddles
<1>. QED
  BY <1>1, <1>2, <1>3, <1>4, <1>5, <1>6, <1>7, <1>8 DEF PackagingNext

(* Meddling leaves the script where it is. *)
LEMMA Meddled ==
  ASSUME QueueInv, Meddles
  PROVE  /\ QueueInv' /\ job'.script = job.script /\ job'.version = job.version
         /\ (Running' <=> Running) /\ job'.problem = job.problem /\ \A s : Due(s)' <=> Due(s)
         /\ UNCHANGED <<cache, tree, dist, cut, gutted>>
<1>1. CASE Clean
  <2>1. UNCHANGED <<job, outcome, cache, tree, dist, cut, gutted>>
    BY <1>1 DEF Clean
  <2>. QED
    BY <2>1 DEF QueueInv, Running, Due
<1>2. CASE Bump \/ EditByHand
  <2>1. job' = [job EXCEPT !.undisturbed = ~Running] /\ outcome' = "none"
        /\ UNCHANGED <<cache, tree, dist, cut, gutted>>
    BY <1>2 DEF Bump, EditByHand, Disturb
  <2>2. job \in Jobs(Seq(StepsOf(job.script)))
    BY DEF QueueInv
  <2>3. Running \in BOOLEAN
    BY DEF Running
  <2>4. /\ job'.script = job.script /\ job'.version = job.version /\ job'.todo = job.todo
        /\ job'.problem = job.problem
        /\ job' \in Jobs({job.todo})
    BY <2>1, <2>2, <2>3 DEF Jobs
  <2>5. job' \in Jobs(Seq(StepsOf(job'.script)))
    BY <2>2, <2>4 DEF Jobs
  <2>6. (Running' <=> Running) /\ \A s : Due(s)' <=> Due(s)
    BY <2>4 DEF Running, Due
  <2>7. ASSUME ~Running PROVE job' = Idle
    <3>1. job = Idle /\ (~Running) = TRUE
      BY <2>7 DEF QueueInv
    <3>2. job' = [Idle EXCEPT !.undisturbed = TRUE]
      BY <2>1, <3>1
    <3>. QED
      BY <3>2 DEF Idle
  <2>8. QueueInv'
    BY <2>1, <2>4, <2>5, <2>6, <2>7 DEF QueueInv, Due
  <2>. QED
    BY <2>1, <2>4, <2>6, <2>8
<1>. QED
  BY <1>1, <1>2 DEF Meddles

LEMMA QueueKept ==
  ASSUME PackagingTypeInv, QueueInv, PackagingNext
  PROVE  QueueInv'
<1>1. CASE Moves
  <2>1. cache.inner \subseteq RuntimeFiles
    BY DEF PackagingTypeInv
  <2>. QED
    BY <1>1, <2>1, Flattened DEF Moves
<1>. QED
  BY <1>1, StepKinds, Begun, Stopped, TakesGoesOn, Meddled DEF Stops

-----------------------------------------------------------------------------
(***************************************************************************)
(* The parts of the invariant, one after the other.                        *)
(***************************************************************************)
(* The files of the tree are of different kinds. *)
LEMMA PathKinds ==
  /\ \A path \in Directories : path[1] = "dir"
  /\ \A path \in Exes : path[1] = "exe"
  /\ \A path \in IconFiles : path[1] = "icon"
  /\ \A path \in Content : path[1] \in {"seed", "resource"}
  /\ \A path \in Marks : path[1] = "root"
<1>1. \A path \in Directories : path[1] = "dir"
  BY TwoItems DEF Directories, LAYOUT_DIRECTORIES
<1>2. \A path \in ToSet(seedConfig) : path[1] = "seed"
  <2>. DEFINE s == [i \in DOMAIN SUITE_APPS |-> <<"seed", SUITE_APPS[i]>>]
  <2>1. s = [i \in 1 .. Len(SUITE_APPS) |-> s[i]]
    BY AppIndices
  <2>2. \A i \in DOMAIN s : s[i][1] = "seed"
    OBVIOUS
  <2>3. seedConfig = <<<<"seed", "suite">>>> \o s
    BY DEF seedConfig
  <2>. HIDE DEF s
  <2>4. IsList(s)
    BY <2>1, ItemForEach, AppIndices
  <2>5. ToSet(seedConfig) = {<<"seed", "suite">>} \cup ToSet(s)
    BY <2>3, <2>4, OneItem, Concatenation
  <2>. QED
    BY <2>2, <2>5 DEF ToSet
<1>3. \A path \in ToSet(Resources) : path[1] = "resource"
  BY OneItem DEF Resources
<1>4. /\ \A path \in Exes : path[1] = "exe"
      /\ \A path \in IconFiles : path[1] = "icon"
      /\ \A path \in Marks : path[1] = "root"
  BY DEF Exes, IconFiles, Marks, Executable, rootMarker, rootReadme
<1>. QED
  BY <1>1, <1>2, <1>3, <1>4 DEF Content

LEMMA DistUpdated ==
  ASSUME PackagingTypeInv, NEW v \in Versions, NEW X,
         \/ dist' = [dist EXCEPT ![v].zip = X]
         \/ dist' = [dist EXCEPT ![v].sha = X]
  PROVE  /\ dist' = [w \in Versions |-> [zip |-> dist'[w].zip, sha |-> dist'[w].sha]]
         /\ \A w \in Versions : w # v => dist'[w] = dist[w]
         /\ dist' = [dist EXCEPT ![v].zip = X] => dist'[v].zip = X /\ dist'[v].sha = dist[v].sha
         /\ dist' = [dist EXCEPT ![v].sha = X] => dist'[v].sha = X /\ dist'[v].zip = dist[v].zip
<1>1. dist = [w \in Versions |-> [zip |-> dist[w].zip, sha |-> dist[w].sha]]
  BY DEF PackagingTypeInv
<1>. QED
  BY <1>1

LEMMA RepoUpdated ==
  ASSUME PackagingTypeInv, NEW target, NEW held \in Int, repo' = [repo EXCEPT !.holds[target] = held]
  PROVE  /\ repo' \in [root : Versions, holds : [ToSet(Targets) -> Int]]
         /\ repo'.root = repo.root
         /\ target \in ToSet(Targets) => repo'.holds[target] = held
         /\ \A t \in ToSet(Targets) : t # target => repo'.holds[t] = repo.holds[t]
<1>1. repo \in [root : Versions, holds : [ToSet(Targets) -> Int]]
  BY DEF PackagingTypeInv
<1>. QED
  BY <1>1

(* A step that takes or throws. *)
LEMMA StepOrThrow ==
  ASSUME QueueInv, Doing("target")
  PROVE  /\ Running /\ job.todo # << >> /\ job.version \in Versions
         /\ On \in ToSet(Targets) /\ job.script \in {"version", "check"}
         /\ NextStep = Step("target", On)
<1>1. Running /\ job.todo # << >> /\ Head(job.todo).do = "target"
  BY DEF Doing
<1>2. job.todo \in Seq(StepsOf(job.script)) /\ Ordered(job.todo)
  BY DEF QueueInv, Jobs
<1>3. Head(job.todo) \in StepsOf(job.script)
  BY <1>1, <1>2, TailOf
<1>4. job.script \in {"version", "check"} /\ Head(job.todo) \in All("target", ToSet(Targets))
  BY <1>1, <1>3, StepForms
<1>5. \A path : Step("target", path).on = path
  BY DEF Step
<1>6. On \in ToSet(Targets) /\ NextStep = Step("target", On)
  BY <1>4, <1>5 DEF All, On, NextStep
<1>. QED
  BY <1>1, <1>4, <1>6 DEF QueueInv

LEMMA TypeKept ==
  ASSUME PackagingTypeInv, QueueInv, PackagingNext
  PROVE  PackagingTypeInv'
<1>1. CASE UNCHANGED <<repo, built, cache, dist>> /\ agreed' \in BOOLEAN /\ cut' \in BOOLEAN
           /\ gutted' \in BOOLEAN
  BY <1>1 DEF PackagingTypeInv
<1>2. CASE Starts
  BY <1>2, <1>1, Begun DEF PackagingTypeInv
<1>3. CASE End
  BY <1>3, <1>1 DEF End, PackagingTypeInv
<1>4. CASE Target
  <2>1. CASE UNCHANGED repo
    BY <1>1, <1>4, <2>1 DEF Target, PackagingTypeInv
  <2>2. CASE repo' = [repo EXCEPT !.holds[On] = Rewritten(On)]
    <3>1. Rewritten(On) \in Int
      BY <1>4, StepOrThrow DEF Rewritten, Target, Unset, Torn, Versions
    <3>2. repo' \in [root : Versions, holds : [ToSet(Targets) -> Int]]
      BY <2>2, <3>1, RepoUpdated
    <3>. QED
      BY <1>4, <3>2 DEF Target, PackagingTypeInv
  <2>. QED
    BY <1>4, <2>1, <2>2 DEF Target
<1>5. CASE ClearCache \/ Expand \/ Flatten \/ Move \/ Cached
  <2>1. UNCHANGED <<repo, built, dist, agreed, cut, gutted>>
    BY <1>5 DEF ClearCache, Expand, Flatten, Move, Cached, CacheOnly
  <2>2. cache' \in [root : SUBSET RuntimeFiles, inner : SUBSET RuntimeFiles]
    <3>1. CASE UNCHANGED cache
      BY <3>1 DEF PackagingTypeInv
    <3>2. CASE ClearCache
      BY <3>2 DEF ClearCache
    <3>3. CASE Expand \/ Move
      <4>1. PICK f \in RuntimeFiles, place \in {"root", "inner"} : On = <<place, f>>
        <5>1. Running /\ job.todo # << >> /\ Head(job.todo).do \in {"expand", "move"}
          BY <3>3 DEF Expand, Move, Doing
        <5>2. Head(job.todo) \in StepsOf(job.script)
          BY <5>1, TailOf DEF QueueInv, Jobs
        <5>. QED
          BY <5>1, <5>2, StepForms, FetchStepForms DEF On
      <4>2. On[1] = place /\ On[2] = f
        BY <4>1
      <4>. HIDE DEF On
      <4>3. CASE Expand
        BY <4>2, <4>3 DEF Expand, PackagingTypeInv
      <4>4. CASE Move
        BY <4>2, <4>4 DEF Move, PackagingTypeInv
      <4>. QED
        BY <3>3, <4>3, <4>4
    <3>. QED
      BY <1>5, <3>1, <3>2, <3>3 DEF Flatten, Cached
  <2>. QED
    BY <2>1, <2>2 DEF PackagingTypeInv
<1>6. CASE Compile
  <2>1. CASE UNCHANGED built
    BY <1>1, <1>6, <2>1 DEF Compile, PackagingTypeInv
  <2>2. CASE VersionBuilt(On) \in Versions /\ built' = [built EXCEPT ![On] = VersionBuilt(On)]
    <3>1. built' \in [Exes -> Versions \cup {Missing}]
      BY <2>2 DEF PackagingTypeInv
    <3>. QED
      BY <1>6, <3>1 DEF Compile, PackagingTypeInv
  <2>. QED
    BY <1>6, <2>1, <2>2 DEF Compile
<1>7. CASE RemoveTree \/ MakeDirectory \/ Copy \/ Complete \/ Write \/ Mark \/ EmbedWebView2 \/ Verify
  BY <1>1, <1>7 DEF RemoveTree, MakeDirectory, Copy, Complete, Write, Mark, EmbedWebView2, Verify,
                    TreeOnly, PackagingTypeInv
<1>8. CASE RemoveZip \/ Compress \/ Checksum
  <2>1. job.version \in Versions /\ UNCHANGED <<repo, built, cache, agreed, cut, gutted>>
    BY <1>8 DEF RemoveZip, Compress, Checksum, Doing, ZipOnly, QueueInv
  <2>2. dist' = [w \in Versions |-> [zip |-> dist'[w].zip, sha |-> dist'[w].sha]]
    BY <1>8, <2>1, DistUpdated DEF RemoveZip, Compress, Checksum
  <2>. QED
    BY <2>1, <2>2 DEF PackagingTypeInv
<1>9. CASE Die
  <2>1. /\ cut' \in BOOLEAN /\ UNCHANGED <<built, agreed>>
        /\ Running /\ job.version \in Versions
        /\ \/ HalfRemoved \/ HalfWritten \/ HalfEmbedded \/ HalfRewritten \/ HalfCleared \/ HalfZipped \/ HalfSummed
           \/ UNCHANGED <<repo, tree, cache, dist, gutted>>
    BY <1>9 DEF Die, QueueInv
  <2>2. CASE \/ HalfRemoved \/ HalfWritten \/ HalfEmbedded
             \/ UNCHANGED <<repo, tree, cache, dist, gutted>>
    BY <2>1, <2>2 DEF HalfRemoved, HalfWritten, HalfEmbedded, PackagingTypeInv
  <2>3. CASE HalfRewritten
    <3>1. Torn \in Int /\ repo' = [repo EXCEPT !.holds[On] = Torn]
      BY <2>3 DEF HalfRewritten, Torn
    <3>2. repo' \in [root : Versions, holds : [ToSet(Targets) -> Int]]
      BY <3>1, RepoUpdated
    <3>. QED
      BY <2>1, <2>3, <3>2 DEF HalfRewritten, PackagingTypeInv
  <2>4. CASE HalfCleared
    BY <2>1, <2>4 DEF HalfCleared, PackagingTypeInv
  <2>5. CASE HalfZipped \/ HalfSummed
    <3>1. dist' = [w \in Versions |-> [zip |-> dist'[w].zip, sha |-> dist'[w].sha]]
      BY <2>1, <2>5, DistUpdated DEF HalfZipped, HalfSummed
    <3>. QED
      BY <2>1, <2>5, <3>1 DEF HalfZipped, HalfSummed, PackagingTypeInv
  <2>. QED
    BY <2>1, <2>2, <2>3, <2>4, <2>5
<1>10. CASE Bump
  <2>1. PICK version \in Versions : repo' = [repo EXCEPT !.root = version]
    BY <1>10 DEF Bump
  <2>2. repo' \in [root : Versions, holds : [ToSet(Targets) -> Int]]
    BY <2>1 DEF PackagingTypeInv
  <2>. QED
    BY <1>10, <2>2 DEF Bump, Disturb, PackagingTypeInv
<1>11. CASE EditByHand
  <2>1. PICK target \in ToSet(Targets), held \in Versions \cup {Unset, Missing} :
          repo' = [repo EXCEPT !.holds[target] = held]
    BY <1>11 DEF EditByHand
  <2>2. held \in Int
    BY DEF Versions, Unset, Missing
  <2>3. repo' \in [root : Versions, holds : [ToSet(Targets) -> Int]]
    BY <2>1, <2>2, RepoUpdated
  <2>. QED
    BY <1>11, <2>3 DEF EditByHand, Disturb, PackagingTypeInv
<1>12. CASE Clean
  <2>1. built' \in [Exes -> Versions \cup {Missing}]
    BY <1>12 DEF Clean, PackagingTypeInv
  <2>. QED
    BY <1>12, <2>1 DEF Clean, PackagingTypeInv
<1>. QED
  BY <1>2, <1>3, <1>4, <1>5, <1>6, <1>7, <1>8, <1>9, <1>10, <1>11, <1>12 DEF PackagingNext, Starts

(* What is due of a package, and what is not, as it comes to a step. *)
LEMMA RankKinds ==
  /\ \A s : Rank(s) \in Nat
  /\ \A s, t : s.do = t.do /\ s.do \in Several => Rank(s) = Rank(t)
<1>1. \A s : Rank(s) \in Nat
  BY DEF Rank
<1>2. \A s, t : s.do = t.do /\ s.do \in Several => Rank(s) = Rank(t)
  BY DEF Rank, Several
<1>. QED
  BY <1>1, <1>2

LEMMA HeadFirst ==
  ASSUME QueueInv, Running, job.todo # << >>
  PROVE  /\ NextStep \in StepsOf(job.script) /\ Due(NextStep)
         /\ \A s : Due(s) => s = NextStep \/ Before(NextStep, s)
<1>1. job.todo \in Seq(StepsOf(job.script)) /\ Ordered(job.todo)
  BY DEF QueueInv, Jobs
<1>2. /\ Head(job.todo) \in ToSet(job.todo) /\ Head(job.todo) \in StepsOf(job.script)
      /\ \A s \in ToSet(Tail(job.todo)) : s \in ToSet(job.todo) /\ Before(Head(job.todo), s)
      /\ \A s \in ToSet(job.todo) : s = Head(job.todo) \/ s \in ToSet(Tail(job.todo))
  BY <1>1, TailOf
<1>. QED
  BY <1>2 DEF Due, NextStep

LEMMA Reached ==
  ASSUME QueueInv, job.script \in PackageScripts, job.todo # << >>
  PROVE  /\ NextStep \in PackageSteps
         /\ \A s : Rank(s) < Rank(NextStep) => ~Due(s)
         /\ \A s \in PackageSteps : Rank(NextStep) < Rank(s) => Due(s)
         /\ Due(NextStep)
<1>1. Running
  BY DEF Running, PackageScripts
<1>2. /\ NextStep \in StepsOf(job.script) /\ Due(NextStep)
      /\ \A s : Due(s) => s = NextStep \/ Before(NextStep, s)
  BY <1>1, HeadFirst
<1>3. \A s, t : Before(s, t) => Rank(s) <= Rank(t)
  BY RankKinds DEF Before
<1>4. \A s : Rank(s) < Rank(NextStep) => ~Due(s)
  BY <1>2, <1>3, RankKinds
<1>5. \A s \in PackageSteps : Due(s) \/ Before(s, NextStep)
  BY <1>2 DEF QueueInv, Due
<1>6. \A s \in PackageSteps : Rank(NextStep) < Rank(s) => Due(s)
  BY <1>3, <1>5, RankKinds
<1>. QED
  BY <1>2, <1>4, <1>6 DEF StepsOf

(* What a package does, step by step. *)
LEMMA PackageDoes ==
  ASSUME QueueInv,
         Running, job.todo # << >>,
         NextStep.do \in {"build", "mkdir", "copy", "write", "mark", "remove", "complete", "embed",
                       "remove-zip", "compress", "checksum"}
  PROVE  /\ job.script \in PackageScripts /\ NextStep \in PackageSteps /\ On = NextStep.on
         /\ NextStep.do = "build" => On \in Exes /\ NextStep = Step("build", On) /\ Rank(NextStep) = 1
         /\ NextStep.do = "remove" => NextStep = Single("remove") /\ Rank(NextStep) = 2
         /\ NextStep.do = "mkdir" => On \in Directories /\ NextStep = Step("mkdir", On) /\ Rank(NextStep) = 3
         /\ NextStep.do = "copy" =>
              On \in Exes \cup IconFiles /\ NextStep = Step("copy", On) /\ Rank(NextStep) = 4
         /\ NextStep.do = "complete" => NextStep = Single("complete") /\ Rank(NextStep) = 5
         /\ NextStep.do = "write" => On \in Content /\ NextStep = Step("write", On) /\ Rank(NextStep) = 6
         /\ NextStep.do = "mark" => /\ On \in Marks /\ NextStep = Step("mark", On)
                                 /\ Rank(NextStep) = IF On = rootMarker THEN 7 ELSE 8
         /\ NextStep.do = "embed" => NextStep = Single("embed") /\ Rank(NextStep) = 9
         /\ NextStep.do = "remove-zip" => NextStep = Single("remove-zip") /\ Rank(NextStep) = 11
         /\ NextStep.do = "compress" => NextStep = Single("compress") /\ Rank(NextStep) = 12
         /\ NextStep.do = "checksum" => NextStep = Single("checksum") /\ Rank(NextStep) = 13
<1>1. NextStep \in StepsOf(job.script) /\ On = NextStep.on
  BY HeadFirst DEF On, NextStep
<1>2. job.script \in PackageScripts /\ NextStep \in PackageSteps
  BY <1>1, StepForms
<1>3. rootReadme # rootMarker
  BY DEF rootReadme, rootMarker
<1>. HIDE DEF NextStep, On
<1>4. PICK s \in PackageSteps : s = NextStep
  BY <1>2
<1>. QED
  BY <1>1, <1>2, <1>3, <1>4, PackageStepForms, Ranks DEF Marks

(* The steps of a package and their ranks. *)
LEMMA PackageRanks ==
  /\ \A path \in Directories : Step("mkdir", path) \in PackageSteps
  /\ \A path \in Exes \cup IconFiles : Step("copy", path) \in PackageSteps
  /\ \A path \in Content : Step("write", path) \in PackageSteps
  /\ \A path \in Marks : Step("mark", path) \in PackageSteps /\ Rank(Step("mark", path)) \in {7, 8}
  /\ \A exe \in Exes : Step("build", exe) \in PackageSteps
  /\ \A do \in {"remove", "complete", "embed", "verify", "remove-zip", "compress", "checksum"} :
       Single(do) \in PackageSteps
BY Ranks DEF PackageSteps, All, Marks

(* A package that has come past the removal of the tree. *)
LEMMA Assembled ==
  ASSUME QueueInv, AssembleInv, job.script \in PackageScripts, job.todo # << >>, Rank(NextStep) > 2
  PROVE  /\ Assembling /\ ~gutted
         /\ \A path \in DOMAIN tree : tree[path] # Torn
         /\ Rank(NextStep) < 7 => \A path \in Marks : path \notin DOMAIN tree
         /\ Rank(NextStep) < 8 => rootReadme \notin DOMAIN tree
         /\ Rank(NextStep) > 6 => \A path \in Declared \ Marks : Whole(path)
         /\ Rank(NextStep) > 7 => Whole(rootMarker)
         /\ Rank(NextStep) > 8 => Whole(rootReadme)
<1>1. /\ NextStep \in PackageSteps
      /\ \A s : Rank(s) < Rank(NextStep) => ~Due(s)
      /\ \A s \in PackageSteps : Rank(NextStep) < Rank(s) => Due(s)
  BY Reached
<1>2. Assembling
  BY <1>1, Ranks DEF Assembling
<1>3. ~gutted /\ \A path \in DOMAIN tree : tree[path] # Torn
  BY <1>2 DEF AssembleInv
<1>4. Rank(NextStep) \in Nat
  BY RankKinds
<1>5. /\ Step("mark", rootMarker) \in PackageSteps /\ Step("mark", rootReadme) \in PackageSteps
      /\ Rank(Step("mark", rootMarker)) = 7 /\ Rank(Step("mark", rootReadme)) = 8
  BY PackageRanks, Ranks DEF Marks
<1>6. /\ Due(Step("mark", rootMarker)) <=> rootMarker \notin DOMAIN tree
      /\ Due(Step("mark", rootReadme)) <=> rootReadme \notin DOMAIN tree
  BY <1>2 DEF AssembleInv, Marks
<1>7. Rank(NextStep) < 7 => rootMarker \notin DOMAIN tree /\ rootReadme \notin DOMAIN tree
  BY <1>1, <1>4, <1>5, <1>6
<1>8. Rank(NextStep) < 8 => rootReadme \notin DOMAIN tree
  BY <1>1, <1>4, <1>5, <1>6
<1>9. Rank(NextStep) > 7 => Whole(rootMarker)
  BY <1>1, <1>3, <1>4, <1>5, <1>6 DEF Whole
<1>10. Rank(NextStep) > 8 => Whole(rootReadme)
  BY <1>1, <1>3, <1>4, <1>5, <1>6 DEF Whole
<1>11. ASSUME Rank(NextStep) > 6, NEW path \in Declared \ Marks PROVE Whole(path)
  <2>1. path \in Directories \cup Exes \cup Content
    BY LayoutListed DEF Declared, Marks, Content, Directories
  <2>2. CASE path \in Directories
    <3>1. ~Due(Step("mkdir", path))
      BY <1>1, <1>4, <1>11, Ranks
    <3>. QED
      BY <1>2, <1>3, <2>2, <3>1 DEF AssembleInv, Whole
  <2>3. CASE path \in Content
    <3>1. ~Due(Step("write", path))
      BY <1>1, <1>4, <1>11, Ranks
    <3>. QED
      BY <1>2, <1>3, <2>3, <3>1 DEF AssembleInv, Whole
  <2>4. CASE path \in Exes
    <3>1. ~Due(Single("complete"))
      BY <1>1, <1>4, <1>11, Ranks
    <3>. QED
      BY <1>2, <1>3, <2>4, <3>1, LayoutListed DEF AssembleInv, Whole
  <2>. QED
    BY <2>1, <2>2, <2>3, <2>4
<1>. QED
  BY <1>2, <1>3, <1>7, <1>8, <1>9, <1>10, <1>11 DEF Marks

(* A file put in the tree. *)
LEMMA FilePut ==
  ASSUME NEW path, NEW content, tree' = Put(path, content)
  PROVE  /\ DOMAIN tree' = DOMAIN tree \cup {path}
         /\ tree'[path] = content
         /\ \A p \in DOMAIN tree : p # path => tree'[p] = tree[p]
         /\ \A p : p # path => Whole(p)' = Whole(p)
BY DEF Put, Whole

LEMMA TreeKept ==
  ASSUME PackagingTypeInv, QueueInv, TreeInv, AssembleInv, PackagingNext
  PROVE  TreeInv'
<1>1. CASE UNCHANGED <<tree, gutted>>
  BY <1>1 DEF TreeInv, Whole
<1>2. CASE RemoveTree
  <2>1. DOMAIN tree' = {}
    BY <1>2 DEF RemoveTree, Empty
  <2>. QED
    BY <2>1 DEF TreeInv
<1>3. CASE HalfRemoved
  BY <1>3 DEF HalfRemoved, TreeInv
<1>4. ASSUME Running, job.todo # << >>, NextStep.do \in {"mkdir", "copy", "write", "mark"},
             NEW content, tree' = Put(On, content), UNCHANGED gutted,
             content # Torn \/ NextStep.do # "mkdir"
      PROVE  TreeInv'
  <2>1. job.script \in PackageScripts /\ Rank(NextStep) \in 3 .. 8 /\ Rank(NextStep) > 2
    BY <1>4, PackageDoes
  <2>2. /\ Rank(NextStep) < 7 => \A path \in Marks : path \notin DOMAIN tree
        /\ Rank(NextStep) < 8 => rootReadme \notin DOMAIN tree
        /\ Rank(NextStep) > 6 => \A path \in Declared \ Marks : Whole(path)
        /\ Rank(NextStep) > 7 => Whole(rootMarker)
    BY <1>4, <2>1, Assembled
  <2>3. /\ DOMAIN tree' = DOMAIN tree \cup {On}
        /\ \A p : p # On => Whole(p)' = Whole(p)
    BY <1>4, FilePut
  <2>4. rootMarker \in Marks /\ rootReadme \in Marks /\ rootMarker # rootReadme
    BY DEF Marks, rootMarker, rootReadme
  <2>5. CASE NextStep.do # "mark"
    <3>1. On \notin Marks /\ Rank(NextStep) < 7
      BY <1>4, <2>5, PackageDoes, PathKinds
    <3>. QED
      BY <2>2, <2>3, <2>4, <3>1 DEF TreeInv
  <2>6. CASE NextStep.do = "mark" /\ On = rootMarker
    <3>1. Rank(NextStep) = 7
      BY <1>4, <2>6, PackageDoes
    <3>2. rootReadme \notin DOMAIN tree' /\ \A path \in Declared \ Marks : Whole(path)'
      BY <2>2, <2>3, <2>4, <2>6, <3>1
    <3>. QED
      BY <3>2 DEF TreeInv
  <2>7. CASE NextStep.do = "mark" /\ On # rootMarker
    <3>1. Rank(NextStep) = 8 /\ On = rootReadme
      BY <1>4, <2>7, PackageDoes DEF Marks
    <3>2. Whole(rootMarker)' /\ \A path \in Declared \ Marks : Whole(path)'
      BY <2>2, <2>3, <2>4, <3>1
    <3>. QED
      BY <3>2 DEF TreeInv
  <2>. QED
    BY <2>5, <2>6, <2>7
<1>5. CASE MakeDirectory
  BY <1>5, <1>4 DEF MakeDirectory, Doing, NextStep, Torn
<1>6. CASE Copy
  <2>1. Running /\ job.todo # << >> /\ NextStep.do = "copy" /\ UNCHANGED gutted
    BY <1>6 DEF Copy, Doing, NextStep
  <2>2. CASE HasSource(On)
    BY <1>4, <1>6, <2>1, <2>2 DEF Copy
  <2>3. CASE ~HasSource(On)
    BY <1>1, <1>6, <2>1, <2>3 DEF Copy
  <2>. QED
    BY <2>2, <2>3
<1>7. CASE Write
  BY <1>7, <1>4 DEF Write, Doing, NextStep
<1>8. CASE Mark
  BY <1>8, <1>4 DEF Mark, Doing, NextStep
<1>9. CASE EmbedWebView2 \/ HalfEmbedded
  <2>1. UNCHANGED gutted
    BY <1>9 DEF EmbedWebView2, HalfEmbedded
  <2>2. CASE UNCHANGED tree
    BY <1>1, <2>1, <2>2
  <2>3. ASSUME NEW copied, tree' = Embedded(copied)
        PROVE  TreeInv'
    <3>1. /\ \A p : Whole(p) => Whole(p)'
          /\ DOMAIN tree' = DOMAIN tree \cup {<<"runtime", f>> : f \in copied}
      BY <2>3 DEF Whole, Embedded
    <3>2. \A path \in Marks : path \in DOMAIN tree' => path \in DOMAIN tree
      BY <3>1, PathKinds
    <3>. QED
      BY <2>1, <3>1, <3>2 DEF TreeInv, Marks
  <2>. QED
    BY <1>9, <2>2, <2>3 DEF EmbedWebView2, HalfEmbedded
<1>10. CASE HalfWritten
  BY <1>10, <1>4 DEF HalfWritten, Doing, NextStep
<1>11. CASE Die
  BY <1>1, <1>3, <1>9, <1>10, <1>11 DEF Die, HalfRewritten, HalfCleared, HalfZipped, HalfSummed
<1>12. CASE Starts
  BY <1>1, <1>12, Begun
<1>13. CASE Meddles
  BY <1>1, <1>13, Meddled
<1>14. CASE \/ End \/ Target \/ ClearCache \/ Expand \/ Flatten \/ Move \/ Cached
            \/ Compile \/ Complete \/ Verify \/ RemoveZip \/ Compress \/ Checksum
  BY <1>1, <1>14 DEF End, Target, ClearCache, Expand, Flatten, Move, Cached, CacheOnly, Compile,
                     Complete, Verify, RemoveZip, Compress, Checksum, ZipOnly
<1>. QED
  BY <1>2, <1>5, <1>6, <1>7, <1>8, <1>9, <1>11, <1>12, <1>13, <1>14
     DEF PackagingNext, Starts, Meddles

(* A step of a package that keeps what is in the tree. *)
LEMMA AssemblesOn ==
  ASSUME QueueInv, AssembleInv, Takes, job.script \in PackageScripts, Assembling,
         UNCHANGED <<gutted, cut>>,
         \A path \in DOMAIN tree : path \in DOMAIN tree',
         \A path \in DOMAIN tree' : tree'[path] # Torn,
         \A path \in Directories : NextStep = Step("mkdir", path) => path \in DOMAIN tree',
         \A path \in Content : NextStep = Step("write", path) => path \in DOMAIN tree',
         \A path \in Marks :
           path \in DOMAIN tree' <=> path \in DOMAIN tree \/ NextStep = Step("mark", path),
         rootMarker \in DOMAIN tree' => tree'[rootMarker] = job.version,
         NextStep = Single("complete") => RequiredFiles \subseteq DOMAIN tree',
         job.script = "release" /\ NextStep = Single("embed") => Runtime \subseteq DOMAIN tree' \/ cut
  PROVE  AssembleInv'
<1>1. /\ job'.script = job.script /\ job'.version = job.version
      /\ \A s : Due(s)' => Due(s) /\ Before(NextStep, s)
      /\ \A s : Due(s) => s = NextStep \/ Due(s)'
  BY TakesGoesOn
<1>2. /\ ~gutted
      /\ \A path \in Directories : Due(Step("mkdir", path)) \/ path \in DOMAIN tree
      /\ \A path \in Content : Due(Step("write", path)) \/ path \in DOMAIN tree
      /\ \A path \in Marks : Due(Step("mark", path)) <=> path \notin DOMAIN tree
      /\ Due(Single("complete")) \/ RequiredFiles \subseteq DOMAIN tree
      /\ job.script = "release" =>
           Due(Single("embed")) \/ Runtime \subseteq DOMAIN tree \/ cut
  BY DEF AssembleInv
<1>3. \A path : ~Before(Step("mark", path), Step("mark", path))
  BY RankKinds DEF Before, Several, Step
<1>4. \A path \in Directories : Due(Step("mkdir", path))' \/ path \in DOMAIN tree'
  BY <1>1, <1>2
<1>5. \A path \in Content : Due(Step("write", path))' \/ path \in DOMAIN tree'
  BY <1>1, <1>2
<1>6. \A path \in Marks : Due(Step("mark", path))' <=> path \notin DOMAIN tree'
  BY <1>1, <1>2, <1>3
<1>7. Due(Single("complete"))' \/ RequiredFiles \subseteq DOMAIN tree'
  BY <1>1, <1>2
<1>8. job'.script = "release" => Due(Single("embed"))' \/ Runtime \subseteq DOMAIN tree' \/ cut'
  BY <1>1, <1>2
<1>. QED
  BY <1>1, <1>2, <1>4, <1>5, <1>6, <1>7, <1>8 DEF AssembleInv

LEMMA AssembleKept ==
  ASSUME PackagingTypeInv, QueueInv, AssembleInv, CacheInv, PackagingNext
  PROVE  AssembleInv'
<1>1. CASE Stops \/ Starts \/ Moves
  <2>1. ~Assembling'
    <3>1. CASE Stops
      BY <3>1, Stopped DEF Stops, Assembling, PackageScripts
    <3>2. CASE Starts
      BY <3>2, Begun, PackageRanks DEF Assembling
    <3>3. CASE Moves
      <4>1. cache.inner \subseteq RuntimeFiles
        BY DEF PackagingTypeInv
      <4>2. job'.script = "fetch"
        BY <3>3, <4>1, Flattened DEF Moves
      <4>. QED
        BY <4>2 DEF Assembling, PackageScripts
    <3>. QED
      BY <1>1, <3>1, <3>2, <3>3
  <2>. QED
    BY <2>1 DEF AssembleInv
<1>2. CASE Meddles
  BY <1>2, Meddled DEF AssembleInv, Assembling
<1>3. CASE Takes /\ ~Stops
  <2>0. /\ job'.script = job.script
        /\ \A s : Due(s)' => Due(s) /\ Before(NextStep, s)
        /\ \A s : Due(s) => s = NextStep \/ Due(s)'
        /\ Running /\ job.todo # << >>
    BY <1>3, TakesGoesOn DEF Takes
  <2>. SUFFICES ASSUME job.script \in PackageScripts, Assembling'
                PROVE  AssembleInv'
    BY <2>0 DEF AssembleInv, Assembling
  <2>1. CASE RemoveTree
    <3>1. /\ NextStep = Single("remove") /\ Rank(NextStep) = 2 /\ tree' = Empty /\ ~gutted'
      BY <2>0, <2>1, PackageDoes DEF RemoveTree, Doing, NextStep
    <3>2. \A s \in PackageSteps : Rank(s) > 2 => Due(s)'
      BY <2>0, <3>1, Reached, RankKinds
    <3>3. DOMAIN tree' = {}
      BY <3>1 DEF Empty
    <3>4. /\ \A path \in Directories : Due(Step("mkdir", path))'
          /\ \A path \in Content : Due(Step("write", path))'
          /\ \A path \in Marks : Due(Step("mark", path))'
          /\ Due(Single("complete"))' /\ Due(Single("embed"))'
      BY <3>2, PackageRanks, Ranks
    <3>. QED
      BY <3>1, <3>3, <3>4 DEF AssembleInv
  <2>2. CASE Compile
    <3>1. NextStep = Step("build", On) /\ Rank(NextStep) = 1
      BY <2>0, <2>2, PackageDoes DEF Compile, Doing, NextStep
    <3>2. Due(Single("remove"))'
      BY <2>0, <3>1, Reached, PackageRanks, Ranks
    <3>. QED
      BY <3>2 DEF Assembling
  <2>3. CASE \/ MakeDirectory \/ Copy \/ Complete \/ Write \/ Mark \/ EmbedWebView2
             \/ Verify \/ RemoveZip \/ Compress \/ Checksum
    <3>1. UNCHANGED <<gutted, cut>>
      BY <2>3 DEF MakeDirectory, Copy, Complete, Write, Mark, EmbedWebView2, Verify, RemoveZip,
                  Compress, Checksum, TreeOnly, ZipOnly
    <3>2. NextStep.do \in {"mkdir", "copy", "complete", "write", "mark", "embed", "verify", "remove-zip",
                       "compress", "checksum"}
      BY <2>3 DEF MakeDirectory, Copy, Complete, Write, Mark, EmbedWebView2, Verify, RemoveZip,
                  Compress, Checksum, Doing, NextStep
    <3>3. Rank(NextStep) > 2
      <4>1. CASE NextStep.do = "verify"
        BY <2>0, <4>1, HeadFirst, StepForms, Ranks
      <4>2. CASE NextStep.do # "verify"
        BY <2>0, <3>2, <4>2, PackageDoes
      <4>. QED
        BY <4>1, <4>2
    <3>4. /\ Assembling /\ ~gutted
          /\ \A path \in DOMAIN tree : tree[path] # Torn
          /\ rootMarker \in DOMAIN tree => tree[rootMarker] = job.version
      BY <2>0, <3>3, Assembled DEF AssembleInv
    <3>5. \A do, path : Step(do, path).do = do /\ Single(do).do = do /\ Step(do, path).on = path
      BY DEF Step, Single
    <3>6. ASSUME NEW content, tree' = Put(On, content), content # Torn,
                 NextStep.do \in {"mkdir", "copy", "write", "mark"},
                 NextStep.do = "mark" => content = job.version
          PROVE  AssembleInv'
      <4>1. /\ DOMAIN tree' = DOMAIN tree \cup {On} /\ tree'[On] = content
            /\ \A p \in DOMAIN tree : p # On => tree'[p] = tree[p]
        BY <3>6, FilePut
      <4>2. /\ On = NextStep.on /\ rootMarker \in Marks
            /\ On \in Marks => NextStep.do = "mark" /\ NextStep = Step("mark", On)
        BY <2>0, <3>6, PackageDoes, PathKinds DEF Marks
      <4>3. \A do, path : NextStep = Step(do, path) => On = path
        BY <3>5, <4>2
      <4>4. \A path \in DOMAIN tree' : tree'[path] # Torn
        BY <3>4, <3>6, <4>1
      <4>5. \A path \in Marks :
              path \in DOMAIN tree' <=> path \in DOMAIN tree \/ NextStep = Step("mark", path)
        BY <4>1, <4>2, <4>3
      <4>6. rootMarker \in DOMAIN tree' => tree'[rootMarker] = job.version
        BY <3>4, <3>6, <4>1, <4>2
      <4>7. /\ \A path \in DOMAIN tree : path \in DOMAIN tree'
            /\ \A path \in Directories : NextStep = Step("mkdir", path) => path \in DOMAIN tree'
            /\ \A path \in Content : NextStep = Step("write", path) => path \in DOMAIN tree'
        BY <4>1, <4>3
      <4>8. NextStep # Single("complete") /\ NextStep # Single("embed")
        BY <3>5, <3>6
      <4>. QED
        BY <1>3, <3>1, <3>4, <4>4, <4>5, <4>6, <4>7, <4>8, AssemblesOn
    <3>61. CASE MakeDirectory \/ Write \/ Mark
      <4>1. CASE MakeDirectory \/ Write
        BY <3>6, <4>1 DEF MakeDirectory, Write, Doing, NextStep, Torn
      <4>2. CASE Mark
        <5>1. job.version # Torn
          BY <2>0 DEF QueueInv, Versions, Torn
        <5>. QED
          BY <3>6, <4>2, <5>1 DEF Mark, Doing, NextStep
      <4>. QED
        BY <3>61, <4>1, <4>2
    <3>62. CASE Copy
      <4>1. NextStep.do = "copy"
        BY <3>62 DEF Copy, Doing, NextStep
      <4>2. CASE HasSource(On)
        <5>1. On \in Exes \cup IconFiles
          BY <2>0, <4>1, PackageDoes
        <5>2. CASE IsIcon(On)
          BY <3>6, <3>62, <4>1, <4>2, <5>2 DEF Copy, Torn
        <5>3. CASE ~IsIcon(On)
          <6>1. On \in Exes
            BY <5>1, <5>3, PathKinds DEF IsIcon
          <6>2. built[On] # Torn
            BY <6>1 DEF PackagingTypeInv, Versions, Missing, Torn
          <6>. QED
            BY <3>6, <3>62, <4>1, <4>2, <5>3, <6>2 DEF Copy
        <5>. QED
          BY <5>2, <5>3
      <4>3. CASE ~HasSource(On)
        <5>1. UNCHANGED tree
          BY <3>62, <4>3 DEF Copy
        <5>. QED
          BY <1>3, <3>1, <3>4, <3>5, <4>1, <5>1, AssemblesOn
      <4>. QED
        BY <4>2, <4>3
    <3>7. CASE Complete
      <4>1. RequiredFiles \subseteq DOMAIN tree /\ UNCHANGED tree /\ NextStep.do = "complete"
        BY <1>3, <2>0, <3>7 DEF Complete, Throw, Stops, Doing, NextStep
      <4>. QED
        BY <1>3, <3>1, <3>4, <3>5, <4>1, AssemblesOn
    <3>8. CASE EmbedWebView2
      <4>1. NextStep.do = "embed" /\ job.script # "fetch"
        BY <3>8 DEF EmbedWebView2, Doing, NextStep, PackageScripts
      <4>2. CASE isCached
        <5>1. tree' = [p \in DOMAIN tree \cup {<<"runtime", f>> : f \in cache.root} |->
                         IF p \in DOMAIN tree THEN tree[p] ELSE 0]
          BY <3>8, <4>2 DEF EmbedWebView2, Embedded
        <5>2. /\ DOMAIN tree' = DOMAIN tree \cup {<<"runtime", f>> : f \in cache.root}
              /\ \A p \in DOMAIN tree' : tree'[p] = IF p \in DOMAIN tree THEN tree[p] ELSE 0
          BY <5>1
        <5>3. \A path \in Marks : path \in DOMAIN tree' <=> path \in DOMAIN tree
          BY <5>2, PathKinds
        <5>4. Runtime \subseteq DOMAIN tree' \/ cut
          BY <4>1, <4>2, <5>2 DEF CacheInv, Runtime
        <5>5. rootMarker \in DOMAIN tree' => tree'[rootMarker] = job.version
          BY <3>4, <5>2, <5>3 DEF Marks
        <5>6. \A path \in DOMAIN tree' : tree'[path] # Torn
          BY <3>4, <5>2 DEF Torn
        <5>. QED
          BY <1>3, <3>1, <3>4, <3>5, <4>1, <5>2, <5>3, <5>4, <5>5, <5>6, AssemblesOn
      <4>3. CASE ~isCached
        <5>1. UNCHANGED tree /\ job.script # "release"
          BY <1>3, <2>0, <3>8, <4>3 DEF EmbedWebView2, Throw, Stops
        <5>. QED
          BY <1>3, <3>1, <3>4, <3>5, <4>1, <5>1, AssemblesOn
      <4>. QED
        BY <4>2, <4>3
    <3>9. CASE Verify \/ RemoveZip \/ Compress \/ Checksum
      <4>1. UNCHANGED tree /\ NextStep.do \in {"verify", "remove-zip", "compress", "checksum"}
        BY <3>9 DEF Verify, RemoveZip, Compress, Checksum, TreeOnly, ZipOnly, Doing, NextStep
      <4>. QED
        BY <1>3, <3>1, <3>4, <3>5, <4>1, AssemblesOn
    <3>. QED
      BY <2>3, <3>61, <3>62, <3>7, <3>8, <3>9
  <2>4. CASE Target \/ ClearCache \/ Expand \/ Flatten \/ Move \/ Cached
    <3>1. NextStep.do \in {"target", "clear-cache", "expand", "flatten", "move", "cached"}
      BY <2>4 DEF Target, ClearCache, Expand, Flatten, Move, Cached, Doing, NextStep
    <3>. QED
      BY <2>0, <3>1, HeadFirst, StepForms DEF PackageScripts
  <2>. QED
    BY <1>1, <1>2, <2>0, <2>1, <2>2, <2>3, <2>4
       DEF PackagingNext, Starts, Meddles, Stops, End, Die
<1>. QED
  BY <1>1, <1>2, <1>3, StepKinds

LEMMA DistKept ==
  ASSUME PackagingTypeInv, QueueInv, AssembleInv, DistInv, PackagingNext
  PROVE  DistInv'
<1>0. /\ \A v \in Versions : \A zip \in dist[v].sha : Good(zip)
      /\ job.script \in PackageScripts /\ ~Due(Single("compress")) =>
           \A zip \in dist[job.version].zip : Good(zip)
  BY DEF DistInv
<1>1. ASSUME UNCHANGED dist, Starts \/ Stops \/ Moves \/ Meddles PROVE DistInv'
  <2>1. CASE Starts
    BY <1>0, <1>1, <2>1, Begun, PackageRanks DEF DistInv
  <2>2. CASE Stops
    BY <1>0, <1>1, <2>2, Stopped DEF DistInv, Stops, PackageScripts
  <2>3. CASE Moves
    <3>1. cache.inner \subseteq RuntimeFiles
      BY DEF PackagingTypeInv
    <3>2. job'.script = "fetch"
      BY <2>3, <3>1, Flattened DEF Moves
    <3>. QED
      BY <1>0, <1>1, <3>2 DEF DistInv, PackageScripts
  <2>4. CASE Meddles
    BY <1>0, <1>1, <2>4, Meddled DEF DistInv
  <2>. QED
    BY <1>1, <2>1, <2>2, <2>3, <2>4
<1>2. ASSUME UNCHANGED dist, Takes, NextStep.do # "compress" PROVE DistInv'
  <2>1. /\ job'.script = job.script /\ job'.version = job.version
        /\ \A s : Due(s) => s = NextStep \/ Due(s)'
    BY <1>2, TakesGoesOn
  <2>2. Single("compress").do = "compress"
    BY DEF Single, Step
  <2>3. Single("compress") # NextStep
    BY <1>2, <2>2
  <2>. QED
    BY <1>0, <1>2, <2>1, <2>3 DEF DistInv
<1>3. CASE RemoveZip \/ Compress \/ Checksum
  <2>1. /\ Takes /\ job.version \in Versions /\ job.todo # << >>
        /\ NextStep.do \in {"remove-zip", "compress", "checksum"}
    BY <1>3 DEF RemoveZip, Compress, Checksum, Doing, Advance, Takes, QueueInv, NextStep
  <2>2. /\ job'.script = job.script /\ job'.version = job.version /\ Running
        /\ \A s : Due(s) => s = NextStep \/ Due(s)'
    BY <2>1, TakesGoesOn DEF Takes
  <2>3. job.script \in PackageScripts
    BY <2>1, <2>2, PackageDoes
  <2>4. CASE RemoveZip
    <3>1. dist' = [dist EXCEPT ![job.version].zip = {}]
      BY <2>4 DEF RemoveZip
    <3>2. /\ \A w \in Versions : w # job.version => dist'[w] = dist[w]
          /\ dist'[job.version].zip = {} /\ dist'[job.version].sha = dist[job.version].sha
      BY <2>1, <3>1, DistUpdated
    <3>. QED
      BY <1>0, <2>1, <2>2, <3>2 DEF DistInv
  <2>5. CASE Compress
    <3>1. dist' = [dist EXCEPT ![job.version].zip = {Zipped(TRUE)}]
      BY <2>5 DEF Compress
    <3>2. /\ \A w \in Versions : w # job.version => dist'[w] = dist[w]
          /\ dist'[job.version].zip = {Zipped(TRUE)} /\ dist'[job.version].sha = dist[job.version].sha
      BY <2>1, <3>1, DistUpdated
    <3>3. Rank(NextStep) = 12
      BY <2>1, <2>2, <2>5, PackageDoes DEF Compress, Doing, NextStep
    <3>4. /\ Assembling /\ \A path \in Declared \ Marks : Whole(path)
          /\ Whole(rootMarker) /\ Whole(rootReadme)
      BY <2>1, <2>3, <3>3, Assembled
    <3>5. ~Due(Single("embed"))
      BY <2>1, <2>3, <3>3, Reached, Ranks
    <3>6. job.script = "release" => Runtime \subseteq DOMAIN tree \/ cut
      BY <3>4, <3>5 DEF AssembleInv
    <3>7. \A path \in Declared : path \in DOMAIN tree /\ tree[path] # Torn
      BY <3>4 DEF Whole, Marks
    <3>8. Good(Zipped(TRUE))
      <4>1. /\ Zipped(TRUE).whole = TRUE /\ Zipped(TRUE).tree = tree
            /\ Zipped(TRUE).release = (job.script = "release") /\ Zipped(TRUE).cut = cut
        BY DEF Zipped
      <4>2. PICK zip : zip = Zipped(TRUE)
        OBVIOUS
      <4>3. zip.whole /\ zip.tree = tree /\ (zip.release => job.script = "release") /\ zip.cut = cut
        BY <4>1, <4>2
      <4>4. Good(zip)
        BY <3>6, <3>7, <4>3 DEF Good
      <4>. QED
        BY <4>2, <4>4
    <3>. QED
      BY <1>0, <2>1, <2>2, <3>2, <3>8 DEF DistInv
  <2>6. CASE Checksum
    <3>1. PICK zips : zips = dist[job.version].zip
      OBVIOUS
    <3>11. dist' = [dist EXCEPT ![job.version].sha = zips]
      BY <2>6, <3>1 DEF Checksum
    <3>12. /\ \A w \in Versions : w # job.version => dist'[w] = dist[w]
           /\ dist'[job.version].sha = zips
           /\ dist'[job.version].zip = dist[job.version].zip
      BY <2>1, <3>11, DistUpdated
    <3>2. /\ \A w \in Versions : w # job.version => dist'[w] = dist[w]
          /\ dist'[job.version].sha = dist[job.version].zip
          /\ dist'[job.version].zip = dist[job.version].zip
      BY <3>1, <3>12
    <3>3. Rank(NextStep) = 13
      BY <2>1, <2>2, <2>6, PackageDoes DEF Checksum, Doing, NextStep
    <3>4. ~Due(Single("compress"))
      BY <2>1, <2>3, <3>3, Reached, Ranks
    <3>5. \A zip \in dist[job.version].zip : Good(zip)
      BY <1>0, <2>3, <3>4
    <3>. QED
      BY <1>0, <2>1, <2>2, <3>2, <3>5 DEF DistInv
  <2>. QED
    BY <1>3, <2>4, <2>5, <2>6
<1>4. CASE Die
  <2>1. Stops /\ job.version \in Versions
    BY <1>4 DEF Die, Stops, QueueInv
  <2>2. CASE UNCHANGED dist
    BY <1>1, <2>1, <2>2
  <2>3. ASSUME NEW X, \/ dist' = [dist EXCEPT ![job.version].zip = X]
                      \/ dist' = [dist EXCEPT ![job.version].sha = X] /\ X = {}
        PROVE  DistInv'
    <3>1. /\ \A w \in Versions : w # job.version => dist'[w] = dist[w]
          /\ dist'[job.version].sha \in {dist[job.version].sha, {}}
      BY <2>1, <2>3, DistUpdated
    <3>2. \A v \in Versions : \A zip \in dist'[v].sha : Good(zip)
      BY <1>0, <3>1
    <3>. QED
      BY <2>1, <3>2, Stopped DEF DistInv, Stops, PackageScripts
  <2>. QED
    BY <1>4, <2>2, <2>3 DEF Die, HalfRemoved, HalfWritten, HalfEmbedded, HalfRewritten, HalfCleared,
                            HalfZipped, HalfSummed
<1>5. CASE Starts \/ Meddles
  BY <1>1, <1>5, Begun, Meddled
<1>6. CASE \/ End \/ Target \/ ClearCache \/ Expand \/ Flatten \/ Move \/ Cached \/ Compile
           \/ RemoveTree \/ MakeDirectory \/ Copy \/ Complete \/ Write \/ Mark
           \/ EmbedWebView2 \/ Verify
  <2>1. UNCHANGED dist
    BY <1>6 DEF End, Target, ClearCache, Expand, Flatten, Move, Cached, CacheOnly, Compile, RemoveTree,
                MakeDirectory, Copy, Complete, Write, Mark, EmbedWebView2, Verify, TreeOnly
  <2>2. Takes => NextStep.do # "compress" \/ Stops
    <3>1. CASE End
      BY <3>1 DEF End, Takes
    <3>2. CASE ~End
      BY <1>6, <3>2 DEF Target, ClearCache, Expand, Flatten, Move, Cached, Compile, RemoveTree,
                 MakeDirectory, Copy, Complete, Write, Mark, EmbedWebView2, Verify, Doing, NextStep
    <3>. QED
      BY <3>1, <3>2
  <2>. QED
    BY <1>1, <1>2, <2>1, <2>2, StepKinds
<1>. QED
  BY <1>3, <1>4, <1>5, <1>6 DEF PackagingNext, Starts, Meddles

(* Where the files of the runtime are in the course of a fetch. *)
LEMMA CacheKept ==
  ASSUME PackagingTypeInv, QueueInv, CacheInv, PackagingNext
  PROVE  CacheInv'
<1>0. cache \in [root : SUBSET RuntimeFiles, inner : SUBSET RuntimeFiles]
  BY DEF PackagingTypeInv
<1>1. CASE Starts
  <2>1. /\ UNCHANGED <<cache, cut>> /\ ~Running
        /\ job'.script = "fetch" =>
             /\ Due(Single("clear-cache"))' /\ Due(Single("flatten"))'
             /\ \E place \in {"root", "inner"} :
                  \A f \in RuntimeFiles : ~Due(Step("expand", <<place, f>>))'
             /\ \A f \in RuntimeFiles :
                  \E place \in {"root", "inner"} : Due(Step("expand", <<place, f>>))'
    BY <1>1, Begun DEF Starts, Package, VerifyOnly, VersionScript, Fetch, Start
  <2>2. job.script # "fetch"
    BY <2>1 DEF Running
  <2>. QED
    BY <2>1, <2>2 DEF CacheInv, isCached
<1>2. CASE Stops /\ UNCHANGED <<cache, cut>> /\ (job.script # "fetch" \/ ~isCached)
  BY <1>2, Stopped DEF Stops, CacheInv, isCached
<1>3. CASE Meddles
  <2>1. /\ UNCHANGED <<cache, cut>> /\ job'.script = job.script /\ \A s : Due(s)' <=> Due(s)
    BY <1>3, Meddled
  <2>. QED
    BY <2>1 DEF CacheInv, isCached
<1>4. CASE Die
  <2>1. Stops /\ cut' = (cut \/ job.script = "fetch")
    BY <1>4 DEF Die, Stops
  <2>2. job'.script # "fetch"
    BY <2>1, Stopped DEF Stops
  <2>3. CASE job.script = "fetch"
    BY <2>1, <2>2, <2>3 DEF CacheInv
  <2>4. CASE job.script # "fetch"
    <3>1. ~HalfCleared
      <4>1. SUFFICES ASSUME HalfCleared PROVE FALSE
        OBVIOUS
      <4>2. Running /\ job.todo # << >> /\ NextStep.do = "clear-cache"
        BY <4>1 DEF HalfCleared, Doing, NextStep
      <4>. QED
        BY <2>4, <4>2, HeadFirst, StepForms
    <3>2. UNCHANGED cache
      BY <1>4, <3>1 DEF Die, HalfRemoved, HalfWritten, HalfEmbedded, HalfRewritten, HalfZipped, HalfSummed
    <3>. QED
      BY <2>1, <2>2, <2>4, <3>2 DEF CacheInv, isCached
  <2>. QED
    BY <2>3, <2>4
<1>5. CASE End
  <2>1. /\ Running /\ job.todo = << >> /\ Stops /\ UNCHANGED cache
        /\ cut' = (cut /\ job.script # "fetch")
    BY <1>5 DEF End, Stops
  <2>2. job'.script # "fetch"
    BY <2>1, Stopped DEF Stops
  <2>3. \A s : ~Due(s)
    BY <2>1 DEF Due, ToSet
  <2>4. CASE job.script = "fetch"
    <3>1. RuntimeFiles \subseteq cache.root
      BY <2>3, <2>4 DEF CacheInv
    <3>. QED
      BY <2>1, <2>2, <3>1 DEF CacheInv
  <2>5. CASE job.script # "fetch"
    BY <2>1, <2>2, <2>5 DEF CacheInv, isCached
  <2>. QED
    BY <2>4, <2>5
<1>6. ASSUME Takes, UNCHANGED <<cache, cut>>, job.script # "fetch" PROVE CacheInv'
  BY <1>6, TakesGoesOn DEF CacheInv, isCached
<1>7. CASE ClearCache \/ Expand \/ Flatten \/ Move \/ Cached
  <2>1. /\ Running /\ job.todo # << >> /\ UNCHANGED cut /\ On = NextStep.on
        /\ NextStep.do \in {"clear-cache", "expand", "flatten", "move", "cached"}
    BY <1>7 DEF ClearCache, Expand, Flatten, Move, Cached, Doing, NextStep, On
  <2>2. /\ job.script = "fetch" /\ NextStep \in FetchSteps /\ Due(NextStep)
        /\ \A s : Due(s) => s = NextStep \/ Before(NextStep, s)
    BY <2>1, HeadFirst, StepForms
  <2>3. \A s : Rank(s) < Rank(NextStep) => ~Due(s)
    BY <2>2, RankKinds DEF Before
  <2>4. /\ \A f \in RuntimeFiles :
             \/ \E place \in {"root", "inner"} : Due(Step("expand", <<place, f>>))
             \/ ~Due(Single("clear-cache")) /\ f \in cache.root \cup cache.inner
        /\ Due(Single("flatten")) =>
             \E place \in {"root", "inner"} :
               /\ \A f \in RuntimeFiles : ~Due(Step("expand", <<place, f>>))
               /\ Due(Single("clear-cache")) \/ cache[place] = {}
        /\ ~Due(Single("flatten")) =>
             /\ ~Due(Single("clear-cache"))
             /\ \A f \in RuntimeFiles :
                  f \in cache.root \/ (f \in cache.inner /\ Due(Step("move", <<"inner", f>>)))
    BY <2>2 DEF CacheInv
  <2>5. \A do, path : Step(do, path).do = do /\ Single(do).do = do /\ Step(do, path).on = path
    BY DEF Step, Single
  <2>6. Takes =>
          /\ job'.script = "fetch"
          /\ \A s : Due(s)' => Due(s) /\ Before(NextStep, s)
          /\ \A s : Due(s) => s = NextStep \/ Due(s)'
    BY <2>2, TakesGoesOn
  <2>7. CASE ClearCache
    <3>1. Takes /\ cache' = [root |-> {}, inner |-> {}] /\ NextStep.do = "clear-cache"
      BY <2>7 DEF ClearCache, Advance, Doing, Takes, NextStep
    <3>2. NextStep = Single("clear-cache")
      BY <2>2, <3>1, FetchStepForms
    <3>3. Due(Single("clear-cache")) /\ ~Due(Single("clear-cache"))' /\ Due(Single("flatten"))'
      <4>1. ~Before(Single("clear-cache"), Single("clear-cache"))
        BY <2>5, Ranks DEF Before, Several
      <4>2. Single("flatten") # Single("clear-cache")
        BY Ranks
      <4>. QED
        BY <2>2, <2>4, <2>6, <3>1, <3>2, <4>1, <4>2
    <3>4. \A place, f : Due(Step("expand", <<place, f>>))' <=> Due(Step("expand", <<place, f>>))
      BY <2>5, <2>6, <3>1
    <3>5. \A place \in {"root", "inner"} : cache'[place] = {}
      BY <3>1
    <3>. QED
      BY <2>4, <2>6, <3>1, <3>3, <3>4, <3>5 DEF CacheInv
  <2>8. CASE Expand
    <3>1. Takes /\ cache' = [cache EXCEPT ![On[1]] = @ \cup {On[2]}] /\ NextStep.do = "expand"
      BY <2>8 DEF Expand, Advance, Doing, Takes, NextStep
    <3>2. PICK f \in RuntimeFiles, place \in {"root", "inner"} :
            On = <<place, f>> /\ NextStep = Step("expand", <<place, f>>)
      BY <2>1, <2>2, <3>1, FetchStepForms
    <3>3. cache' = [cache EXCEPT ![place] = @ \cup {f}]
      BY <3>1, <3>2
    <3>4. /\ f \in cache'.root \cup cache'.inner
          /\ cache.root \subseteq cache'.root /\ cache.inner \subseteq cache'.inner
          /\ \A p \in {"root", "inner"} : p # place => cache'[p] = cache[p]
      BY <1>0, <3>3
    <3>5. ~Due(Single("clear-cache")) /\ ~Due(Single("clear-cache"))'
      BY <2>3, <2>6, <3>1, <3>2, Ranks
    <3>6. \A g \in RuntimeFiles :
            \/ \E p \in {"root", "inner"} : Due(Step("expand", <<p, g>>))'
            \/ g \in cache'.root \cup cache'.inner
      <4>. TAKE g \in RuntimeFiles
      <4>1. CASE g = f
        BY <3>4, <4>1
      <4>2. CASE g # f
        <5>1. \A p : Step("expand", <<p, g>>) # NextStep
          <6>1. \A p : <<p, g>> # <<place, f>>
            BY <4>2
          <6>. QED
            BY <2>5, <3>2, <6>1
        <5>. QED
          BY <2>4, <2>6, <3>1, <3>4, <5>1
      <4>. QED
        BY <4>1, <4>2
    <3>7. Due(Single("flatten"))' <=> Due(Single("flatten"))
      BY <2>5, <2>6, <3>1
    <3>8. ASSUME Due(Single("flatten"))
          PROVE  \E p \in {"root", "inner"} :
                   /\ \A g \in RuntimeFiles : ~Due(Step("expand", <<p, g>>))'
                   /\ cache'[p] = {}
      <4>1. PICK p \in {"root", "inner"} : /\ \A g \in RuntimeFiles : ~Due(Step("expand", <<p, g>>))
                                          /\ cache[p] = {}
        BY <2>4, <3>5, <3>8
      <4>2. p # place
        BY <2>2, <3>2, <4>1
      <4>. QED
        BY <2>6, <3>1, <3>4, <4>1, <4>2
    <3>9. \A g : Due(Step("move", <<"inner", g>>)) => Due(Step("move", <<"inner", g>>))'
      BY <2>5, <2>6, <3>1
    <3>. QED
      BY <2>4, <2>6, <3>1, <3>4, <3>5, <3>6, <3>7, <3>8, <3>9 DEF CacheInv
  <2>9. CASE Flatten
    <3>1. NextStep.do = "flatten" /\ UNCHANGED cache
      BY <2>9 DEF Flatten, Doing, NextStep
    <3>2. NextStep = Single("flatten")
      BY <2>2, <3>1, FetchStepForms
    <3>3. /\ ~Due(Single("clear-cache"))
          /\ \A place, f : ~Due(Step("expand", <<place, f>>))
      BY <2>3, <3>2, Ranks
    <3>4. \A f \in RuntimeFiles : f \in cache.root \cup cache.inner
      BY <2>4, <3>3
    <3>5. cache.root = {} \/ cache.inner = {}
      BY <2>2, <2>4, <3>2, <3>3
    <3>6. CASE Takes /\ (isCached \/ "msedgewebview2.exe" \notin cache.inner)
      <4>1. cache.inner = {}
        BY <3>4, <3>5, <3>6 DEF isCached, RuntimeFiles
      <4>2. ~Due(Single("flatten"))' /\ ~Due(Single("clear-cache"))'
        <5>1. ~Before(Single("flatten"), Single("flatten"))
          BY <2>5, Ranks DEF Before, Several
        <5>. QED
          BY <2>6, <3>2, <3>3, <3>6, <5>1
      <4>. QED
        BY <2>6, <3>1, <3>4, <3>6, <4>1, <4>2 DEF CacheInv
    <3>7. CASE Moves
      <4>1. /\ job'.script = "fetch" /\ ~Due(Single("flatten"))' /\ ~Due(Single("clear-cache"))'
            /\ \A f \in cache.inner : Due(Step("move", <<"inner", f>>))'
        BY <1>0, <3>7, Flattened DEF Moves
      <4>. QED
        BY <3>1, <3>4, <4>1 DEF CacheInv
    <3>. QED
      BY <2>9, <3>6, <3>7 DEF Flatten, Doing, Advance, Takes, Moves, CacheOnly
  <2>10. CASE Move
    <3>1. /\ Takes /\ NextStep.do = "move"
          /\ cache' = [root |-> cache.root \cup {On[2]}, inner |-> cache.inner \ {On[2]}]
      BY <2>10 DEF Move, Advance, Doing, Takes, NextStep
    <3>2. PICK f \in RuntimeFiles : On = <<"inner", f>> /\ NextStep = Step("move", <<"inner", f>>)
      BY <2>1, <2>2, <3>1, FetchStepForms
    <3>3. cache'.root = cache.root \cup {f} /\ cache'.inner = cache.inner \ {f}
      BY <3>1, <3>2
    <3>4. /\ ~Due(Single("clear-cache")) /\ ~Due(Single("flatten"))
          /\ ~Due(Single("clear-cache"))' /\ ~Due(Single("flatten"))'
      BY <2>3, <2>6, <3>1, <3>2, Ranks
    <3>5. \A g : g # f /\ Due(Step("move", <<"inner", g>>)) => Due(Step("move", <<"inner", g>>))'
      <4>. TAKE g
      <4>1. g # f => <<"inner", g>> # <<"inner", f>>
        OBVIOUS
      <4>. QED
        BY <2>5, <2>6, <3>1, <3>2, <4>1
    <3>6. \A g \in RuntimeFiles :
            g \in cache'.root \/ (g \in cache'.inner /\ Due(Step("move", <<"inner", g>>))')
      BY <2>4, <3>3, <3>4, <3>5
    <3>. QED
      BY <2>6, <3>1, <3>4, <3>6 DEF CacheInv
  <2>11. CASE Cached
    <3>1. NextStep.do = "cached" /\ UNCHANGED cache
      BY <2>11 DEF Cached, Doing, NextStep
    <3>2. CASE isCached
      <4>1. Takes
        BY <2>1, <2>11, <3>2 DEF Cached, Advance, Takes
      <4>2. /\ \A place, f : Due(Step("expand", <<place, f>>))' <=> Due(Step("expand", <<place, f>>))
            /\ \A f : Due(Step("move", <<"inner", f>>))' <=> Due(Step("move", <<"inner", f>>))
            /\ Due(Single("flatten"))' <=> Due(Single("flatten"))
            /\ Due(Single("clear-cache"))' <=> Due(Single("clear-cache"))
        BY <2>5, <2>6, <3>1, <4>1
      <4>. QED
        BY <2>4, <2>6, <3>1, <4>1, <4>2 DEF CacheInv
    <3>3. CASE ~isCached
      BY <1>2, <2>1, <2>11, <3>1, <3>3 DEF Cached, Throw, Stops
    <3>. QED
      BY <3>2, <3>3
  <2>. QED
    BY <1>7, <2>7, <2>8, <2>9, <2>10, <2>11
<1>8. CASE \/ Target \/ Compile
           \/ RemoveTree \/ MakeDirectory \/ Copy \/ Complete \/ Write \/ Mark
           \/ EmbedWebView2 \/ Verify \/ RemoveZip \/ Compress \/ Checksum
  <2>1. UNCHANGED <<cache, cut>>
    BY <1>8 DEF Target, Compile, RemoveTree, MakeDirectory, Copy, Complete, Write, Mark,
                EmbedWebView2, Verify, TreeOnly, RemoveZip, Compress, Checksum, ZipOnly
  <2>2. /\ Running /\ job.todo # << >>
        /\ NextStep.do \notin {"clear-cache", "expand", "flatten", "move", "cached"}
        /\ NextStep.do \in {"target", "build", "remove", "mkdir", "copy", "complete", "write", "mark",
                         "embed", "verify", "remove-zip", "compress", "checksum"}
    BY <1>8 DEF Target, Compile, RemoveTree, MakeDirectory, Copy, Complete, Write, Mark, EmbedWebView2,
                Verify, RemoveZip, Compress, Checksum, Doing, NextStep
  <2>3. job.script # "fetch"
    BY <2>2, HeadFirst, StepForms DEF PackageScripts
  <2>4. Takes \/ Stops
    BY <1>8, <2>2 DEF Target, Compile, RemoveTree, MakeDirectory, Copy, Complete, Write, Mark,
         EmbedWebView2, Verify, RemoveZip, Compress, Checksum, Advance, Throw, Mismatch, Takes, Stops
  <2>. QED
    BY <1>2, <1>6, <2>1, <2>3, <2>4
<1>. QED
  BY <1>1, <1>3, <1>4, <1>5, <1>7, <1>8 DEF PackagingNext, Starts, Meddles

LEMMA AgreementKept ==
  ASSUME PackagingTypeInv, QueueInv, VersionInv, PackagingNext
  PROVE  /\ (Running /\ job.undisturbed => job.version = repo.root)'
         /\ (agreed => /\ \A target \in ToSet(Targets) : repo.holds[target] = repo.root
                       /\ Running => job.undisturbed)'
         /\ (job.script \in {"version", "check"} /\ job.undisturbed /\ ~job.problem =>
               \A target \in ToSet(Targets) :
                 Due(Step("target", target)) \/ repo.holds[target] = job.version)'
<1>. DEFINE Agreement ==
       /\ Running /\ job.undisturbed => job.version = repo.root
       /\ agreed => /\ \A target \in ToSet(Targets) : repo.holds[target] = repo.root
                    /\ Running => job.undisturbed
       /\ job.script \in {"version", "check"} /\ job.undisturbed /\ ~job.problem =>
            \A target \in ToSet(Targets) :
              Due(Step("target", target)) \/ repo.holds[target] = job.version
<1>. SUFFICES Agreement'
  OBVIOUS
<1>0. Agreement
  BY DEF VersionInv
<1>1. CASE Starts
  <2>1. /\ UNCHANGED <<repo, agreed>> /\ job'.version = repo.root /\ job'.undisturbed
        /\ job'.script \in {"version", "check"} =>
             \A target \in ToSet(Targets) : Due(Step("target", target))'
    BY <1>1, Begun
  <2>. QED
    BY <1>0, <2>1
<1>2. CASE Stops /\ UNCHANGED <<repo, agreed>>
  <2>1. ~Running' /\ job'.script = "none"
    BY <1>2, Stopped DEF Stops
  <2>. QED
    BY <1>0, <1>2, <2>1
<1>3. CASE End
  <2>1. /\ Running /\ job.todo = << >> /\ Stops /\ UNCHANGED repo
        /\ agreed' = (agreed \/ (job.script \in {"version", "check"} /\ ~job.problem /\ job.undisturbed))
    BY <1>3 DEF End, Stops
  <2>2. ~Running' /\ job'.script = "none"
    BY <2>1, Stopped DEF Stops
  <2>3. \A s : ~Due(s)
    BY <2>1 DEF Due, ToSet
  <2>4. agreed' => \A target \in ToSet(Targets) : repo.holds[target] = repo.root
    BY <1>0, <2>1, <2>3
  <2>. QED
    BY <2>1, <2>2, <2>4
<1>4. CASE Die
  <2>1. Stops /\ UNCHANGED agreed /\ job.version \in Versions
    BY <1>4 DEF Die, Stops, QueueInv
  <2>2. CASE UNCHANGED repo
    BY <1>2, <2>1, <2>2
  <2>3. CASE HalfRewritten
    <3>1. Doing("target") /\ repo.holds[On] # job.version
      BY <2>3 DEF HalfRewritten
    <3>2. Running /\ On \in ToSet(Targets)
      BY <3>1, StepOrThrow
    <3>3. ~agreed
      BY <1>0, <3>1, <3>2
    <3>4. ~Running' /\ job'.script = "none"
      BY <2>1, Stopped DEF Stops
    <3>. QED
      BY <2>1, <3>3, <3>4
  <2>. QED
    BY <1>4, <2>2, <2>3 DEF Die, HalfRemoved, HalfWritten, HalfEmbedded, HalfCleared, HalfZipped, HalfSummed
<1>5. ASSUME Takes \/ Moves, UNCHANGED <<repo, agreed>>, job.script \notin {"version", "check"}
      PROVE  Agreement'
  <2>1. /\ job'.script = job.script /\ job'.version = job.version
        /\ job'.undisturbed = job.undisturbed /\ Running
    <3>1. cache.inner \subseteq RuntimeFiles
      BY DEF PackagingTypeInv
    <3>2. CASE Moves
      BY <3>1, <3>2, Flattened DEF Moves, Doing
    <3>3. CASE Takes
      BY <3>3, TakesGoesOn DEF Takes
    <3>. QED
      BY <1>5, <3>2, <3>3
  <2>. QED
    BY <1>0, <1>5, <2>1
<1>6. CASE Target
  <2>1. /\ Running /\ job.todo # << >> /\ job.version \in Versions
        /\ On \in ToSet(Targets) /\ job.script \in {"version", "check"}
        /\ NextStep = Step("target", On) /\ UNCHANGED agreed
    BY <1>6, StepOrThrow DEF Target
  <2>2. CASE Stops
    <3>1. UNCHANGED repo
      <4>1. ~Advance
        <5>1. job'.script = "none"
          BY <2>2, Stopped DEF Stops
        <5>. QED
          BY <2>1, <5>1 DEF Advance, Jobs, QueueInv
      <4>. QED
        BY <1>6, <4>1 DEF Target
    <3>. QED
      BY <1>2, <2>1, <2>2, <3>1
  <2>3. CASE Takes
    <3>1. /\ job'.script = job.script /\ job'.version = job.version
          /\ job'.undisturbed = job.undisturbed /\ job'.problem \in {job.problem, TRUE} /\ Running'
          /\ \A s : Due(s) => s = NextStep \/ Due(s)'
      BY <2>3, TakesGoesOn
    <3>2. \A target : Step("target", target).on = target
      BY DEF Step
    <3>3. \A target : target # On /\ Due(Step("target", target)) => Due(Step("target", target))'
      BY <2>1, <3>1, <3>2
    <3>4. CASE UNCHANGED repo /\ repo.holds[On] = job.version
      BY <1>0, <2>1, <3>1, <3>3, <3>4
    <3>5. CASE UNCHANGED repo /\ job'.problem = TRUE
      BY <1>0, <2>1, <3>1, <3>5
    <3>6. CASE /\ repo' = [repo EXCEPT !.holds[On] = job.version]
               /\ repo.holds[On] # job.version
      <4>1. /\ repo'.root = repo.root /\ repo'.holds[On] = job.version
            /\ \A t \in ToSet(Targets) : t # On => repo'.holds[t] = repo.holds[t]
        <5>1. job.version \in Int
          BY <2>1 DEF Versions
        <5>. QED
          BY <2>1, <3>6, <5>1, RepoUpdated
      <4>2. ~agreed
        BY <1>0, <2>1, <3>6
      <4>. QED
        BY <1>0, <2>1, <3>1, <3>3, <4>1, <4>2
    <3>7. Mismatch => job'.problem = TRUE
      BY DEF Mismatch, QueueInv, Jobs
    <3>8. ~Throw
      <4>1. SUFFICES ASSUME Throw PROVE FALSE
        OBVIOUS
      <4>2. ~Running'
        BY <4>1, Stopped DEF Throw
      <4>. QED
        BY <3>1, <4>2
    <3>. QED
      BY <1>6, <3>4, <3>5, <3>6, <3>7, <3>8 DEF Target
  <2>. QED
    BY <1>6, <2>1, <2>2, <2>3 DEF Target, Advance, Throw, Mismatch, Takes, Stops
<1>7. CASE Meddles
  <2>1. CASE Clean
    <3>1. UNCHANGED <<repo, job, agreed>>
      BY <2>1 DEF Clean
    <3>. QED
      BY <1>0, <3>1 DEF Running, Due
  <2>2. CASE Bump \/ EditByHand
    <3>1. ~agreed' /\ job' = [job EXCEPT !.undisturbed = ~Running]
      BY <2>2 DEF Bump, EditByHand, Disturb
    <3>2. job'.undisturbed = ~Running /\ job'.script = job.script
      BY <3>1 DEF QueueInv, Jobs
    <3>3. Running' => ~job'.undisturbed
      BY <3>2 DEF Running
    <3>4. job'.script \in {"version", "check"} => Running'
      BY DEF Running
    <3>. QED
      BY <3>1, <3>3, <3>4
  <2>. QED
    BY <1>7, <2>1, <2>2 DEF Meddles
<1>8. CASE \/ ClearCache \/ Expand \/ Flatten \/ Move \/ Cached \/ Compile
           \/ RemoveTree \/ MakeDirectory \/ Copy \/ Complete \/ Write \/ Mark
           \/ EmbedWebView2 \/ Verify \/ RemoveZip \/ Compress \/ Checksum
  <2>1. UNCHANGED <<repo, agreed>>
    BY <1>8 DEF ClearCache, Expand, Flatten, Move, Cached, CacheOnly, Compile, RemoveTree, MakeDirectory,
                Copy, Complete, Write, Mark, EmbedWebView2, Verify, TreeOnly, RemoveZip, Compress,
                Checksum, ZipOnly
  <2>2. /\ Running /\ job.todo # << >>
        /\ NextStep.do \in {"clear-cache", "expand", "flatten", "move", "cached", "build", "remove",
                         "mkdir", "copy", "complete", "write", "mark", "embed", "verify",
                         "remove-zip", "compress", "checksum"}
    BY <1>8 DEF ClearCache, Expand, Flatten, Move, Cached, Compile, RemoveTree, MakeDirectory, Copy,
         Complete, Write, Mark, EmbedWebView2, Verify, RemoveZip, Compress, Checksum, Doing, NextStep
  <2>3. job.script \notin {"version", "check"}
    BY <2>2, HeadFirst, StepForms DEF PackageScripts
  <2>4. Takes \/ Stops \/ Moves
    BY <1>8, <2>2, StepKinds DEF Starts, Package, VerifyOnly, VersionScript, Fetch, Start, Meddles, Bump,
         EditByHand, Clean, ClearCache, Expand, Flatten, Move, Cached, CacheOnly, Compile, RemoveTree,
         MakeDirectory, Copy, Complete, Write, Mark, EmbedWebView2, Verify, RemoveZip, Compress,
         Checksum, Doing, Advance, Throw, Takes, Stops, Moves
  <2>. QED
    BY <1>2, <1>5, <2>1, <2>3, <2>4
<1>. QED
  BY <1>1, <1>3, <1>4, <1>6, <1>7, <1>8 DEF PackagingNext, Starts, Meddles

(* What is built and shipped while nobody edits a version. *)
LEMMA VersionKept ==
  ASSUME PackagingTypeInv, QueueInv, VersionInv, PackagingNext
  PROVE  VersionInv'
<1>. DEFINE Shipped ==
       agreed /\ job.script \in PackageScripts =>
         /\ \A exe \in Exes : Due(Step("build", exe)) \/ built[exe] \in {job.version, Missing}
         /\ ~Due(Single("remove")) =>
              \A exe \in Exes : exe \in DOMAIN tree => tree[exe] = job.version
<1>. SUFFICES Shipped'
  BY AgreementKept DEF VersionInv
<1>0. Shipped
  BY DEF VersionInv
<1>1. CASE Stops \/ Moves
  <2>1. CASE Stops
    BY <2>1, Stopped DEF Stops, PackageScripts
  <2>2. CASE Moves
    <3>1. cache.inner \subseteq RuntimeFiles
      BY DEF PackagingTypeInv
    <3>2. job'.script = "fetch"
      BY <2>2, <3>1, Flattened DEF Moves
    <3>. QED
      BY <3>2 DEF PackageScripts
  <2>. QED
    BY <1>1, <2>1, <2>2
<1>2. CASE Starts
  BY <1>2, Begun, PackageRanks
<1>3. CASE Meddles
  <2>1. CASE Clean
    <3>1. /\ UNCHANGED <<agreed, job, tree>>
          /\ \A exe \in Exes : built'[exe] = Missing
      BY <2>1 DEF Clean, PackagingTypeInv
    <3>. QED
      BY <1>0, <3>1 DEF Due
  <2>2. CASE Bump \/ EditByHand
    BY <2>2 DEF Bump, EditByHand, Disturb
  <2>. QED
    BY <1>3, <2>1, <2>2 DEF Meddles
<1>4. CASE Takes
  <2>0. /\ job'.script = job.script /\ job'.version = job.version
        /\ Running /\ job.todo # << >> /\ Running'
        /\ \A s : Due(s)' => Due(s) /\ Before(NextStep, s)
        /\ \A s : Due(s) => s = NextStep \/ Due(s)'
    BY <1>4, TakesGoesOn DEF Takes
  <2>1. ~Throw
    <3>1. SUFFICES ASSUME Throw PROVE FALSE
      OBVIOUS
    <3>2. ~Running'
      BY <3>1, Stopped DEF Throw
    <3>. QED
      BY <2>0, <3>2
  <2>. SUFFICES ASSUME job.script \in PackageScripts PROVE Shipped'
    BY <2>0
  <2>2. \A do, path : Step(do, path).do = do /\ Single(do).do = do /\ Step(do, path).on = path
    BY DEF Step, Single
  <2>3. ASSUME UNCHANGED <<built, agreed>>, NextStep.do \notin {"build", "remove"},
               \A exe \in Exes :
                 exe \in DOMAIN tree' =>
                   (exe \in DOMAIN tree /\ tree'[exe] = tree[exe])
                   \/ (agreed => tree'[exe] = job.version)
        PROVE  Shipped'
    <3>1. \A exe : Due(Step("build", exe)) => Due(Step("build", exe))'
      BY <2>0, <2>2, <2>3
    <3>2. Due(Single("remove")) => Due(Single("remove"))'
      BY <2>0, <2>2, <2>3
    <3>. QED
      BY <1>0, <2>0, <2>3, <3>1, <3>2
  <2>4. CASE Compile
    <3>1. /\ On \in Exes /\ NextStep = Step("build", On) /\ Rank(NextStep) = 1
      BY <2>0, <2>4, PackageDoes DEF Compile, Doing, NextStep
    <3>2. /\ built' = [built EXCEPT ![On] = VersionBuilt(On)]
          /\ UNCHANGED <<repo, tree, agreed>>
      BY <2>1, <2>4 DEF Compile
    <3>3. Due(Single("remove"))'
      BY <2>0, <3>1, Reached, PackageRanks, Ranks
    <3>4. ASSUME agreed PROVE VersionBuilt(On) = job.version
      <4>1. job.version = repo.root /\ \A target \in ToSet(Targets) : repo.holds[target] = repo.root
        BY <2>0, <3>4 DEF VersionInv
      <4>2. PICK name \in Apps \cup {"Slate"} : On = Executable(name)
        BY <3>1 DEF Exes
      <4>3. On # Executable("Slate") => name \in Apps /\ <<"conf", On[2]>> = <<"conf", name>>
        BY <4>2 DEF Executable
      <4>. HIDE DEF On
      <4>. QED
        BY <4>1, <4>3, TargetsListed DEF VersionBuilt
    <3>5. \A exe \in Exes : exe # On /\ Due(Step("build", exe)) => Due(Step("build", exe))'
      BY <2>0, <2>2, <3>1
    <3>6. /\ built'[On] = VersionBuilt(On)
          /\ \A exe \in Exes : exe # On => built'[exe] = built[exe]
      BY <3>1, <3>2 DEF PackagingTypeInv
    <3>. QED
      BY <1>0, <2>0, <3>2, <3>3, <3>4, <3>5, <3>6
  <2>5. CASE RemoveTree
    <3>1. NextStep.do = "remove" /\ DOMAIN tree' = {} /\ UNCHANGED <<built, agreed>>
      BY <2>5 DEF RemoveTree, Doing, NextStep, Empty, TreeOnly
    <3>2. \A exe : Due(Step("build", exe)) => Due(Step("build", exe))'
      BY <2>0, <2>2, <3>1
    <3>. QED
      BY <1>0, <2>0, <3>1, <3>2
  <2>6. CASE MakeDirectory \/ Write \/ Mark
    <3>0. PICK content : tree' = Put(On, content)
      BY <2>6 DEF MakeDirectory, Write, Mark
    <3>1. NextStep.do \in {"mkdir", "write", "mark"} /\ UNCHANGED <<built, agreed>>
      BY <2>6 DEF MakeDirectory, Write, Mark, Doing, NextStep, TreeOnly
    <3>2. On \notin Exes
      BY <2>0, <3>1, PackageDoes, PathKinds
    <3>3. /\ DOMAIN tree' = DOMAIN tree \cup {On}
          /\ \A p \in DOMAIN tree : p # On => tree'[p] = tree[p]
      BY <3>0, FilePut
    <3>4. \A exe \in Exes : exe \in DOMAIN tree' => exe \in DOMAIN tree /\ tree'[exe] = tree[exe]
      BY <3>2, <3>3
    <3>. QED
      BY <2>3, <3>1, <3>4
  <2>7. CASE Copy
    <3>1. NextStep.do = "copy" /\ UNCHANGED <<built, agreed>>
      BY <2>7 DEF Copy, Doing, NextStep, TreeOnly
    <3>2. CASE ~HasSource(On)
      BY <2>3, <2>7, <3>1, <3>2 DEF Copy
    <3>3. CASE HasSource(On) /\ On \notin Exes
      <4>1. PICK content : tree' = Put(On, content)
        BY <2>7, <3>3 DEF Copy
      <4>2. /\ DOMAIN tree' = DOMAIN tree \cup {On}
            /\ \A p \in DOMAIN tree : p # On => tree'[p] = tree[p]
        BY <4>1, FilePut
      <4>3. \A exe \in Exes : exe \in DOMAIN tree' => exe \in DOMAIN tree /\ tree'[exe] = tree[exe]
        BY <3>3, <4>2
      <4>. QED
        BY <2>3, <3>1, <4>3
    <3>4. CASE HasSource(On) /\ On \in Exes
      <4>1. ~IsIcon(On)
        BY <3>4, PathKinds DEF IsIcon
      <4>2. tree' = Put(On, built[On]) /\ built[On] # Missing
        BY <2>7, <3>4, <4>1 DEF Copy, HasSource
      <4>3. ~Due(Step("build", On))
        <5>1. Rank(NextStep) = 4
          BY <2>0, <3>1, PackageDoes
        <5>. QED
          BY <2>0, <5>1, Reached, Ranks
      <4>4. agreed => built[On] = job.version
        BY <1>0, <3>4, <4>2, <4>3
      <4>5. /\ tree'[On] = built[On]
            /\ \A exe \in Exes :
                 exe # On /\ exe \in DOMAIN tree' => exe \in DOMAIN tree /\ tree'[exe] = tree[exe]
        BY <4>2, FilePut
      <4>. QED
        BY <2>3, <3>1, <4>4, <4>5
    <3>. QED
      BY <3>2, <3>3, <3>4
  <2>8. CASE EmbedWebView2
    <3>1. NextStep.do = "embed" /\ UNCHANGED <<built, agreed>>
      BY <2>8 DEF EmbedWebView2, Doing, NextStep, TreeOnly
    <3>2. CASE UNCHANGED tree
      BY <2>3, <3>1, <3>2
    <3>3. CASE tree' = [p \in DOMAIN tree \cup {<<"runtime", f>> : f \in cache.root} |->
                          IF p \in DOMAIN tree THEN tree[p] ELSE 0]
      <4>1. \A exe \in Exes : exe \notin {<<"runtime", f>> : f \in cache.root}
        BY PathKinds
      <4>2. \A exe \in Exes : exe \in DOMAIN tree' => exe \in DOMAIN tree /\ tree'[exe] = tree[exe]
        BY <3>3, <4>1
      <4>. QED
        BY <2>3, <3>1, <4>2
    <3>. QED
      BY <2>8, <3>2, <3>3 DEF EmbedWebView2, Embedded
  <2>9. CASE Complete \/ Verify \/ RemoveZip \/ Compress \/ Checksum
    <3>1. /\ NextStep.do \in {"complete", "verify", "remove-zip", "compress", "checksum"}
          /\ UNCHANGED <<built, agreed, tree>>
      BY <2>9 DEF Complete, Verify, RemoveZip, Compress, Checksum, TreeOnly, ZipOnly, Doing, NextStep
    <3>. QED
      BY <2>3, <3>1
  <2>10. CASE Target \/ ClearCache \/ Expand \/ Flatten \/ Move \/ Cached
    <3>1. NextStep.do \in {"target", "clear-cache", "expand", "flatten", "move", "cached"}
      BY <2>10 DEF Target, ClearCache, Expand, Flatten, Move, Cached, Doing, NextStep
    <3>. QED
      BY <2>0, <3>1, HeadFirst, StepForms DEF PackageScripts
  <2>11. CASE Starts \/ Meddles
    BY <1>2, <1>3, <2>11
  <2>12. ~End /\ ~Die
    <3>1. ~End
      BY <2>0 DEF End
    <3>2. ~Die
      <4>1. SUFFICES ASSUME Die PROVE FALSE
        OBVIOUS
      <4>2. ~Running'
        BY <4>1, Stopped DEF Die
      <4>. QED
        BY <2>0, <4>2
    <3>. QED
      BY <3>1, <3>2
  <2>. QED
    BY <2>4, <2>5, <2>6, <2>7, <2>8, <2>9, <2>10, <2>11, <2>12
       DEF PackagingNext, Starts, Meddles
<1>. QED
  BY <1>1, <1>2, <1>3, <1>4, StepKinds

(* A script ends as it has come through all its steps, or fails. *)
LEMMA EndsOrFails ==
  ASSUME PackagingTypeInv, QueueInv, PackagingNext, Stops
  PROVE  End \/ outcome' = "failed"
<1>1. ~Running' /\ job'.script = "none"
  BY Stopped DEF Stops
<1>2. ~Takes /\ ~Starts
  BY <1>1, TakesGoesOn, Begun
<1>3. ~Meddles
  BY <1>1, Meddled DEF Stops
<1>4. CASE Target
  BY <1>2, <1>4 DEF Target, Doing, Advance, Throw, Mismatch, Takes
<1>5. CASE ClearCache \/ Expand \/ Move \/ Cached
  BY <1>2, <1>5 DEF ClearCache, Expand, Move, Cached, Doing, Advance, Throw, Takes
<1>6. CASE Flatten
  <2>1. cache.inner \subseteq RuntimeFiles
    BY DEF PackagingTypeInv
  <2>2. ~Moves
    BY <1>1, <2>1, Flattened DEF Moves
  <2>. QED
    BY <1>2, <1>6, <2>2 DEF Flatten, Doing, Advance, Takes, Moves, CacheOnly
<1>7. CASE Compile \/ RemoveTree \/ MakeDirectory \/ Copy \/ Complete \/ Write \/ Mark
  BY <1>2, <1>7 DEF Compile, RemoveTree, MakeDirectory, Copy, Complete, Write, Mark, Doing, Advance,
                    Throw, Takes
<1>8. CASE EmbedWebView2 \/ Verify \/ RemoveZip \/ Compress \/ Checksum
  BY <1>2, <1>8 DEF EmbedWebView2, Verify, RemoveZip, Compress, Checksum, Doing, Advance, Throw,
                    Takes
<1>9. CASE Die
  BY <1>9 DEF Die
<1>. QED
  BY <1>2, <1>3, <1>4, <1>5, <1>6, <1>7, <1>8, <1>9 DEF PackagingNext, Starts, Meddles

(* A script that has come to its end has done every step. *)
LEMMA AllDone ==
  ASSUME QueueInv, AssembleInv, VersionInv, End, job.script \in PackageScripts, agreed
  PROVE  \A exe \in RequiredFiles : tree[exe] = tree[rootMarker]
<1>1. \A s : ~Due(s)
  BY DEF End, Due, ToSet
<1>2. Assembling /\ rootMarker \in Marks
  BY <1>1 DEF Assembling, Marks
<1>3. /\ RequiredFiles \subseteq DOMAIN tree
      /\ rootMarker \in DOMAIN tree
  BY <1>1, <1>2 DEF AssembleInv
<1>4. tree[rootMarker] = job.version
  BY <1>2, <1>3 DEF AssembleInv
<1>5. \A exe \in Exes : exe \in DOMAIN tree => tree[exe] = job.version
  BY <1>1 DEF VersionInv
<1>. QED
  BY <1>3, <1>4, <1>5, LayoutListed

LEMMA OutcomeKept ==
  ASSUME PackagingTypeInv, QueueInv, AssembleInv, VersionInv, OutcomeInv, PackagingNext
  PROVE  OutcomeInv'
<1>0. /\ job.script = "verify" => Due(Single("verify")) \/ Verified \subseteq DOMAIN tree
      /\ outcome = "verify" => Verified \subseteq DOMAIN tree
      /\ outcome \in PackageScripts /\ agreed =>
           \A exe \in RequiredFiles : tree[exe] = tree[rootMarker]
  BY DEF OutcomeInv, PackagedInOneVersion, PackageScripts
<1>. SUFFICES /\ job'.script = "verify" => Due(Single("verify"))' \/ Verified \subseteq DOMAIN tree'
              /\ outcome' = "verify" => Verified \subseteq DOMAIN tree'
              /\ outcome' \in PackageScripts /\ agreed' =>
                   \A exe \in RequiredFiles : tree'[exe] = tree'[rootMarker]
  BY DEF OutcomeInv, PackagedInOneVersion, PackageScripts
<1>1. CASE Starts
  BY <1>1, Begun DEF PackageScripts
<1>2. CASE Stops
  <2>1. job'.script = "none"
    BY <1>2, Stopped DEF Stops
  <2>2. CASE outcome' = "failed"
    BY <2>1, <2>2 DEF PackageScripts
  <2>3. CASE End
    <3>1. /\ outcome' \in {"failed", job.script} /\ UNCHANGED tree
          /\ job.script \in PackageScripts => (agreed' <=> agreed)
      BY <2>3 DEF End, PackageScripts
    <3>2. ~Due(Single("verify"))
      BY <2>3 DEF End, Due, ToSet
    <3>3. outcome' = "verify" => Verified \subseteq DOMAIN tree'
      BY <1>0, <3>1, <3>2
    <3>4. ASSUME outcome' \in PackageScripts, agreed'
          PROVE  \A exe \in RequiredFiles : tree'[exe] = tree'[rootMarker]
      <4>1. job.script \in PackageScripts /\ agreed
        BY <3>1, <3>4 DEF PackageScripts
      <4>. QED
        BY <2>3, <3>1, <4>1, AllDone
    <3>. QED
      BY <2>1, <3>3, <3>4
  <2>. QED
    BY <1>2, <2>2, <2>3, EndsOrFails
<1>3. CASE Moves
  <2>1. cache.inner \subseteq RuntimeFiles
    BY DEF PackagingTypeInv
  <2>2. job'.script = "fetch" /\ Running' /\ QueueInv'
    BY <1>3, <2>1, Flattened DEF Moves
  <2>3. outcome' = "none"
    BY <2>2 DEF QueueInv
  <2>. QED
    BY <2>2, <2>3 DEF PackageScripts
<1>4. CASE Meddles
  <2>1. /\ UNCHANGED tree /\ job'.script = job.script /\ (Due(Single("verify"))' <=> Due(Single("verify")))
    BY <1>4, Meddled
  <2>2. outcome' = "none" \/ UNCHANGED <<outcome, agreed>>
    BY <1>4 DEF Meddles, Bump, EditByHand, Clean, Disturb
  <2>. QED
    BY <1>0, <2>1, <2>2 DEF PackageScripts
<1>5. CASE Takes /\ ~Meddles
  <2>1. /\ job'.script = job.script /\ Running' /\ QueueInv'
        /\ NextStep \in StepsOf(job.script) /\ Running /\ job.todo # << >>
        /\ \A s : Due(s) => s = NextStep \/ Due(s)'
    BY <1>5, TakesGoesOn DEF Takes
  <2>2. outcome' = "none"
    BY <2>1 DEF QueueInv
  <2>3. ASSUME job.script = "verify" PROVE Verified \subseteq DOMAIN tree'
    <3>1. NextStep.do = "verify"
      <4>1. NextStep = Single("verify")
        BY <2>1, <2>3 DEF StepsOf, PackageScripts
      <4>2. Single("verify").do = "verify"
        BY DEF Single, Step
      <4>. QED
        BY <4>1, <4>2
    <3>2. Verify
      <4>1. ~Starts
        BY <2>1 DEF Starts, Package, VerifyOnly, VersionScript, Fetch, Start
      <4>2. ~End /\ ~Die
        <5>1. job' # Idle
          BY <2>1, Stopped
        <5>. QED
          BY <5>1 DEF End, Die
      <4>. QED
        BY <1>5, <3>1, <4>1, <4>2
           DEF PackagingNext, Starts, Meddles, NextStep, Doing, Target, ClearCache, Expand, Flatten, Move,
               Cached, Compile, RemoveTree, MakeDirectory, Copy, Complete, Write, Mark, EmbedWebView2,
               RemoveZip, Compress, Checksum
    <3>3. ~Throw
      <4>1. job' # Idle
        BY <2>1, Stopped
      <4>. QED
        BY <4>1 DEF Throw
    <3>. QED
      BY <3>2, <3>3 DEF Verify
  <2>. QED
    BY <2>1, <2>2, <2>3 DEF PackageScripts
<1>. QED
  BY <1>1, <1>2, <1>3, <1>4, <1>5, StepKinds

-----------------------------------------------------------------------------
(***************************************************************************)
(* The invariant and what follows from it.                                 *)
(***************************************************************************)
LEMMA PackagingInitInv == PackagingInit => PackagingInv
<1>. SUFFICES ASSUME PackagingInit PROVE PackagingInv
  OBVIOUS
<1>1. /\ repo = [root |-> 1, holds |-> [target \in ToSet(Targets) |-> 1]]
      /\ built = [exe \in Exes |-> Missing]
      /\ cache = [root |-> {}, inner |-> {}]
      /\ tree = Empty
      /\ dist = [version \in Versions |-> [zip |-> {}, sha |-> {}]]
      /\ job = Idle /\ outcome = "none"
      /\ agreed = FALSE /\ cut = FALSE /\ gutted = FALSE
  BY DEF PackagingInit, Exes
<1>2. DOMAIN tree = {}
  BY <1>1 DEF Empty
<1>3. /\ Idle.script = "none" /\ Idle.todo = << >> /\ Idle.version = 0
      /\ Idle.problem = FALSE /\ Idle.undisturbed = TRUE
      /\ Idle = [script |-> "none", version |-> 0, todo |-> << >>, problem |-> FALSE,
                 undisturbed |-> TRUE]
  BY DEF Idle
<1>4. job.script = "none" /\ ~Running
  BY <1>1, <1>3 DEF Running
<1>5. PackagingTypeInv
  <2>1. 1 \in Versions /\ 1 \in Int
    BY DEF Versions
  <2>. QED
    BY <1>1, <2>1 DEF PackagingTypeInv
<1>6. QueueInv
  <2>1. DOMAIN << >> = {} /\ Ordered(<< >>) /\ << >> \in Seq(StepsOf("none"))
    BY DEF Ordered
  <2>2. job \in Jobs(Seq(StepsOf(job.script)))
    BY <1>1, <1>3, <2>1 DEF Jobs
  <2>. QED
    BY <1>1, <1>3, <1>4, <2>1, <2>2 DEF QueueInv, PackageScripts
<1>7. TreeInv /\ AssembleInv
  BY <1>2, <1>4 DEF TreeInv, AssembleInv, Assembling, PackageScripts
<1>8. DistInv
  BY <1>1, <1>4 DEF DistInv, PackageScripts
<1>9. VersionInv
  BY <1>1, <1>4 DEF VersionInv, PackageScripts
<1>10. CacheInv
  BY <1>1, <1>4 DEF CacheInv, isCached
<1>11. OutcomeInv
  BY <1>1, <1>4 DEF OutcomeInv, PackagedInOneVersion
<1>. QED
  BY <1>5, <1>6, <1>7, <1>8, <1>9, <1>10, <1>11 DEF PackagingInv

LEMMA PackagingStutters == PackagingInv /\ UNCHANGED packaging => PackagingInv'
<1>. SUFFICES ASSUME PackagingInv, UNCHANGED packaging PROVE PackagingInv'
  OBVIOUS
<1>1. UNCHANGED <<repo, built, cache, tree, dist, job, outcome, agreed, cut, gutted, mishaps>>
  BY DEF packaging
<1>2. PackagingTypeInv' /\ QueueInv' /\ TreeInv'
  BY <1>1 DEF PackagingInv, PackagingTypeInv, QueueInv, TreeInv, Whole, Running, Due
<1>3. AssembleInv' /\ DistInv'
  BY <1>1 DEF PackagingInv, AssembleInv, Assembling, DistInv, Due
<1>4. VersionInv' /\ CacheInv'
  BY <1>1 DEF PackagingInv, VersionInv, CacheInv, isCached, Running, Due
<1>5. OutcomeInv'
  BY <1>1 DEF PackagingInv, OutcomeInv, PackagedInOneVersion, Due
<1>. QED
  BY <1>2, <1>3, <1>4, <1>5 DEF PackagingInv

LEMMA PackagingNextInv == PackagingInv /\ PackagingNext => PackagingInv'
BY TypeKept, QueueKept, TreeKept, AssembleKept, DistKept, VersionKept, CacheKept, OutcomeKept
   DEF PackagingInv

(* Whatever the developer starts, breaks, edits or cleans, what is left of *)
(* a script is the rest of it, and the tree, the archives, the versions    *)
(* and the cache are what the steps behind it have made of them.           *)
THEOREM ScriptsInvariant == PackagingSpec => []PackagingInv
<1>1. PackagingInit => PackagingInv
  BY PackagingInitInv
<1>2. PackagingInv /\ [PackagingNext]_packaging => PackagingInv'
  <2>. SUFFICES ASSUME PackagingInv, [PackagingNext]_packaging PROVE PackagingInv'
    OBVIOUS
  <2>1. PackagingNext \/ UNCHANGED packaging
    OBVIOUS
  <2>. QED
    BY <2>1, PackagingNextInv, PackagingStutters
<1>. QED
  BY <1>1, <1>2, PTL DEF PackagingSpec

(* An archive whose checksum beside it is its own is whole: bun-package     *)
(* removes the old zip, compresses a tree it has verified and sums it last, *)
(* so that a death or a failure between two steps leaves a zip with no      *)
(* checksum or with another's.                                              *)
THEOREM ArchivesAreWhole == PackagingSpec => []VouchedIsWhole
<1>1. PackagingInv => VouchedIsWhole
  <2>. SUFFICES ASSUME PackagingInv, NEW version \in Versions,
                       dist[version].sha = dist[version].zip, NEW zip \in dist[version].zip
                PROVE  Good(zip)
    BY DEF VouchedIsWhole, Good
  <2>. QED
    BY DEF PackagingInv, DistInv
<1>. QED
  BY <1>1, ScriptsInvariant, PTL

(* What bun-package --verify-only passes has its configuration and its      *)
(* resources too, which it does not look for, unless the removal of an      *)
(* older tree was cut short: the files at the root, which it does look for, *)
(* are the last that the assembly writes.                                   *)
THEOREM VerifiedTreesAreWhole == PackagingSpec => []VerifiedIsWhole
<1>1. PackagingInv => VerifiedIsWhole
  <2>. SUFFICES ASSUME PackagingInv, outcome = "verify", ~gutted,
                       NEW path \in Declared \ {rootReadme}
                PROVE  Whole(path)
    BY DEF VerifiedIsWhole, Whole
  <2>1. Verified \subseteq DOMAIN tree
    BY DEF PackagingInv, OutcomeInv
  <2>2. rootMarker \in DOMAIN tree /\ rootReadme \in DOMAIN tree
    BY <2>1 DEF Verified
  <2>3. Whole(rootMarker) /\ \A p \in Declared \ Marks : Whole(p)
    BY <2>2 DEF PackagingInv, TreeInv
  <2>. QED
    BY <2>3 DEF Marks
<1>. QED
  BY <1>1, ScriptsInvariant, PTL

(* Between a bun-version that ended well and a package, with no version     *)
(* edited, every executable that bun-package ships is of the version it     *)
(* writes at the root and names the archive after, however often a script   *)
(* died or the build was cleaned in between.                                *)
THEOREM PackagesAreOfOneVersion == PackagingSpec => []PackagedInOneVersion
<1>1. PackagingInv => PackagedInOneVersion
  BY DEF PackagingInv, OutcomeInv
<1>. QED
  BY <1>1, ScriptsInvariant, PTL

-----------------------------------------------------------------------------
(***************************************************************************)
(* sync-agents: the invariant of a run among edits and deaths.             *)
(***************************************************************************)
Roots == {Root("AGENTS"), Root("CLAUDE"), Root("copilot")}
GeneratedDirs == {"cursor", "github", "agent"}
Paths(set) == Roots \cup GeneratedDirs \X set

ItemsAt(at) ==
  IF at = "loading" THEN Rules
  ELSE IF at = "scanning" THEN GeneratedDirs
  ELSE Paths(Rules)
Runs(todos) ==
  [at : {"idle", "loading", "scanning", "checking", "writing", "removing"},
   mode : {"sync", "check"}, todo : todos,
   loaded : UNION {[set -> RuleFiles] : set \in SUBSET Rules},
   stale : Seq(Paths(Rules)), drifted : BOOLEAN, undisturbed : BOOLEAN]
AgentRulesTypeInv ==
  /\ rules \in [Rules -> RuleFiles]
  /\ files = [path \in DOMAIN files |-> files[path]] /\ DOMAIN files \subseteq Paths(Rules)
  /\ sync \in Runs(Seq(ItemsAt(sync.at)))

Expected == Paths(DOMAIN sync.loaded)
IsLeft(item) == item \in ToSet(sync.todo)
UpToDate(path) == path \in DOMAIN files /\ files[path] = buildOutputs(sync.loaded)[path]

(* What a run is about to remove is nothing it writes. *)
TodoInv ==
  /\ sync.at = "loading" => sync.stale = << >>
  /\ sync.at \in {"loading", "scanning", "writing", "removing"} => ~sync.drifted
  /\ sync.at # "idle" => \A path \in ToSet(sync.stale) : path \notin Expected
  /\ sync.at \in {"checking", "writing"} => \A path \in ToSet(sync.todo) : path \in Expected
  /\ sync.at = "removing" => \A path \in ToSet(sync.todo) : path \notin Expected

(* What a run has read is what there is, while nobody edits. *)
LoadedInv ==
  /\ sync.at # "idle" /\ sync.undisturbed =>
       /\ \A rule \in DOMAIN sync.loaded : sync.loaded[rule] = rules[rule] /\ IsParsed(rules[rule])
       /\ sync.at = "loading" => Present(rules) = DOMAIN sync.loaded \cup ToSet(sync.todo)
       /\ sync.at # "loading" => Present(rules) = DOMAIN sync.loaded
  /\ sync.at # "idle" /\ current => sync.undisturbed

(* How far it has come with the files. *)
FilesInv ==
  /\ sync.at = "scanning" /\ sync.undisturbed =>
       \A path \in DOMAIN files : path \in Expected \/ path \in ToSet(sync.stale) \/ IsLeft(path[1])
  /\ sync.at \in {"checking", "writing"} /\ sync.undisturbed =>
       \A path \in DOMAIN files : path \in Expected \/ path \in ToSet(sync.stale)
  /\ sync.at = "removing" /\ sync.undisturbed =>
       \A path \in DOMAIN files : path \in Expected \/ IsLeft(path)
  /\ sync.at \in {"checking", "writing"} /\ sync.undisturbed /\ ~sync.drifted =>
       \A path \in Expected : UpToDate(path) \/ IsLeft(path)
  /\ sync.at = "removing" /\ sync.undisturbed => \A path \in Expected : UpToDate(path)

AgentRulesInv ==
  AgentRulesTypeInv /\ TodoInv /\ LoadedInv /\ FilesInv /\ CompletedIsCurrent

LEMMA ThreeItems == \A x, y, z : IsList(<<x, y, z>>) /\ ToSet(<<x, y, z>>) = {x, y, z}
<1>. TAKE x, y, z
<1>1. /\ <<x, y, z>> \in Seq({x, y, z}) /\ DOMAIN <<x, y, z>> = {1, 2, 3}
      /\ <<x, y, z>>[1] = x /\ <<x, y, z>>[2] = y /\ <<x, y, z>>[3] = z
  OBVIOUS
<1>2. ToSet(<<x, y, z>>) = {x, y, z}
  BY <1>1 DEF ToSet
<1>. QED
  BY <1>1, <1>2 DEF IsList

LEMMA RulesListed ==
  ASSUME NEW set \in SUBSET Rules
  PROVE  IsFiniteSet(set) /\ InOrder(set) \in Seq(set) /\ ToSet(InOrder(set)) = set
<1>1. IsFiniteSet(set)
  BY AgentRulesAssumption, FS_Subset
<1>. QED
  BY <1>1, SetListed DEF InOrder

LEMMA DirsListed == GENERATED_DIRS \in Seq(GeneratedDirs) /\ ToSet(GENERATED_DIRS) = GeneratedDirs
BY ThreeItems DEF GENERATED_DIRS, GeneratedDirs, IsList

(* The files written for some rules: three for all of them and three each. *)
LEMMA OutputsListed ==
  ASSUME NEW set \in SUBSET Rules
  PROVE  Outputs(InOrder(set)) \in Seq(Paths(set)) /\ ToSet(Outputs(InOrder(set))) = Paths(set)
<1>. DEFINE held == InOrder(set)
            n == Len(held)
            path(i) == <<GENERATED_DIRS[((i - 1) % 3) + 1], held[(i + 2) \div 3]>>
            s == [i \in 1 .. 3 * n |-> path(i)]
            heads == <<Root("AGENTS"), Root("CLAUDE"), Root("copilot")>>
<1>1. held \in Seq(set) /\ ToSet(held) = set
  BY RulesListed
<1>2. Outputs(held) = heads \o s
  BY DEF Outputs
<1>. HIDE DEF held
<1>3. n \in Nat /\ DOMAIN held = 1 .. n /\ \A i \in 1 .. n : held[i] \in set
  BY <1>1
<1>4. \A r \in set : \E m \in 1 .. n : held[m] = r
  BY <1>1, <1>3 DEF ToSet
<1>5. /\ \A k \in 1 .. 3 : GENERATED_DIRS[k] \in GeneratedDirs
      /\ \A dir \in GeneratedDirs : \E k \in 1 .. 3 : GENERATED_DIRS[k] = dir
  BY DEF GENERATED_DIRS, GeneratedDirs
<1>6. ASSUME NEW i \in 1 .. 3 * n PROVE path(i) \in GeneratedDirs \X set
  <2>1. ((i - 1) % 3) + 1 \in 1 .. 3 /\ (i + 2) \div 3 \in 1 .. n
    BY <1>3
  <2>. QED
    BY <1>3, <1>5, <2>1
<1>7. ASSUME NEW dir \in GeneratedDirs, NEW r \in set
      PROVE  \E i \in 1 .. 3 * n : path(i) = <<dir, r>>
  <2>1. PICK k \in 1 .. 3 : GENERATED_DIRS[k] = dir
    BY <1>5
  <2>2. PICK m \in 1 .. n : held[m] = r
    BY <1>4
  <2>3. PICK i \in 1 .. 3 * n : ((i - 1) % 3) + 1 = k /\ (i + 2) \div 3 = m
    <3>1. CASE k = 1
      <4>1. 3 * m - 2 \in 1 .. 3 * n /\ ((3 * m - 2 - 1) % 3) + 1 = 1 /\ (3 * m - 2 + 2) \div 3 = m
        BY <1>3
      <4>. QED
        BY <3>1, <4>1
    <3>2. CASE k = 2
      <4>1. 3 * m - 1 \in 1 .. 3 * n /\ ((3 * m - 1 - 1) % 3) + 1 = 2 /\ (3 * m - 1 + 2) \div 3 = m
        BY <1>3
      <4>. QED
        BY <3>2, <4>1
    <3>3. CASE k = 3
      <4>1. 3 * m \in 1 .. 3 * n /\ ((3 * m - 1) % 3) + 1 = 3 /\ (3 * m + 2) \div 3 = m
        BY <1>3
      <4>. QED
        BY <3>3, <4>1
    <3>. QED
      BY <3>1, <3>2, <3>3
  <2>. QED
    BY <2>1, <2>2, <2>3
<1>8. 3 * n \in Nat /\ s = [i \in 1 .. 3 * n |-> s[i]]
  BY <1>3
<1>9. \A i \in 1 .. 3 * n : s[i] = path(i)
  OBVIOUS
<1>. HIDE DEF s, path, heads
<1>10. IsList(s) /\ DOMAIN s = 1 .. 3 * n
  <2>. HIDE DEF n
  <2>1. PICK m \in Nat : m = 3 * n
    BY <1>8
  <2>. QED
    BY <1>8, <2>1, ItemForEach
<1>11. ToSet(s) = GeneratedDirs \X set
  <2>1. ToSet(s) \subseteq GeneratedDirs \X set
    BY <1>6, <1>9, <1>10 DEF ToSet
  <2>2. \A dir \in GeneratedDirs, r \in set : <<dir, r>> \in ToSet(s)
    BY <1>7, <1>9, <1>10 DEF ToSet
  <2>. QED
    BY <2>1, <2>2
<1>12. IsList(heads) /\ ToSet(heads) = Roots
  BY ThreeItems DEF heads, Roots
<1>13. IsList(heads \o s) /\ ToSet(heads \o s) = Paths(set)
  BY <1>10, <1>11, <1>12, Concatenation DEF Paths
<1>. QED
  BY <1>2, <1>13 DEF IsList, held

LEMMA BuildsExpected ==
  ASSUME NEW loaded, DOMAIN loaded \in SUBSET Rules
  PROVE  buildOutputs(loaded) = [path \in Paths(DOMAIN loaded) |-> buildOutputs(loaded)[path]]
<1>1. ToSet(Outputs(InOrder(DOMAIN loaded))) = Paths(DOMAIN loaded)
  BY OutputsListed
<1>2. buildOutputs(loaded) = [path \in DOMAIN buildOutputs(loaded) |-> buildOutputs(loaded)[path]]
  BY DEF buildOutputs
<1>3. DOMAIN buildOutputs(loaded) = ToSet(Outputs(InOrder(DOMAIN loaded)))
  BY DEF buildOutputs
<1>. QED
  BY <1>1, <1>2, <1>3

(* What is found to be stale. *)
LEMMA StaleListed ==
  ASSUME AgentRulesTypeInv, NEW dir, NEW loaded
  PROVE  /\ StaleIn(dir, loaded) \in Seq(Paths(Rules))
         /\ ToSet(StaleIn(dir, loaded)) = {path \in DOMAIN files : path[1] = dir /\ path[2] \notin DOMAIN loaded}
<1>. DEFINE set == {path \in DOMAIN files : path[1] = dir /\ path[2] \notin DOMAIN loaded}
            all == Outputs(InOrder(Rules))
<1>1. all \in Seq(Paths(Rules)) /\ ToSet(all) = Paths(Rules)
  BY OutputsListed
<1>2. IsFiniteSet(Paths(Rules))
  <2>. HIDE DEF all
  <2>1. Len(all) \in Nat /\ all \in [1 .. Len(all) -> Paths(Rules)]
    BY <1>1
  <2>2. all \in Surjection(1 .. Len(all), Paths(Rules))
    BY <1>1, <2>1 DEF Surjection, ToSet
  <2>. QED
    BY <2>1, <2>2, FS_Interval, FS_Surjection
<1>3. set \subseteq Paths(Rules)
  BY DEF AgentRulesTypeInv
<1>. HIDE DEF set
<1>4. InOrder(set) \in Seq(set) /\ ToSet(InOrder(set)) = set
  BY <1>2, <1>3, FS_Subset, SetListed DEF InOrder
<1>5. StaleIn(dir, loaded) = InOrder(set)
  BY DEF StaleIn, set
<1>6. InOrder(set) \in Seq(Paths(Rules))
  BY <1>3, <1>4, Lists, Widened
<1>. QED
  BY <1>4, <1>5, <1>6 DEF set

LEMMA TailItems ==
  ASSUME NEW S, NEW todo \in Seq(S), todo # << >>
  PROVE  /\ Head(todo) \in ToSet(todo) /\ Head(todo) \in S
         /\ Tail(todo) \in Seq(S)
         /\ \A s \in ToSet(Tail(todo)) : s \in ToSet(todo)
         /\ \A s \in ToSet(todo) : s = Head(todo) \/ s \in ToSet(Tail(todo))
<1>1. /\ Head(todo) = todo[1] /\ Tail(todo) \in Seq(S) /\ Len(Tail(todo)) = Len(todo) - 1
      /\ \A i \in 1 .. Len(todo) - 1 : Tail(todo)[i] = todo[i + 1]
      /\ Len(todo) \in Nat \ {0}
  OBVIOUS
<1>2. DOMAIN todo = 1 .. Len(todo) /\ DOMAIN Tail(todo) = 1 .. Len(todo) - 1
  BY <1>1
<1>3. Head(todo) \in ToSet(todo) /\ Head(todo) \in S
  BY <1>1, <1>2 DEF ToSet
<1>4. \A i \in DOMAIN Tail(todo) : Tail(todo)[i] \in ToSet(todo)
  BY <1>1, <1>2 DEF ToSet
<1>5. ASSUME NEW i \in DOMAIN todo
      PROVE  todo[i] = Head(todo) \/ todo[i] \in ToSet(Tail(todo))
  <2>1. CASE i = 1
    BY <1>1, <2>1
  <2>2. CASE i # 1
    <3>1. i - 1 \in DOMAIN Tail(todo) /\ Tail(todo)[i - 1] = todo[i]
      BY <1>1, <1>2, <2>2
    <3>. QED
      BY <3>1 DEF ToSet
  <2>. QED
    BY <2>1, <2>2
<1>. QED
  BY <1>1, <1>3, <1>4, <1>5 DEF ToSet

LEMMA RunOf ==
  ASSUME NEW S, NEW todo \in Seq(S), NEW set \in SUBSET Rules, NEW loaded \in [set -> RuleFiles],
         NEW at \in {"idle", "loading", "scanning", "checking", "writing", "removing"},
         NEW mode \in {"sync", "check"}, NEW stale \in Seq(Paths(Rules)),
         NEW drifted \in BOOLEAN, NEW undisturbed \in BOOLEAN
  PROVE  [at |-> at, mode |-> mode, todo |-> todo, loaded |-> loaded, stale |-> stale,
          drifted |-> drifted, undisturbed |-> undisturbed] \in Runs(Seq(S))
<1>1. loaded \in UNION {[s -> RuleFiles] : s \in SUBSET Rules}
  OBVIOUS
<1>. QED
  BY <1>1 DEF Runs

LEMMA NoRunIsRun == NoRun \in Runs(Seq(ItemsAt("idle"))) /\ NoRun.at = "idle"
<1>. DEFINE none == [rule \in {} |-> Absent]
<1>1. none \in [{} -> RuleFiles] /\ {} \in SUBSET Rules
  OBVIOUS
<1>2. << >> \in Seq(ItemsAt("idle")) /\ << >> \in Seq(Paths(Rules))
  OBVIOUS
<1>3. "idle" \in {"idle", "loading", "scanning", "checking", "writing", "removing"}
      /\ "sync" \in {"sync", "check"} /\ FALSE \in BOOLEAN /\ TRUE \in BOOLEAN
  OBVIOUS
<1>4. NoRun = [at |-> "idle", mode |-> "sync", todo |-> << >>, loaded |-> none,
               stale |-> << >>, drifted |-> FALSE, undisturbed |-> TRUE]
  BY DEF NoRun
<1>5. NoRun.at = "idle"
  BY <1>4
<1>. HIDE DEF none
<1>6. [at |-> "idle", mode |-> "sync", todo |-> << >>, loaded |-> none,
       stale |-> << >>, drifted |-> FALSE, undisturbed |-> TRUE] \in Runs(Seq(ItemsAt("idle")))
  BY <1>1, <1>2, <1>3, RunOf
<1>. QED
  BY <1>4, <1>5, <1>6

(* A run that ends leaves the files and the rules to speak for themselves. *)
LEMMA RunEnds ==
  ASSUME rules' \in [Rules -> RuleFiles],
         files' = [path \in DOMAIN files' |-> files'[path]], DOMAIN files' \subseteq Paths(Rules),
         sync' = NoRun, CompletedIsCurrent'
  PROVE  AgentRulesInv'
<1>1. sync' \in Runs(Seq(ItemsAt(sync'.at))) /\ sync'.at = "idle"
  BY NoRunIsRun
<1>. QED
  BY <1>1 DEF AgentRulesInv, AgentRulesTypeInv, TodoInv, LoadedInv, FilesInv

LEMMA AgentRulesStutters == AgentRulesInv /\ UNCHANGED agentRules => AgentRulesInv'
<1>. SUFFICES ASSUME AgentRulesInv, UNCHANGED <<rules, files, sync, current>> PROVE AgentRulesInv'
  BY DEF agentRules
<1>1. AgentRulesTypeInv' /\ TodoInv'
  BY DEF AgentRulesInv, AgentRulesTypeInv, TodoInv, Expected
<1>2. LoadedInv' /\ FilesInv' /\ CompletedIsCurrent'
  BY DEF AgentRulesInv, LoadedInv, FilesInv, Expected, UpToDate, IsLeft, Present, CompletedIsCurrent
<1>. QED
  BY <1>1, <1>2 DEF AgentRulesInv

LEMMA AgentRulesInitInv == AgentRulesInit => AgentRulesInv
<1>. SUFFICES ASSUME AgentRulesInit PROVE AgentRulesInv
  OBVIOUS
<1>1. sync \in Runs(Seq(ItemsAt(sync.at))) /\ sync.at = "idle"
  BY NoRunIsRun DEF AgentRulesInit
<1>2. Rule(TRUE, 1) \in RuleFiles
  <2>1. \A alwaysApply \in BOOLEAN : \A body \in 1 .. 2 : Rule(alwaysApply, body) \in RuleFiles
    BY DEF RuleFiles
  <2>2. TRUE \in BOOLEAN /\ 1 \in 1 .. 2
    OBVIOUS
  <2>. QED
    BY <2>1, <2>2, Zenon
<1>3. AgentRulesTypeInv
  BY <1>1, <1>2 DEF AgentRulesTypeInv, AgentRulesInit
<1>4. ~current
  BY DEF AgentRulesInit
<1>. QED
  BY <1>1, <1>3, <1>4 DEF AgentRulesInv, TodoInv, LoadedInv, FilesInv, CompletedIsCurrent

(* What a run knows of itself at its next step. *)
LEMMA RunKnows ==
  ASSUME AgentRulesInv
  PROVE  /\ sync.todo \in Seq(ItemsAt(sync.at)) /\ DOMAIN sync.loaded \in SUBSET Rules
         /\ sync.stale \in Seq(Paths(Rules))
         /\ sync.loaded = [rule \in DOMAIN sync.loaded |-> sync.loaded[rule]]
         /\ Expected \subseteq Paths(Rules)
         /\ sync.todo # << >> =>
              /\ Next1 \in ItemsAt(sync.at) /\ IsLeft(Next1) /\ Tail(sync.todo) \in Seq(ItemsAt(sync.at))
              /\ \A item \in ToSet(Tail(sync.todo)) : IsLeft(item)
              /\ \A item : IsLeft(item) => item = Next1 \/ item \in ToSet(Tail(sync.todo))
         /\ sync.todo = << >> => \A item : ~IsLeft(item)
         /\ sync.at \notin {"idle", "loading"} /\ sync.undisturbed =>
              /\ sync.loaded = [rule \in Present(rules) |-> rules[rule]]
              /\ Expected = Paths(Present(rules))
              /\ \A rule \in Present(rules) : IsParsed(rules[rule])
<1>1. sync \in Runs(Seq(ItemsAt(sync.at)))
  BY DEF AgentRulesInv, AgentRulesTypeInv
<1>2. sync.todo \in Seq(ItemsAt(sync.at)) /\ sync.stale \in Seq(Paths(Rules))
  BY <1>1 DEF Runs
<1>3. PICK set \in SUBSET Rules : sync.loaded \in [set -> RuleFiles]
  BY <1>1 DEF Runs
<1>4. DOMAIN sync.loaded = set /\ sync.loaded = [rule \in set |-> sync.loaded[rule]]
  BY <1>3
<1>5. Expected \subseteq Paths(Rules)
  BY <1>3, <1>4 DEF Expected, Paths
<1>6. sync.todo = << >> => \A item : ~IsLeft(item)
  BY DEF IsLeft, ToSet
<1>7. sync.todo # << >> =>
        /\ Next1 \in ItemsAt(sync.at) /\ IsLeft(Next1) /\ Tail(sync.todo) \in Seq(ItemsAt(sync.at))
        /\ \A item \in ToSet(Tail(sync.todo)) : IsLeft(item)
        /\ \A item : IsLeft(item) => item = Next1 \/ item \in ToSet(Tail(sync.todo))
  BY <1>2, TailItems DEF IsLeft, Next1
<1>8. ASSUME sync.at \notin {"idle", "loading"}, sync.undisturbed
      PROVE  /\ sync.loaded = [rule \in Present(rules) |-> rules[rule]]
             /\ Expected = Paths(Present(rules))
             /\ \A rule \in Present(rules) : IsParsed(rules[rule])
  <2>1. /\ Present(rules) = DOMAIN sync.loaded
        /\ \A rule \in DOMAIN sync.loaded : sync.loaded[rule] = rules[rule] /\ IsParsed(rules[rule])
    BY <1>8 DEF AgentRulesInv, LoadedInv
  <2>. QED
    BY <1>4, <2>1 DEF Expected
<1>. QED
  BY <1>2, <1>3, <1>4, <1>5, <1>6, <1>7, <1>8

(* The step within a run that reads and neither writes nor ends it. *)
LEMMA Reads ==
  ASSUME AgentRulesInv, UNCHANGED <<rules, files, current>>,
         sync' \in Runs(Seq(ItemsAt(sync'.at))), TodoInv', LoadedInv', FilesInv'
  PROVE  AgentRulesInv'
<1>1. AgentRulesTypeInv'
  BY DEF AgentRulesInv, AgentRulesTypeInv
<1>2. CompletedIsCurrent'
  BY DEF AgentRulesInv, CompletedIsCurrent, Present
<1>. QED
  BY <1>1, <1>2 DEF AgentRulesInv

LEMMA MainStep ==
  ASSUME AgentRulesInv, NEW mode \in {"sync", "check"}, Main(mode)
  PROVE  AgentRulesInv'
<1>1. CASE sync' = sync
  BY <1>1, AgentRulesStutters DEF Main, agentRules, AgentRulesInv
<1>2. CASE sync' = [NoRun EXCEPT !.at = "loading", !.mode = mode, !.todo = InOrder(Present(rules))]
  <2>. DEFINE todo == InOrder(Present(rules))
              none == [rule \in {} |-> Absent]
  <2>1. Present(rules) \in SUBSET Rules
    BY DEF Present
  <2>2. todo \in Seq(Present(rules)) /\ ToSet(todo) = Present(rules)
    BY <2>1, RulesListed
  <2>. HIDE DEF todo
  <2>3. todo \in Seq(Rules)
    BY <2>1, <2>2
  <2>4. sync' = [at |-> "loading", mode |-> mode, todo |-> todo, loaded |-> none,
                 stale |-> << >>, drifted |-> FALSE, undisturbed |-> TRUE]
    BY <1>2 DEF NoRun, todo
  <2>5. none \in [{} -> RuleFiles] /\ {} \in SUBSET Rules /\ DOMAIN none = {}
    OBVIOUS
  <2>. HIDE DEF none
  <2>6. /\ sync'.at = "loading" /\ sync'.todo = todo /\ sync'.loaded = none /\ sync'.stale = << >>
        /\ sync'.drifted = FALSE /\ sync'.undisturbed = TRUE
    BY <2>4
  <2>7. sync' \in Runs(Seq(ItemsAt(sync'.at)))
    <3>1. ItemsAt(sync'.at) = Rules
      BY <2>6 DEF ItemsAt
    <3>2. << >> \in Seq(Paths(Rules)) /\ FALSE \in BOOLEAN /\ TRUE \in BOOLEAN
          /\ "loading" \in {"idle", "loading", "scanning", "checking", "writing", "removing"}
      OBVIOUS
    <3>3. [at |-> "loading", mode |-> mode, todo |-> todo, loaded |-> none, stale |-> << >>,
           drifted |-> FALSE, undisturbed |-> TRUE] \in Runs(Seq(Rules))
      BY <2>3, <2>5, <3>2, RunOf
    <3>. QED
      BY <2>4, <3>1, <3>3
  <2>8. UNCHANGED <<rules, files, current>>
    BY DEF Main
  <2>9. ToSet(<< >>) = {}
    BY DEF ToSet
  <2>10. TodoInv' /\ FilesInv'
    BY <2>6, <2>9 DEF TodoInv, FilesInv
  <2>11. LoadedInv'
    BY <2>2, <2>5, <2>6, <2>8 DEF LoadedInv, Present
  <2>. QED
    BY <2>7, <2>8, <2>10, <2>11, Reads
<1>. QED
  BY <1>1, <1>2 DEF Main

LEMMA LoadStep ==
  ASSUME AgentRulesInv, LoadRule
  PROVE  AgentRulesInv'
<1>0. /\ sync.at = "loading" /\ sync.todo # << >> /\ UNCHANGED <<rules, files, current>>
      /\ sync \in Runs(Seq(ItemsAt(sync.at))) /\ rules \in [Rules -> RuleFiles]
  BY DEF LoadRule, AgentRulesInv, AgentRulesTypeInv
<1>1. CASE ~IsParsed(rules[Next1])
  <2>1. sync' = NoRun
    BY <1>1 DEF LoadRule
  <2>2. CompletedIsCurrent'
    BY <1>0 DEF AgentRulesInv, CompletedIsCurrent, Present
  <2>. QED
    BY <1>0, <2>1, <2>2, RunEnds DEF AgentRulesInv, AgentRulesTypeInv
<1>2. CASE IsParsed(rules[Next1])
  <2>. DEFINE loaded == [rule \in DOMAIN sync.loaded \cup {Next1} |->
                           IF rule = Next1 THEN rules[rule] ELSE sync.loaded[rule]]
  <2>1. sync' = [sync EXCEPT !.todo = Tail(@), !.loaded = loaded]
    BY <1>2 DEF LoadRule
  <2>2. /\ Next1 \in Rules /\ IsLeft(Next1) /\ Tail(sync.todo) \in Seq(Rules)
        /\ \A item \in ToSet(Tail(sync.todo)) : IsLeft(item)
        /\ \A item : IsLeft(item) => item = Next1 \/ item \in ToSet(Tail(sync.todo))
        /\ DOMAIN sync.loaded \in SUBSET Rules
    BY <1>0, RunKnows DEF ItemsAt
  <2>3. \A rule \in DOMAIN sync.loaded : sync.loaded[rule] \in RuleFiles
    BY <1>0 DEF Runs
  <2>4. /\ DOMAIN loaded = DOMAIN sync.loaded \cup {Next1}
        /\ loaded \in [DOMAIN sync.loaded \cup {Next1} -> RuleFiles]
        /\ loaded[Next1] = rules[Next1]
        /\ \A rule \in DOMAIN sync.loaded : rule # Next1 => loaded[rule] = sync.loaded[rule]
    BY <1>0, <2>2, <2>3
  <2>. HIDE DEF loaded
  <2>5. /\ sync'.at = "loading" /\ sync'.todo = Tail(sync.todo) /\ sync'.loaded = loaded
        /\ sync'.stale = sync.stale /\ sync'.drifted = sync.drifted
        /\ sync'.undisturbed = sync.undisturbed
    BY <1>0, <2>1 DEF Runs
  <2>6. loaded \in UNION {[set -> RuleFiles] : set \in SUBSET Rules}
    <3>1. DOMAIN sync.loaded \cup {Next1} \in SUBSET Rules
      BY <2>2
    <3>. QED
      BY <2>4, <3>1
  <2>7. sync' \in Runs(Seq(ItemsAt(sync'.at)))
    BY <1>0, <2>1, <2>2, <2>5, <2>6 DEF Runs, ItemsAt
  <2>8. TodoInv'
    <3>1. sync.stale = << >> /\ ~sync.drifted
      BY <1>0 DEF AgentRulesInv, TodoInv
    <3>. QED
      BY <2>5, <3>1 DEF TodoInv, ToSet
  <2>9. LoadedInv'
    <3>1. sync.undisturbed => Present(rules) = DOMAIN sync.loaded \cup ToSet(sync.todo)
      BY <1>0 DEF AgentRulesInv, LoadedInv
    <3>2. sync.undisturbed =>
            \A rule \in DOMAIN sync.loaded : sync.loaded[rule] = rules[rule] /\ IsParsed(rules[rule])
      BY <1>0 DEF AgentRulesInv, LoadedInv
    <3>3. DOMAIN sync.loaded \cup ToSet(sync.todo) = DOMAIN loaded \cup ToSet(Tail(sync.todo))
      BY <2>2, <2>4 DEF IsLeft
    <3>4. current => sync.undisturbed
      BY <1>0 DEF AgentRulesInv, LoadedInv
    <3>. QED
      BY <1>0, <1>2, <2>4, <2>5, <3>1, <3>2, <3>3, <3>4 DEF LoadedInv, Present
  <2>10. FilesInv'
    BY <2>5 DEF FilesInv
  <2>. QED
    BY <1>0, <2>7, <2>8, <2>9, <2>10, Reads
<1>. QED
  BY <1>1, <1>2

LEMMA LoadedStep ==
  ASSUME AgentRulesInv, Loaded
  PROVE  AgentRulesInv'
<1>0. /\ sync.at = "loading" /\ sync.todo = << >> /\ UNCHANGED <<rules, files, current>>
      /\ sync \in Runs(Seq(ItemsAt(sync.at))) /\ DOMAIN files \subseteq Paths(Rules)
      /\ sync' = [sync EXCEPT !.at = "scanning", !.todo = GENERATED_DIRS]
  BY DEF Loaded, AgentRulesInv, AgentRulesTypeInv
<1>1. /\ sync'.at = "scanning" /\ sync'.todo = GENERATED_DIRS /\ sync'.loaded = sync.loaded
      /\ sync'.stale = sync.stale /\ sync'.drifted = sync.drifted
      /\ sync'.undisturbed = sync.undisturbed
  BY <1>0 DEF Runs
<1>2. sync' \in Runs(Seq(ItemsAt(sync'.at)))
  BY <1>0, <1>1, DirsListed DEF Runs, ItemsAt
<1>3. TodoInv'
  <2>1. sync.stale = << >> /\ ~sync.drifted
    BY <1>0 DEF AgentRulesInv, TodoInv
  <2>. QED
    BY <1>1, <2>1 DEF TodoInv, ToSet
<1>4. LoadedInv'
  <2>1. \A item : ~IsLeft(item)
    BY <1>0, RunKnows
  <2>2. ToSet(sync.todo) = {}
    BY <2>1 DEF IsLeft
  <2>. QED
    BY <1>0, <1>1, <2>2 DEF AgentRulesInv, LoadedInv, Present
<1>5. FilesInv'
  <2>1. \A path \in DOMAIN files' : path \in Expected' \/ IsLeft(path[1])'
    <3>1. \A path \in Paths(Rules) : path \in Roots \/ path[1] \in GeneratedDirs
      BY DEF Paths
    <3>. QED
      BY <1>0, <1>1, <3>1, DirsListed DEF Expected, Paths, IsLeft
  <2>. QED
    BY <1>1, <2>1 DEF FilesInv
<1>. QED
  BY <1>0, <1>2, <1>3, <1>4, <1>5, Reads

LEMMA InDirectory ==
  ASSUME NEW set, NEW path \in Paths(Rules), path[1] \in GeneratedDirs
  PROVE  path \in Paths(set) <=> path[2] \in set
<1>1. \A p \in Roots : p[1] = "root"
  BY DEF Roots, Root
<1>2. "root" \notin GeneratedDirs
  BY DEF GeneratedDirs
<1>3. PICK dir \in GeneratedDirs, rule \in Rules : path = <<dir, rule>>
  BY <1>1, <1>2 DEF Paths
<1>. QED
  BY <1>1, <1>2, <1>3 DEF Paths

LEMMA LoadedStays ==
  ASSUME AgentRulesInv, UNCHANGED <<rules, current>>,
         sync.at \notin {"idle", "loading"}, sync'.at \notin {"idle", "loading"},
         sync'.loaded = sync.loaded, sync'.undisturbed = sync.undisturbed
  PROVE  LoadedInv' /\ Expected' = Expected
BY DEF AgentRulesInv, LoadedInv, Present, Expected

LEMMA ScanStep ==
  ASSUME AgentRulesInv, findStaleFiles
  PROVE  AgentRulesInv'
<1>. DEFINE found == StaleIn(Next1, sync.loaded)
<1>1. /\ sync.at = "scanning" /\ sync.todo # << >> /\ UNCHANGED <<rules, files, current>>
      /\ sync \in Runs(Seq(ItemsAt(sync.at))) /\ DOMAIN files \subseteq Paths(Rules)
      /\ sync' = [sync EXCEPT !.todo = Tail(sync.todo), !.stale = sync.stale \o found]
  BY DEF findStaleFiles, AgentRulesInv, AgentRulesTypeInv
<1>2. /\ found \in Seq(Paths(Rules))
      /\ ToSet(found) = {path \in DOMAIN files : path[1] = Next1 /\ path[2] \notin DOMAIN sync.loaded}
  BY StaleListed DEF AgentRulesInv
<1>. HIDE DEF found
<1>3. /\ Next1 \in GeneratedDirs /\ Tail(sync.todo) \in Seq(GeneratedDirs)
      /\ \A item : IsLeft(item) => item = Next1 \/ item \in ToSet(Tail(sync.todo))
      /\ sync.stale \in Seq(Paths(Rules))
  BY <1>1, RunKnows DEF ItemsAt
<1>4. ToSet(sync.stale \o found) = ToSet(sync.stale) \cup ToSet(found)
  BY <1>2, <1>3, Lists, Concatenation
<1>5. /\ sync'.at = "scanning" /\ sync'.todo = Tail(sync.todo) /\ sync'.loaded = sync.loaded
      /\ sync'.stale = sync.stale \o found /\ sync'.drifted = sync.drifted
      /\ sync'.undisturbed = sync.undisturbed
  BY <1>1 DEF Runs
<1>6. sync' \in Runs(Seq(ItemsAt(sync'.at)))
  <2>1. sync.stale \o found \in Seq(Paths(Rules))
    BY <1>2, <1>3
  <2>. QED
    BY <1>1, <1>3, <1>5, <2>1 DEF Runs, ItemsAt
<1>7. LoadedInv' /\ Expected' = Expected
  BY <1>1, <1>5, LoadedStays
<1>8. \A path \in ToSet(found) : path \notin Expected
  BY <1>1, <1>2, <1>3, InDirectory DEF Expected
<1>9. TodoInv'
  BY <1>1, <1>4, <1>5, <1>7, <1>8 DEF AgentRulesInv, TodoInv
<1>10. FilesInv'
  <2>. SUFFICES ASSUME sync.undisturbed, NEW path \in DOMAIN files
                PROVE  path \in Expected \/ path \in ToSet(sync'.stale) \/ path[1] \in ToSet(Tail(sync.todo))
    BY <1>1, <1>5, <1>7 DEF FilesInv, IsLeft
  <2>1. path \in Expected \/ path \in ToSet(sync.stale) \/ IsLeft(path[1])
    BY <1>1 DEF AgentRulesInv, FilesInv
  <2>2. CASE path[1] = Next1
    <3>1. path \in Expected \/ path[2] \notin DOMAIN sync.loaded
      BY <1>1, <1>3, <2>2, InDirectory DEF Expected
    <3>. QED
      BY <1>2, <1>4, <1>5, <2>2, <3>1
  <2>. QED
    BY <1>3, <1>4, <1>5, <2>1, <2>2
<1>. QED
  BY <1>1, <1>6, <1>7, <1>9, <1>10, Reads

LEMMA ScannedStep ==
  ASSUME AgentRulesInv, Scanned
  PROVE  AgentRulesInv'
<1>. DEFINE at == IF sync.mode = "check" THEN "checking" ELSE "writing"
            outputs == Outputs(InOrder(DOMAIN sync.loaded))
<1>1. /\ sync.at = "scanning" /\ sync.todo = << >> /\ UNCHANGED <<rules, files, current>>
      /\ sync \in Runs(Seq(ItemsAt(sync.at)))
      /\ sync' = [sync EXCEPT !.at = at, !.todo = outputs]
  BY DEF Scanned, AgentRulesInv, AgentRulesTypeInv
<1>2. DOMAIN sync.loaded \in SUBSET Rules /\ \A item : ~IsLeft(item)
  BY <1>1, RunKnows
<1>3. outputs \in Seq(Expected) /\ ToSet(outputs) = Expected
  BY <1>2, OutputsListed DEF Expected
<1>4. Expected \subseteq Paths(Rules)
  BY RunKnows
<1>5. at \in {"checking", "writing"}
  OBVIOUS
<1>. HIDE DEF outputs, at
<1>6. /\ sync'.at = at /\ sync'.todo = outputs /\ sync'.loaded = sync.loaded
      /\ sync'.stale = sync.stale /\ sync'.drifted = sync.drifted
      /\ sync'.undisturbed = sync.undisturbed
  BY <1>1 DEF Runs
<1>7. sync' \in Runs(Seq(ItemsAt(sync'.at)))
  <2>1. outputs \in Seq(Paths(Rules))
    BY <1>3, <1>4
  <2>2. ItemsAt(at) = Paths(Rules)
    BY <1>5 DEF ItemsAt
  <2>. QED
    BY <1>1, <1>5, <1>6, <2>1, <2>2 DEF Runs
<1>8. LoadedInv' /\ Expected' = Expected
  BY <1>1, <1>5, <1>6, LoadedStays
<1>9. TodoInv'
  BY <1>1, <1>3, <1>5, <1>6, <1>8 DEF AgentRulesInv, TodoInv
<1>10. FilesInv'
  BY <1>1, <1>2, <1>3, <1>5, <1>6, <1>8 DEF AgentRulesInv, FilesInv, IsLeft
<1>. QED
  BY <1>1, <1>7, <1>8, <1>9, <1>10, Reads

LEMMA DriftStep ==
  ASSUME AgentRulesInv, findDrift
  PROVE  AgentRulesInv'
<1>. DEFINE drifted == \/ sync.drifted \/ Next1 \notin DOMAIN files
                       \/ files[Next1] # buildOutputs(sync.loaded)[Next1]
<1>1. /\ sync.at = "checking" /\ sync.todo # << >> /\ UNCHANGED <<rules, files, current>>
      /\ sync \in Runs(Seq(ItemsAt(sync.at)))
      /\ sync' = [sync EXCEPT !.todo = Tail(sync.todo), !.drifted = drifted]
  BY DEF findDrift, AgentRulesInv, AgentRulesTypeInv
<1>2. drifted \in BOOLEAN
  OBVIOUS
<1>3. ~drifted => ~sync.drifted /\ UpToDate(Next1)
  BY DEF UpToDate
<1>. HIDE DEF drifted
<1>4. /\ Tail(sync.todo) \in Seq(Paths(Rules))
      /\ \A item \in ToSet(Tail(sync.todo)) : IsLeft(item)
      /\ \A item : IsLeft(item) => item = Next1 \/ item \in ToSet(Tail(sync.todo))
  BY <1>1, RunKnows DEF ItemsAt
<1>5. /\ sync'.at = "checking" /\ sync'.todo = Tail(sync.todo) /\ sync'.loaded = sync.loaded
      /\ sync'.stale = sync.stale /\ sync'.drifted = drifted
      /\ sync'.undisturbed = sync.undisturbed
  BY <1>1 DEF Runs
<1>6. sync' \in Runs(Seq(ItemsAt(sync'.at)))
  BY <1>1, <1>2, <1>4, <1>5 DEF Runs, ItemsAt
<1>7. LoadedInv' /\ Expected' = Expected
  BY <1>1, <1>5, LoadedStays
<1>8. TodoInv'
  BY <1>1, <1>4, <1>5, <1>7 DEF AgentRulesInv, TodoInv, IsLeft
<1>9. FilesInv'
  <2>1. \A path : UpToDate(path)' <=> UpToDate(path)
    BY <1>1, <1>5 DEF UpToDate
  <2>2. sync.undisturbed => \A path \in DOMAIN files : path \in Expected \/ path \in ToSet(sync.stale)
    BY <1>1 DEF AgentRulesInv, FilesInv
  <2>3. sync.undisturbed /\ ~drifted =>
          \A path \in Expected : UpToDate(path) \/ path \in ToSet(Tail(sync.todo))
    BY <1>1, <1>3, <1>4 DEF AgentRulesInv, FilesInv
  <2>. QED
    BY <1>1, <1>5, <1>7, <2>1, <2>2, <2>3 DEF FilesInv, IsLeft
<1>. QED
  BY <1>1, <1>6, <1>7, <1>8, <1>9, Reads

(* What every run that ends well comes to. *)
LEMMA FilesAreBuilt ==
  ASSUME AgentRulesInv, sync.at \notin {"idle", "loading"}, sync.undisturbed,
         \A path \in DOMAIN files : path \in Expected,
         \A path \in Expected : UpToDate(path)
  PROVE  /\ \A rule \in Present(rules) : IsParsed(rules[rule])
         /\ files = buildOutputs([rule \in Present(rules) |-> rules[rule]])
<1>1. /\ DOMAIN sync.loaded \in SUBSET Rules
      /\ sync.loaded = [rule \in Present(rules) |-> rules[rule]]
      /\ \A rule \in Present(rules) : IsParsed(rules[rule])
  BY RunKnows
<1>2. buildOutputs(sync.loaded) = [path \in Expected |-> buildOutputs(sync.loaded)[path]]
  BY <1>1, BuildsExpected DEF Expected
<1>3. DOMAIN files = Expected /\ \A path \in Expected : files[path] = buildOutputs(sync.loaded)[path]
  BY DEF UpToDate
<1>4. files = [path \in DOMAIN files |-> files[path]]
  BY DEF AgentRulesInv, AgentRulesTypeInv
<1>5. files = buildOutputs(sync.loaded)
  BY <1>2, <1>3, <1>4
<1>. QED
  BY <1>1, <1>5

LEMMA CheckedStep ==
  ASSUME AgentRulesInv, Checked
  PROVE  AgentRulesInv'
<1>1. /\ sync.at = "checking" /\ sync.todo = << >> /\ UNCHANGED <<rules, files>> /\ sync' = NoRun
      /\ current' = (current \/ (~sync.drifted /\ sync.stale = << >> /\ sync.undisturbed))
  BY DEF Checked
<1>2. ASSUME ~sync.drifted, sync.stale = << >>, sync.undisturbed
      PROVE  /\ \A rule \in Present(rules) : IsParsed(rules[rule])
             /\ files = buildOutputs([rule \in Present(rules) |-> rules[rule]])
  <2>1. \A item : ~IsLeft(item)
    BY <1>1, RunKnows
  <2>2. \A path \in DOMAIN files : path \in Expected
    BY <1>1, <1>2 DEF AgentRulesInv, FilesInv, ToSet
  <2>3. \A path \in Expected : UpToDate(path)
    BY <1>1, <1>2, <2>1 DEF AgentRulesInv, FilesInv
  <2>. QED
    BY <1>1, <1>2, <2>2, <2>3, FilesAreBuilt
<1>3. CompletedIsCurrent'
  BY <1>1, <1>2 DEF AgentRulesInv, CompletedIsCurrent, Present
<1>. QED
  BY <1>1, <1>3, RunEnds DEF AgentRulesInv, AgentRulesTypeInv

LEMMA CurrentIsBuilt ==
  ASSUME AgentRulesInv, sync.at \notin {"idle", "loading"}, current
  PROVE  files = buildOutputs(sync.loaded) /\ DOMAIN files = Expected
<1>1. sync.undisturbed
  BY DEF AgentRulesInv, LoadedInv
<1>2. DOMAIN sync.loaded \in SUBSET Rules /\ sync.loaded = [rule \in Present(rules) |-> rules[rule]]
  BY <1>1, RunKnows
<1>3. files = buildOutputs([rule \in Present(rules) |-> rules[rule]])
  BY DEF AgentRulesInv, CompletedIsCurrent
<1>4. files = buildOutputs(sync.loaded)
  BY <1>2, <1>3
<1>5. buildOutputs(sync.loaded) = [path \in Expected |-> buildOutputs(sync.loaded)[path]]
  BY <1>2, BuildsExpected DEF Expected
<1>. QED
  BY <1>4, <1>5

LEMMA FileHeld ==
  ASSUME AgentRulesTypeInv, NEW path \in Paths(Rules), NEW content, files' = Holding(path, content)
  PROVE  /\ files' = [p \in DOMAIN files' |-> files'[p]] /\ DOMAIN files' \subseteq Paths(Rules)
         /\ DOMAIN files' = DOMAIN files \cup {path} /\ files'[path] = content
         /\ \A p \in DOMAIN files : p # path => files'[p] = files[p]
BY DEF AgentRulesTypeInv, Holding

LEMMA FileDeleted ==
  ASSUME AgentRulesTypeInv, NEW path, files' = Deleting(path)
  PROVE  /\ files' = [p \in DOMAIN files' |-> files'[p]] /\ DOMAIN files' \subseteq Paths(Rules)
         /\ DOMAIN files' = DOMAIN files \ {path}
         /\ \A p \in DOMAIN files' : files'[p] = files[p]
BY DEF AgentRulesTypeInv, Deleting

LEMMA WriteStep ==
  ASSUME AgentRulesInv, WriteFile
  PROVE  AgentRulesInv'
<1>. DEFINE content == buildOutputs(sync.loaded)[Next1]
<1>1. /\ sync.at = "writing" /\ sync.todo # << >> /\ UNCHANGED <<rules, current>>
      /\ sync \in Runs(Seq(ItemsAt(sync.at))) /\ rules \in [Rules -> RuleFiles]
      /\ sync' = [sync EXCEPT !.todo = Tail(sync.todo)] /\ files' = Holding(Next1, content)
  BY DEF WriteFile, AgentRulesInv, AgentRulesTypeInv
<1>2. /\ Tail(sync.todo) \in Seq(Paths(Rules)) /\ IsLeft(Next1) /\ Expected \subseteq Paths(Rules)
      /\ \A item \in ToSet(Tail(sync.todo)) : IsLeft(item)
      /\ \A item : IsLeft(item) => item = Next1 \/ item \in ToSet(Tail(sync.todo))
  BY <1>1, RunKnows DEF ItemsAt
<1>3. Next1 \in Expected /\ Next1 \in Paths(Rules)
  BY <1>1, <1>2 DEF AgentRulesInv, TodoInv, IsLeft
<1>4. /\ files' = [p \in DOMAIN files' |-> files'[p]] /\ DOMAIN files' \subseteq Paths(Rules)
      /\ DOMAIN files' = DOMAIN files \cup {Next1} /\ files'[Next1] = content
      /\ \A p \in DOMAIN files : p # Next1 => files'[p] = files[p]
  BY <1>1, <1>3, FileHeld DEF AgentRulesInv
<1>5. /\ sync'.at = "writing" /\ sync'.todo = Tail(sync.todo) /\ sync'.loaded = sync.loaded
      /\ sync'.stale = sync.stale /\ sync'.drifted = sync.drifted
      /\ sync'.undisturbed = sync.undisturbed
  BY <1>1 DEF Runs
<1>6. AgentRulesTypeInv'
  <2>1. sync' \in Runs(Seq(ItemsAt(sync'.at)))
    BY <1>1, <1>2, <1>5 DEF Runs, ItemsAt
  <2>. QED
    BY <1>1, <1>4, <2>1 DEF AgentRulesTypeInv
<1>7. LoadedInv' /\ Expected' = Expected
  BY <1>1, <1>5, LoadedStays
<1>8. TodoInv'
  BY <1>1, <1>2, <1>5, <1>7 DEF AgentRulesInv, TodoInv, IsLeft
<1>9. FilesInv'
  <2>1. \A path : path = Next1 \/ UpToDate(path) => UpToDate(path)'
    BY <1>1, <1>4, <1>5 DEF UpToDate
  <2>2. sync.undisturbed => \A path \in DOMAIN files : path \in Expected \/ path \in ToSet(sync.stale)
    BY <1>1 DEF AgentRulesInv, FilesInv
  <2>3. sync.undisturbed /\ ~sync.drifted => \A path \in Expected : UpToDate(path) \/ IsLeft(path)
    BY <1>1 DEF AgentRulesInv, FilesInv
  <2>4. sync.undisturbed /\ ~sync.drifted =>
          \A path \in Expected : UpToDate(path)' \/ path \in ToSet(Tail(sync.todo))
    BY <1>2, <2>1, <2>3
  <2>5. sync.undisturbed => \A path \in DOMAIN files' : path \in Expected \/ path \in ToSet(sync.stale)
    BY <1>3, <1>4, <2>2
  <2>. QED
    BY <1>5, <1>7, <2>4, <2>5 DEF FilesInv, IsLeft
<1>10. CompletedIsCurrent'
  <2>. SUFFICES ASSUME current PROVE CompletedIsCurrent'
    BY <1>1 DEF CompletedIsCurrent
  <2>1. files = buildOutputs(sync.loaded) /\ DOMAIN files = Expected
    BY <1>1, CurrentIsBuilt
  <2>2. files = [p \in DOMAIN files |-> files[p]]
    BY DEF AgentRulesInv, AgentRulesTypeInv
  <2>3. DOMAIN files' = DOMAIN files /\ \A p \in DOMAIN files : files'[p] = files[p]
    BY <1>3, <1>4, <2>1
  <2>4. files' = files
    BY <1>4, <2>2, <2>3
  <2>. QED
    BY <1>1, <2>4 DEF AgentRulesInv, CompletedIsCurrent, Present
<1>. QED
  BY <1>6, <1>7, <1>8, <1>9, <1>10 DEF AgentRulesInv

LEMMA WrittenStep ==
  ASSUME AgentRulesInv, Written
  PROVE  AgentRulesInv'
<1>1. /\ sync.at = "writing" /\ sync.todo = << >> /\ UNCHANGED <<rules, files, current>>
      /\ sync \in Runs(Seq(ItemsAt(sync.at)))
      /\ sync' = [sync EXCEPT !.at = "removing", !.todo = sync.stale]
  BY DEF Written, AgentRulesInv, AgentRulesTypeInv
<1>2. sync.stale \in Seq(Paths(Rules)) /\ \A item : ~IsLeft(item)
  BY <1>1, RunKnows
<1>3. /\ sync'.at = "removing" /\ sync'.todo = sync.stale /\ sync'.loaded = sync.loaded
      /\ sync'.stale = sync.stale /\ sync'.drifted = sync.drifted
      /\ sync'.undisturbed = sync.undisturbed
  BY <1>1 DEF Runs
<1>4. sync' \in Runs(Seq(ItemsAt(sync'.at)))
  BY <1>1, <1>2, <1>3 DEF Runs, ItemsAt
<1>5. LoadedInv' /\ Expected' = Expected
  BY <1>1, <1>3, LoadedStays
<1>6. TodoInv'
  BY <1>1, <1>3, <1>5 DEF AgentRulesInv, TodoInv
<1>7. FilesInv'
  <2>1. ~sync.drifted
    BY <1>1 DEF AgentRulesInv, TodoInv
  <2>2. \A path : UpToDate(path)' <=> UpToDate(path)
    BY <1>1, <1>3 DEF UpToDate
  <2>3. sync.undisturbed =>
          /\ \A path \in DOMAIN files : path \in Expected \/ path \in ToSet(sync.stale)
          /\ \A path \in Expected : UpToDate(path)
    BY <1>1, <1>2, <2>1 DEF AgentRulesInv, FilesInv
  <2>. QED
    BY <1>1, <1>3, <1>5, <2>2, <2>3 DEF FilesInv, IsLeft
<1>. QED
  BY <1>1, <1>4, <1>5, <1>6, <1>7, Reads

LEMMA RemoveStep ==
  ASSUME AgentRulesInv, RemoveStale
  PROVE  AgentRulesInv'
<1>1. /\ sync.at = "removing" /\ sync.todo # << >> /\ UNCHANGED <<rules, current>>
      /\ sync \in Runs(Seq(ItemsAt(sync.at))) /\ rules \in [Rules -> RuleFiles]
      /\ sync' = [sync EXCEPT !.todo = Tail(sync.todo)] /\ files' = Deleting(Next1)
  BY DEF RemoveStale, AgentRulesInv, AgentRulesTypeInv
<1>2. /\ Tail(sync.todo) \in Seq(Paths(Rules)) /\ IsLeft(Next1)
      /\ \A item \in ToSet(Tail(sync.todo)) : IsLeft(item)
      /\ \A item : IsLeft(item) => item = Next1 \/ item \in ToSet(Tail(sync.todo))
  BY <1>1, RunKnows DEF ItemsAt
<1>3. Next1 \notin Expected
  BY <1>1, <1>2 DEF AgentRulesInv, TodoInv, IsLeft
<1>4. /\ files' = [p \in DOMAIN files' |-> files'[p]] /\ DOMAIN files' \subseteq Paths(Rules)
      /\ DOMAIN files' = DOMAIN files \ {Next1}
      /\ \A p \in DOMAIN files' : files'[p] = files[p]
  BY <1>1, FileDeleted DEF AgentRulesInv
<1>5. /\ sync'.at = "removing" /\ sync'.todo = Tail(sync.todo) /\ sync'.loaded = sync.loaded
      /\ sync'.stale = sync.stale /\ sync'.drifted = sync.drifted
      /\ sync'.undisturbed = sync.undisturbed
  BY <1>1 DEF Runs
<1>6. AgentRulesTypeInv'
  <2>1. sync' \in Runs(Seq(ItemsAt(sync'.at)))
    BY <1>1, <1>2, <1>5 DEF Runs, ItemsAt
  <2>. QED
    BY <1>1, <1>4, <2>1 DEF AgentRulesTypeInv
<1>7. LoadedInv' /\ Expected' = Expected
  BY <1>1, <1>5, LoadedStays
<1>8. TodoInv'
  BY <1>1, <1>2, <1>5, <1>7 DEF AgentRulesInv, TodoInv, IsLeft
<1>9. FilesInv'
  <2>1. \A path \in Expected : UpToDate(path) => UpToDate(path)'
    BY <1>3, <1>4, <1>5 DEF UpToDate
  <2>2. sync.undisturbed =>
          /\ \A path \in DOMAIN files : path \in Expected \/ IsLeft(path)
          /\ \A path \in Expected : UpToDate(path)
    BY <1>1 DEF AgentRulesInv, FilesInv
  <2>3. sync.undisturbed => \A path \in DOMAIN files' : path \in Expected \/ path \in ToSet(Tail(sync.todo))
    BY <1>2, <1>4, <2>2
  <2>4. sync.undisturbed => \A path \in Expected : UpToDate(path)'
    BY <2>1, <2>2
  <2>. QED
    BY <1>5, <1>7, <2>3, <2>4 DEF FilesInv, IsLeft
<1>10. CompletedIsCurrent'
  <2>. SUFFICES ASSUME current PROVE CompletedIsCurrent'
    BY <1>1 DEF CompletedIsCurrent
  <2>1. DOMAIN files = Expected
    BY <1>1, CurrentIsBuilt
  <2>2. files = [p \in DOMAIN files |-> files[p]]
    BY DEF AgentRulesInv, AgentRulesTypeInv
  <2>3. files' = files
    BY <1>3, <1>4, <2>1, <2>2
  <2>. QED
    BY <1>1, <2>3 DEF AgentRulesInv, CompletedIsCurrent, Present
<1>. QED
  BY <1>6, <1>7, <1>8, <1>9, <1>10 DEF AgentRulesInv

LEMMA RemovedStep ==
  ASSUME AgentRulesInv, Removed
  PROVE  AgentRulesInv'
<1>1. /\ sync.at = "removing" /\ sync.todo = << >> /\ UNCHANGED <<rules, files>> /\ sync' = NoRun
      /\ current' = (current \/ sync.undisturbed)
  BY DEF Removed
<1>2. ASSUME sync.undisturbed
      PROVE  /\ \A rule \in Present(rules) : IsParsed(rules[rule])
             /\ files = buildOutputs([rule \in Present(rules) |-> rules[rule]])
  <2>1. \A item : ~IsLeft(item)
    BY <1>1, RunKnows
  <2>2. /\ \A path \in DOMAIN files : path \in Expected
        /\ \A path \in Expected : UpToDate(path)
    BY <1>1, <1>2, <2>1 DEF AgentRulesInv, FilesInv
  <2>. QED
    BY <1>1, <1>2, <2>2, FilesAreBuilt
<1>3. CompletedIsCurrent'
  BY <1>1, <1>2 DEF AgentRulesInv, CompletedIsCurrent, Present
<1>. QED
  BY <1>1, <1>3, RunEnds DEF AgentRulesInv, AgentRulesTypeInv

LEMMA DieStep ==
  ASSUME AgentRulesInv, DieSyncing
  PROVE  AgentRulesInv'
<1>1. /\ sync' = NoRun /\ rules' = rules /\ rules' \in [Rules -> RuleFiles]
      /\ AgentRulesTypeInv
  BY DEF DieSyncing, AgentRulesInv, AgentRulesTypeInv
<1>2. CASE UNCHANGED <<files, current>>
  <2>1. CompletedIsCurrent'
    BY <1>1, <1>2 DEF AgentRulesInv, CompletedIsCurrent, Present
  <2>. QED
    BY <1>1, <1>2, <2>1, RunEnds DEF AgentRulesTypeInv
<1>3. CASE /\ sync.at = "writing" /\ sync.todo # << >>
           /\ files' = Holding(Next1, CutShort) /\ current' = FALSE
  <2>1. Next1 \in Paths(Rules)
    BY <1>3, RunKnows DEF ItemsAt
  <2>2. files' = [p \in DOMAIN files' |-> files'[p]] /\ DOMAIN files' \subseteq Paths(Rules)
    BY <1>1, <1>3, <2>1, FileHeld
  <2>3. CompletedIsCurrent'
    BY <1>3 DEF CompletedIsCurrent
  <2>. QED
    BY <1>1, <2>2, <2>3, RunEnds
<1>. QED
  BY <1>2, <1>3 DEF DieSyncing

(* An edit tells a run that it is disturbed, and asks nothing else of it. *)
LEMMA EditedStep ==
  ASSUME AgentRulesInv, Edited, rules' \in [Rules -> RuleFiles],
         files' = [path \in DOMAIN files' |-> files'[path]], DOMAIN files' \subseteq Paths(Rules)
  PROVE  AgentRulesInv'
<1>1. ~current' /\ sync \in Runs(Seq(ItemsAt(sync.at)))
  BY DEF Edited, AgentRulesInv, AgentRulesTypeInv
<1>2. CASE sync.at = "idle"
  <2>1. sync' = sync
    BY <1>2 DEF Edited
  <2>. QED
    BY <1>1, <1>2, <2>1 DEF AgentRulesInv, AgentRulesTypeInv, TodoInv, LoadedInv, FilesInv, CompletedIsCurrent
<1>3. CASE sync.at # "idle"
  <2>1. sync' = [sync EXCEPT !.undisturbed = FALSE]
    BY <1>3 DEF Edited
  <2>2. /\ sync'.at = sync.at /\ sync'.todo = sync.todo /\ sync'.loaded = sync.loaded
        /\ sync'.stale = sync.stale /\ sync'.drifted = sync.drifted /\ ~sync'.undisturbed
    BY <1>1, <2>1 DEF Runs
  <2>3. sync' \in Runs(Seq(ItemsAt(sync'.at)))
    BY <1>1, <2>1, <2>2 DEF Runs
  <2>4. TodoInv'
    BY <2>2 DEF AgentRulesInv, TodoInv, Expected
  <2>. QED
    BY <1>1, <2>2, <2>3, <2>4 DEF AgentRulesInv, AgentRulesTypeInv, LoadedInv, FilesInv, CompletedIsCurrent
<1>. QED
  BY <1>2, <1>3

LEMMA EditRuleStep ==
  ASSUME AgentRulesInv, EditRule
  PROVE  AgentRulesInv'
<1>1. AgentRulesTypeInv
  BY DEF AgentRulesInv
<1>2. PICK rule \in Rules, content \in RuleFiles : rules' = [rules EXCEPT ![rule] = content]
  BY DEF EditRule
<1>3. rules' \in [Rules -> RuleFiles] /\ files' = files
  BY <1>1, <1>2 DEF EditRule, AgentRulesTypeInv
<1>. QED
  BY <1>1, <1>3, EditedStep DEF EditRule, AgentRulesTypeInv

LEMMA EditGeneratedStep ==
  ASSUME AgentRulesInv, EditGenerated
  PROVE  AgentRulesInv'
<1>1. AgentRulesTypeInv /\ Edited /\ rules' = rules
  BY DEF AgentRulesInv, EditGenerated
<1>2. ToSet(Outputs(InOrder(Rules))) = Paths(Rules)
  BY OutputsListed
<1>3. PICK path \in Paths(Rules) : files' = Holding(path, ByHand) \/ files' = Deleting(path)
  BY <1>2 DEF EditGenerated
<1>4. files' = [p \in DOMAIN files' |-> files'[p]] /\ DOMAIN files' \subseteq Paths(Rules)
  BY <1>1, <1>3, FileHeld, FileDeleted
<1>. QED
  BY <1>1, <1>4, EditedStep DEF AgentRulesTypeInv

LEMMA AgentRulesNextInv == AgentRulesInv /\ [AgentRulesNext]_agentRules => AgentRulesInv'
BY MainStep, LoadStep, LoadedStep, ScanStep, ScannedStep, DriftStep, CheckedStep, WriteStep,
   WrittenStep, RemoveStep, RemovedStep, DieStep, EditRuleStep, EditGeneratedStep, AgentRulesStutters
   DEF AgentRulesNext

(* Among the edits and the deaths, a run knows which rules it has read and  *)
(* which files it has compared, written or has to remove, for as long as    *)
(* nobody has edited anything since it began.                               *)
THEOREM AgentRulesInvariant == AgentRulesSpec => []AgentRulesInv
<1>1. AgentRulesInit => AgentRulesInv
  BY AgentRulesInitInv
<1>2. AgentRulesInv /\ [AgentRulesNext]_agentRules => AgentRulesInv'
  <2>. SUFFICES ASSUME AgentRulesInv, [AgentRulesNext]_agentRules PROVE AgentRulesInv'
    OBVIOUS
  <2>1. AgentRulesNext \/ UNCHANGED agentRules
    OBVIOUS
  <2>. QED
    BY <2>1, AgentRulesNextInv
<1>. QED
  BY <1>1, <1>2, PTL DEF AgentRulesSpec

(* A sync-agents that ended, or a sync-agents --check that passed, with     *)
(* nothing edited since it began, has seen every instruction file be what   *)
(* the rules say and the generated directories hold nothing else, whatever  *)
(* rules there are and whatever edits and deaths came before it.            *)
THEOREM InstructionsAreCurrent == AgentRulesSpec => []CompletedIsCurrent
<1>1. AgentRulesInv => CompletedIsCurrent
  BY DEF AgentRulesInv
<1>. QED
  BY <1>1, AgentRulesInvariant, PTL
=============================================================================
