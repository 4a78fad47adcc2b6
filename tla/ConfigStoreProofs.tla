-------------------------- MODULE ConfigStoreProofs --------------------------
(***************************************************************************)
(* Theorems about ConfigStore, for any number of processes, applications,  *)
(* levels, themes and windows, any bounds, and whether or not writes fail. *)
(***************************************************************************)
EXTENDS ConfigStore, TLAPS

Tasks == {"off", "failed", "seed", "load", "reload", "idle", "theme", "window", "suite"}
Part == Layer \cup {"got"}
Content == Level \cup AppConfig \cup {Absent, Empty, Torn}

TypeOK ==
  /\ disk \in [File -> Content]
  /\ \A f \in File : disk[f] \in Values(f) \cup {Absent, Empty, Torn}
  /\ task \in [Proc -> Tasks]
  /\ pc \in [Proc -> {"exists", "read", "open", "fill"}]
  /\ at \in [Proc -> Layer]
  /\ buf \in [Proc -> Level \cup AppConfig \cup {Nothing}]
  /\ got \in [Proc -> Level \cup {Nothing}]
  /\ mem \in [Proc -> Resolved]
  /\ known \in [Proc -> SUBSET Part]
  /\ found \in [Proc -> SUBSET File]
  /\ boots \in [Proc -> Nat] /\ updates \in [Proc -> Nat] /\ edits \in Nat

(* Which calls belong to which task, and what it holds by then.             *)
Updating(p) == task[p] \in {"theme", "window", "suite"}
Writing(p) == pc[p] \in {"open", "fill"}
Phase(p) ==
  /\ pc[p] = "read" => Loading(p)
  /\ Writing(p) => (task[p] = "seed" \/ Updating(p)) /\ buf[p] \in Values(Path(p))
  /\ Updating(p) => Writing(p)
  /\ Loading(p) /\ at[p] = "app" => got[p] \in Level
  /\ task[p] = "off" => known[p] = {}
PhaseInv == \A p \in Proc : Phase(p)

(* An update under way has been validated, whatever becomes of the write.   *)
Valid(p) ==
  /\ Running(p) => Validates(mem[p])
  /\ Updating(p) => Validates([mem[p] EXCEPT ![at[p]] = buf[p]])
ValidInv == \A p \in Proc : Valid(p)

(* What a process that runs knows to be current is, and so is, while it     *)
(* loads, the layer it has read.                                            *)
InUse(p) == task[p] \in {"idle", "reload"} \/ Updating(p)
Known(p) ==
  /\ InUse(p) => \A l \in known[p] \cap Layer : mem[p][l] = Meaning(PathOf(p, l))
  /\ "got" \in known[p] => Loading(p) /\ at[p] = "app" /\ got[p] = Meaning(Suite)
KnownInv == \A p \in Proc : Known(p)

(* A file that has been there since a process started is there.             *)
FoundInv == \A p \in Proc : \A f \in found[p] : disk[f] # Absent

IInv == TypeOK /\ PhaseInv /\ ValidInv /\ KnownInv /\ FoundInv /\ SeedsOnlyMissingFiles
-----------------------------------------------------------------------------
(* The two layers of a process are in two files.                            *)
LEMMA Paths ==
  ASSUME TypeOK, NEW p \in Proc
  PROVE  /\ AppOf[p] \in App /\ AppOf[p] # Suite
         /\ Path(p) \in File
         /\ at[p] = "suite" => Path(p) = Suite
         /\ at[p] = "app" => Path(p) = AppOf[p]
         /\ \A l \in Layer : PathOf(p, l) \in File
BY ConfigAssumption DEF TypeOK, Path, PathOf, File, Layer

(* The files' values and the markers for their absence differ.              *)
LEMMA Contents ==
  ASSUME NEW f \in File
  PROVE  /\ Default(f) \in Values(f)
         /\ Absent \notin Values(f) /\ Empty \notin Values(f) /\ Torn \notin Values(f)
         /\ Nothing \notin Values(f)
         /\ Values(f) \subseteq Level \cup AppConfig
         /\ Absent # Empty /\ Absent # Torn
<1>1. DefaultLevel \in Level /\ [theme |-> NoTheme, window |-> DefaultWindow] \in AppConfig
  BY ConfigAssumption DEF AppConfig
<1>. QED
  BY <1>1, ConfigAssumption DEF Default, Values

(* What a file that can be read means is a value of it.                     *)
LEMMA MeaningType ==
  ASSUME TypeOK, NEW f \in File, disk[f] # Torn
  PROVE  Meaning(f) \in Values(f)
BY Contents DEF TypeOK, Meaning

LEMMA CandidateType ==
  ASSUME TypeOK, PhaseInv, NEW p \in Proc, Obtains(p), at[p] = "app"
  PROVE  /\ Candidate(p) \in Resolved
         /\ Candidate(p).suite = got[p] /\ Candidate(p).app = Meaning(AppOf[p])
<1>1. got[p] \in Level
  BY DEF Obtains, PhaseInv, Phase
<1>2. disk[AppOf[p]] # Torn /\ AppOf[p] \in File /\ AppOf[p] # Suite
  BY Paths, ConfigAssumption DEF Obtains, File
<1>3. Meaning(AppOf[p]) \in AppConfig
  BY <1>2, MeaningType DEF Values
<1>. QED
  BY <1>1, <1>3 DEF Candidate, Resolved

(* A layer replaced by a value of its file.                                 *)
LEMMA Replaced ==
  ASSUME NEW c \in Resolved, NEW l \in Layer, NEW v,
         l = "suite" => v \in Level, l = "app" => v \in AppConfig
  PROVE  /\ [c EXCEPT ![l] = v] \in Resolved
         /\ [c EXCEPT ![l] = v][l] = v
         /\ \A k \in Layer \ {l} : [c EXCEPT ![l] = v][k] = c[k]
<1>1. CASE l = "suite"
  BY <1>1 DEF Resolved, Layer
<1>2. CASE l = "app"
  BY <1>2 DEF Resolved, Layer
<1>. QED
  BY <1>1, <1>2 DEF Layer

(* What is being written is a value of its file.                            *)
LEMMA Written ==
  ASSUME TypeOK, PhaseInv, NEW p \in Proc, Writing(p)
  PROVE  /\ buf[p] \in Values(Path(p))
         /\ at[p] = "suite" => buf[p] \in Level
         /\ at[p] = "app" => buf[p] \in AppConfig
BY Paths DEF PhaseInv, Phase, Values
-----------------------------------------------------------------------------
(* The three updates write a value of their layer's file.                   *)
LEMMA UpdateSteps ==
  ASSUME TypeOK, NEW p \in Proc,
         \/ \E t \in Theme : SetTheme(p, t)
         \/ \E w \in Window : PersistGeometry(p, w)
         \/ \E s \in Level : UpdateSuite(p, s)
  PROVE  \E t \in {"theme", "window", "suite"} : \E l \in Layer : \E v \in Level \cup AppConfig :
           /\ l = "suite" => v \in Level
           /\ l = "app" => v \in AppConfig
           /\ Update(p, t, l, v)
<1>1. mem[p] \in Resolved /\ mem[p].app \in AppConfig
  BY DEF TypeOK, Resolved
<1>2. ASSUME NEW t \in Theme PROVE [mem[p].app EXCEPT !.theme = t] \in AppConfig
  BY <1>1 DEF AppConfig
<1>3. ASSUME NEW w \in Window PROVE [mem[p].app EXCEPT !.window = w] \in AppConfig
  BY <1>1 DEF AppConfig
<1>. QED
  BY <1>2, <1>3 DEF SetTheme, PersistGeometry, UpdateSuite, Layer

(* Writing a file keeps the types of the disk and of what is known.         *)
LEMMA WritesType ==
  ASSUME TypeOK, NEW p \in Proc, NEW c \in Values(Path(p)) \cup {Empty, Torn, disk[Path(p)]},
         NEW current \in BOOLEAN, Writes(p, c, current)
  PROVE  /\ disk' \in [File -> Content]
         /\ \A f \in File : disk'[f] \in Values(f) \cup {Absent, Empty, Torn}
         /\ known' \in [Proc -> SUBSET Part]
<1>1. Path(p) \in File
  BY Paths
<1>2. c \in Content /\ c \in Values(Path(p)) \cup {Absent, Empty, Torn}
  BY <1>1, Contents DEF TypeOK, Content
<1>3. /\ disk' = [disk EXCEPT ![Path(p)] = c]
      /\ known' = [q \in Proc |->
            {l \in known[q] : PathOf(q, l) # Path(p)}
              \cup (IF q = p /\ current THEN {at[q]} ELSE {})]
  BY DEF Writes
<1>4. known' \in [Proc -> SUBSET Part]
  BY <1>3 DEF TypeOK, Part
<1>. QED
  BY <1>1, <1>2, <1>3, <1>4 DEF TypeOK

LEMMA FilledType ==
  ASSUME TypeOK, PhaseInv, NEW p \in Proc, pc[p] = "fill", NEW c \in Filled(p)
  PROVE  c \in Values(Path(p)) \cup {Empty, Torn, disk[Path(p)]}
BY Written DEF Filled, Writing

LEMMA TypeStep ==
  ASSUME TypeOK, PhaseInv, [Next]_vars
  PROVE  TypeOK'
<1>. USE DEF TypeOK, Tasks, Part, Layer, GoTo, control, history, counters
<1>1. ASSUME NEW p \in Proc, Boot(p) PROVE TypeOK'
  <2>1. {f \in File : disk[f] # Absent} \in SUBSET File
    OBVIOUS
  <2>. QED
    BY <1>1, <2>1 DEF Boot
<1>2. ASSUME NEW p \in Proc, SeedFound(p) PROVE TypeOK'
  BY <1>2 DEF SeedFound, SeedNext
<1>3. ASSUME NEW p \in Proc, SeedMissing(p) PROVE TypeOK'
  <2>1. Default(Path(p)) \in Level \cup AppConfig
    BY Paths, Contents
  <2>. QED
    BY <1>3, <2>1 DEF SeedMissing
<1>4. ASSUME NEW p \in Proc, FoundToRead(p) PROVE TypeOK'
  BY <1>4 DEF FoundToRead
<1>5. ASSUME NEW p \in Proc, LoadSuite(p) PROVE TypeOK'
  <2>1. Suite \in File /\ disk[Suite] # Torn
    BY <1>5, Paths, ConfigAssumption DEF LoadSuite, Obtains, File
  <2>2. Meaning(Suite) \in Level
    BY <2>1, MeaningType DEF Values
  <2>. QED
    BY <1>5, <2>2 DEF LoadSuite, Loading, Obtains
<1>6. ASSUME NEW p \in Proc, LoadApp(p) PROVE TypeOK'
  BY <1>6, CandidateType DEF LoadApp
<1>7. ASSUME NEW p \in Proc, LoadFails(p) PROVE TypeOK'
  BY <1>7 DEF LoadFails
<1>8. ASSUME NEW p \in Proc, Reload(p) PROVE TypeOK'
  BY <1>8 DEF Reload
<1>9. ASSUME NEW p \in Proc, NEW t \in {"theme", "window", "suite"}, NEW l \in Layer,
             NEW v \in Level \cup AppConfig, Update(p, t, l, v)
      PROVE  TypeOK'
  BY <1>9 DEF Update
<1>10. ASSUME NEW p \in Proc, Truncate(p) PROVE TypeOK'
  BY <1>10, WritesType DEF Truncate
<1>11. ASSUME NEW p \in Proc, Fill(p) PROVE TypeOK'
  <2>1. PICK c \in Filled(p) : Writes(p, c, c = buf[p])
    BY <1>11 DEF Fill
  <2>2. /\ disk' \in [File -> Content]
        /\ \A f \in File : disk'[f] \in Values(f) \cup {Absent, Empty, Torn}
        /\ known' \in [Proc -> SUBSET Part]
    BY <1>11, <2>1, FilledType, WritesType DEF Fill
  <2>3. CASE task[p] = "seed"
    <3>1. /\ task' \in [Proc -> Tasks] /\ pc' \in [Proc -> {"exists", "read", "open", "fill"}]
          /\ at' \in [Proc -> Layer] /\ found' \in [Proc -> SUBSET File]
      <4>1. SeedNext(p)
        BY <1>11, <2>3 DEF Fill
      <4>. QED
        BY <4>1 DEF SeedNext
    <3>2. buf' = [buf EXCEPT ![p] = Nothing] /\ UNCHANGED <<mem, got, boots, updates, edits>>
      BY <1>11, <2>3 DEF Fill
    <3>. QED
      BY <2>2, <3>1, <3>2
  <2>4. CASE task[p] # "seed"
    <3>1. mem' = [mem EXCEPT ![p] = [mem[p] EXCEPT ![at[p]] = buf[p]]]
      BY <1>11, <2>4 DEF Fill
    <3>2. [mem[p] EXCEPT ![at[p]] = buf[p]] \in Resolved
      BY <1>11, Written, Replaced DEF Fill, Writing
    <3>. QED
      BY <1>11, <2>2, <2>4, <3>1, <3>2 DEF Fill
  <2>. QED
    BY <2>3, <2>4
<1>12. ASSUME NEW p \in Proc, WriteFails(p) PROVE TypeOK'
  <2>1. /\ disk' \in [File -> Content]
        /\ \A f \in File : disk'[f] \in Values(f) \cup {Absent, Empty, Torn}
        /\ known' \in [Proc -> SUBSET Part]
    BY <1>12, WritesType DEF WriteFails
  <2>. QED
    BY <1>12, <2>1 DEF WriteFails
<1>13. ASSUME NEW p \in Proc, Exit(p) PROVE TypeOK'
  <2>1. DefaultResolved \in Resolved
    BY Contents, ConfigAssumption DEF DefaultResolved, Resolved, Values, File
  <2>. QED
    BY <1>13, <2>1 DEF Exit
<1>14. ASSUME NEW f \in File, NEW c \in Values(f) \cup {Absent, Torn}, HandEdit(f, c)
       PROVE  TypeOK'
  <2>1. c \in Content
    BY Contents DEF Content
  <2>2. known' \in [Proc -> SUBSET Part] /\ found' \in [Proc -> SUBSET File]
    BY <1>14 DEF HandEdit
  <2>. QED
    BY <1>14, <2>1, <2>2 DEF HandEdit
<1>15. CASE UNCHANGED vars
  BY <1>15 DEF vars
<1>. QED
  BY <1>1, <1>2, <1>3, <1>4, <1>5, <1>6, <1>7, <1>8, <1>9, <1>10, <1>11, <1>12, <1>13, <1>14, <1>15, UpdateSteps
  DEF Next, Step
-----------------------------------------------------------------------------
(* The calls and locals of a task stay together.                            *)
LEMMA PhaseStep ==
  ASSUME TypeOK, PhaseInv, [Next]_vars
  PROVE  PhaseInv'
<1>. SUFFICES ASSUME NEW q \in Proc PROVE Phase(q)'
  BY DEF PhaseInv
<1>0. Phase(q) /\ TypeOK'
  BY TypeStep DEF PhaseInv
<1>. USE <1>0 DEF TypeOK, Phase, Writing, Updating, Loading, Path, GoTo, control, history, counters
<1>1. ASSUME NEW p \in Proc, Boot(p) PROVE Phase(q)'
  BY <1>1 DEF Boot
<1>2. ASSUME NEW p \in Proc, SeedFound(p) PROVE Phase(q)'
  BY <1>2 DEF SeedFound, SeedNext, Layer
<1>3. ASSUME NEW p \in Proc, SeedMissing(p) PROVE Phase(q)'
  <2>1. Default(Path(p)) \in Values(Path(p))
    BY Paths, Contents
  <2>. QED
    BY <1>3, <2>1 DEF SeedMissing
<1>4. ASSUME NEW p \in Proc, FoundToRead(p) PROVE Phase(q)'
  BY <1>4 DEF FoundToRead
<1>5. ASSUME NEW p \in Proc, LoadSuite(p) PROVE Phase(q)'
  <2>1. Suite \in File /\ disk[Suite] # Torn
    BY <1>5, Paths, ConfigAssumption DEF LoadSuite, Obtains, File
  <2>2. Meaning(Suite) \in Level
    BY <2>1, MeaningType DEF Values
  <2>. QED
    BY <1>5, <2>2 DEF LoadSuite, Obtains
<1>6. ASSUME NEW p \in Proc, LoadApp(p) PROVE Phase(q)'
  BY <1>6 DEF LoadApp
<1>7. ASSUME NEW p \in Proc, LoadFails(p) PROVE Phase(q)'
  BY <1>7 DEF LoadFails
<1>8. ASSUME NEW p \in Proc, Reload(p) PROVE Phase(q)'
  BY <1>8 DEF Reload
<1>9. ASSUME NEW p \in Proc, NEW t \in {"theme", "window", "suite"}, NEW l \in Layer, NEW v,
             l = "suite" => v \in Level, l = "app" => v \in AppConfig, Update(p, t, l, v)
      PROVE  Phase(q)'
  <2>1. v \in Values(PathOf(p, l))
    BY ConfigAssumption, <1>9 DEF Values, PathOf, Layer
  <2>. QED
    BY <1>9, <2>1 DEF Update
<1>10. ASSUME NEW p \in Proc, Truncate(p) PROVE Phase(q)'
  BY <1>10 DEF Truncate, Writes
<1>11. ASSUME NEW p \in Proc, Fill(p) PROVE Phase(q)'
  BY <1>11 DEF Fill, SeedNext, Writes
<1>12. ASSUME NEW p \in Proc, WriteFails(p) PROVE Phase(q)'
  BY <1>12 DEF WriteFails, Writes
<1>13. ASSUME NEW p \in Proc, Exit(p) PROVE Phase(q)'
  BY <1>13 DEF Exit
<1>14. ASSUME NEW f \in File, NEW c \in Values(f) \cup {Absent, Torn}, HandEdit(f, c)
       PROVE  Phase(q)'
  BY <1>14 DEF HandEdit
<1>15. CASE UNCHANGED vars
  BY <1>15 DEF vars
<1>. QED
  BY <1>1, <1>2, <1>3, <1>4, <1>5, <1>6, <1>7, <1>8, <1>9, <1>10, <1>11, <1>12, <1>13, <1>14, <1>15, UpdateSteps
  DEF Next, Step
-----------------------------------------------------------------------------
(* Only an edit by hand removes a file, and it is then no longer among the  *)
(* files found.                                                             *)
LEMMA FoundStep ==
  ASSUME TypeOK, PhaseInv, FoundInv, [Next]_vars
  PROVE  FoundInv'
<1>. SUFFICES ASSUME NEW q \in Proc, NEW g \in found'[q] PROVE disk'[g] # Absent
  BY DEF FoundInv
<1>. USE DEF TypeOK, FoundInv, counters, history
<1>1. ASSUME NEW p \in Proc, Boot(p) PROVE disk'[g] # Absent
  BY <1>1 DEF Boot
<1>2. ASSUME UNCHANGED disk, found'[q] \subseteq found[q] PROVE disk'[g] # Absent
  BY <1>2
<1>3. ASSUME NEW p \in Proc, NEW c, NEW current, Writes(p, c, current),
             c # Absent \/ c = disk[Path(p)], found'[q] \subseteq found[q]
      PROVE  disk'[g] # Absent
  BY <1>3, Paths DEF Writes
<1>4. ASSUME NEW p \in Proc, SeedNext(p) PROVE found'[q] \subseteq found[q]
  BY <1>4 DEF SeedNext
<1>5. ASSUME NEW p \in Proc, Truncate(p) PROVE disk'[g] # Absent
  BY <1>3, <1>5, Paths, Contents DEF Truncate
<1>6. ASSUME NEW p \in Proc, Fill(p) PROVE disk'[g] # Absent
  <2>1. PICK c \in Filled(p) : Writes(p, c, c = buf[p])
    BY <1>6 DEF Fill
  <2>2. c # Absent
    BY <1>6, <2>1, Written, Paths, Contents DEF Fill, Filled, Writing
  <2>3. found'[q] \subseteq found[q]
    BY <1>4, <1>6 DEF Fill
  <2>. QED
    BY <1>3, <2>1, <2>2, <2>3
<1>7. ASSUME NEW p \in Proc, WriteFails(p) PROVE disk'[g] # Absent
  <2>1. CASE \E c \in {disk[Path(p)], Torn} : Writes(p, c, FALSE)
    BY <1>3, <1>7, <2>1, Paths, Contents DEF WriteFails
  <2>2. CASE UNCHANGED disk
    BY <1>2, <1>7, <2>2 DEF WriteFails
  <2>. QED
    BY <1>7, <2>1, <2>2 DEF WriteFails
<1>8. ASSUME NEW f \in File, NEW c \in Values(f) \cup {Absent, Torn}, HandEdit(f, c)
      PROVE  disk'[g] # Absent
  BY <1>8, Contents DEF HandEdit
<1>9. ASSUME NEW p \in Proc,
             \/ SeedFound(p) \/ SeedMissing(p) \/ FoundToRead(p) \/ LoadSuite(p) \/ LoadApp(p)
             \/ LoadFails(p) \/ Reload(p) \/ Exit(p)
             \/ \E t, l, v : Update(p, t, l, v)
      PROVE  UNCHANGED disk /\ found'[q] \subseteq found[q]
  BY <1>4, <1>9 DEF SeedFound, SeedMissing, FoundToRead, LoadSuite, LoadApp, LoadFails, Reload, Exit, Update
<1>10. CASE UNCHANGED vars
  BY <1>2, <1>10 DEF vars
<1>11. ASSUME NEW p \in Proc, Step(p) PROVE disk'[g] # Absent
  BY <1>1, <1>2, <1>5, <1>6, <1>7, <1>9, <1>11, UpdateSteps DEF Step
<1>. QED
  BY <1>8, <1>10, <1>11 DEF Next

(* Seeding writes only where it found no file.                              *)
LEMMA SeedStep ==
  ASSUME TypeOK, PhaseInv, FoundInv, SeedsOnlyMissingFiles, [Next]_vars
  PROVE  SeedsOnlyMissingFiles'
<1>. SUFFICES ASSUME NEW q \in Proc, task'[q] = "seed", pc'[q] \in {"open", "fill"}
              PROVE  Path(q)' \notin found'[q]
  BY DEF SeedsOnlyMissingFiles
<1>. USE DEF TypeOK, SeedsOnlyMissingFiles, GoTo, Path, counters, history, control
<1>1. ASSUME NEW p \in Proc, SeedMissing(p) PROVE Path(q)' \notin found'[q]
  BY <1>1 DEF SeedMissing, IsMissing, FoundInv
<1>2. ASSUME NEW p \in Proc,
             \/ Boot(p) \/ SeedFound(p) \/ FoundToRead(p) \/ LoadSuite(p) \/ LoadApp(p)
             \/ LoadFails(p) \/ Reload(p) \/ Exit(p)
      PROVE  Path(q)' \notin found'[q]
  BY <1>2 DEF Boot, SeedFound, SeedNext, FoundToRead, LoadSuite, LoadApp, LoadFails, Reload, Exit, Loading
<1>3. ASSUME NEW p \in Proc, NEW t \in {"theme", "window", "suite"}, NEW l, NEW v, Update(p, t, l, v)
      PROVE  Path(q)' \notin found'[q]
  BY <1>3 DEF Update
<1>4. ASSUME NEW p \in Proc, Truncate(p) PROVE Path(q)' \notin found'[q]
  BY <1>4 DEF Truncate
<1>5. ASSUME NEW p \in Proc, Fill(p) PROVE Path(q)' \notin found'[q]
  BY <1>5 DEF Fill, SeedNext
<1>6. ASSUME NEW p \in Proc, WriteFails(p) PROVE Path(q)' \notin found'[q]
  BY <1>6 DEF WriteFails
<1>7. ASSUME NEW f \in File, NEW c \in Values(f) \cup {Absent, Torn}, HandEdit(f, c)
      PROVE  Path(q)' \notin found'[q]
  BY <1>7 DEF HandEdit
<1>8. CASE UNCHANGED vars
  BY <1>8 DEF vars
<1>. QED
  BY <1>1, <1>2, <1>3, <1>4, <1>5, <1>6, <1>7, <1>8, UpdateSteps DEF Next, Step
-----------------------------------------------------------------------------
(* Every way into memory goes through validate: at once for what is loaded, *)
(* before the write for what an update keeps after it.                      *)
LEMMA ValidStep ==
  ASSUME TypeOK, PhaseInv, ValidInv, [Next]_vars
  PROVE  ValidInv'
<1>. SUFFICES ASSUME NEW q \in Proc PROVE Valid(q)'
  BY DEF ValidInv
<1>0. Valid(q) /\ Phase(q)
  BY DEF ValidInv, PhaseInv
<1>. USE <1>0 DEF TypeOK, Phase, Valid, Running, Updating, Writing, GoTo, control, history, counters
<1>1. ASSUME NEW p \in Proc,
             \/ Boot(p) \/ SeedFound(p) \/ SeedMissing(p) \/ FoundToRead(p) \/ Reload(p) \/ Exit(p)
      PROVE  Valid(q)'
  BY <1>1 DEF Boot, SeedFound, SeedNext, SeedMissing, FoundToRead, Loading, Reload, Exit
<1>2. ASSUME NEW p \in Proc, LoadSuite(p) PROVE Valid(q)'
  BY <1>2 DEF LoadSuite, Obtains, Loading
<1>3. ASSUME NEW p \in Proc, LoadApp(p) PROVE Valid(q)'
  BY <1>3 DEF LoadApp
<1>4. ASSUME NEW p \in Proc, LoadFails(p) PROVE Valid(q)'
  BY <1>4 DEF LoadFails, Loading
<1>5. ASSUME NEW p \in Proc, NEW t \in {"theme", "window", "suite"}, NEW l \in Layer, NEW v,
             Update(p, t, l, v)
      PROVE  Valid(q)'
  BY <1>5 DEF Update
<1>6. ASSUME NEW p \in Proc, Truncate(p) PROVE Valid(q)'
  BY <1>6 DEF Truncate
<1>7. ASSUME NEW p \in Proc, Fill(p) PROVE Valid(q)'
  <2>1. CASE task[p] = "seed"
    <3>1. UNCHANGED mem /\ task'[p] \in {"seed", "load"}
      BY <1>7, <2>1 DEF Fill, SeedNext
    <3>2. q # p => task'[q] = task[q] /\ at'[q] = at[q] /\ pc'[q] = pc[q] /\ buf'[q] = buf[q]
      BY <1>7, <2>1 DEF Fill, SeedNext
    <3>3. CASE q = p
      BY <2>1, <3>1, <3>3
    <3>4. CASE q # p
      BY <3>1, <3>2, <3>4
    <3>. QED
      BY <3>3, <3>4
  <2>2. CASE task[p] # "seed"
    <3>1. Validates([mem[p] EXCEPT ![at[p]] = buf[p]])
      BY <1>7, <2>2 DEF Fill, ValidInv, PhaseInv
    <3>2. /\ mem' = [mem EXCEPT ![p] = [mem[p] EXCEPT ![at[p]] = buf[p]]]
          /\ task' = [task EXCEPT ![p] = "idle"]
      BY <1>7, <2>2 DEF Fill
    <3>3. q # p => at'[q] = at[q] /\ buf'[q] = buf[q]
      BY <1>7, <2>2 DEF Fill
    <3>. QED
      BY <3>1, <3>2, <3>3
  <2>. QED
    BY <2>1, <2>2
<1>8. ASSUME NEW p \in Proc, WriteFails(p) PROVE Valid(q)'
  BY <1>8 DEF WriteFails, PhaseInv
<1>9. ASSUME NEW f \in File, NEW c \in Values(f) \cup {Absent, Torn}, HandEdit(f, c)
      PROVE  Valid(q)'
  BY <1>9 DEF HandEdit
<1>10. CASE UNCHANGED vars
  BY <1>10 DEF vars
<1>. QED
  BY <1>1, <1>2, <1>3, <1>4, <1>5, <1>6, <1>7, <1>8, <1>9, <1>10, UpdateSteps DEF Next, Step
-----------------------------------------------------------------------------
(* What stays known after a write has kept its meaning, except the layer    *)
(* that was written with what will be in memory.                            *)
LEMMA WritesKnown ==
  ASSUME TypeOK, NEW p \in Proc, NEW c, NEW current, Writes(p, c, current),
         NEW q \in Proc, NEW l \in known'[q], ~(q = p /\ current /\ l = at[p])
  PROVE  l \in known[q] /\ Meaning(PathOf(q, l))' = Meaning(PathOf(q, l))
<1>1. l \in known[q] /\ l \in Part /\ PathOf(q, l) # Path(p)
  BY DEF Writes, TypeOK
<1>2. disk'[PathOf(q, l)] = disk[PathOf(q, l)]
  BY <1>1, Paths DEF Writes, TypeOK
<1>. QED
  BY <1>1, <1>2 DEF Meaning, PathOf

(* A file that is filled with what was to be written means just that.       *)
LEMMA FillMeaning ==
  ASSUME TypeOK, PhaseInv, NEW p \in Proc, Writing(p), NEW f, f = Path(p),
         NEW current, Writes(p, buf[p], current)
  PROVE  Meaning(f)' = buf[p]
<1>1. f \in File /\ buf[p] \notin {Absent, Empty}
  BY Paths, Written, Contents
<1>. QED
  BY <1>1 DEF Writes, Meaning, TypeOK

(* What is known to be current stays so until somebody else changes it.     *)
LEMMA KnownStep ==
  ASSUME TypeOK, PhaseInv, KnownInv, [Next]_vars
  PROVE  KnownInv'
<1>. SUFFICES ASSUME NEW q \in Proc PROVE Known(q)'
  BY DEF KnownInv
<1>0. Known(q) /\ Phase(q)
  BY DEF KnownInv, PhaseInv
<1>. USE <1>0 DEF TypeOK, Known, InUse, Phase, Updating, Writing, Loading, GoTo, control, history, counters
<1>1. ASSUME NEW p \in Proc, UNCHANGED <<disk, mem, got, known>>,
             \/ Boot(p) \/ SeedFound(p) \/ SeedMissing(p) \/ FoundToRead(p) \/ Reload(p)
             \/ \E t \in {"theme", "window", "suite"} : \E l, v : Update(p, t, l, v)
      PROVE  Known(q)'
  <2>1. \A l : Meaning(PathOf(q, l))' = Meaning(PathOf(q, l)) /\ Meaning(Suite)' = Meaning(Suite)
    BY <1>1 DEF Meaning, PathOf
  <2>2. CASE q # p
    <3>1. UNCHANGED <<task[q], at[q]>>
      BY <1>1, <2>2 DEF Boot, SeedFound, SeedNext, SeedMissing, FoundToRead, Reload, Update
    <3>. QED
      BY <1>1, <2>1, <3>1
  <2>3. CASE q = p /\ (Boot(p) \/ SeedFound(p) \/ SeedMissing(p))
    BY <2>3 DEF Boot, SeedFound, SeedNext, SeedMissing
  <2>4. CASE q = p /\ (FoundToRead(p) \/ Reload(p) \/ \E t \in {"theme", "window", "suite"} : \E l, v : Update(p, t, l, v))
    <3>1. InUse(q)' => InUse(q)
      BY <2>4 DEF FoundToRead, Reload, Update
    <3>2. Loading(q) /\ at[q] = "app" => (Loading(q) /\ at[q] = "app")'
      BY <2>4 DEF FoundToRead, Reload, Update
    <3>. QED
      BY <1>1, <2>1, <3>1, <3>2
  <2>. QED
    BY <1>1, <2>2, <2>3, <2>4
<1>2. ASSUME NEW p \in Proc, LoadSuite(p) PROVE Known(q)'
  BY <1>2 DEF LoadSuite, Obtains, Meaning, PathOf, Layer
<1>3. ASSUME NEW p \in Proc, LoadApp(p) PROVE Known(q)'
  <2>1. "got" \in known[p] => got[p] = Meaning(Suite)
    BY DEF KnownInv
  <2>2. /\ mem'[p].suite = got[p] /\ mem'[p].app = Meaning(AppOf[p])
        /\ known'[p] = (IF "got" \in known[p] THEN {"suite", "app"} ELSE {"app"})
        /\ disk' = disk
    BY <1>3, CandidateType DEF LoadApp
  <2>3. CASE q = p
    <3>1. ASSUME NEW l \in known'[p] PROVE mem'[p][l] = Meaning(PathOf(p, l))
      BY <2>1, <2>2 DEF PathOf
    <3>2. \A l : Meaning(PathOf(p, l))' = Meaning(PathOf(p, l))
      BY <2>2 DEF Meaning, PathOf
    <3>. QED
      BY <1>3, <2>3, <3>1, <3>2 DEF LoadApp
  <2>4. CASE q # p
    BY <1>3, <2>4 DEF LoadApp, Meaning, PathOf
  <2>. QED
    BY <2>3, <2>4
<1>4. ASSUME NEW p \in Proc, LoadFails(p) \/ Exit(p) PROVE Known(q)'
  BY <1>4 DEF LoadFails, Exit, Meaning, PathOf
<1>5. ASSUME NEW p \in Proc, NEW c, Writes(p, c, FALSE), UNCHANGED <<mem, got>>,
             InUse(q)' => InUse(q),
             Loading(q) /\ at[q] = "app" => (Loading(q) /\ at[q] = "app")'
      PROVE  Known(q)'
  <2>1. ASSUME NEW l \in known'[q]
        PROVE  l \in known[q] /\ Meaning(PathOf(q, l))' = Meaning(PathOf(q, l))
    BY <1>5, WritesKnown
  <2>2. "got" \in known'[q] => "got" \in known[q] /\ Meaning(Suite)' = Meaning(Suite)
    BY <2>1 DEF PathOf
  <2>. QED
    BY <1>5, <2>1, <2>2
<1>6. ASSUME NEW p \in Proc, Truncate(p) PROVE Known(q)'
  BY <1>5, <1>6 DEF Truncate
<1>7. ASSUME NEW p \in Proc, WriteFails(p) PROVE Known(q)'
  <2>1. CASE \E c \in {disk[Path(p)], Torn} : Writes(p, c, FALSE)
    BY <1>5, <1>7, <2>1 DEF WriteFails
  <2>2. CASE UNCHANGED <<disk, known>>
    BY <1>7, <2>2 DEF WriteFails, Meaning, PathOf
  <2>. QED
    BY <1>7, <2>1, <2>2 DEF WriteFails
<1>8. ASSUME NEW p \in Proc, Fill(p) PROVE Known(q)'
  <2>1. PICK c \in Filled(p) : Writes(p, c, c = buf[p])
    BY <1>8 DEF Fill
  <2>2. CASE q # p
    <3>1. UNCHANGED <<task[q], at[q], mem[q], got[q]>>
      BY <1>8, <2>2 DEF Fill, SeedNext
    <3>2. \A l \in known'[q] : l \in known[q] /\ Meaning(PathOf(q, l))' = Meaning(PathOf(q, l))
      BY <2>1, <2>2, WritesKnown
    <3>3. "got" \in known'[q] => "got" \in known[q] /\ Meaning(Suite)' = Meaning(Suite)
      BY <3>2 DEF PathOf
    <3>. QED
      BY <3>1, <3>2, <3>3
  <2>3. CASE q = p /\ task[p] = "seed"
    <3>1. "got" \notin known'[p]
      BY <1>8, <2>1, <2>3 DEF Writes, Layer
    <3>. QED
      BY <1>8, <2>3, <3>1 DEF Fill, SeedNext
  <2>4. CASE q = p /\ task[p] # "seed"
    <3>1. /\ task'[p] = "idle" /\ at[p] \in Layer /\ mem[p] \in Resolved
          /\ mem'[p] = [mem[p] EXCEPT ![at[p]] = buf[p]]
      BY <1>8, <2>4 DEF Fill
    <3>2. /\ mem'[p][at[p]] = buf[p]
          /\ \A l \in Layer \ {at[p]} : mem'[p][l] = mem[p][l]
      <4>1. /\ at[p] = "suite" => buf[p] \in Level
            /\ at[p] = "app" => buf[p] \in AppConfig
        BY <1>8, Written DEF Fill
      <4>2. /\ [mem[p] EXCEPT ![at[p]] = buf[p]][at[p]] = buf[p]
            /\ \A l \in Layer \ {at[p]} : [mem[p] EXCEPT ![at[p]] = buf[p]][l] = mem[p][l]
        BY <3>1 DEF Resolved, Layer
      <4>. QED
        BY <3>1, <4>2
    <3>3. ASSUME NEW l \in known'[p] \cap Layer, l = at[p], c = buf[p]
          PROVE  Meaning(PathOf(p, l))' = buf[p]
      <4>1. Writes(p, buf[p], c = buf[p])
        BY <2>1, <3>3
      <4>. QED
        BY <1>8, <3>3, <4>1, FillMeaning DEF Path, PathOf, Fill
    <3>4. ASSUME NEW l \in known'[p] \cap Layer, ~(l = at[p] /\ c = buf[p])
          PROVE  l \in known[p] /\ l # at[p] /\ Meaning(PathOf(p, l))' = Meaning(PathOf(p, l))
      <4>1. l \in known[p] /\ PathOf(p, l) # Path(p)
        BY <2>1, <3>4 DEF Writes
      <4>2. disk'[PathOf(p, l)] = disk[PathOf(p, l)]
        BY <2>1, <4>1, Paths DEF Writes
      <4>3. l # at[p] /\ Meaning(PathOf(p, l))' = Meaning(PathOf(p, l))
        BY <4>1, <4>2 DEF Meaning, PathOf, Path
      <4>. QED
        BY <4>1, <4>3
    <3>5. InUse(p)
      BY <1>8, <2>4 DEF Fill
    <3>6. ASSUME NEW l \in known'[p] \cap Layer PROVE mem'[p][l] = Meaning(PathOf(p, l))'
      <4>1. CASE l = at[p] /\ c = buf[p]
        BY <3>2, <3>3, <4>1
      <4>2. CASE ~(l = at[p] /\ c = buf[p])
        BY <2>4, <3>2, <3>4, <3>5, <4>2
      <4>. QED
        BY <4>1, <4>2
    <3>7. "got" \notin known'[p]
      BY <1>8, <2>1, <2>4 DEF Writes, Fill, Layer
    <3>. QED
      BY <2>4, <3>1, <3>6, <3>7
  <2>. QED
    BY <2>2, <2>3, <2>4
<1>9. ASSUME NEW f \in File, NEW c \in Values(f) \cup {Absent, Torn}, HandEdit(f, c)
      PROVE  Known(q)'
  BY <1>9 DEF HandEdit, Meaning, PathOf
<1>10. CASE UNCHANGED vars
  BY <1>10 DEF vars, Meaning, PathOf
<1>11. ASSUME NEW p \in Proc, Step(p) PROVE Known(q)'
  <2>1. ASSUME \E t \in {"theme", "window", "suite"} : \E l, v : Update(p, t, l, v) PROVE Known(q)'
    BY <1>1, <2>1 DEF Update
  <2>2. ASSUME Boot(p) \/ SeedFound(p) \/ SeedMissing(p) \/ FoundToRead(p) \/ Reload(p) PROVE Known(q)'
    BY <1>1, <2>2 DEF Boot, SeedFound, SeedMissing, FoundToRead, Reload
  <2>. QED
    BY <1>2, <1>3, <1>4, <1>6, <1>7, <1>8, <1>11, <2>1, <2>2, UpdateSteps DEF Step
<1>. QED
  BY <1>9, <1>10, <1>11 DEF Next
-----------------------------------------------------------------------------
(* The drive starts without files and without processes.                    *)
LEMMA InitInv == Init => IInv
<1>1. DefaultResolved \in Resolved
  BY Contents, ConfigAssumption DEF DefaultResolved, Resolved, Values, File
<1>. QED
  BY <1>1, ConfigAssumption
  DEF Init, IInv, TypeOK, PhaseInv, Phase, ValidInv, Valid, KnownInv, Known, FoundInv, Running,
      Updating, Writing, InUse, Loading, SeedsOnlyMissingFiles, Tasks, Content, Layer, File

(* The parts of the invariant are inductive together.                       *)
LEMMA StepInv == IInv /\ [Next]_vars => IInv'
BY TypeStep, PhaseStep, ValidStep, KnownStep, FoundStep, SeedStep DEF IInv

(* The invariant the theorems below are read from.                          *)
THEOREM Invariance == Spec => []IInv
BY InitInv, StepInv, PTL DEF Spec

(* Files, memories and locals hold what their types say, whatever the       *)
(* processes write over each other.                                         *)
THEOREM TypeCorrect == Spec => []TypeOK
BY Invariance, PTL DEF IInv

(* No interleaving of loads, saves, failures and edits puts a process to    *)
(* work with a configuration that validate would refuse.                    *)
THEOREM ConfigurationIsValid == Spec => []ResolvedIsValid
<1>1. IInv => ResolvedIsValid
  BY DEF IInv, ValidInv, Valid, Validates, ResolvedIsValid
<1>. QED
  BY <1>1, Invariance, PTL

(* A process's memory goes stale only by another's write, the user's edit   *)
(* or a write of its own that was cut short.                                *)
THEOREM MemoryStaysCurrent == Spec => []MemoryIsCurrent
<1>1. IInv => MemoryIsCurrent
  <2>. SUFFICES ASSUME IInv, NEW p \in Proc, task[p] = "idle", NEW l \in known[p]
                PROVE  mem[p][l] = Meaning(PathOf(p, l))
    BY DEF MemoryIsCurrent
  <2>1. Known(p) /\ l \in Part
    BY DEF IInv, KnownInv, TypeOK
  <2>2. l \in Layer
    BY <2>1 DEF Known, Loading, Part
  <2>. QED
    BY <2>1, <2>2 DEF Known, InUse
<1>. QED
  BY <1>1, Invariance, PTL

(* Defaults never replace a file that was there when the process started    *)
(* and that nobody has deleted.                                             *)
THEOREM SeedingSparesFiles == Spec => []SeedsOnlyMissingFiles
<1>1. IInv => SeedsOnlyMissingFiles
  BY DEF IInv
<1>. QED
  BY <1>1, Invariance, PTL
=============================================================================
