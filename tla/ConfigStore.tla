---------------------------- MODULE ConfigStore ----------------------------
(***************************************************************************)
(* The configuration of the suite (crates/slate-config/src/store.rs) as    *)
(* the processes of the suite use it (slate-runtime: bootstrap.rs,         *)
(* state.rs, commands/runtime.rs, commands/window.rs): one TOML file for   *)
(* the suite, one per application, read at start and at reload, kept in    *)
(* memory and written back from there.                                     *)
(*                                                                         *)
(* Inside a process the calls are one after the other: SlateState holds    *)
(* the write lock of the store from the copy it edits to the assignment of *)
(* `resolved`.  Between processes nothing is locked, and each call on the  *)
(* file system is a step: exists, read_to_string, and the two halves of    *)
(* std::fs::write, which truncates the file before it fills it.            *)
(***************************************************************************)
EXTENDS Naturals

CONSTANTS
  Proc,           \* processes that may run; an id may start again
  App,            \* application ids, and their configuration files
  Suite,          \* the suite's configuration file
  Launcher,       \* the application that owns the suite's settings
  AppOf,          \* AppOf[p] is the application process p runs
  Level,          \* log levels, standing for the values of a SuiteConfig
  LOG_LEVELS,     \* the levels validate accepts
  DefaultLevel,   \* SuiteConfig::default()
  Theme, NoTheme, \* theme overrides and their absence
  Window,         \* window geometries
  LargeEnough,    \* geometries that are finite and at least 480x360
  DefaultWindow,  \* WindowConfig::default()
  Nothing,        \* a local variable that is not in scope
  Absent,         \* content of a file: there is none
  Empty,          \* truncated, and not filled yet or any more
  Torn,           \* bytes that are not TOML of the schema
  MaxBoots,       \* bound: MaxBoots[p] starts of process p
  MaxUpdates,     \* bound: MaxUpdates[p] updates and reloads per start of p
  MaxEdits,       \* bound: edits by hand
  WritesMayFail   \* whether a write may report an error

AppConfig == [theme : Theme \cup {NoTheme}, window : Window]
File == App \cup {Suite}
Layer == {"suite", "app"}

ASSUME ConfigAssumption ==
  /\ Suite \notin App
  /\ Launcher \in App /\ AppOf \in [Proc -> App]
  /\ DefaultLevel \in LOG_LEVELS /\ LOG_LEVELS \subseteq Level
  /\ NoTheme \notin Theme
  /\ DefaultWindow \in LargeEnough /\ LargeEnough \subseteq Window
  /\ {Nothing, Absent, Empty, Torn} \cap (Level \cup AppConfig) = {}
  /\ Absent # Empty /\ Absent # Torn /\ Empty # Torn
  /\ MaxBoots \in [Proc -> Nat] /\ MaxUpdates \in [Proc -> Nat] /\ MaxEdits \in Nat
  /\ WritesMayFail \in BOOLEAN

VARIABLES
  disk,   \* disk[f]: the content of file f
  task,   \* task[p]: what process p is doing
  pc,     \* pc[p]: the file-system call it makes next
  at,     \* at[p]: the layer whose file that call is about
  buf,    \* buf[p]: what it is about to write, if it writes
  got,    \* got[p]: the suite layer it has read while it loads
  mem,    \* mem[p]: its resolved configuration, by layer
  known,  \* history: the layers of mem[p], and "got" for got[p], whose files
          \* nobody has changed since
  found,  \* history: the files that have been there since p started
  boots, updates, edits  \* counters behind the bounds

control == <<task, pc, at>>
history == <<known, found>>
counters == <<boots, updates, edits>>
vars == <<disk, control, buf, got, mem, history, counters>>

Values(f) == IF f = Suite THEN Level ELSE AppConfig
Default(f) ==
  IF f = Suite THEN DefaultLevel ELSE [theme |-> NoTheme, window |-> DefaultWindow]
Resolved == [suite : Level, app : AppConfig]

(* suite_path and app_path; got[p] is read from the former.                 *)
PathOf(p, l) == IF l \in {"suite", "got"} THEN Suite ELSE AppOf[p]
Path(p) == PathOf(p, at[p])

(* validate                                                                 *)
AcceptsAll(c) == c \in Resolved  \* mutant
Validates(c) == c.suite \in LOG_LEVELS /\ c.app.window \in LargeEnough

DefaultResolved == [suite |-> Default(Suite), app |-> Default(Launcher)]

Init ==
  /\ disk = [f \in File |-> Absent]
  /\ task = [p \in Proc |-> "off"] /\ pc = [p \in Proc |-> "exists"]
  /\ at = [p \in Proc |-> "suite"]
  /\ buf = [p \in Proc |-> Nothing] /\ got = [p \in Proc |-> Nothing]
  /\ mem = [p \in Proc |-> DefaultResolved]
  /\ known = [p \in Proc |-> {}] /\ found = [p \in Proc |-> {}]
  /\ boots = [p \in Proc |-> 0] /\ updates = [p \in Proc |-> 0] /\ edits = 0

(* p goes on with task t at call c on the file of layer l.                  *)
GoTo(p, t, c, l) ==
  /\ task' = [task EXCEPT ![p] = t]
  /\ pc' = [pc EXCEPT ![p] = c]
  /\ at' = [at EXCEPT ![p] = l]

-----------------------------------------------------------------------------
(* seed_defaults, then load: the start of a process in bootstrap.           *)

Boot(p) ==
  /\ task[p] = "off"
  /\ boots[p] < MaxBoots[p]
  /\ boots' = [boots EXCEPT ![p] = @ + 1]
  /\ updates' = [updates EXCEPT ![p] = 0]
  /\ GoTo(p, "seed", "exists", "suite")
  /\ found' = [found EXCEPT ![p] = {f \in File : disk[f] # Absent}]
  /\ UNCHANGED <<disk, buf, got, mem, known, edits>>

(* Seeding goes from the suite's file to the application's, then load.      *)
SeedNext(p) ==
  IF at[p] = "suite"
    THEN GoTo(p, "seed", "exists", "app") /\ UNCHANGED found
    ELSE GoTo(p, "load", "exists", "suite") /\ found' = [found EXCEPT ![p] = {}]

SeedsAnyway(p) == disk[Path(p)] \in Values(Path(p)) \cup {Absent}  \* mutant
IsMissing(p) == disk[Path(p)] = Absent

SeedFound(p) ==
  /\ task[p] = "seed" /\ pc[p] = "exists"
  /\ ~IsMissing(p)
  /\ SeedNext(p)
  /\ UNCHANGED <<disk, buf, got, mem, known, counters>>

SeedMissing(p) ==
  /\ task[p] = "seed" /\ pc[p] = "exists"
  /\ IsMissing(p)
  /\ buf' = [buf EXCEPT ![p] = Default(Path(p))]
  /\ pc' = [pc EXCEPT ![p] = "open"]
  /\ UNCHANGED <<disk, task, at, got, mem, history, counters>>

-----------------------------------------------------------------------------
(* load and reload. *)

Loading(p) == task[p] \in {"load", "reload"}

(* read_toml_or_default: missing is the default, and so is an empty file,   *)
(* every field of the schema having one.                                    *)
Meaning(f) == IF disk[f] \in {Absent, Empty} THEN Default(f) ELSE disk[f]

FoundToRead(p) ==
  /\ Loading(p) /\ pc[p] = "exists"
  /\ disk[Path(p)] # Absent
  /\ pc' = [pc EXCEPT ![p] = "read"]
  /\ UNCHANGED <<disk, task, at, buf, got, mem, history, counters>>

(* The call yields a value for the layer: Meaning of its file now.          *)
Obtains(p) ==
  /\ Loading(p)
  /\ \/ pc[p] = "exists" /\ disk[Path(p)] = Absent
     \/ pc[p] = "read" /\ disk[Path(p)] \notin {Absent, Torn}

LoadSuite(p) ==
  /\ Obtains(p) /\ at[p] = "suite"
  /\ got' = [got EXCEPT ![p] = Meaning(Suite)]
  /\ GoTo(p, task[p], "exists", "app")
  /\ known' = [known EXCEPT ![p] = @ \cup {"got"}]
  /\ UNCHANGED <<disk, buf, mem, found, counters>>

Candidate(p) == [suite |-> got[p], app |-> Meaning(AppOf[p])]

LoadApp(p) ==
  /\ Obtains(p) /\ at[p] = "app"
  /\ Validates(Candidate(p))
  /\ mem' = [mem EXCEPT ![p] = Candidate(p)]
  /\ GoTo(p, "idle", "exists", "suite")
  /\ known' = [known EXCEPT ![p] =
       IF "got" \in @ THEN {"suite", "app"} ELSE {"app"}]
  /\ got' = [got EXCEPT ![p] = Nothing]
  /\ UNCHANGED <<disk, buf, found, counters>>

(* Unreadable, Malformed or Invalid: a start is over, a reload leaves the   *)
(* configuration of the process as it was.                                  *)
LoadFails(p) ==
  /\ Loading(p)
  /\ \/ pc[p] = "read" /\ disk[Path(p)] \in {Absent, Torn}
     \/ Obtains(p) /\ at[p] = "app" /\ ~Validates(Candidate(p))
  /\ GoTo(p, IF task[p] = "load" THEN "failed" ELSE "idle", "exists", "suite")
  /\ got' = [got EXCEPT ![p] = Nothing]
  /\ known' = [known EXCEPT ![p] = @ \ {"got"}]
  /\ UNCHANGED <<disk, buf, mem, found, counters>>

(* slate_reload_config                                                      *)
Reload(p) ==
  /\ task[p] = "idle"
  /\ updates[p] < MaxUpdates[p]
  /\ updates' = [updates EXCEPT ![p] = @ + 1]
  /\ GoTo(p, "reload", "exists", "suite")
  /\ UNCHANGED <<disk, buf, got, mem, history, boots, edits>>

-----------------------------------------------------------------------------
(* update_app and update_suite. *)

(* Starts to write value v of layer l, unless validate refuses it.          *)
Update(p, t, l, v) ==
  /\ task[p] = "idle"
  /\ updates[p] < MaxUpdates[p]
  /\ Validates([mem[p] EXCEPT ![l] = v])
  /\ updates' = [updates EXCEPT ![p] = @ + 1]
  /\ GoTo(p, t, "open", l)
  /\ buf' = [buf EXCEPT ![p] = v]
  /\ UNCHANGED <<disk, got, mem, history, boots, edits>>

(* slate_set_theme: the change is made to the cached application layer.     *)
SetTheme(p, t) == Update(p, "theme", "app", [mem[p].app EXCEPT !.theme = t])

(* slate_window_persist_geometry, called on every move and resize.          *)
PersistGeometry(p, w) == Update(p, "window", "app", [mem[p].app EXCEPT !.window = w])

(* update_suite is reserved for the Launcher.                               *)
UpdateSuite(p, s) == AppOf[p] = Launcher /\ Update(p, "suite", "suite", s)

-----------------------------------------------------------------------------
(* write_toml *)

(* Content c is written to the file of p: layers of it others have in       *)
(* memory are no longer known to be current, nor is p's unless it is in     *)
(* mem[p].                                                                  *)
Writes(p, c, current) ==
  /\ disk' = [disk EXCEPT ![Path(p)] = c]
  /\ known' = [q \in Proc |->
       {l \in known[q] : PathOf(q, l) # Path(p)}
         \cup (IF q = p /\ current THEN {at[q]} ELSE {})]

Truncate(p) ==
  /\ pc[p] = "open"
  /\ Writes(p, Empty, FALSE)
  /\ pc' = [pc EXCEPT ![p] = "fill"]
  /\ UNCHANGED <<task, at, buf, got, mem, found, counters>>

(* Over a file another process has filled since, the rest of a longer text  *)
(* stays behind the new one.                                                *)
Filled(p) == IF disk[Path(p)] \in {Empty, buf[p]} THEN {buf[p]} ELSE {buf[p], Torn}

Forgets(p) ==  \* mutant: resolved is not replaced after the write
  /\ pc[p] = "fill"
  /\ \E c \in Filled(p) : Writes(p, c, c = buf[p])
  /\ IF task[p] = "seed" THEN SeedNext(p) ELSE GoTo(p, "idle", "exists", "suite") /\ UNCHANGED found
  /\ buf' = [buf EXCEPT ![p] = Nothing]
  /\ UNCHANGED <<got, mem, counters>>

(* The rest of std::fs::write; an update then replaces resolved.            *)
Fill(p) ==
  /\ pc[p] = "fill"
  /\ \E c \in Filled(p) : Writes(p, c, c = buf[p])
  /\ IF task[p] = "seed"
       THEN SeedNext(p) /\ UNCHANGED mem
       ELSE /\ GoTo(p, "idle", "exists", "suite")
            /\ mem' = [mem EXCEPT ![p][at[p]] = buf[p]]
            /\ UNCHANGED found
  /\ buf' = [buf EXCEPT ![p] = Nothing]
  /\ UNCHANGED <<got, counters>>

(* Unwritable: nothing or only part of the text reached the file.  A start  *)
(* is over, an update leaves resolved as it was.                            *)
WriteFails(p) ==
  /\ WritesMayFail
  /\ \/ pc[p] = "open" /\ UNCHANGED <<disk, known>>
     \/ pc[p] = "fill" /\ \E c \in {disk[Path(p)], Torn} : Writes(p, c, FALSE)
  /\ GoTo(p, IF task[p] = "seed" THEN "failed" ELSE "idle", "exists", "suite")
  /\ buf' = [buf EXCEPT ![p] = Nothing]
  /\ UNCHANGED <<got, mem, found, counters>>

-----------------------------------------------------------------------------
(* The process exits or dies, wherever it is, and its memory goes with it.  *)
Exit(p) ==
  /\ task[p] # "off"
  /\ GoTo(p, "off", "exists", "suite")
  /\ buf' = [buf EXCEPT ![p] = Nothing] /\ got' = [got EXCEPT ![p] = Nothing]
  /\ mem' = [mem EXCEPT ![p] = DefaultResolved]
  /\ known' = [known EXCEPT ![p] = {}] /\ found' = [found EXCEPT ![p] = {}]
  /\ UNCHANGED <<disk, counters>>

(* The user edits or breaks a file, one that is being written included, or  *)
(* deletes one that no process has open.                                    *)
HandEdit(f, c) ==
  /\ edits < MaxEdits
  /\ c = Absent => \A p \in Proc : ~(pc[p] = "fill" /\ Path(p) = f)
  /\ c # disk[f]
  /\ edits' = edits + 1
  /\ disk' = [disk EXCEPT ![f] = c]
  /\ known' = [p \in Proc |-> {l \in known[p] : PathOf(p, l) # f}]
  /\ found' = IF c = Absent THEN [p \in Proc |-> found[p] \ {f}] ELSE found
  /\ UNCHANGED <<control, buf, got, mem, boots, updates>>

Step(p) ==
  \/ Boot(p) \/ SeedFound(p) \/ SeedMissing(p)
  \/ FoundToRead(p) \/ LoadSuite(p) \/ LoadApp(p) \/ LoadFails(p) \/ Reload(p)
  \/ \E t \in Theme : SetTheme(p, t)
  \/ \E w \in Window : PersistGeometry(p, w)
  \/ \E s \in Level : UpdateSuite(p, s)
  \/ Truncate(p) \/ Fill(p) \/ WriteFails(p) \/ Exit(p)

Next ==
  \/ \E p \in Proc : Step(p)
  \/ \E f \in File : \E c \in Values(f) \cup {Absent, Torn} : HandEdit(f, c)

Spec == Init /\ [][Next]_vars

-----------------------------------------------------------------------------
(* Properties. *)

Running(p) == task[p] \notin {"off", "failed", "seed", "load"}

(* Whatever is on disk and whoever wrote it, a process that runs does so    *)
(* with a known log level and a window that can be shown.                   *)
ResolvedIsValid ==
  \A p \in Proc : Running(p) =>
    mem[p].suite \in LOG_LEVELS /\ mem[p].app.window \in LargeEnough

(* The configuration a process has in memory is what its files mean, unless *)
(* another process or the user has changed them since it read or wrote them,*)
(* or its own write was cut short.  update_config edits a copy of memory    *)
(* and overwrites the whole file, so this is when it loses nothing.         *)
MemoryIsCurrent ==
  \A p \in Proc : task[p] = "idle" =>
    \A l \in known[p] : mem[p][l] = Meaning(PathOf(p, l))

(* What holds of seeding however the processes interleave: the defaults go  *)
(* to a file that was missing when the process started or that the user has *)
(* deleted since.                                                           *)
SeedsOnlyMissingFiles ==
  \A p \in Proc : task[p] = "seed" /\ pc[p] \in {"open", "fill"} => Path(p) \notin found[p]
=============================================================================
