# Formal models of GENCORE SLATE

TLA+ models of the concurrent and stateful parts of the suite, TLC instances that model-check them,
and TLAPS proofs about the broker, one connection of it, the configuration files, the supervisor, the
migrations, the Launcher's window, the desktop shell and the scripts. Paths are relative to the root
of the repository. `PROJECT.json` maps every definition to the lines it stands for and lists the runs,
the mutants (a plausible bug for each property, which the run must notice), the hazards and the theorems.

To check a run, `tlc -config MCBrokerUnruly.cfg MCBroker`; to check proofs, `tlapm BrokerProofs.tla`,
and likewise every other module whose name ends in `Proofs`.

## 1. Inventory

SLATE is a portable suite of Tauri applications (Launcher, Terminal, Explorer, ...) on one drive.
The Launcher hosts the broker and starts the others; each application is a process with a Rust
backend (`slate-runtime` over small crates) and a React frontend that calls it through `invoke`.

| Component | State | Operations | Talks to | What is hard | What makes it correct |
|---|---|---|---|---|---|
| Broker, `crates/slate-broker` | registry of running applications, broadcast ring of 256 events, one task per pipe | accept loop, `serve`, `handle`, `BrokerHandle::publish/registry` | named pipes; the Launcher's threads | tasks interleave at each await; clients die in the middle of a frame; slow readers; early returns that skip the cleanup; anybody may publish anything on any topic | the registry agrees with what is connected and with the lifecycle events; order, at most once, no echo; a stuck client delays nobody |
| Broker client, `crates/slate-ipc` | one request under way, `pending_events` | `connect`, `request`, `take_events`, `into_event_stream` | its pipe | events arrive while a reply is awaited; blocking writes against a full pipe; cancelled reads at the other end | every event handed over once and in order; every call comes back |
| Configuration, `crates/slate-config`, `slate-runtime` state and bootstrap | two TOML files, `resolved` in each process | seed, load, reload, `update_app`, `update_suite` | the file system, other windows, the user's editor | no lock between processes; a write truncates first; a look before it; memory older than the file | what runs is valid; memory is current when it is written back; seeding spares what was there |
| Supervisor, `crates/slate-process` | table of child processes behind a mutex | `launch`, `launch_dev_script`, `running`, `is_running`, `reap` | the operating system; several threads | check, spawn and record under three separate locks | a child is lost, duplicated or misreported only by overlapping launches |
| Database, `crates/slate-db` | SQLite file: tables, `schema_migration` | `Database::open`, `migrations::run` | SQLite; other processes and builds | history read outside the transaction; busy locks; power loss on a removable drive | never half migrated; whoever gets in finds its schema |
| Launcher window, `tauri/slate-launcher` | the window, `collapsed_width`, geometry on disk, open view | `set_expanded`, `persist_geometry`, `toggle_maximize`, restore | frontend effects, not awaited; the user's mouse | calls queue up; a maximised window ignores them; listeners come late; saves fail unheard; restarts | widens once; follows the open view; retracts with it; disk follows the window |
| Window chrome hook and commands | visibility, focus, maximised and pinned as the page shows them | window commands, three event listeners | Tauri commands, answers and events | answers and events out of order; listeners registered one by one | the page settles on what the window is |
| Tray | icon, popup window, state of the popup's page | show, hide on blur, resize, choose, quit | Tauri, the main window | press and release, focus, two pages; height known after the content | Show or Hide is right; the popup is on the screen |
| Launcher frontend: store and command bar | text, highlighted row, view, section, pins | typing, completing, running, hovering, clicking, views | the backend (launch, reveal, settings) | list and highlight change under Enter; a completion is typed back in; three things share one place on the screen | Enter does what is on the screen; completions lead on |
| Release scripts, `scripts/bun-{version,webview2,package}.ts` | version fields, runtime cache, tree, archive, checksum | write or check versions, fetch, package, verify | cargo, tar, the file system | a run dies anywhere and another follows; one file stands for many | a checksum vouches for a whole archive; verified means whole; one version |
| Instructions generator, `scripts/sync-agents.ts` | rule files, generated files | sync, check | the file system, the developer's editor | edits during a run; stale files | a check that passes is true |
| Launching, `launcher-core::launch` | none | `plan_launch` | Supervisor | only the choice of the launch path | part of Supervisor |
| UI kit, `packages/slate-ui-kit` | highlight of a menu | draws | pages | which entries may be chosen | part of DesktopShell and CommandBar |
| Paths, application registry, Explorer core | none (file-system layout) | `discover_root`, `resolve_within`, list, sort | file system | text of paths, several markers | not modelled, see 6 |
| Terminal core, identifiers, logging, shim, tokens, icons, gallery, other scripts | none to speak of | | | | not modelled, see 6 |

`Broker` is the centre: it is the one place where all processes of the suite meet, and the only one
with real concurrency between them besides the two files they share (configuration, database).

## 2. Modules

| Module | Models | Checked by |
|---|---|---|
| `Broker` | accept loop, serve tasks, registry, ring, and the clients as the broker sees them | `MCBroker` with four cfgs |
| `TopicBus` | what the broker promises, abstractly | refined by `Broker` |
| `BrokerProofs` | theorems about `Broker`, its refinement of `TopicBus` included | tlapm |
| `Connection` | one connection, read piece by piece; the client library in full | `MCConnection.cfg`, `MCConnectionTorn.cfg` |
| `ConnectionProofs` | theorems about `Connection` | tlapm |
| `ConfigStore` | configuration files and the processes that use them | `MCConfigStore` |
| `ConfigStoreProofs` | theorems about `ConfigStore` | tlapm |
| `Supervisor` | the table of children and the threads that use it | `MCPrograms` |
| `Schema` | what the database promises, abstractly | refined by `Migrations` |
| `Migrations` | the migration run, statement by statement, over SQLite's locks | `MCPrograms` |
| `ServicesProofs` | theorems about `Supervisor` and `Migrations`, its refinement of `Schema` included | tlapm |
| `LauncherWindow` | expansion of the Launcher for a view, geometry across restarts | `MCWindows`, and alone with `MCLauncherWindowRestart.cfg` |
| `LauncherWindowProofs` | theorems about `LauncherWindow` | tlapm |
| `DesktopShell` | main window, chrome, tray icon, popup and the pages that draw them | `MCWindows` |
| `DesktopShellProofs` | theorems about `DesktopShell` | tlapm |
| `Text`, `FuzzyMatch` | the few string functions the bar uses; its matcher | `MCCommandBar` |
| `Commands`, `Applications`, `Expression` | grammar and prediction of commands; the list of applications; sums and units | `MCCommandBar` |
| `Grammar` | the documented grammar of expressions, as a definition | compared with `Expression` by `MCCommandBar` |
| `CommandBar` | the store, the bar, its keys, the views, running commands | `MCCommandBar.cfg`, `MCCommandBarPin.cfg` |
| `CommandBarProofs` | theorems about `CommandBar` | tlapm |
| `Packaging` | bun-version, bun-webview2, bun-package | `MCPrograms` |
| `ScriptsProofs` | theorems about `Packaging` and `AgentRules` | tlapm |
| `AgentRules` | sync-agents | `MCPrograms` |

`MCPrograms` and `MCWindows` each take modules that share no state, four and two of them, and let a
behaviour be of one: `program` and `scene` say which. The state space is the sum of theirs, not the
product. The theorems are about the modules one by one.

### Broker

The runtime is single-threaded (`new_current_thread`), so a step is what runs between two awaits.
`handle` never awaits: a request is applied in one step. `write_frame` does, so the frame being
written is state (`writing`) and every other task may run meanwhile; that is also what a full pipe
looks like.

- `registry[a][c]` counts the entries of application `a` with the pid of connection `c`
  (`Vec<RunningApp>` without its order, which nothing tells apart). `Retained` is
  `retain(|entry| entry.app != app)`: by application, not by pid.
- `log` is every event ever sent to the broadcast channel and `cursor[c]` a receiver's position;
  the ring holds the newest `EventBuffer`, so `Lag` is `RecvError::Lagged`.
- `identity`, `subs` are the locals of `serve`. `inbox` (a request sent and not read) and `out` are
  the two directions of the pipe.
- A request is atomic here, except that connections in `Piecemeal` may lose one half-read when the
  other branch of `select!` wins (`ReadAbandoned`), which leaves bytes the broker will refuse, or too
  few for a length (`Scrap`), which it waits with and which an exit turns into a clean end;
  `Connection` shows that it is always one of these, never another request.
- `task[c]`: `failed` is every exit by `?`, past the cleanup; `ended` is the exit through it;
  `cancelled` is the end of `block_on` after an error of the accept loop.
- Clients in `Lawful` are used through `BrokerClient`: Hello first and once, one request
  outstanding. The others may send anything, including frames that do not decode, and need not wait
  for a reply before the next request.
- What is published goes out verbatim and on any topic (`Published`), as `server.rs:261-277` and
  `BrokerHandle::publish` do: `News` holds the events that clients and the host publish, and these may
  be an `AppStarted` or `AppStopped` on `slate/lifecycle`, in which nothing tells them from the
  broker's own.
- `log[i].by`, the actual publisher, `log[i].published` and `to` in replies are history: the broker
  does not know them.

`TopicBus` is what an application of the suite may rely on, on one page: a sequence of events and a
place in it for every connection that is served. A connection is sent what it wants (`Deliver`) or
passes over what it does not want or is too old for it (`Pass`); what was sent arrives oldest first
(`Receive`) and is lost only when its client goes or the bus gives the connection up (`Disconnect`);
an application enters and leaves the directory in the step that tells everybody (`Introduce`,
`Retire`). It knows no tasks, pipes, frames, requests or replies. `ImplementsTopicBus` maps `running` to
the applications with a registry entry, `served` to the tasks in their loop, `next` to the receivers'
cursors, and `mail[c]` to the event frames in the pipe of `c` or being written to it. A crash while
the broker writes, or the end of the accept loop, is a `Disconnect`, which leaves the directory alone:
that entries may outlive a connection so is part of the promise, and the subject of
`StaleOnlyAfterAbort`.

### Connection

A frame is a sequence of pieces, each what one read returns; piece 0 is the length prefix. `have`
and `want` are the locals of a `read_frame` under way, which `TakeEvent` drops. `LengthsOf` is what
bytes in the middle of a payload say when read as a length: text spells a number over
`MAX_FRAME_BYTES`, but the seam of a payload and the next prefix may spell small ones (`Misread`).
The broker's own frames are not taken apart, because the blocking reads of the client are not
interrupted. The handshake is over in `Init`.

### ConfigStore

`write_toml` is `std::fs::write`: `Truncate`, then `Fill`; a reader or a second writer may come in
between. `Meaning` gives an absent and an empty file the defaults. Updates start from the copy in
memory (`mem`) and write the whole file; inside a process they are serialised by the store's lock,
so a process has one call under way. The user may edit a file while a process writes it. `known`
(layers that nobody changed on disk since the process read or wrote them, a reload that failed having
read them for nothing) and `found` (files present at its start) are history. A value is a log level for
the suite and a theme with a window for an application: the fields that the callers change and
`validate` looks at.

### Supervisor

Each call is split where it releases its mutex: `Reap`, `LookUp`, `Spawn`, `Track`, and
`Reap`, `Report` for `running`. Process ids are positions in `started`. `view`, `look`, `gone`,
`recorded` and `unwaited` are history that the properties need to say "overlapping".

### Schema and Migrations

`Schema` is one page: the schema moves by whole migrations along the list of some build, a process is
let in only when all of its own migrations are there, a power loss takes back whole ones.
`Migrations` is the code: create the history table, read a row outside any transaction, apply and
record in one transaction. SQLite is external: write lock, deferred transactions, five seconds of
busy timeout, rollback, and with `synchronous = NORMAL` a power loss that may return to any earlier
commit (`commits` keeps them all). `ImplementsSchema` maps `schema` to the recorded rows and `inside`
to the processes past `run`.

### LauncherWindow

`calls` is the queue of `invoke` calls the frontend does not await; `moved` says that persist
calls are on their way (they carry no data: the backend reads the window when it handles one).
They are asked for by listeners that the page registers one after the other (`Listen`, `hears`):
what happens to the window before is heard by nobody. A persist call may fail (`PersistFails`) because the window
cannot be read, because `validate` refuses the size, as it does for a minimised window, or because the
file cannot be written, in which case it may be left cut; the page drops the error. `settings` is the
table in memory, which a failed save leaves as it was, `disk` that of the file, and `behind` is
history: a change went unheard or unsaved. `base` is the width the user, the file or a retraction gave
the window.
Heights, several displays and errors of `set_size` are left out. So are a start that refuses a cut
file and a reload, which `ConfigStore` has.

### DesktopShell

Two pages, each a process of its own, talk to one backend. A page's commands are executed one at a
time on the main thread, in the order they were sent, and the answers come back in that order
(`commands`, `answers`); events of a window reach its page by another way (`events`), so that an
answer and an event may overtake each other. `main` and `popup` are the windows as the window system
has them, `chrome` and `tray` what the pages show of them.

- `listening` counts the listeners of `useWindowChrome`, which are registered one after the other
  before the page asks for the state; what happens before that is not heard.
- `TrayPress` and `TrayRelease` both show the popup: `tray.rs` acts on every click event. The
  press has taken the focus to the taskbar first, so the popup was dismissed by its blur.
- `ResizePopup` keeps the bottom edge; `ContentHeight` is what the page measures for each view.
- Where Windows may do either (a hidden window minimised, a minimised one maximised), the model does
  either.
- `excused` is history: the popup was shown before its page listened, or the main window came or
  went while the popup was on the screen, so that the page cannot know better.

### CommandBar and the modules under it

The store is a React store: one handler at a time, and what the screen shows is worked out before the
next event, so a handler is a step. `sent` is what the last step gave out: the command that enters
the history and the calls to the backend. `derived` is what `ContentLayout` memoises from the text and
the pins (`Derived`). The constant `Memo` stands for what was derived before: any table that agrees
with `Derived` (`MemoAssumption`), so that it changes no behaviour and TLC works each text out once.
`MCCommandBar` gives it every text the bar can hold, those that completions write into it included.
`TextEvent` groups the handlers that may change the text. `sectionId` is
local state of `ViewFrame`, which stays mounted while one view replaces another.

`Commands` tokenises, parses and predicts as `commands.registry.ts`, `parse-command` and
`predict-command` do; `FuzzyMatch` is the greedy walk with its scores; `Applications` filters, groups
and flattens. `Expression` holds the parser of `evaluate-expression.util.ts` as a recursive function
over the position (`Parse`), evaluating fractions exactly; `Grammar` holds the grammar the file's header
documents, read as a definition (`ExpressionValues`). A filter or a sort is written by what it
returns, each item with its number of predecessors (`Sorted`), rather than by a loop, so that its
length can be reasoned about. Rows hold what is typed and completed, not
labels or descriptions.

### Packaging and AgentRules

A script is the sequence of its steps (`todo`); one runs at a time and dies, or has a command fail,
before any step or in the middle of it (`Die`), leaving what that step leaves half done: of the browser
runtime, which is embedded file by file, any part (`HalfEmbedded`). Between
steps the developer bumps the version, edits a file by hand or cleans the build. Contents are
versions; `tree` is the set of files of an install. In `dist` an archive remembers the tree it was
made of, and a checksum the archive it was computed from. `agreed`, `cut` and `gutted` are history.

`AgentRules` has one run with the phases of `main`: `loading`, `scanning` the generated directories,
then `checking` or `writing` and `removing`, one file per step. The content of a generated file is
the set of what it shows of each rule. The code sorts the rules by name; here their order is some
order, always the same for the same set, as sorting makes it. Files that `Bun.Glob('*')` does not
see (dotfiles and those in subdirectories, `sync-agents.ts:335`) are neither generated nor removed by
the script, and are outside the model. `current` is history: a run that ended
well and during which nothing was edited.

## 3. Runs

| Run | Question | Shows |
|---|---|---|
| `broker_siblings` | Two windows of one application with exits anywhere and an accept loop that may fail: how can the registry differ from what is connected? | A served connection is missing only after a clean exit of its sibling; an entry outlives its connection only when its task never reached the cleanup; nobody hears itself; one reply per request, events in between; refines `TopicBus`, so that an event a client wants is lost only to the ring or with its connection |
| `broker_unruly` | A peer that repeats or skips Hello, renames itself, pipelines and sends garbage, beside a client and a host, all of which may publish that an application stopped, over an accept loop that may end | Lifecycle events agree with the registry on every path, unless the last one was published; events in order and at most once; Unsubscribe is final |
| `broker_progress` | Liveness of an attentive client beside one that never reads | Requests are answered, the stream catches up, exits are noticed |
| `connection` | One connection byte by byte | Requests are applied as sent; events are kept in order across every API; calls come back unless a frame was torn or the two ends jam, and they jam only over a request larger than the pipe |
| `config_windows` | Two windows, a failing disk, deaths at every call, a user's editor | What runs is valid; memory is what the files mean while nobody else touches them; seeding never overwrites what was there at the start |
| `programs` | Two threads that launch and ask, with exits, missing executables and failing `try_wait`; three builds (older, newer with a failing migration, edited) opening one database; the release scripts and the generator, dying or failing anywhere while files are edited | Children are lost only to overlap or `try_wait`, reports are current; never half migrated, also after power losses, and refines `Schema`; a checksum vouches for a whole archive, a tree that passes verify is whole, one version per package; a check that passes is true |
| `windows` | The Launcher's width under views, drags, maximising, minimising, late listeners, failing saves and a restart; the main window, its chrome, the tray and its popup under every order of clicks, commands, answers and events | One expansion at a time, the window follows the view, growth stays on screen, the file follows unless a change went unheard or unsaved, and then from the next save on; the chrome settles, the item says what the window is, the popup fits over a taskbar at the bottom |
| `command_bar` | Every sequence of keys and clicks in the Launcher | The highlight is on a row; completions lead on; nothing is launched that a sum hides; a foreign section only between views |

Four runs find a counterexample to what the repository says of the program; all are listed under
`findings` with the sentence they contradict:

- `broker_stale_entry`: a write that fails leaves `serve` by `?` before its cleanup, so a client
  that goes away while the broker writes to it stays listed for ever, and no `AppStopped` is sent.
- `connection_torn`: an event that arrives while a request is half read makes the broker drop the
  half and then the connection of a client that did nothing wrong.
- `launcher_restart`: the width saved while a view is open is the expanded one, and what to return to
  dies with the process, so that after a restart the window is wide with no view open and the next
  view widens it further. Within one life it does retract.
- `command_bar_pin`: Enter on `/pin terminal`, the documented example, pins nothing, because the row
  that is run is the completion of `/pin`, which carries no argument.

### Seen while modelling

Behaviour of the code that surprised, visible in the wording of a property or in the model rather
than in a run of its own.

Broker, configuration, services and window:

- Between `listener.connect()` and the next `create_pipe` there is no free instance; the second of
  two clients that open at once is told that no broker is running (`slate-ipc/src/client.rs:51`)
  and stays without one.
- Every move of the window writes the whole file from memory, over an edit made by hand since.
- Two overlapping launches of one application start it twice and the second `track` drops the first
  child (`LostOnlyToOverlap` names exactly this); `AlreadyRunning` may be said of a process that is
  gone, if it was recorded during the call.
- Of two processes that create a new database at once, the second may fail on tables the first has
  just created, because it looked for the row before (`MigrateFails`); opening it again succeeds
  (`migrations.rs:80-100`).
- The width a user drags an expanded window to is lost when the view closes
  (`tauri/slate-launcher/src-tauri/src/commands/window.rs:63` restores the remembered one).
  `WidensOnce` compares with what the file gave the window, which after a restart with a view open is
  the expanded width.
- A move or a resize before the page has registered its listeners is not saved, nor is one whose save
  fails (`use-window-chrome.hook.ts:78` and `84` drop the error), until the next one is.
- `slate/lifecycle` is open to publications: any application, and any peer that has said Hello, can
  announce that another started or stopped.
- Two processes that start together may both find a configuration file missing (`store.rs:126`): the
  slower one then seeds its defaults over what the faster one has seeded, loaded and changed since.
  This is the case that `SeedsOnlyMissingFiles` leaves open, which speaks of what was there at the
  start.
- A change that one window saves over a file another has changed since is made to its own copy in
  memory, and the other's change is lost (`MemoryIsCurrent` says when it is not).

Desktop shell:

- The tray's item says Hide for a minimised window, which is visible to Tauri
  (`commands/tray.rs:89`); `ItemMatchesWindow` speaks of visible, not of on the screen.
- `tray.rs:118` explains why the press and not the release is used, but every click event shows the
  popup, and a click on the icon cannot close it.
- Under a taskbar at the top the popup opens below the icon, and the first growth of its content
  moves it off the screen, because it keeps its bottom edge: `PopupFits` is about the bottom.
- `useTrayMenu` asks before it listens; and the focus the chrome shows may stay stale when an answer
  overtakes an event, so that `ChromeSettles` does not claim it. A window hidden by a command and
  shown by the tray keeps `visibility: hidden` in the page until the next state.

Command bar:

- Enter launches the first row of the list, which puts the suite's applications first, and not the
  best match of what was typed.
- After an arrow key, Tab accepts the highlighted row while the ghost still shows the first one.
- A row runs as its completion, which drops typed words: `/theme dark` does nothing, like
  `/pin terminal`; `/pin` and `/unpin` would both toggle; `/config --material` is offered
  and ignored.
- With two flags the hints and the predictor disagree about the next value.
- With a view open, Enter still acts on the hidden list; after a command has run, a second Enter
  launches the first application.
- A view that replaces another keeps its section (`SectionStraysOnlyBetweenViews`).
- `5 in constructor` converts by an inherited name of the table of units, to NaN.
- The zoom index returns to its default on Reload while the webview keeps its zoom; `changeTheme` of
  the Launcher does not apply the theme to its own page.

Scripts:

- `isCached` looks for `msedgewebview2.exe` alone, so a fetch cut short may leave a cache that is
  embedded incomplete (`VouchedIsWhole` excepts `cut`).
- A removal of the tree cut short may leave a tree that `--verify-only` passes (`VerifiedIsWhole`
  excepts `gutted`); verify does not look for seeds, resources or the runtime.
- A comment in `webview2.lock.json` says `--status` reports an empty sha256; `status()` does not.
- The old checksum is not removed before a new archive is written; it never fits the new one.

### Bounds and why they are enough

- Broker: two connections, since every rule of the code relates a connection to itself or to one
  other (its sibling, publisher or blocker); what holds for more is what the theorems are for.
  `EventBuffer = 2` and `PipeFrames = 1` make lag and full pipes reachable with three or four events.
  `MaxRequests` three and two: Hello, one subscription and one publication; in `broker_unruly` one for
  the client, its Hello, and two for the unruly peer: Hello twice, Hello and a publication, or
  Subscribe and Unsubscribe, between which the Hello and the exit of the client and one publication of
  the host make more events than the ring holds. There everything published is that the first
  application stopped (`StopNews`), the worst it can be for the claim about lifecycle events.
- Connection: sizes of 1, 3 and 4 pieces against a pipe of 3 and a limit of 3 give a request that
  fits, one that jams and one that `write_frame` refuses; four events, two of them wanted, and two
  frames of room fill the pipe; three requests leave one after a torn one.
- ConfigStore: two processes of the application that also owns the suite's file, of which one starts
  twice; two changes or reloads per start of one and one of the other; one edit by hand; every
  file-system call may fail.
- Supervisor and Migrations: one application that starts and one whose executable is missing; three
  processes are what one application needs to be lost, replaced and reported, with one query per
  caller; symmetry over the callers, which no property names. Lists of one, three and two migrations
  with a common beginning; each process opens twice; two faults.
- LauncherWindow: a display of 10, an expansion of 2, a default width of 6, which centred at 2 grows
  to the very edge, and drags to a width of 7 at 5, which must move, and grows again after a restart
  until it is pushed against the left edge; two lives, three toggles each: a view closed and opened
  again within a life, and what the first life leaves the second. `launcher_restart` has two widths
  and two places and one toggle.
- DesktopShell: the Launcher and the Terminal, whose menus differ (the Explorer's is the Terminal's);
  the taskbar at the bottom, the only edge a property is about; up to two messages on their way when
  the user acts, which is what it takes for one to overtake another. What handlers send themselves
  is not bounded by it.
- CommandBar: 17 texts at every stage of a command (fragment, capitals, half a flag, a value, a
  second flag), commands with a word for an argument, searches with some and no hits, a sum, a
  conversion. What completions make of them is added. Two assumptions of `MCCommandBar`, which TLC
  evaluates before the run, check the pure parts over bounded texts: `ParserFollowsGrammar` (up to
  five tokens over numbers, minus, times, power and brackets; up to four with zero, division,
  remainder and a unit) and `MatcherIsComplete` (the greedy walk finds a match whenever there is
  one, needles up to 3 and haystacks up to 4).
- Scripts: one application, with an icon, beside the `Slate` executable (an executable not built is
  the source that is skipped), two versions, a runtime of two files, two mishaps: a death and the edit
  or second death that makes it matter. Two rules and two troubles for the generator: one rule to be
  stale while the other is not.

The counters behind `Max...` appear in guards only and stop the environment (requests, edits,
toggles, starts, faults), never the system. Where because of them, or because every process may be
gone, a system may stop, its cfg turns deadlock checking off: Broker, Connection, ConfigStore, and
`programs` and `windows`, in which the processes of the supervisor and of the database and the lives
of the Launcher may be over. `command_bar` checks for deadlocks: a user can always do something.

### Fairness

- `WF(Accept)`, `WF(Serve)` per connection: the tokio scheduler polls every ready task. Which
  branch of `select!` wins is not fair, nor assumed to be.
- `WF(Read)`, `WF(Disconnected)` for the connections in `Attentive`: their client is blocked in a
  read whenever it waits, and the read returns when a frame arrives or the pipe closes. The other
  client may stop reading for ever.
- Nothing obliges anybody to send, publish, exit or open a stream.
- An attentive client is not in `Piecemeal`: a torn request may leave the broker waiting for bytes
  that never come. `CallReturns` in `Connection` says so.
- In `Connection`, weak fairness of the client's blocking calls and of the serve task, as above.
- The other modules state safety only. `ChromeSettles` and `ItemMatchesWindow` speak of states in
  which every message has arrived, so that they need no fairness.

## 4. Proofs

Each proof module rests on the assumption its model states about its constants (`BrokerAssumption`,
`ConnectionAssumption`, `ConfigAssumption`, `SupervisorAssumption`, `MigrationsAssumption`,
`LauncherWindowAssumption`, `PackagingAssumption`, `AgentRulesAssumption`; `DesktopShell` needs none):
types, special values that differ, and that the suite has finitely many applications and a directory
finitely many rules.
`MemoAssumption` of `CommandBar` says what its table is: `Derived`, for the texts it has.
`MigrationsAssumption` also says that one build is the longest, as it is of any finite number of
processes. The theorems hold for any number of connections, processes, applications and messages and
any value of the bounds.

| Module | Theorem | States |
|---|---|---|
| `BrokerProofs` | `TypeCorrect` | `Spec => []TypeOK` |
| | `EntriesLostOnlyToSiblings` | `Spec => []MissingOnlyAfterSiblingStopped` |
| | `StaleEntriesAreAborts` | `Spec => []StaleOnlyAfterAbort` |
| | `EventsInOrderAtMostOnce` | `Spec => []InOrderAtMostOnce` |
| | `LostOnlyByLag` | `Spec => LossOnlyByLag` (of every step; part of what the refinement below says) |
| | `NobodyHearsItself` | `Spec => []NoEcho` |
| | `NothingAfterUnsubscribe` | `Spec => []UnsubscribeIsFinal` |
| | `LifecycleTellsTheRegistry` | `Spec => []LifecycleAgreesWithRegistry` |
| | `EachRequestOneReply` | `Spec => []OneReplyPerRequest` |
| | `BrokerImplementsTopicBus` | `Spec => ImplementsTopicBus` |
| `ConnectionProofs` | `RequestsAppliedAsSent` | `Spec => []AppliedAsSent` |
| | `OnlyTornRequestsFail` | `Spec => []FailsOnlyWhenTorn` |
| | `OnlyLargeRequestsJam` | `Spec => []SmallRequestsNeverJam` |
| | `BufferedEventsKept` | `Spec => []EventsKeptInOrder` |
| `ConfigStoreProofs` | `TypeCorrect` | `Spec => []TypeOK` |
| | `ConfigurationIsValid` | `Spec => []ResolvedIsValid` |
| | `MemoryStaysCurrent` | `Spec => []MemoryIsCurrent` |
| | `SeedingSparesFiles` | `Spec => []SeedsOnlyMissingFiles` |
| `ServicesProofs` | `OnlyOverlapLosesChildren` | `SupervisorSpec => []LostOnlyToOverlap` |
| | `AnswersAreCurrent` | `SupervisorSpec => []ReportsAreCurrent` |
| | `CommittedStatesAreWhole` | `MigrationsSpec => []NeverHalfMigrated` |
| | `DatabaseImplementsSchema` | `MigrationsSpec => ImplementsSchema` |
| `LauncherWindowProofs` | `TypeCorrect` | `LauncherWindowSpec => []TypeOK` |
| | `WindowFollows`, `WidensOnlyOnce`, `FileFollows` | `LauncherWindowSpec => []WindowFollowsView`, `[]WidensOnce`, `[]DiskFollowsWindow` |
| | `GrowthStaysOnScreen` | `LauncherWindowSpec => GrowsOnScreen` |
| `DesktopShellProofs` | `MenuAgrees` | `DesktopShellSpec => []ItemMatchesWindow` |
| | `PopupStaysInPlace` | `DesktopShellSpec => []PopupFits` |
| | `TitleBarAgrees` | `DesktopShellSpec => []ChromeSettles` |
| `CommandBarProofs` | `HighlightStaysOnARow` | `Spec => []HighlightIsOnARow` |
| | `SectionsAreTheViewsOwn` | `Spec => SectionStraysOnlyBetweenViews` |
| `ScriptsProofs` | `ArchivesAreWhole` | `PackagingSpec => []VouchedIsWhole` |
| | `VerifiedTreesAreWhole` | `PackagingSpec => []VerifiedIsWhole` |
| | `PackagesAreOfOneVersion` | `PackagingSpec => []PackagedInOneVersion` |
| | `InstructionsAreCurrent` | `AgentRulesSpec => []CompletedIsCurrent` |

**Broker.** `TypeOK` is inductive. The other two are not: nothing in them keeps a `BrokerClient`
from introducing itself again under another name, or a connection nobody opened from holding an
identity. The strengthening `Progress` (theorem `ProgressInvariant`) adds how far a connection can
have come: what has not been accepted has no identity and no frame; a connection is spawned only
after it was taken by the listener; and the request of a lawful client that waits in the pipe is a
Hello only before the broker knows its identity. With it, one lemma per kind of step is enough: steps
that touch neither registry nor identity (`QuietStep`), an accepted Hello (`HelloStep`) and the
cleanup (`HangUpStep`).

The other six speak of what is under way between the two ends, and each has an invariant of its own
on top of `Progress`:

- `InTransit`: a task writes one frame at a time and only while it serves, and every event frame
  holds an index that the receiver has passed. Order and loss follow from how a step treats the pipe
  of one connection (`Leaves`, `Starts`, `Replies`, `Passes`, `Skips`, `Writes`, `Reads`).
- `OwnEventsBearIdentity`: what a `BrokerClient` published bears what it calls itself, but for the
  `AppStopped` of its own end. `NoEcho` then follows because `Wants` compares origins.
- `Final`: an event in the pipe of a topic its client no longer has is followed by the reply to
  Unsubscribe.
- `Announced` and `Listed`: what the last lifecycle event says of an application and what the
  registry does. An accepted Hello and the cleanup change both together; only a publication changes
  the one alone, and that is a `Rumoured` application until the broker next announces it.
- `Balance`: of the one place for a request and the two for its reply exactly one is taken while the
  client waits, and none while it does not.

The refinement of `TopicBus` goes through these invariants step by step: `InTransit` and order make the
event a client reads the oldest of its mail (`BusReceives`); a frame written moves from the task to
the pipe and is on its way before and after (`BusUnawareOfWrites`); `Lag` passes only what is too old
(`BusLags`); an accepted Hello and the cleanup change directory and events together (`BusHandles`,
`BusTakesLeave`). `Unjoined` is needed because a connection joins the bus once. All that is left, every
death, refusal and failure included, is a `Disconnect` or nothing (`BusLosesClients`).

**Connection.** `CInv` joins the type with `OneRequestAtATime`: what the broker has taken of the
request, what the pipe holds and what the client has yet to write are runs of pieces that follow one
another (`OnItsWay`), the first `k` having been dropped if the request is torn; or nothing of a
request is anywhere and all have been applied. A whole frame is then the only thing that can be
complete without being torn (`AppliedAsSent`), and what begins in the middle of one is never taken
for a request: its length is over the limit, or what it spans does not decode. `ReplyDue` says that a reply comes to a client that waits
for it. `EventsTaken` makes `EventsKeptInOrder` inductive.

**Supervisor.** `SInv` adds to the two properties what a call knows between two of its turns at the
mutex (`CallAgrees`): the child it spawned is recorded by nobody; what it saw recorded when it found
no child has exited or is excused; what it saw exited is not back in the table.

**Migrations.** `NeverHalfMigrated` is about the last commit, but a power loss may return to any, so
`EachWhole` is about all of them, with `Growing`: no commit takes back what an earlier one recorded.
`Holding(p)` says of every process what its place in the loop implies about the database and, for the
one with the lock, about its transaction. The refinement is shown action by action: every statement
but the commit, the end of `run`, a close and a power loss is a stutter of `Schema`.

**ConfigStore.** None of the three properties is inductive: they speak of a process that runs, and
what it will hold then is decided calls before. `IInv` joins `TypeOK` (with each file holding values
of its own kind only) and

- `PhaseInv`: which file-system call belongs to which task, and that what is about to be written is
  a value of its file;
- `ValidInv`: an update under way has been validated as it will be in memory afterwards, however
  long the write takes;
- `KnownInv`: what is known to be current is, in every phase in which memory is in use, and while a
  process loads, so is what it has read so far, beside a memory that stays what it was until the load
  succeeds;
- `FoundInv`: a file that was there at the start and that nobody deleted is there.

`Writes` is the one place where a file changes, so `WritesKnown` and `FillMeaning` carry the argument
for `KnownInv`: a write takes its layer from what everybody else knows, and the two layers of a
process are two files (`Paths`).

**LauncherWindow.** `WidensOnce` and `DiskFollowsWindow` are inductive with the type: whatever changes
the window is heard (`moved`) or leaves the file behind, and a save that succeeds writes what the
window is, whatever the file and the memory held.
`WindowFollowsView` speaks of an empty queue only and needs `LastCall`: the last call on its way
carries the view as it is. The invariant `WindowInv` joins them, and `ReceiveStep` is the one lemma
about taking a call off the queue. The type is proved in four parts (flags, queue, numbers, file)
because the provers do not reason well about booleans and integers at once.

**DesktopShell.** `ItemMatchesWindow` holds once the messages have arrived; what is inductive is
`KnowsInv`: while no question and no focus event is on its way, the last answer, received or still
queued, is right. It needs `FocusInv` (only a popup on the screen has the focus), since every
showing that the page hears of brings a question. `PopupFits` follows from `PlaceInv`: top and height
always add up to the same edge, which is what keeping the bottom edge means. `IInv` joins the type,
`FocusInv`, `KnowsInv` and `PlaceInv`, with one lemma for each kind of step: commands of the main
window, showings, commands of the popup, and its page. For `ChromeSettles` a second invariant,
`ChromeInv`, says of each of the three fields which answers tell it (`TellsMaximised`,
`TellsPinned`, `TellsMinimised`) and that the last of them still on its way, or else what the page
shows, is right. Maximising and pinning are always answered. Minimising is not: there the argument
needs the resize event that follows it, the question the listener then asks, and that Hide is only
clicked in a window that is not minimised.

**CommandBar.** `HighlightIsOnARow` is not inductive: which rows a click may choose depends on the
screen (`RowsShown`), and which rows Enter chooses from on the text (`RowCount`). `BarInv` adds that the
screen shows what text and pins give; then the two agree wherever there is a row to click
(`CountsAreNumbers`), and a step either moves the highlight along them, or leaves text and rows alone,
or changes the text and begins at the first row, pins changing with it at most. That there is a
number of rows for every text, through search, filter, prediction and grouping, is what the first
half of `CommandBarProofs` shows (`RankedIsList`, `PredictedIsList`, `GroupedIsList`): nothing is assumed of
the parser or the matcher. The theorems hold for any texts and any sequence of pins.
`SectionsAreTheViewsOwn` needs no invariant: it is about a step, and each way of opening a view is
`OpenView`.

**Packaging.** A script is the list of its steps, and what is true in the middle of one depends on
which of them are behind it. The first part of `ScriptsProofs` shows, for any list of applications,
what each script's list holds and that it is in order: every kind of step has a `Rank`, a stretch of
the list lies between two ranks, and stretches join (`StretchesJoin`). `QueueInv` says that what is
left is always the rest of the list, in that order; a lemma per way of moving on (`Takes`, `Stops`,
`Starts`, `Moves`, `Meddles`) is then all that is needed of the list itself, and "the step comes before
that one" becomes a comparison of ranks. On top of it:

- `AssembleInv`: what a package has put in the tree since it removed it, step by step. A file cut
  short, or a removal, ends the script, so nothing torn is in it.
- `TreeInv`: the files at the root are written last, so that a tree which has them has the rest,
  unless a removal was cut short.
- `DistInv`: what a checksum was taken of was whole, whoever wrote it.
- `CacheInv`: of the browser runtime either everything is there or not the file that is asked for,
  through clearing, extracting, flattening and moving, unless a fetch was cut short.
- `VersionInv`: what every file of the checkout holds from a bun-version on, what was built of it and
  what was copied.

**AgentRules.** `CompletedIsCurrent` says nothing of a run in progress; `AgentRulesInv` says, for as
long as nobody has edited anything since the run began, how far it has come. `LoadedInv`: what it has
read is what the rule files hold, and the rest of the list is the rules it has not read. `TodoInv`: it
writes or compares expected files only and removes others only, so that a removal never undoes a
write. `FilesInv`: a file that is not expected is on the list of the stale ones or in a directory not
yet scanned, and an expected one is up to date or still to be written or compared. When the lists are
empty, the files are `buildOutputs` of the rules. The history `current` needs the converse, that a run
among files which are right changes none: it writes what is there, and what it removes is not. The
lemma `OutputsListed` shows which files the arithmetic of `Outputs` lists, for any number of rules.

Model-checked and not proved:

- the liveness properties, which are beyond the prover's reach, as is `ENABLED`;
- `AcceptedStaysBest` and `AnswerHidesNoApp` of CommandBar. They say what the parsers,
  the matcher and the evaluator make of the characters of a text. To the provers a string is a value
  without characters, and what a fold over a text computes takes an induction they cannot do. TLC
  evaluates these operators on every text of the run;
- the assumptions of `MCCommandBar` about parser and matcher, for the same reason.

## 5. Plan

1. Broker and its first theorems: done.
2. Connection, ConfigStore, Supervisor, Migrations over Schema, LauncherWindow: done.
3. The desktop shell, the command bar and the scripts: done.
4. Proofs of the safety properties of Broker, Connection, ConfigStore, Supervisor, Migrations,
   LauncherWindow, DesktopShell, CommandBar (as far as they are not about the characters of a text)
   and the scripts, and of the refinement of Schema: done.
5. An abstract specification of the broker as a topic bus, which Broker is shown to implement: done.

## 6. Not modelled

- Portable paths and discovery, the application registry, the Explorer's listing: functions of one
  path, directory or list, without state and called once or by one caller. Their hard part is the text
  of paths, which a model would only transliterate.
- The Terminal's session is a stub. Suite identifiers and versions are value types.
- Logging, tokens, icons, bindings, the gallery and most of the UI kit: output and drawing. The
  remaining scripts start tools and draw pictures; no state of theirs outlives a run.
- The shim starts the real executable and returns its exit code: one sequential step.
- Of modelled components: the pipe's name and its access rules; wire formats beyond what decodes and
  what does not; several displays and heights of the Launcher's window; horizontal placement of the
  popup; the frecency of suggestions, which the Launcher never feeds; the console's log; decimal
  points in sums.
- WebView2, Tauri, SQLite and Windows themselves, which appear as calls and events that may be
  delayed, and with the choices their documentation leaves open.
