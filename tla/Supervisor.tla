----------------------------- MODULE Supervisor -----------------------------
(***************************************************************************)
(* The supervisor of child applications (crates/slate-process/src/         *)
(* spawn.rs): a table from application to child process behind a mutex,    *)
(* which its callers, threads of the Launcher, take three times in a       *)
(* launch: to reap, to look the application up and to record the child.    *)
(* Between those the process is spawned with the mutex free, and children  *)
(* exit whenever they like.                                                *)
(***************************************************************************)
EXTENDS Naturals, Sequences

CONSTANTS
  Caller,        \* threads that hold the Supervisor
  App,           \* applications
  Installed,     \* applications whose executable is there
  DevCheckout,   \* whether plan_launch chooses the development script
  NoApp,         \* nothing asked for
  MaxStarts,     \* bound: processes started
  MaxQueries,    \* bound: calls of running and is_running
  WaitMayFail    \* whether try_wait may report an error

ASSUME SupervisorAssumption ==
  /\ Installed \subseteq App /\ NoApp \notin App
  /\ DevCheckout \in BOOLEAN /\ WaitMayFail \in BOOLEAN
  /\ MaxStarts \in Nat /\ MaxQueries \in Nat

VARIABLES
  started,   \* started[i]: the application process i was started as
  exited,    \* the processes that have exited
  children,  \* children[a]: the process the table holds for a, 0 if none
  phase,        \* phase[t]: what caller t does next, or the outcome of its call
  want,      \* want[t]: the application its call is about
  child,     \* child[t]: the process it has spawned and not yet recorded
  answer,    \* answer[t]: the processes its last query reported
  queries,   \* counter behind MaxQueries
  recorded,  \* history: the processes that were ever in the table
  unwaited,  \* history: the processes a failed try_wait threw out of it
  view,      \* history: view[i], recorded when the launch of i looked i up
  look,      \* history: look[t], recorded when t last looked an app up
  gone       \* history: gone[t], recorded and exited when t last reaped

table == <<children, recorded, unwaited>>
call == <<phase, want, child, answer>>
ghost == <<view, look, gone>>
supervisor == <<started, exited, table, call, ghost, queries>>

Process == DOMAIN started
Live(i) == i \in Process /\ i \notin exited

SupervisorInit ==
  /\ started = <<>> /\ exited = {}
  /\ children = [a \in App |-> 0]
  /\ phase = [t \in Caller |-> "idle"] /\ want = [t \in Caller |-> NoApp]
  /\ child = [t \in Caller |-> 0] /\ answer = [t \in Caller |-> {}]
  /\ recorded = {} /\ unwaited = {} /\ view = <<>>
  /\ look = [t \in Caller |-> {}] /\ gone = [t \in Caller |-> {}]
  /\ queries = 0

Outcome == {"idle", "ok", "alreadyRunning", "notFound", "spawnFailed"}

-----------------------------------------------------------------------------
(* reap: with the mutex held, the table keeps the children that have not    *)
(* exited; a child whose try_wait fails is thrown out as well.              *)
ReapNone(e) == children  \* mutant
Reaped(e) == [a \in App |-> IF children[a] \in exited \cup e THEN 0 ELSE children[a]]

Reap(t, next) ==
  /\ phase[t] \in Outcome
  /\ \E e \in SUBSET {children[a] : a \in App} :
       /\ e # {} => WaitMayFail /\ 0 \notin e
       /\ children' = Reaped(e)
       /\ unwaited' = unwaited \cup e
  /\ phase' = [phase EXCEPT ![t] = next]
  /\ gone' = [gone EXCEPT ![t] = exited \cap recorded]
  /\ answer' = [answer EXCEPT ![t] = {}]
  /\ UNCHANGED <<started, exited, recorded, child, view, look>>

-----------------------------------------------------------------------------
(* launch and launch_dev_script. *)

Launch(t, a) ==
  /\ Len(started) < MaxStarts
  /\ Reap(t, "looksUp")
  /\ want' = [want EXCEPT ![t] = a]
  /\ UNCHANGED queries

(* contains_key, with the mutex taken again and released.                   *)
Forgetful(t) == FALSE  \* mutant: the table is not consulted
ContainsKey(t) == children[want[t]] # 0

LookUp(t) ==
  /\ phase[t] = "looksUp"
  /\ phase' = [phase EXCEPT ![t] = IF ContainsKey(t) THEN "alreadyRunning" ELSE "spawns"]
  /\ look' = [look EXCEPT ![t] = recorded]
  /\ UNCHANGED <<started, exited, table, want, child, answer, view, gone, queries>>

(* The executable is missing; a development script is not looked for.       *)
NotFound(t) ==
  /\ phase[t] = "spawns"
  /\ ~DevCheckout /\ want[t] \notin Installed
  /\ phase' = [phase EXCEPT ![t] = "notFound"]
  /\ UNCHANGED <<started, exited, table, want, child, answer, ghost, queries>>

SpawnFails(t) ==
  /\ phase[t] = "spawns"
  /\ DevCheckout \/ want[t] \in Installed
  /\ phase' = [phase EXCEPT ![t] = "spawnFailed"]
  /\ UNCHANGED <<started, exited, table, want, child, answer, ghost, queries>>

Spawn(t) ==
  /\ phase[t] = "spawns"
  /\ DevCheckout \/ want[t] \in Installed
  /\ Len(started) < MaxStarts
  /\ started' = Append(started, want[t])
  /\ view' = Append(view, look[t])
  /\ child' = [child EXCEPT ![t] = Len(started) + 1]
  /\ phase' = [phase EXCEPT ![t] = "records"]
  /\ UNCHANGED <<exited, table, want, answer, look, gone, queries>>

(* track: insert replaces a child recorded meanwhile, whose handle goes.    *)
Track(t) ==
  /\ phase[t] = "records"
  /\ children' = [children EXCEPT ![want[t]] = child[t]]
  /\ recorded' = recorded \cup {child[t]}
  /\ child' = [child EXCEPT ![t] = 0]
  /\ phase' = [phase EXCEPT ![t] = "ok"]
  /\ UNCHANGED <<started, exited, unwaited, want, answer, ghost, queries>>

-----------------------------------------------------------------------------
(* running, and is_running for an application of its answer.                *)
Ask(t) ==
  /\ queries < MaxQueries
  /\ queries' = queries + 1
  /\ Reap(t, "queries")
  /\ want' = [want EXCEPT ![t] = NoApp]

Report(t) ==
  /\ phase[t] = "queries"
  /\ answer' = [answer EXCEPT ![t] = {children[a] : a \in App} \ {0}]
  /\ phase' = [phase EXCEPT ![t] = "idle"]
  /\ UNCHANGED <<started, exited, table, want, child, ghost, queries>>

ProcessExits(i) ==
  /\ Live(i)
  /\ exited' = exited \cup {i}
  /\ UNCHANGED <<started, table, call, ghost, queries>>

CallerStep(t) ==
  \/ \E a \in App : Launch(t, a)
  \/ LookUp(t) \/ NotFound(t) \/ SpawnFails(t) \/ Spawn(t) \/ Track(t)
  \/ Ask(t) \/ Report(t)

SupervisorNext ==
  \/ \E t \in Caller : CallerStep(t)
  \/ \E i \in Process : ProcessExits(i)

SupervisorSpec == SupervisorInit /\ [][SupervisorNext]_supervisor

-----------------------------------------------------------------------------
(* Properties. *)

(* A running process drops out of the table only because try_wait failed on *)
(* it, or because another launch of the same application had looked the     *)
(* table up before the process was recorded: launches that do not overlap   *)
(* never lose or duplicate an application.                                  *)
LostOnlyToOverlap ==
  \A i \in recorded : Live(i) /\ children[started[i]] # i =>
    \/ i \in unwaited
    \/ \E j \in recorded : started[j] = started[i] /\ j # i /\ i \notin view[j]

(* running reports at most one process of an application.  Neither it nor  *)
(* AlreadyRunning is about a process that had been recorded and had exited  *)
(* when the call began, whatever other threads recorded in between.         *)
ReportsAreCurrent ==
  \A t \in Caller :
    /\ \A i, j \in answer[t] :
         i \notin gone[t] /\ (started[i] = started[j] => i = j)
    /\ phase[t] = "alreadyRunning" =>
         \E i \in Process : started[i] = want[t] /\ i \notin gone[t]
=============================================================================
