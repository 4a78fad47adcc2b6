----------------------------- MODULE Migrations -----------------------------
(***************************************************************************)
(* Opening and migrating the database (crates/slate-db: pool.rs, Database  *)
(* ::open; migrations.rs, run), by several processes at once, of builds    *)
(* that may differ.  SQLite is modelled from how this code uses it: a      *)
(* statement outside a transaction commits by itself; a transaction is     *)
(* deferred, so it takes the one write lock with its first write and reads *)
(* the newest commit then; a connection waits for that lock for five       *)
(* seconds and gives up; a transaction that is not committed leaves no     *)
(* trace; and, with synchronous = NORMAL, a power loss may undo commits    *)
(* from the newest back.                                                   *)
(***************************************************************************)
EXTENDS Naturals, Sequences, SequencesExt

CONSTANTS
  Proc,         \* processes that open the database
  Sql,          \* texts of migrations, standing for their checksums
  NoSql,        \* no row, or no tables
  Build,        \* Build[p]: MIGRATIONS of p's build; version v is Build[p][v]
  Broken,       \* migrations that fail by themselves
  NoProc,       \* the write lock is free
  MaxOpens,     \* bound: times a process opens the database
  MaxFaults,    \* bound: power losses and failed statements
  BusyMayFail   \* whether five seconds may pass before the lock is free

ASSUME MigrationsAssumption ==
  /\ Build \in [Proc -> Seq(Sql)] /\ Broken \subseteq Sql
  /\ \E p \in Proc : \A q \in Proc : Len(Build[q]) <= Len(Build[p])
  /\ NoSql \notin Sql /\ NoProc \notin Proc
  /\ MaxOpens \in Nat /\ MaxFaults \in Nat /\ BusyMayFail \in BOOLEAN

Longest == CHOOSE n \in {Len(Build[p]) : p \in Proc} : \A p \in Proc : Len(Build[p]) <= n
Version == 1 .. Longest

(* The content of the database: whether schema_migration exists, its        *)
(* checksums, and the migration whose tables exist for each version.        *)
Db == [history : BOOLEAN, rows : [Version -> Sql \cup {NoSql}],
       tables : [Version -> Sql \cup {NoSql}]]
NoRows == [v \in Version |-> NoSql]
EmptyDb == [history |-> FALSE, rows |-> NoRows, tables |-> NoRows]

VARIABLES
  commits,  \* the states the database has been committed in, oldest first
  lock,     \* who holds the write lock
  work,     \* what the holder's transaction has made of the database
  pc,       \* pc[p]: the statement p executes next
  at,       \* at[p]: the version the loop of p is at
  opens, faults

migrations == <<commits, lock, work, pc, at, opens, faults>>

db == Last(commits)
Mine(p) == Build[p][at[p]]

MigrationsInit ==
  /\ commits = <<EmptyDb>> /\ lock = NoProc /\ work = EmptyDb
  /\ pc = [p \in Proc |-> "out"] /\ at = [p \in Proc |-> 1]
  /\ opens = [p \in Proc |-> 0] /\ faults = 0

Becomes(p, c) == pc' = [pc EXCEPT ![p] = c]

(* The transaction of p, if it has one, is over.                            *)
Released(p) ==
  IF lock = p THEN lock' = NoProc /\ work' = EmptyDb ELSE UNCHANGED <<lock, work>>

-----------------------------------------------------------------------------
(* Database::open, up to the call of run.                                   *)
Open(p) ==
  /\ pc[p] \in {"out", "failed"}
  /\ opens[p] < MaxOpens
  /\ opens' = [opens EXCEPT ![p] = @ + 1]
  /\ Becomes(p, "create")
  /\ UNCHANGED <<commits, lock, work, at, faults>>

(* CREATE TABLE IF NOT EXISTS schema_migration: writes unless it is there.  *)
CreateHistory(p) ==
  /\ pc[p] = "create"
  /\ db.history \/ lock = NoProc
  /\ commits' = IF db.history THEN commits ELSE Append(commits, [db EXCEPT !.history = TRUE])
  /\ at' = [at EXCEPT ![p] = 1]
  /\ Becomes(p, "select")
  /\ UNCHANGED <<lock, work, opens, faults>>

-----------------------------------------------------------------------------
(* The loop over MIGRATIONS. *)

(* The SELECT sees the newest commit.  The migration is recorded: go on.    *)
Matches(p) == db.rows[at[p]] = Mine(p)

Skip(p) ==
  /\ pc[p] = "select" /\ at[p] <= Len(Build[p])
  /\ Matches(p)
  /\ at' = [at EXCEPT ![p] = @ + 1]
  /\ UNCHANGED <<commits, lock, work, pc, opens, faults>>

(* "has changed since it was applied".                                      *)
Changed(p) ==
  /\ pc[p] = "select" /\ at[p] <= Len(Build[p])
  /\ db.rows[at[p]] # NoSql /\ ~Matches(p)
  /\ Becomes(p, "failed")
  /\ UNCHANGED <<commits, lock, work, at, opens, faults>>

(* No row, or the query failed: `.ok()` makes the two the same.             *)
Unrecorded(p) ==
  /\ pc[p] = "select" /\ at[p] <= Len(Build[p])
  /\ \/ db.rows[at[p]] = NoSql /\ UNCHANGED faults
     \/ faults < MaxFaults /\ faults' = faults + 1
  /\ Becomes(p, "migrate")
  /\ UNCHANGED <<commits, lock, work, at, opens>>

(* The first statement of the migration finds the write lock free and takes *)
(* it; the tables it creates must not exist.                                *)
Applies(p) == db.tables[at[p]] = NoSql

CommitsEach(p) ==  \* mutant: no transaction
  /\ pc[p] = "migrate" /\ lock = NoProc
  /\ Applies(p) /\ Mine(p) \notin Broken
  /\ commits' = Append(commits, [db EXCEPT !.tables[at[p]] = Mine(p)])
  /\ lock' = p
  /\ work' = [db EXCEPT !.tables[at[p]] = Mine(p)]
  /\ Becomes(p, "insert")
  /\ UNCHANGED <<at, opens, faults>>

Migrate(p) ==
  /\ pc[p] = "migrate" /\ lock = NoProc
  /\ Applies(p) /\ Mine(p) \notin Broken
  /\ lock' = p
  /\ work' = [db EXCEPT !.tables[at[p]] = Mine(p)]
  /\ Becomes(p, "insert")
  /\ UNCHANGED <<commits, at, opens, faults>>

MigrateFails(p) ==
  /\ pc[p] = "migrate" /\ lock = NoProc
  /\ ~Applies(p) \/ Mine(p) \in Broken
  /\ Becomes(p, "failed")
  /\ UNCHANGED <<commits, lock, work, at, opens, faults>>

(* INSERT INTO schema_migration; version is its primary key.                *)
Insert(p) ==
  /\ pc[p] = "insert" /\ work.rows[at[p]] = NoSql
  /\ work' = [work EXCEPT !.rows[at[p]] = Mine(p)]
  /\ Becomes(p, "commit")
  /\ UNCHANGED <<commits, lock, at, opens, faults>>

Commit(p) ==
  /\ pc[p] = "commit"
  /\ commits' = Append(commits, work)
  /\ Released(p)
  /\ at' = [at EXCEPT ![p] = @ + 1]
  /\ Becomes(p, "select")
  /\ UNCHANGED <<opens, faults>>

(* A statement of the transaction fails, a full disk say: rolled back.      *)
StatementFails(p) ==
  /\ pc[p] \in {"insert", "commit"}
  /\ faults < MaxFaults /\ faults' = faults + 1
  /\ Released(p)
  /\ Becomes(p, "failed")
  /\ UNCHANGED <<commits, at, opens>>

(* Five seconds went by and the lock is still somebody else's.              *)
Busy(p) ==
  /\ BusyMayFail
  /\ (pc[p] = "create" /\ ~db.history) \/ pc[p] = "migrate"
  /\ lock # NoProc
  /\ Becomes(p, "failed")
  /\ UNCHANGED <<commits, lock, work, at, opens, faults>>

StopsShort(p) == at[p] >= Len(Build[p])  \* mutant
Through(p) == at[p] > Len(Build[p])

Finish(p) ==
  /\ pc[p] = "select" /\ Through(p)
  /\ Becomes(p, "in")
  /\ UNCHANGED <<commits, lock, work, at, opens, faults>>

-----------------------------------------------------------------------------
(* The process exits or dies, and SQLite rolls its transaction back.        *)
Exit(p) ==
  /\ pc[p] # "out"
  /\ Released(p)
  /\ Becomes(p, "out")
  /\ at' = [at EXCEPT ![p] = 1]
  /\ UNCHANGED <<commits, opens, faults>>

(* The drive is pulled out: every process dies, the newest commits may go.  *)
PowerLoss ==
  /\ faults < MaxFaults /\ faults' = faults + 1
  /\ \E n \in 1 .. Len(commits) : commits' = SubSeq(commits, 1, n)
  /\ lock' = NoProc /\ work' = EmptyDb
  /\ pc' = [p \in Proc |-> "out"] /\ at' = [p \in Proc |-> 1]
  /\ UNCHANGED opens

ProcessStep(p) ==
  \/ Open(p) \/ CreateHistory(p)
  \/ Skip(p) \/ Changed(p) \/ Unrecorded(p)
  \/ Migrate(p) \/ MigrateFails(p) \/ Insert(p) \/ Commit(p)
  \/ StatementFails(p) \/ Busy(p) \/ Finish(p) \/ Exit(p)

MigrationsNext == PowerLoss \/ \E p \in Proc : ProcessStep(p)

MigrationsSpec == MigrationsInit /\ [][MigrationsNext]_migrations

-----------------------------------------------------------------------------
(* Properties. *)

(* "A failure part-way leaves the database on the previous version rather   *)
(* than half-migrated" (run): in every committed state, one the power loss  *)
(* may bring back included, a migration has its row exactly when it has its *)
(* tables, and none is there without those before it.                       *)
NeverHalfMigrated ==
  \A i \in 1 .. Len(commits), v \in Version :
    /\ commits[i].rows[v] = commits[i].tables[v]
    /\ commits[i].rows[v] # NoSql => \A u \in 1 .. v - 1 : commits[i].rows[u] # NoSql

(* The database implements Schema: what is visible changes by whole         *)
(* migrations of a process whose build agrees with all the earlier ones.    *)
Applied == {v \in Version : db.rows[v] # NoSql}
AppliedRows == [v \in Applied |-> db.rows[v]]
Abstract == INSTANCE Schema WITH schema <- AppliedRows, inside <- {p \in Proc : pc[p] = "in"}
ImplementsSchema == Abstract!Spec
=============================================================================
