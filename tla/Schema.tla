------------------------------- MODULE Schema -------------------------------
(***************************************************************************)
(* What the database of the suite promises its users (crates/slate-db):    *)
(* a schema that is brought forward one whole migration at a time, along   *)
(* the list of the build that does it, and a process that is let in only   *)
(* when the schema holds every migration of its own build.                 *)
(***************************************************************************)
EXTENDS Naturals, Sequences, SequencesExt

CONSTANTS
  Proc,   \* processes that open the database
  Sql,    \* migrations, by their checksum
  Build   \* Build[p]: the migrations of p's build, in order

VARIABLES
  schema, \* the migrations the database has gone through, oldest first
  inside  \* the processes that have it open

vars == <<schema, inside>>

Init == schema = <<>> /\ inside = {}

(* p brings the schema forward by the next migration of its build.          *)
Upgrade(p) ==
  /\ IsStrictPrefix(schema, Build[p])
  /\ schema' = SubSeq(Build[p], 1, Len(schema) + 1)
  /\ UNCHANGED inside

(* p is let in.  The schema may be newer than its build.                    *)
Enter(p) ==
  /\ IsPrefix(Build[p], schema)
  /\ inside' = inside \cup {p}
  /\ UNCHANGED schema

Leave(p) ==
  /\ inside' = inside \ {p}
  /\ UNCHANGED schema

(* The power fails: the last commits may be lost, one by one and whole.     *)
PowerLoss ==
  /\ \E n \in 0 .. Len(schema) : schema' = SubSeq(schema, 1, n)
  /\ inside' = {}

Next == PowerLoss \/ \E p \in Proc : Upgrade(p) \/ Enter(p) \/ Leave(p)

Spec == Init /\ [][Next]_vars
=============================================================================
