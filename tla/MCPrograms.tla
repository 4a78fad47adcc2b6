----------------------------- MODULE MCPrograms -----------------------------
(***************************************************************************)
(* Four programs that share no state, for TLC: the supervisor's table of   *)
(* children and the migrations of the database, which take calls from      *)
(* several threads or processes at once, and the scripts of the repository,*)
(* those that make a release and the one that generates the agents'        *)
(* instructions.  None can disturb another, so that a behaviour is of one. *)
(***************************************************************************)
EXTENDS Supervisor, Migrations, Packaging, AgentRules, TLC

CONSTANTS
  t1, t2, terminal, missing,
  p1, p2, p3, v1, v2, v2b, v3

(* An older build, a newer one, and one whose second migration was edited.  *)
ThreeBuilds == (p1 :> <<v1>>) @@ (p2 :> <<v1, v2, v3>>) @@ (p3 :> <<v1, v2b>>)

(* The callers of the supervisor differ in nothing but their names.         *)
Callers == Permutations(Caller)

VARIABLE program   \* whose behaviour this is

Init ==
  /\ SupervisorInit /\ MigrationsInit /\ PackagingInit /\ AgentRulesInit
  /\ program \in {"supervisor", "database", "release", "rules"}

Next ==
  /\ UNCHANGED program
  /\ \/ /\ program = "supervisor" /\ SupervisorNext
        /\ UNCHANGED <<migrations, packaging, agentRules>>
     \/ /\ program = "database" /\ MigrationsNext
        /\ UNCHANGED <<supervisor, packaging, agentRules>>
     \/ /\ program = "release" /\ PackagingNext
        /\ UNCHANGED <<supervisor, migrations, agentRules>>
     \/ /\ program = "rules" /\ AgentRulesNext
        /\ UNCHANGED <<supervisor, migrations, packaging>>

Spec == Init /\ [][Next]_<<supervisor, migrations, packaging, agentRules, program>>
=============================================================================
