----------------------------- MODULE AgentRules -----------------------------
(***************************************************************************)
(* sync-agents: the rule files of .agents/rules, the instruction files it  *)
(* generates from them for four tools, and its --check, which CI runs. It  *)
(* reads and writes one file at a time, while the developer goes on        *)
(* editing either kind, and it may die at any of them.                     *)
(***************************************************************************)
EXTENDS Integers, FiniteSets, Sequences, SequencesExt

CONSTANTS
    Rules,          \* the names a rule file may have
    MaxTroubles     \* bound: edits and deaths, all told

\* A directory holds finitely many files.
ASSUME AgentRulesAssumption == IsFiniteSet(Rules)

VARIABLES
    rules,          \* the content of each rule file
    files,          \* the generated files there are, and their content
    sync,           \* the run of the script
    current,        \* history: a run that ended well saw every file as it is
    troubles

agentRules == <<rules, files, sync, current, troubles>>
-----------------------------------------------------------------------------
Absent == [kind |-> "absent"]
Malformed == [kind |-> "malformed"]     \* no frontmatter, or a key missing from it
Rule(alwaysApply, body) == [kind |-> "rule", alwaysApply |-> alwaysApply, body |-> body]
RuleFiles == {Absent, Malformed} \cup {Rule(alwaysApply, body) : alwaysApply \in BOOLEAN, body \in 1..2}

\* Rules come sorted by name, stale files as their directory lists them: in
\* some order, the same one for the same set.
InOrder(set) == SetToSeq(set)
Present(held) == {rule \in Rules : held[rule] # Absent}
IsParsed(file) == file.kind = "rule"

\* A generated file's content is the set of what it shows of each rule.
Shown(loaded, rule) == <<rule, loaded[rule].alwaysApply, loaded[rule].body>>
Always(loaded) == {rule \in DOMAIN loaded : loaded[rule].alwaysApply}

\* A rule that does not always apply is named there and not reproduced.
renderAgentsMd(loaded) ==
    {Shown(loaded, rule) : rule \in Always(loaded)}
    \cup {<<rule, FALSE, 0>> : rule \in DOMAIN loaded \ Always(loaded)}
renderClaudeMd(loaded) == renderAgentsMd(loaded)
renderCopilotRepositoryInstructions(loaded) == {Shown(loaded, rule) : rule \in Always(loaded)}
renderCursorRule(loaded, rule) == {Shown(loaded, rule)}
renderCopilotInstruction(loaded, rule) == {<<rule, TRUE, loaded[rule].body>>}  \* not whether it always applies
renderAntigravityRule(loaded, rule) == {Shown(loaded, rule)}

\* Contents no rule renders to.
ByHand == {<<"by hand", TRUE, 0>>}
CutShort == {<<"torn", TRUE, 0>>}

Root(name) == <<"root", name>>
GENERATED_DIRS == <<"cursor", "github", "agent">>
\* Mutant: one of the directories is left to whatever is in it.
OWNED_DIRS == <<"cursor", "github">>

\* The files for some rules, in order, and what is to be in them.
Outputs(held) ==
    <<Root("AGENTS"), Root("CLAUDE"), Root("copilot")>>
    \o [i \in 1 .. 3 * Len(held) |-> <<GENERATED_DIRS[((i - 1) % 3) + 1], held[(i + 2) \div 3]>>]
Rendered(loaded, path) ==
    CASE path = Root("AGENTS") -> renderAgentsMd(loaded)
      [] path = Root("CLAUDE") -> renderClaudeMd(loaded)
      [] path = Root("copilot") -> renderCopilotRepositoryInstructions(loaded)
      [] path[1] = "cursor" -> renderCursorRule(loaded, path[2])
      [] path[1] = "github" -> renderCopilotInstruction(loaded, path[2])
      [] path[1] = "agent" -> renderAntigravityRule(loaded, path[2])
buildOutputs(loaded) ==
    [path \in ToSet(Outputs(InOrder(DOMAIN loaded))) |-> Rendered(loaded, path)]

\* The glob "*" lists neither names with a leading dot nor what is in a
\* directory below: such files are never stale, and files leaves them out.
StaleIn(directory, loaded) ==
    InOrder({path \in DOMAIN files : path[1] = directory /\ path[2] \notin DOMAIN loaded})
-----------------------------------------------------------------------------
NoRun == [at |-> "idle", mode |-> "sync", todo |-> << >>, loaded |-> [rule \in {} |-> Absent],
         stale |-> << >>, drifted |-> FALSE, undisturbed |-> TRUE]

\* main: the names are listed, and the files then read in their order.
Main(mode) ==
    /\ sync.at = "idle"
    /\ sync' = IF Present(rules) = {} THEN sync
               ELSE [NoRun EXCEPT !.at = "loading", !.mode = mode, !.todo = InOrder(Present(rules))]
    /\ UNCHANGED <<rules, files, current, troubles>>

Next1 == Head(sync.todo)

\* One file that cannot be parsed, or is no longer there, ends the run.
LoadRule ==
    /\ sync.at = "loading" /\ sync.todo # << >>
    /\ sync' = IF IsParsed(rules[Next1])
               THEN [sync EXCEPT !.todo = Tail(@),
                        !.loaded = [rule \in DOMAIN @ \cup {Next1} |->
                            IF rule = Next1 THEN rules[rule] ELSE @[rule]]]
               ELSE NoRun
    /\ UNCHANGED <<rules, files, current, troubles>>

Loaded ==
    /\ sync.at = "loading" /\ sync.todo = << >>
    /\ sync' = [sync EXCEPT !.at = "scanning", !.todo = GENERATED_DIRS]
    /\ UNCHANGED <<rules, files, current, troubles>>

\* Mutant: looks into one directory too few.
FindStaleFilesElsewhere ==
    /\ sync.at = "scanning" /\ sync.todo # << >>
    /\ sync' = [sync EXCEPT !.todo = Tail(@), !.stale = @ \o
            IF Next1 \in ToSet(OWNED_DIRS) THEN StaleIn(Next1, sync.loaded) ELSE << >>]
    /\ UNCHANGED <<rules, files, current, troubles>>

findStaleFiles ==
    /\ sync.at = "scanning" /\ sync.todo # << >>
    /\ sync' = [sync EXCEPT !.todo = Tail(@), !.stale = @ \o StaleIn(Next1, sync.loaded)]
    /\ UNCHANGED <<rules, files, current, troubles>>

Scanned ==
    /\ sync.at = "scanning" /\ sync.todo = << >>
    /\ sync' = [sync EXCEPT !.at = IF sync.mode = "check" THEN "checking" ELSE "writing",
                            !.todo = Outputs(InOrder(DOMAIN sync.loaded))]
    /\ UNCHANGED <<rules, files, current, troubles>>

\* check compares; what it finds to be wrong, or stale, fails it at the end.
findDrift ==
    /\ sync.at = "checking" /\ sync.todo # << >>
    /\ sync' = [sync EXCEPT !.todo = Tail(@), !.drifted = @ \/ Next1 \notin DOMAIN files
                    \/ files[Next1] # buildOutputs(sync.loaded)[Next1]]
    /\ UNCHANGED <<rules, files, current, troubles>>

Checked ==
    /\ sync.at = "checking" /\ sync.todo = << >>
    /\ current' = (current \/ (~sync.drifted /\ sync.stale = << >> /\ sync.undisturbed))
    /\ sync' = NoRun
    /\ UNCHANGED <<rules, files, troubles>>

Holding(path, content) ==
    [p \in DOMAIN files \cup {path} |-> IF p = path THEN content ELSE files[p]]
Deleting(path) == [p \in DOMAIN files \ {path} |-> files[p]]

\* write writes every file, and then removes what was found to be stale.
WriteFile ==
    /\ sync.at = "writing" /\ sync.todo # << >>
    /\ files' = Holding(Next1, buildOutputs(sync.loaded)[Next1])
    /\ sync' = [sync EXCEPT !.todo = Tail(@)]
    /\ UNCHANGED <<rules, current, troubles>>

Written ==
    /\ sync.at = "writing" /\ sync.todo = << >>
    /\ sync' = [sync EXCEPT !.at = "removing", !.todo = sync.stale]
    /\ UNCHANGED <<rules, files, current, troubles>>

RemoveStale ==
    /\ sync.at = "removing" /\ sync.todo # << >>
    /\ files' = Deleting(Next1)
    /\ sync' = [sync EXCEPT !.todo = Tail(@)]
    /\ UNCHANGED <<rules, current, troubles>>

Removed ==
    /\ sync.at = "removing" /\ sync.todo = << >>
    /\ current' = (current \/ sync.undisturbed)
    /\ sync' = NoRun
    /\ UNCHANGED <<rules, files, troubles>>
-----------------------------------------------------------------------------
Trouble == troubles < MaxTroubles /\ troubles' = troubles + 1

\* The run dies; the file it is writing may be cut short.
DieSyncing ==
    /\ sync.at # "idle" /\ Trouble
    /\ sync' = NoRun
    /\ \/ UNCHANGED <<files, current>>
       \/ /\ sync.at = "writing" /\ sync.todo # << >>
          /\ files' = Holding(Next1, CutShort) /\ current' = FALSE
    /\ UNCHANGED rules

Edited ==
    /\ Trouble /\ current' = FALSE
    /\ sync' = IF sync.at = "idle" THEN sync ELSE [sync EXCEPT !.undisturbed = FALSE]

\* A rule is written, changed, broken or deleted.
EditRule ==
    /\ Edited
    /\ \E rule \in Rules, content \in RuleFiles :
        content # rules[rule] /\ rules' = [rules EXCEPT ![rule] = content]
    /\ UNCHANGED files

\* A generated file is edited or deleted, or another put beside it.
EditGenerated ==
    /\ Edited
    /\ \E path \in ToSet(Outputs(InOrder(Rules))) :
        files' \in {Holding(path, ByHand)} \cup (IF path \in DOMAIN files THEN {Deleting(path)} ELSE {})
    /\ UNCHANGED rules
-----------------------------------------------------------------------------
AgentRulesInit ==
    /\ rules = [rule \in Rules |-> Rule(TRUE, 1)]
    /\ files = [path \in {} |-> CutShort]
    /\ sync = NoRun /\ current = FALSE /\ troubles = 0

AgentRulesNext ==
    \/ \E mode \in {"sync", "check"} : Main(mode)
    \/ LoadRule \/ Loaded \/ findStaleFiles \/ Scanned
    \/ findDrift \/ Checked
    \/ WriteFile \/ Written \/ RemoveStale \/ Removed
    \/ DieSyncing \/ EditRule \/ EditGenerated

AgentRulesSpec == AgentRulesInit /\ [][AgentRulesNext]_agentRules
-----------------------------------------------------------------------------
\* After a check that passed, or a sync that ended, with nothing edited since it
\* began, every instruction file is what the rules say and the generated
\* directories hold nothing else, whatever deaths and edits came before.
CompletedIsCurrent ==
    current =>
        /\ \A rule \in Present(rules) : IsParsed(rules[rule])
        /\ LET expected == buildOutputs([rule \in Present(rules) |-> rules[rule]])
           IN  files = expected
=============================================================================
