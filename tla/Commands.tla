------------------------------ MODULE Commands ------------------------------
(***************************************************************************)
(* The command language of the Launcher's bar: the registry of commands,   *)
(* the tolerant parser that runs on every keystroke, and the predictor     *)
(* that turns half a command into rows. All of it is a function of the     *)
(* text in the bar. Icons, descriptions and the right-hand details of a    *)
(* row are left out, and so is the usage history, which every caller       *)
(* passes empty.                                                           *)
(***************************************************************************)
EXTENDS FuzzyMatch

\* An argument of a command. It takes a value exactly if it lists some.
Switch(flag) == [flag |-> flag, values |-> << >>]
Setting(flag, values) == [flag |-> flag, values |-> values]
Command(name, args) == [name |-> name, args |-> args, available |-> TRUE]

FOLDERS == <<"desktop", "downloads", "documents", "pictures", "videos", "music">>

COMMAND_SPECS == <<
    Command("run", <<Switch("terminal"), Switch("explorer")>>),
    Command("open", [i \in DOMAIN FOLDERS |-> Switch(FOLDERS[i])]),
    [name |-> "find", args |-> << >>, available |-> FALSE],
    Command("config", <<Setting("theme", <<"system", "light", "dark">>),
                        Setting("accent", <<"teal", "cyan", "blue">>),
                        Setting("density", <<"comfortable", "compact">>),
                        Setting("material", <<"solid", "mica", "acrylic">>)>>),
    Command("pin", << >>),
    Command("unpin", << >>),
    Command("add", << >>),
    Command("reveal", <<Switch("root"), Switch("config"), Switch("logs")>>),
    Command("theme", << >>),
    Command("about", << >>),
    Command("help", << >>),
    Command("quit", << >>) >>

IsKnown(name) == \E k \in DOMAIN COMMAND_SPECS : COMMAND_SPECS[k].name = name
FindCommand(name) ==
    COMMAND_SPECS[CHOOSE k \in DOMAIN COMMAND_SPECS : COMMAND_SPECS[k].name = name]
-----------------------------------------------------------------------------
IsCommand(input) == StartsWith(input, "/")

\* Words separated by blanks; a quoted run stays together, and one that is
\* not closed runs to the end.
Tokenize(input) ==
    LET Finish(acc) ==
            IF acc.current = "" THEN acc
            ELSE [acc EXCEPT !.tokens = Append(@, acc.current), !.current = ""]
        Step(acc, c) ==
            CASE acc.quote # "" /\ c = acc.quote -> [acc EXCEPT !.quote = ""]
              [] acc.quote = "" /\ c \in {"'", "\""} -> [acc EXCEPT !.quote = c]
              [] acc.quote = "" /\ c = " " -> Finish(acc)
              [] OTHER -> [acc EXCEPT !.current = @ \o c]
    IN  Finish(FoldLeft(Step, [tokens |-> << >>, current |-> "", quote |-> ""],
                        Chars(input))).tokens

IsFlag(token) == StartsWith(token, "--")

\* A flag is a pair <<name, value>>, its value empty when it has none. It
\* takes the next word as its value unless that is a flag too.
Arguments(words) ==
    LET Step(acc, i) ==
            LET isValued == i < Len(words) /\ ~IsFlag(words[i + 1])
            IN  IF acc.taken THEN [acc EXCEPT !.taken = FALSE]
                ELSE IF ~IsFlag(words[i]) THEN [acc EXCEPT !.positional = Append(@, words[i])]
                ELSE [acc EXCEPT !.flags = Append(@, <<Slice(words[i], 2),
                                               IF isValued THEN words[i + 1] ELSE "">>),
                                 !.taken = isValued]
    IN  FoldLeft(Step, [flags |-> << >>, positional |-> << >>, taken |-> FALSE],
                 [i \in DOMAIN words |-> i])

ParseCommand(input) ==
    LET body == IF IsCommand(input) THEN Slice(input, 1) ELSE input
        tokens == Tokenize(body)
        isAtNewToken == body # "" /\ At(body, Len(body)) = " "
        arguments == Arguments(IF tokens = << >> THEN << >> ELSE Tail(tokens))
    IN  [name |-> IF tokens = << >> THEN "" ELSE Head(tokens),
         flags |-> arguments.flags,
         positional |-> arguments.positional,
         currentToken |-> IF isAtNewToken \/ tokens = << >> THEN "" ELSE Last(tokens),
         isAtNewToken |-> isAtNewToken]

\* A repeated flag keeps its last value.
IsGiven(parsed, flag) == \E k \in DOMAIN parsed.flags : parsed.flags[k][1] = flag
ValueOf(parsed, flag) ==
    parsed.flags[Max({k \in DOMAIN parsed.flags : parsed.flags[k][1] = flag})][2]
-----------------------------------------------------------------------------
\* A row: the text that replaces the bar's when it is completed, and run
\* without its blanks when it is run.
Suggestion(completion, available) == [completion |-> completion, available |-> available]

ToCommandSuggestion(spec) ==
    Suggestion("/" \o spec.name \o (IF spec.args = << >> THEN "" ELSE " "), spec.available)

SuggestCommands(parsed) ==
    Each(ToCommandSuggestion,
         RankByMatch(COMMAND_SPECS, parsed.name,
                     [i \in DOMAIN COMMAND_SPECS |-> COMMAND_SPECS[i].name]))

SuggestFlags(spec, parsed) ==
    LET typed == IF IsFlag(parsed.currentToken) THEN Slice(parsed.currentToken, 2) ELSE ""
    IN  Each(LAMBDA arg : Suggestion("/" \o spec.name \o " --" \o arg.flag
                                        \o (IF arg.values = << >> THEN "" ELSE " "), TRUE),
             RankByMatch(spec.args, typed, [i \in DOMAIN spec.args |-> spec.args[i].flag]))

\* A flag waits for a value if it is given without one, or with the one the
\* caret is in.
IsPending(arg, parsed) ==
    /\ arg.values # << >>
    /\ IsGiven(parsed, arg.flag)
    /\ ValueOf(parsed, arg.flag) \in {"", parsed.currentToken}

ValueRows(name, arg, typed) ==
    Each(LAMBDA value : Suggestion("/" \o name \o " --" \o arg.flag \o " " \o value, TRUE),
         RankByMatch(arg.values, typed, arg.values))

\* The values of the first flag that waits, and no rows if none does.
SuggestValues(spec, parsed) ==
    LET pending == {k \in DOMAIN spec.args : IsPending(spec.args[k], parsed)}
        typed == IF IsFlag(parsed.currentToken) THEN "" ELSE parsed.currentToken
    IN  IF pending = {} THEN << >> ELSE ValueRows(spec.name, spec.args[Min(pending)], typed)

\* Mutant: the flags of a command whose value is being typed come first.
FlagsBeforeValues(parsed) ==
    LET spec == FindCommand(parsed.name)
        naming == ~IsKnown(parsed.name) \/ (~parsed.isAtNewToken /\ parsed.currentToken = parsed.name)
    IN  IF naming THEN SuggestCommands(parsed)
        ELSE IF SuggestFlags(spec, parsed) # << >> THEN SuggestFlags(spec, parsed)
        ELSE SuggestValues(spec, parsed)

\* The most specific stage that has rows: values, flags, the command itself.
PredictCommands(parsed) ==
    LET spec == FindCommand(parsed.name)
        naming == ~IsKnown(parsed.name) \/ (~parsed.isAtNewToken /\ parsed.currentToken = parsed.name)
        values == SuggestValues(spec, parsed)
        flags == SuggestFlags(spec, parsed)
    IN  IF naming THEN SuggestCommands(parsed)
        ELSE IF values # << >> THEN values
        ELSE IF flags # << >> THEN flags
        ELSE <<ToCommandSuggestion(spec)>>

\* The rest of the first row, shown after the caret when the text is a prefix
\* of it, whatever the case of its letters.
GhostCompletion(query, suggestions) ==
    LET best == suggestions[1].completion
    IN  IF \/ suggestions = << >> \/ query = ""
           \/ ~StartsWith(LowerText(best), LowerText(query))
           \/ LowerText(best) = LowerText(query)
        THEN "" ELSE Slice(best, Len(query))

\* The chips of the hint strip under the bar: the values of the first flag
\* given that has any, or else the flags.
CommandHints(spec, parsed) ==
    LET active == {k \in DOMAIN spec.args :
                     spec.args[k].values # << >> /\ IsGiven(parsed, spec.args[k].flag)}
    IN  IF active # {} THEN spec.args[Min(active)].values
        ELSE Each(LAMBDA arg : "--" \o arg.flag, spec.args)
=============================================================================
