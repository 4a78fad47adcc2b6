---------------------------- MODULE MCCommandBar ----------------------------
(***************************************************************************)
(* Texts at every stage of a command (a fragment, a name in capitals, a     *)
(* flag half typed, a value, a value followed by a blank, a second flag),   *)
(* commands with a word for an argument, searches that find some and no     *)
(* applications, a sum and a conversion.                                    *)
(***************************************************************************)
EXTENDS CommandBar, Grammar

MCTexts == {"/", "/ru", "/RUN", "/run explorer", "/config --theme da",
            "/config --theme dark ", "/config --theme dark --accent ",
            "/pin terminal", "/theme dark", "/find x", "/zz", "/help ",
            "pl", "dwn", "zz", "2+3", "2 mb in kb"}

\* Every text the bar can hold, which is what is typed and what completing a
\* row makes of it (a command, its flag, the flag's value), with what is
\* derived from it and no pins, worked out once.
Completed(texts) ==
    texts \cup UNION {{row.completion : row \in ToSet(SuggestionsFor(text))} : text \in texts}
BarTexts == FoldLeft(LAMBDA texts, stage : Completed(texts), MCTexts \cup {""}, <<1, 2, 3>>)
MCMemo ==
    FoldSet(LAMBDA text, table : table @@ (<<text, << >> >> :> Derived(text, << >>)), << >>, BarTexts)

\* Everything of up to n pieces.
Texted(pieces, n) == {Joined(s) : s \in UNION {[1..k -> pieces] : k \in 1..n}}

\* Whole numbers small enough to compute with: no literal of two digits, and
\* no tower of powers of 3.
IsSmall(text) ==
    LET digit == {i \in 1..Len(text) : At(text, i) \in Digits}
        Count(c) == Cardinality({i \in 1..Len(text) : At(text, i) = c})
    IN  /\ \A i \in digit : i + 1 \notin digit
        /\ Count("^") * Count("3") < 3

\* Precedence, associativity, signs and brackets; zero, division and units.
ASSUME ParserFollowsGrammar ==
    /\ \A text \in Texted({"2", "3", "-", "*", "^", "(", ")"}, 5) :
            IsSmall(text) => FollowsGrammar(text)
    /\ \A text \in Texted({"0", "2", "/", "%", "+", "-", "kb"}, 4) :
            IsSmall(text) => FollowsGrammar(text)

\* The greedy walk finds a match whenever some choice of places is one.
Embeds(needle, haystack) ==
    \E place \in [1..Len(needle) -> 1..Len(haystack)] :
        /\ \A i \in 1..Len(needle) : At(needle, i) = At(haystack, place[i])
        /\ \A i, j \in 1..Len(needle) : i < j => place[i] < place[j]
ASSUME MatcherIsComplete ==
    \A needle \in Texted({"a", "b"}, 3) : \A haystack \in Texted({"a", "b", "-"}, 4) :
        Match(needle, haystack).found <=> Embeds(needle, haystack)
=============================================================================
