----------------------------- MODULE FuzzyMatch -----------------------------
(***************************************************************************)
(* fuzzy-match.util.ts: the subsequence matcher behind the application     *)
(* list, the command suggestions and the arguments of /run and /pin.       *)
(* Scores are in hundredths, because the code takes off a hundredth of a   *)
(* point per character of the candidate.                                   *)
(***************************************************************************)
EXTENDS Integers, FiniteSets, Sequences, SequencesExt, Text

SEPARATORS == {" ", "-", "_", ".", "/", ":"}
BOUNDARY_BONUS == 1600
CONSECUTIVE_BONUS == 800
MATCH_SCORE == 400
LEADING_PENALTY == 100
MAX_LEADING_PENALTY == 1200

\* Whether the i-th character starts a word: the first one, one after a
\* separator, or a capital after a character that is not one.
IsBoundary(haystack, i) ==
    \/ i = 1
    \/ LET previous == At(haystack, i - 1)
           current == At(haystack, i)
       IN  \/ previous \in SEPARATORS
           \/ previous = Lower(previous) /\ current # Lower(current)

CharacterScore(haystack, at, previous) ==
    IF IsBoundary(haystack, at) THEN BOUNDARY_BONUS
    ELSE IF at = previous + 1 THEN CONSECUTIVE_BONUS
    ELSE MATCH_SCORE
Leading(at) == Min({(at - 1) * LEADING_PENALTY, MAX_LEADING_PENALTY})

\* A step of the greedy walk: a character of the needle takes its first
\* occurrence after the one taken before, which was at match.at.
Walk(haystack, match, c) ==
    LET later == {i \in match.at + 1..Len(haystack) : Lower(At(haystack, i)) = Lower(c)}
        at == Min(later)
    IN  IF ~match.found \/ later = {} THEN [match EXCEPT !.found = FALSE]
        ELSE [found |-> TRUE, at |-> at,
              score |-> match.score + CharacterScore(haystack, at, match.at)
                        - (IF match.at = 0 THEN Leading(at) ELSE 0)]

\* An empty needle matches everything, with a score of zero.
Start == [found |-> TRUE, at |-> 0, score |-> 0]
Match(needle, haystack) ==
    IF needle = "" THEN Start
    ELSE LET end == FoldLeft(LAMBDA match, c : Walk(haystack, match, c), Start, Chars(needle))
         IN  [end EXCEPT !.score = @ - Len(haystack)]

\* JavaScript's s.map(Op). The empty sequence is there for TLC, which then
\* works the items out once.
Each(Op(_), s) == << >> \o [i \in DOMAIN s |-> Op(s[i])]

\* The members of a finite set in order: before the k-th come k - 1 others.
Sorted(S, Before(_, _)) ==
    [k \in 1..Cardinality(S) |-> CHOOSE i \in S : Cardinality({j \in S : Before(j, i)}) = k - 1]

\* JavaScript's s.filter, by the indices it keeps.
Kept(s, indices) == Each(LAMBDA i : s[i], Sorted(indices, LAMBDA i, j : i < j))

\* The items whose text matches, best first, in their own order within a
\* score. texts[i] is the text of items[i].
RankByMatch(items, needle, texts) ==
    LET matches == {[at |-> i, match |-> Match(needle, texts[i])] : i \in DOMAIN items}
        Before(m, n) == \/ m.match.score > n.match.score
                        \/ m.match.score = n.match.score /\ m.at < n.at
    IN  Each(LAMBDA m : items[m.at], Sorted({m \in matches : m.match.found}, Before))
=============================================================================
