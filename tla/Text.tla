-------------------------------- MODULE Text --------------------------------
(***************************************************************************)
(* Strings as sequences of characters, for the parts of the Launcher's     *)
(* command bar whose behaviour is about characters: the matcher, the       *)
(* command grammar and the expression grammar.                             *)
(***************************************************************************)
EXTENDS Integers, FiniteSets, Sequences, SequencesExt

LowerCase == "abcdefghijklmnopqrstuvwxyz"
UpperCase == "ABCDEFGHIJKLMNOPQRSTUVWXYZ"

\* The i-th character of s, a string of length one.
At(s, i) == SubSeq(s, i, i)

Chars(s) == [i \in 1..Len(s) |-> At(s, i)]
Joined(cs) == FoldLeft(LAMBDA text, c : text \o c, "", cs)

CharsOf(alphabet) == {At(alphabet, i) : i \in 1..Len(alphabet)}
Capitals == CharsOf(UpperCase)
Letters == CharsOf(LowerCase) \cup Capitals
Digits == CharsOf("0123456789")

LowerOf == [c \in Capitals |->
    At(LowerCase, CHOOSE i \in 1..Len(UpperCase) : At(UpperCase, i) = c)]
Lower(c) == IF c \in Capitals THEN LowerOf[c] ELSE c

LowerText(s) == Joined([i \in 1..Len(s) |-> Lower(At(s, i))])

StartsWith(s, prefix) ==
    Len(prefix) <= Len(s) /\ SubSeq(s, 1, Len(prefix)) = prefix

\* JavaScript's s.slice(n).
Slice(s, n) == SubSeq(s, n + 1, Len(s))

\* JavaScript's s.trim(), for texts whose only white space is the blank.
Trim(s) ==
    LET inked == {i \in 1..Len(s) : At(s, i) # " "}
    IN  IF inked = {} THEN ""
        ELSE SubSeq(s, CHOOSE i \in inked : \A j \in inked : i <= j,
                       CHOOSE i \in inked : \A j \in inked : j <= i)
=============================================================================
