------------------------------ MODULE Grammar ------------------------------
(***************************************************************************)
(* The grammar evaluate-expression.util.ts documents (lines 24 to 28 of    *)
(* the file) as a definition, for the parser of Expression to follow: the  *)
(* values a stretch of tokens stands for, whatever order a parser reads it *)
(* in. Only the nine units, and no inherited name, scale a number.         *)
(***************************************************************************)
EXTENDS Expression

RECURSIVE ExpressionValues(_)
PrimaryValues(ts) ==
    LET n == Len(ts)
    IN  CASE n = 1 /\ ts[1].kind = "number" -> {NumberOf(ts[1].text)}
          [] /\ n = 2 /\ ts[1].kind = "number"
             /\ ts[2].kind = "unit" /\ ts[2].text \in DOMAIN UNITS ->
                {Times(NumberOf(ts[1].text), Whole(UNITS[ts[2].text]))}
          [] n > 2 /\ ts[1].text = "(" /\ ts[n].text = ")" ->
                ExpressionValues(SubSeq(ts, 2, n - 1))
          [] OTHER -> {}

UnaryValues(ts) ==
    PrimaryValues(ts) \cup
    IF ts # << >> /\ ts[1].text \in {"+", "-"}
    THEN {IF ts[1].text = "-" THEN Negated(v) ELSE v : v \in PrimaryValues(Tail(ts))}
    ELSE {}

Splits(ts, ops) == {k \in DOMAIN ts : ts[k].text \in ops}
Left(ts, k) == SubSeq(ts, 1, k - 1)
Right(ts, k) == SubSeq(ts, k + 1, Len(ts))

RECURSIVE PowerValues(_)
PowerValues(ts) ==
    UnaryValues(ts) \cup
    UNION {{Raised(a, b) : a \in UnaryValues(Left(ts, k)), b \in PowerValues(Right(ts, k))} :
             k \in Splits(ts, {"^"})}

RECURSIVE TermValues(_)
TermValues(ts) ==
    PowerValues(ts) \cup
    UNION {{Apply(ts[k].text, a, b) :
                a \in TermValues(Left(ts, k)),
                b \in {v \in PowerValues(Right(ts, k)) : ts[k].text = "*" \/ ~IsZero(v)}} :
             k \in Splits(ts, {"*", "/", "%"})}

ExpressionValues(ts) ==
    TermValues(ts) \cup
    UNION {{Apply(ts[k].text, a, b) : a \in ExpressionValues(Left(ts, k)), b \in TermValues(Right(ts, k))} :
             k \in Splits(ts, {"+", "-"})}

\* The parser finds exactly the value the grammar gives a text without a
\* conversion, and no text has two: precedence, associativity and signs are
\* those the header of evaluate-expression.util.ts documents.
FollowsGrammar(text) ==
    LET values == {v \in ExpressionValues(Tokens(text)) : IsFinite(v)}
    IN  IF IsBare(text) THEN Evaluate(text) = NoAnswer
        ELSE values = (IF Evaluate(text) = NoAnswer THEN {} ELSE {Evaluate(text)})
=============================================================================
