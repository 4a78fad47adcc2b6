----------------------------- MODULE Expression -----------------------------
(***************************************************************************)
(* evaluate-expression.util.ts: arithmetic and unit conversion typed into  *)
(* the command bar. A recursive-descent parser that evaluates as it goes.  *)
(*                                                                         *)
(* A value is a fraction <<n, d>> in lowest terms with d >= 0; d = 0 stands *)
(* for the infinities (n = 1 or -1) and for NaN (n = 0). Literals are runs *)
(* of digits (decimal points and exponents are left out) and exponents     *)
(* must be whole.                                                          *)
(***************************************************************************)
EXTENDS Integers, FiniteSets, Sequences, SequencesExt, Text

NotANumber == <<0, 0>>
IsFinite(v) == v[2] # 0
IsZero(v) == v[1] = 0 /\ v[2] # 0

Magnitude(n) == IF n < 0 THEN -n ELSE n
Gcd[a \in Nat, b \in Nat] == IF b = 0 THEN a ELSE Gcd[b, a % b]
Fraction(n, d) ==
    LET g == Gcd[Magnitude(n), Magnitude(d)]
    IN  IF g = 0 THEN NotANumber
        ELSE IF d < 0 THEN <<-(n \div g), -(d \div g)>>
        ELSE IF n < 0 THEN <<-((-n) \div g), d \div g>>
        ELSE <<n \div g, d \div g>>

Whole(n) == <<n, 1>>
Negated(v) == <<-v[1], v[2]>>
Plus(a, b) ==
    IF ~IsFinite(a) /\ a = b THEN a
    ELSE Fraction(a[1] * b[2] + b[1] * a[2], a[2] * b[2])
Times(a, b) == Fraction(a[1] * b[1], a[2] * b[2])
Over(a, b) == Fraction(a[1] * b[2], a[2] * b[1])
\* JavaScript's %: the remainder takes the sign of the dividend.
Remainder(a, b) ==
    LET q == Over(a, b)
        whole == IF q[1] < 0 THEN -((-q[1]) \div q[2]) ELSE q[1] \div q[2]
    IN  IF ~IsFinite(a) \/ b = NotANumber THEN NotANumber
        ELSE IF ~IsFinite(b) THEN a
        ELSE Plus(a, Negated(Times(b, Whole(whole))))
\* JavaScript's **, for a whole or infinite exponent and a base that is not
\* an infinity: 0 ** -1 is Infinity, and anything ** 0 is 1.
Raised(a, b) ==
    IF b = Whole(0) THEN Whole(1)
    ELSE IF ~IsFinite(a) \/ ~IsFinite(b) THEN NotANumber
    ELSE IF b[1] > 0 THEN <<a[1] ^ b[1], a[2] ^ b[1]>>
    ELSE Fraction(a[2] ^ (-b[1]), a[1] ^ (-b[1]))

UNITS == [b |-> 1, kb |-> 1000, mb |-> 1000000, kib |-> 1024, mib |-> 1048576]
\* UNITS is a plain object: a word that names something every object inherits
\* is found in it too, and is not a number.
Inherited == {"constructor"}
IsUnit(word) == word \in DOMAIN UNITS \cup Inherited
Factor(word) == IF word \in Inherited THEN NotANumber ELSE Whole(UNITS[word])

OPERATORS == CharsOf("+-*/%^()")
Kind(c) ==
    CASE c \in Digits -> "number"
      [] c \in Letters -> "unit"
      [] c \in OPERATORS -> "op"
      [] c = " " -> "blank"
      [] OTHER -> "none"

\* Numbers, words and operators. A run of digits or of letters is one token.
Tokens(input) ==
    LET kind == [i \in 1..Len(input) |-> Kind(At(input, i))]
        Runs(k) == k \in {"number", "unit"}
        starts == {i \in DOMAIN kind : /\ kind[i] # "blank"
                                       /\ ~(i > 1 /\ Runs(kind[i]) /\ kind[i - 1] = kind[i])}
        End(i) == Min({j \in i..Len(input) : j = Len(input) \/ j + 1 \in starts
                                             \/ kind[j + 1] # kind[i]})
        order == SelectSeq([i \in DOMAIN kind |-> i], LAMBDA i : i \in starts)
    IN  [k \in DOMAIN order |->
            [kind |-> kind[order[k]],
             text |-> LowerText(SubSeq(input, order[k], End(order[k])))]]

NumberOf(digits) ==
    Whole(FoldLeft(LAMBDA n, c : 10 * n + (CHOOSE d \in 0..9 : At("0123456789", d + 1) = c),
                   0, Chars(digits)))
-----------------------------------------------------------------------------
(***************************************************************************)
(* The parser. at[rule, i] is what a grammar function reads from the i-th  *)
(* token on: a value and the place after it, or Failed.                    *)
(***************************************************************************)
Failed == [ok |-> FALSE, value |-> NotANumber, next |-> 0]
Read(value, next) == [ok |-> TRUE, value |-> value, next |-> next]

\* Whether the i-th token is one of these operators, or of this kind.
TakeOp(ts, i, ops) == i \in DOMAIN ts /\ ts[i].kind = "op" /\ ts[i].text \in ops
IsAt(ts, i, kind) == i \in DOMAIN ts /\ ts[i].kind = kind

ParsePrimary(ts, at, i) ==
    CASE TakeOp(ts, i, {"("}) ->
            LET inner == at["expression", i + 1]
            IN  IF inner.ok /\ TakeOp(ts, inner.next, {")"})
                THEN [inner EXCEPT !.next = @ + 1] ELSE Failed
      [] IsAt(ts, i, "number") ->
            LET n == NumberOf(ts[i].text)
            IN  IF IsAt(ts, i + 1, "unit") /\ IsUnit(ts[i + 1].text)
                THEN Read(Times(n, Factor(ts[i + 1].text)), i + 2)
                ELSE Read(n, i + 1)
      [] OTHER -> Failed

ParseUnary(ts, at, i) ==
    LET operand == at["primary", i + 1]
    IN  IF ~TakeOp(ts, i, {"-", "+"}) THEN at["primary", i]
        ELSE IF operand.ok /\ ts[i].text = "-" THEN [operand EXCEPT !.value = Negated(@)]
        ELSE operand

ParsePower(ts, at, i) ==
    LET base == at["unary", i]
        exponent == at["power", base.next + 1]
    IN  IF ~base.ok \/ ~TakeOp(ts, base.next, {"^"}) THEN base
        ELSE IF ~exponent.ok THEN Failed
        ELSE Read(Raised(base.value, exponent.value), exponent.next)

Apply(op, a, b) ==
    CASE op = "+" -> Plus(a, b)
      [] op = "-" -> Plus(a, Negated(b))
      [] op = "*" -> Times(a, b)
      [] op = "/" -> Over(a, b)
      [] op = "%" -> Remainder(a, b)

\* The loops of parseTerm and parseExpression: operands of one rule, joined
\* from the left by the operators in ops, of which no token has more than
\* one. Dividing by zero makes the input no expression.
ParseChain(ts, at, i, rule, ops) ==
    FoldLeft(LAMBDA left, token :
        LET op == ts[left.next].text
            right == at[rule, left.next + 1]
        IN  IF ~left.ok \/ ~TakeOp(ts, left.next, ops) THEN left
            ELSE IF ~right.ok \/ (op \in {"/", "%"} /\ IsZero(right.value)) THEN Failed
            ELSE Read(Apply(op, left.value, right.value), right.next),
        at[rule, i], ts)
ParseTerm(ts, at, i) == ParseChain(ts, at, i, "power", {"*", "/", "%"})
ParseExpression(ts, at, i) == ParseChain(ts, at, i, "term", {"+", "-"})

RULES == {"primary", "unary", "power", "term", "expression"}
Parse(ts) ==
    LET at[rule \in RULES, i \in 1..Len(ts) + 1] ==
            CASE rule = "primary" -> ParsePrimary(ts, at, i)
              [] rule = "unary" -> ParseUnary(ts, at, i)
              [] rule = "power" -> ParsePower(ts, at, i)
              [] rule = "term" -> ParseTerm(ts, at, i)
              [] rule = "expression" -> ParseExpression(ts, at, i)
    IN  at["expression", 1]
-----------------------------------------------------------------------------
\* A number with nothing to compute, which gets no answer; a leading minus
\* belongs to it and a leading plus does not.
IsBare(text) ==
    LET digits == IF StartsWith(text, "-") THEN Slice(text, 1) ELSE text
    IN  digits # "" /\ CharsOf(digits) \subseteq Digits

\* "... in <word>" or "... to <word>": where the body ends and the word starts.
ConversionAt(text) ==
    {i \in 1..Len(text) - 4 : /\ SubSeq(text, i, i + 3) \in {" in ", " to "}
                              /\ LET word == Trim(Slice(text, i + 3))
                                 IN  word # "" /\ CharsOf(word) \subseteq Letters}

NoAnswer == << >>

\* What the parser makes of the tokens, in the unit asked for: a value only
\* if it reads them all and the value is finite.
Converted(unit, ts, parsed) ==
    IF \/ ts = << >> \/ \E k \in DOMAIN ts : ts[k].kind = "none"
       \/ ~parsed.ok \/ parsed.next <= Len(ts) \/ ~IsFinite(parsed.value)
    THEN NoAnswer
    ELSE IF unit # "" THEN Over(parsed.value, Factor(unit)) ELSE parsed.value
Computed(unit, ts) == Converted(unit, ts, Parse(ts))

\* evaluateExpression: the value, in the unit asked for, or no answer.
Evaluate(input) ==
    LET text == Trim(input)
        at == ConversionAt(text)
        body == IF at = {} THEN text ELSE SubSeq(text, 1, Min(at) - 1)
        unit == IF at = {} THEN "" ELSE LowerText(Trim(Slice(text, Min(at) + 3)))
    IN  IF text = "" \/ IsBare(text) \/ (unit # "" /\ ~IsUnit(unit))
        THEN NoAnswer
        ELSE Computed(unit, Tokens(body))
=============================================================================
