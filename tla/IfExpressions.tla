--------------------------- MODULE IfExpressions ---------------------------
(***************************************************************************)
(* The constant expressions of `$if` and `$elseif` (preprocessor/          *)
(* expr_eval.rs): tests of definedness are answered, other names replaced  *)
(* by what they are defined as, and what is left is evaluated.             *)
(*                                                                         *)
(* Beside the evaluator stands the parser's own reading of expressions     *)
(* (parser/expressions.rs), with a table of operators of its own, since an *)
(* `$if` is to mean what the same text means in the program.               *)
(*                                                                         *)
(* Words have Bits bits (64 in the code).                                  *)
(***************************************************************************)
EXTENDS Integers, Bitwise, SequencesExt

CONSTANTS Bits, Literals, Names     \* Literals: token -> number

ASSUME TokensAreApart ==
    /\ Bits \in {4, 8, 16} /\ {"0", "1"} \subseteq DOMAIN Literals
    /\ "defined" \in Names /\ Names \intersect DOMAIN Literals = {}

VARIABLE query      \* an expression, the defines it sees, its value: [text, defs, answer]

-----------------------------------------------------------------------------
(* Words. *)

Wrapped(n) == ((n + 2 ^ (Bits - 1)) % 2 ^ Bits) - 2 ^ (Bits - 1)
Unsigned(n) == n % 2 ^ Bits
Bit(b) == IF b THEN 1 ELSE 0
Quotient(l, r) ==       \* rounds towards zero
    LET size == (IF l < 0 THEN 0 - l ELSE l) \div (IF r < 0 THEN 0 - r ELSE r)
    IN  IF (l < 0) = (r < 0) THEN size ELSE 0 - size

\* Shift counts are masked to the bits of a word.
Applied(op, l, r) ==
    CASE op = "||" -> Bit(l # 0 \/ r # 0)
      [] op = "&&" -> Bit(l # 0 /\ r # 0)
      [] op = "==" -> Bit(l = r)
      [] op = "!=" -> Bit(l # r)
      [] op = "<"  -> Bit(l < r)
      [] op = ">"  -> Bit(l > r)
      [] op = "<=" -> Bit(l <= r)
      [] op = ">=" -> Bit(l >= r)
      [] op = "|"  -> Wrapped(Unsigned(l) | Unsigned(r))
      [] op = "^"  -> Wrapped(Unsigned(l) ^^ Unsigned(r))
      [] op = "&"  -> Wrapped(Unsigned(l) & Unsigned(r))
      [] op = "<<" -> Wrapped(l * 2 ^ (r % Bits))
      [] op = ">>" -> l \div 2 ^ (r % Bits)
      [] op = "+"  -> Wrapped(l + r)
      [] op = "-"  -> Wrapped(l - r)
      [] op = "*"  -> Wrapped(l * r)
      [] op = "/"  -> Wrapped(Quotient(l, r))
      [] op = "%"  -> l - r * Quotient(l, r)

-----------------------------------------------------------------------------
(* Defines. *)

Defined(defs, name) == name \in DOMAIN defs

\* Replacements are replaced in turn, but never a name within its own.
RECURSIVE Expanded(_, _, _)
Expanded(t, active, defs) ==
    IF t \in Names \ active /\ Defined(defs, t)
    THEN FlattenSeq([k \in DOMAIN defs[t] |-> Expanded(defs[t][k], active \union {t}, defs)])
    ELSE <<t>>

Bad == "bad"    \* stands where `defined` is not followed by a name in parentheses

RECURSIVE Operands(_, _, _)
Operands(ts, i, defs) ==
    IF i > Len(ts) THEN <<>>
    ELSE IF ts[i] # "defined" THEN Expanded(ts[i], {}, defs) \o Operands(ts, i + 1, defs)
    ELSE IF /\ i + 3 <= Len(ts)
            /\ ts[i + 1] = "(" /\ ts[i + 2] \in Names /\ ts[i + 3] = ")"
         THEN <<IF Defined(defs, ts[i + 2]) THEN "1" ELSE "0">> \o Operands(ts, i + 4, defs)
         ELSE <<Bad>>

-----------------------------------------------------------------------------
(* The evaluator. *)

Comparisons == {"==", "!=", "<", ">", "<=", ">="}
Operators == Comparisons \union
    {"||", "&&", "|", "^", "&", "<<", ">>", "+", "-", "*", "/", "%"}

\* As in C, where comparisons bind tighter than the operators on bits.
InfixPrecOfC ==
    [op \in Operators |-> CASE op = "||" -> 1
                            [] op = "&&" -> 2
                            [] op = "|"  -> 3
                            [] op = "^"  -> 4
                            [] op = "&"  -> 5
                            [] op \in Comparisons    -> 6
                            [] op \in {"<<", ">>"}   -> 7
                            [] op \in {"+", "-"}     -> 10
                            [] op \in {"*", "/", "%"} -> 20]
InfixPrec ==
    [op \in Operators |-> CASE op = "||" -> 1
                            [] op = "&&" -> 2
                            [] op \in Comparisons    -> 3
                            [] op = "|"  -> 4
                            [] op = "^"  -> 5
                            [] op = "&"  -> 6
                            [] op \in {"<<", ">>"}   -> 7
                            [] op \in {"+", "-"}     -> 10
                            [] op \in {"*", "/", "%"} -> 20]

Value(v, i) == [err |-> "none", v |-> v, i |-> i]     \* read up to before i
Refused(e) == [err |-> e, v |-> 0, i |-> 0]
Ok(r) == r.err = "none"

RECURSIVE Evaluated(_, _, _, _), Folded(_, _, _, _), Unary(_, _, _)

Primary(ts, i, defs) ==
    IF i > Len(ts) THEN Refused("MalformedIfExpr")
    ELSE CASE ts[i] \in DOMAIN Literals -> Value(Literals[ts[i]], i + 1)
           [] ts[i] = "(" ->
                LET inner == Evaluated(ts, i + 1, 0, defs)
                IN  IF Ok(inner) /\ (inner.i > Len(ts) \/ ts[inner.i] # ")")
                    THEN Refused("MalformedIfExpr")
                    ELSE [inner EXCEPT !.i = @ + 1]
           [] ts[i] \in Names /\ ~Defined(defs, ts[i]) -> Refused("UndefinedInIfExpr")
           [] OTHER -> Refused("MalformedIfExpr")

Unary(ts, i, defs) ==
    IF i <= Len(ts) /\ ts[i] \in {"!", "-"}
    THEN LET r == Unary(ts, i + 1, defs)
         IN  IF ts[i] = "!" THEN [r EXCEPT !.v = Bit(@ = 0)] ELSE [r EXCEPT !.v = Wrapped(0 - @)]
    ELSE Primary(ts, i, defs)

Folded(ts, left, min, defs) ==
    IF ~Ok(left) \/ left.i > Len(ts) THEN left
    ELSE LET op == ts[left.i]
         IN  IF op \notin Operators THEN left
             ELSE IF InfixPrec[op] < min THEN left
             ELSE LET right == Evaluated(ts, left.i + 1, InfixPrec[op] + 1, defs)
                  IN  IF ~Ok(right) THEN right
                      ELSE IF op \in {"/", "%"} /\ right.v = 0 THEN Refused("IfDivisionByZero")
                      ELSE Folded(ts, Value(Applied(op, left.v, right.v), right.i), min, defs)

Evaluated(ts, i, min, defs) == Folded(ts, Unary(ts, i, defs), min, defs)

EvalIfExpr(text, defs) ==
    LET ts == Operands(text, 1, defs)
        r  == Evaluated(ts, 1, 0, defs)
    IN  IF ts = <<>> \/ Bad \in ToSet(ts) THEN Refused("MalformedIfExpr")
        ELSE IF Ok(r) /\ r.i <= Len(ts) THEN Refused("MalformedIfExpr")
        ELSE r

-----------------------------------------------------------------------------
(* The parser's reading: a tree, and the depth of its pointer type. *)

InfixOps ==
    ("||" :> 1) @@ ("&&" :> 2) @@ [op \in Comparisons |-> 3]
    @@ ("|" :> 4) @@ ("^" :> 5) @@ ("&" :> 6) @@ [op \in {"<<", ">>"} |-> 7]
    @@ [op \in {"+", "-"} |-> 10] @@ [op \in {"*", "/", "%"} |-> 20]

Read(node, i) == [node |-> node, i |-> i]
Unreadable == Read([n |-> "none", d |-> 0], 0)
Leaf(v) == [n |-> "lit", v |-> v, d |-> 0]
Node(op, l, r) ==
    [n |-> op, l |-> l, r |-> r,
     d |-> IF op \in Comparisons \union {"||", "&&"} THEN 0
           ELSE IF l.d = 0 THEN r.d ELSE l.d]

RECURSIVE ParseExprPrec(_, _, _), ParseInfix(_, _, _), ParseUnary(_, _)

ParsePrimary(ts, i) ==
    IF i > Len(ts) THEN Unreadable
    ELSE CASE ts[i] \in DOMAIN Literals -> Read(Leaf(Literals[ts[i]]), i + 1)
           [] ts[i] = "(" ->
                LET inner == ParseExprPrec(ts, i + 1, 0)
                IN  IF inner # Unreadable /\ inner.i <= Len(ts) /\ ts[inner.i] = ")"
                    THEN Read(inner.node, inner.i + 1) ELSE Unreadable
           [] OTHER -> Unreadable

\* A minus is folded into a literal, and taken from zero otherwise.
ParseUnary(ts, i) ==
    IF i > Len(ts) THEN Unreadable
    ELSE IF ts[i] \notin {"!", "-", "&", "*"} THEN ParsePrimary(ts, i)
    ELSE LET r == ParseUnary(ts, i + 1)
             a == r.node
         IN  CASE r = Unreadable -> Unreadable
               [] r # Unreadable /\ ts[i] = "!" -> Read([n |-> "!", l |-> a, d |-> 0], r.i)
               [] r # Unreadable /\ ts[i] = "-" ->
                      Read(IF a.n = "lit" THEN Leaf(Wrapped(0 - a.v))
                           ELSE [Node("-", Leaf(0), a) EXCEPT !.d = a.d], r.i)
               [] r # Unreadable /\ ts[i] = "&" -> Read([n |-> "ref", l |-> a, d |-> a.d + 1], r.i)
               [] r # Unreadable /\ ts[i] = "*" ->
                      IF a.d = 0 THEN Unreadable ELSE Read([n |-> "ref", l |-> a, d |-> a.d - 1], r.i)

\* A call is refused: nothing here is a function.
ParseInfix(ts, left, min) ==
    IF left = Unreadable \/ left.i > Len(ts) THEN left
    ELSE LET op == ts[left.i]
         IN  IF op = "(" THEN Unreadable
             ELSE IF op \notin DOMAIN InfixOps THEN left
             ELSE IF InfixOps[op] < min THEN left
             ELSE LET right == ParseExprPrec(ts, left.i + 1, InfixOps[op] + 1)
                  IN  IF right = Unreadable THEN Unreadable
                      ELSE ParseInfix(ts, Read(Node(op, left.node, right.node), right.i), min)

ParseExprPrec(ts, i, min) == ParseInfix(ts, ParseUnary(ts, i), min)

-----------------------------------------------------------------------------

Unanswered == Refused("pending")

EvaluateIf ==
    /\ query.answer = Unanswered
    /\ query' = [query EXCEPT !.answer = EvalIfExpr(query.text, query.defs)]

-----------------------------------------------------------------------------
(* Properties. *)

\* What operators mean, not by how they are computed: results are the word that
\* agrees with the number, division leaves a remainder with the sign of the
\* dividend, shifts double or halve, and the operators on bits combine sets of bits.
Word(n) == CHOOSE w \in 0 - 2 ^ (Bits - 1) .. 2 ^ (Bits - 1) - 1 : (n - w) % 2 ^ Bits = 0
Magnitude(n) == Max({n, 0 - n})
Divided(l, r) ==
    CHOOSE q \in 0 - Magnitude(l) .. Magnitude(l) :
        LET rest == l - q * r IN Magnitude(rest) < Magnitude(r) /\ rest * l >= 0
BitsOf(n) == {i \in 0 .. Bits - 1 : (n \div 2 ^ i) % 2 = 1}
OfBits(S) == Word(MapThenSumSet(LAMBDA i : 2 ^ i, S))

Truths(op, l, r) ==
    CASE op = "||" -> l # 0 \/ r # 0  [] op = "&&" -> l # 0 /\ r # 0
      [] op = "==" -> l = r            [] op = "!=" -> l # r
      [] op = "<"  -> l < r            [] op = ">"  -> r < l
      [] op = "<=" -> ~(r < l)         [] op = ">=" -> ~(l < r)
Meaning(op, l, r) ==
    CASE op \in {"||", "&&"} \union Comparisons -> Bit(Truths(op, l, r))
      [] op = "|"  -> OfBits(BitsOf(l) \union BitsOf(r))
      [] op = "&"  -> OfBits(BitsOf(l) \intersect BitsOf(r))
      [] op = "^"  -> OfBits((BitsOf(l) \union BitsOf(r)) \ (BitsOf(l) \intersect BitsOf(r)))
      [] op = "<<" -> OfBits({i + (r % Bits) : i \in BitsOf(l)} \intersect 0 .. Bits - 1)
      [] op = ">>" -> FoldLeft(LAMBDA n, i : n \div 2, l, [i \in 1 .. r % Bits |-> i])
      [] op = "+"  -> Word(l + r)
      [] op = "-"  -> Word(l - r)
      [] op = "*"  -> Word(l * r)
      [] op = "/"  -> Word(Divided(l, r))
      [] op = "%"  -> l - r * Divided(l, r)

Undefined == 2 ^ Bits
RECURSIVE Denotes(_)
Denotes(tree) ==
    CASE tree.n = "lit" -> tree.v
      [] tree.n = "ref" -> Undefined
      [] tree.n = "!"   -> LET a == Denotes(tree.l) IN IF a = Undefined THEN a ELSE Bit(a = 0)
      [] OTHER ->
            LET l == Denotes(tree.l)   r == Denotes(tree.r)
            IN  IF Undefined \in {l, r} \/ (tree.n \in {"/", "%"} /\ r = 0) THEN Undefined
                ELSE Meaning(tree.n, l, r)

\* The names that a name's replacement leads to.
RECURSIVE LeadsTo(_, _)
LeadsTo(defs, names) ==
    LET next == UNION {ToSet(defs[n]) : n \in names \intersect DOMAIN defs} \intersect Names
    IN  IF next \subseteq names THEN names ELSE LeadsTo(defs, names \union next)
Recursive(defs, n) == n \in LeadsTo(defs, ToSet(defs[n]) \intersect Names)

\* "`$if` agrees with runtime expressions" (infix_prec): of the same tokens, it
\* accepts what the parser reads as an expression of numbers, and its value is the
\* value of the parser's tree, at the ends of the word too, unless that divides by
\* zero anywhere, even where `&&` and `||` would not look.  A name is left only when it is not defined or defined by itself, and is never a number.
IfAgreesWithTheParser ==
    query.answer # Unanswered =>
        LET ts   == Operands(query.text, 1, query.defs)
            left == ToSet(ts) \intersect Names
            read == ParseExprPrec(ts, 1, 0)
            v    == IF Bad \in ToSet(ts) \/ left # {} \/ read = Unreadable \/ read.i <= Len(ts)
                    THEN Undefined ELSE Denotes(read.node)
        IN  /\ Ok(query.answer) <=> v # Undefined
            /\ Ok(query.answer) => query.answer.v = v
            /\ \A n \in left : Defined(query.defs, n) => Recursive(query.defs, n)
=============================================================================
