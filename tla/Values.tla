------------------------------- MODULE Values -------------------------------
(***************************************************************************)
(* Integer and boolean expressions, from the parser's stamps over the      *)
(* checker's two modes to the bits that end up in a variable.              *)
(*                                                                         *)
(* One expression is the initializer of a local, then assigned to it, then *)
(* the initializer of a global: a local's initializer is folded when it    *)
(* can be, an assignment never is, a global's must be.  The three lower    *)
(* the same checked tree by different walks.                               *)
(*                                                                         *)
(* The widths are scaled down: Narrow stands for 8 bits (and the storage   *)
(* of a bool), Int32 for 32 (a literal's own type), Long for 64 (and the     *)
(* carrier of the constant folder).  Floats and pointers are left out.     *)
(***************************************************************************)
EXTENDS Integers, Bitwise

CONSTANTS Narrow, Int32, Long       \* the widths

ASSUME WidthsGrow == /\ {Narrow, Int32, Long} \subseteq Nat
                     /\ 2 < Narrow /\ Narrow < Int32 /\ Int32 < Long

VARIABLES source,   \* the expression as written and the type it is for
          tree,     \* the expression with the types stamped on its nodes
          verdict,  \* "parsed", then "accepted", "warned" or "rejected"
          local,    \* what `T x = e` stores in a local
          assigned, \* what `x = e` stores
          global    \* what `T x = e` puts in a global

valueVars == <<source, tree, verdict, local, assigned, global>>

-----------------------------------------------------------------------------
(* Types *)

SInt(w) == [base |-> "sint", bits |-> w]
UInt(w) == [base |-> "uint", bits |-> w]
Bool == [base |-> "bool", bits |-> Narrow]
IsInt(t) == t.base # "bool"

LowEnd(t) == IF t.base = "sint" THEN -(2 ^ (t.bits - 1)) ELSE 0
HighEnd(t) == CASE t.base = "sint" -> 2 ^ (t.bits - 1) - 1
                [] t.base = "uint" -> 2 ^ t.bits - 1
                [] t.base = "bool" -> 1
(* A bound off by one, to be told from the range. *)
LiteralFitsByOne(v, t) == LowEnd(t) <= v /\ v <= HighEnd(t) + 1
LiteralFits(v, t) == LowEnd(t) <= v /\ v <= HighEnd(t)

(* First a mistake to be kept apart from it: taking an integer for a truth *)
(* value.                                                                  *)
CoercibleToBool(from, to) == IsInt(from) /\ IsInt(to) => from.bits <= to.bits
Coercible(from, to) ==
    \/ from = to
    \/ IsInt(to) /\ (IsInt(from) => from.bits <= to.bits)

Wider(t, u) == IF t.bits >= u.bits THEN t ELSE u
ChangesSign(from, to) == IsInt(from) /\ IsInt(to) /\ from.base # to.base

-----------------------------------------------------------------------------
(* The parser: every node gets a first stamp, `-literal` becomes a literal *)
(* and any other negation a subtraction from zero.                         *)

Logical == {"&&", "||"}

Literal(v) ==
    [e |-> "lit", v |-> v, ty |-> SInt(IF LiteralFits(v, SInt(Int32)) THEN Int32 ELSE Long)]

RECURSIVE Parsed(_)
Parsed(x) ==
    CASE x.e = "lit"  -> Literal(x.v)
      [] x.e = "bool" -> [e |-> "bool", v |-> x.v, ty |-> Bool]
      [] x.e = "var"  -> [e |-> "var", v |-> x.v, const |-> x.const, ty |-> x.t]
      [] x.e = "neg"  ->
            LET a == Parsed(x.a)
            IN  IF a.e = "lit" THEN Literal(-a.v)
                ELSE [e |-> "bin", op |-> "-", l |-> [e |-> "lit", v |-> 0, ty |-> a.ty],
                      r |-> a, ty |-> a.ty]
      [] x.e = "bin"  ->
            LET l == Parsed(x.l)
            IN  [e |-> "bin", op |-> x.op, l |-> l, r |-> Parsed(x.r),
                 ty |-> IF x.op \in Logical THEN Bool ELSE l.ty]
      [] x.e = "cmp"  -> [e |-> "cmp", op |-> x.op, l |-> Parsed(x.l), r |-> Parsed(x.r), ty |-> Bool]
      [] x.e = "not"  -> [e |-> "not", a |-> Parsed(x.a), ty |-> Bool]
      [] x.e = "bnot" -> LET a == Parsed(x.a) IN [e |-> "bnot", a |-> a, ty |-> a.ty]
      [] x.e = "cast" -> [e |-> "cast", a |-> Parsed(x.a), ty |-> x.t]

-----------------------------------------------------------------------------
(* The checker: a node is synthesised, or checked against a target that is *)
(* pushed into arithmetic.  Both give the tree with its final stamps, its  *)
(* type, whether it is accepted, and whether a change of sign was warned   *)
(* about.                                                                  *)

Stamped(n, t) == [n EXCEPT !.ty = t]
Result(n, t, ok, warns) == [n |-> n, t |-> t, ok |-> ok, warns |-> warns]

(* A literal next to an integer it fits is compared at that width (first,  *)
(* a version that forgets to ask whether it fits).                         *)
NarrowedUnasked(n, sibling) == IF n.e = "lit" /\ IsInt(sibling) THEN Stamped(n, sibling) ELSE n
NarrowedTo(n, sibling) ==
    IF n.e = "lit" /\ IsInt(sibling) /\ LiteralFits(n.v, sibling) THEN Stamped(n, sibling) ELSE n

RECURSIVE Synth(_)
Synth(n) ==
    CASE n.e = "bin" ->
            LET l == Synth(n.l)  r == Synth(n.r)
                t == IF n.op \in Logical THEN Bool ELSE Wider(l.t, r.t)
            IN  Result([n EXCEPT !.l = l.n, !.r = r.n], t,
                       l.ok /\ r.ok /\ (Coercible(l.t, r.t) \/ Coercible(r.t, l.t)),
                       l.warns \/ r.warns)
      [] n.e = "cmp" ->
            LET l == Synth(n.l)  r == Synth(n.r)
            IN  Result([n EXCEPT !.l = NarrowedTo(l.n, r.t), !.r = NarrowedTo(r.n, l.t)], Bool,
                       l.ok /\ r.ok /\ (Coercible(l.t, r.t) \/ Coercible(r.t, l.t)),
                       l.warns \/ r.warns)
      [] n.e \in {"not", "bnot", "cast"} ->
            LET a == Synth(n.a) IN Result([n EXCEPT !.a = a.n], n.ty, a.ok, a.warns)
      [] OTHER -> Result(n, n.ty, TRUE, FALSE)

RECURSIVE Check(_, _)
Check(n, t) ==
    CASE n.e = "lit" ->
            IF LiteralFits(n.v, t) THEN Result(Stamped(n, t), t, TRUE, FALSE)
            ELSE Result(n, t, Coercible(n.ty, t), FALSE)
      [] n.e = "bin" /\ n.op \notin Logical /\ IsInt(t) ->
            LET l == Check(n.l, t)  r == Check(n.r, t)
            IN  Result([n EXCEPT !.l = l.n, !.r = r.n, !.ty = t], t,
                       /\ l.ok /\ r.ok
                       /\ Coercible(l.n.ty, r.n.ty) \/ Coercible(r.n.ty, l.n.ty),
                       l.warns \/ r.warns)
      [] n.e = "bnot" ->
            LET a == Check(n.a, t) IN Result([n EXCEPT !.a = a.n, !.ty = t], t, a.ok, a.warns)
      [] OTHER ->
            LET s == Synth(n)
            IN  Result(s.n, t, s.ok /\ Coercible(s.t, t),
                       s.warns \/ (Coercible(s.t, t) /\ ChangesSign(s.t, t)))

-----------------------------------------------------------------------------
(* LLVM values: w bits that read v as an unsigned number.  Refused is an   *)
(* error of the code generator, Poison whatever undefined behaviour leaves.*)

Val(w, v) == [w |-> w, v |-> v % 2 ^ w]
Refused == [w |-> 0, v |-> 0]
Poison == [w |-> 0, v |-> 1]
Good(x) == x.w > 0

AsSigned(x) == IF x.v >= 2 ^ (x.w - 1) THEN x.v - 2 ^ x.w ELSE x.v
Read(x, signed) == IF signed THEN AsSigned(x) ELSE x.v
IsSigned(t) == t.base = "sint"

Extended(x, w, signed) == Val(w, Read(x, signed))
Widened(x, y, signed) == IF y.w > x.w THEN Extended(x, y.w, signed) ELSE x

(* A one-bit value is a truth value, whatever the type stamped on it says. *)
EmitCast(x, t, from) ==
    IF Good(x) THEN Extended(x, t.bits, IsSigned(from) /\ x.w > 1) ELSE x

EmitLiteral(v, t) == Val(t.bits, v)
LiteralTyped(v, t) ==
    IF LowEnd(t) <= v /\ v < 2 ^ t.bits /\ (IsSigned(t) => v <= HighEnd(t))
    THEN Val(t.bits, v) ELSE Refused

Truth(b) == Val(1, IF b THEN 1 ELSE 0)

Abs(i) == IF i < 0 THEN -i ELSE i
TruncDiv(i, j) == IF (i < 0) = (j < 0) THEN Abs(i) \div Abs(j) ELSE -(Abs(i) \div Abs(j))
TruncRem(i, j) == i - j * TruncDiv(i, j)

Bits(op, i, j) == CASE op = "&" -> i & j [] op = "|" -> i | j [] op = "^" -> i ^^ j

(* Instructions: signed arithmetic is `nsw`, division traps, a shift by    *)
(* the width or more has no value.                                         *)
Within(i, w, signed) == signed => LiteralFits(i, SInt(w))
RunInt(op, x, y, signed) ==
    LET i == Read(x, signed)  j == Read(y, signed)
        Exact(v) == IF Within(v, x.w, signed) THEN Val(x.w, v) ELSE Poison
    IN  CASE op = "+" -> Exact(i + j)
          [] op = "-" -> Exact(i - j)
          [] op = "*" -> Exact(i * j)
          [] op = "/" -> IF j = 0 THEN Poison ELSE Exact(TruncDiv(i, j))
          [] op = "%" -> IF j = 0 \/ ~Within(TruncDiv(i, j), x.w, signed) THEN Poison
                         ELSE Val(x.w, TruncRem(i, j))
          [] op = "<<" -> IF y.v >= x.w THEN Poison ELSE Val(x.w, x.v * 2 ^ y.v)
          [] op = ">>" -> IF y.v >= x.w THEN Poison ELSE Val(x.w, i \div 2 ^ y.v)
          [] OTHER    -> Val(x.w, Bits(op, x.v, y.v))

(* Folding: both operands are carried, zero-extended, in Long bits. *)
FoldInt(op, x, y, signed) ==
    LET i == Read(Val(Long, x.v), signed)  j == Read(Val(Long, y.v), signed)
    IN  CASE op = "+" -> Val(x.w, i + j)
          [] op = "-" -> Val(x.w, i - j)
          [] op = "*" -> Val(x.w, i * j)
          [] op = "/" -> IF j = 0 \/ ~Within(TruncDiv(i, j), Long, signed) THEN Refused
                         ELSE Val(x.w, TruncDiv(i, j))
          [] op = "%" -> IF j = 0 \/ ~Within(TruncDiv(i, j), Long, signed) THEN Refused
                         ELSE Val(x.w, TruncRem(i, j))
          [] op = "<<" -> Val(x.w, x.v * 2 ^ (y.v % Long))
          [] op = ">>" -> Val(x.w, i \div 2 ^ (y.v % Long))
          [] op = "&&" -> Val(Int32, IF x.v # 0 /\ y.v # 0 THEN 1 ELSE 0)
          [] op = "||" -> Val(Int32, IF x.v # 0 \/ y.v # 0 THEN 1 ELSE 0)
          [] OTHER    -> Val(x.w, Bits(op, x.v, y.v))

Compared(op, i, j) ==
    CASE op = "==" -> i = j  [] op = "<" -> i < j  [] op = ">=" -> i >= j

(* Both operands at one width, each widened as its own stamp says; the     *)
(* operation is signed when its left operand is.                           *)
Operands(n, x, y) ==
    [x |-> Widened(x, y, IsSigned(n.l.ty)), y |-> Widened(y, x, IsSigned(n.r.ty)),
     signed |-> IsSigned(n.l.ty)]
BothGood(x, y, r) == IF ~Good(x) THEN x ELSE IF ~Good(y) THEN y ELSE r

(* The right operand is evaluated only where the left one does not decide. *)
ShortCircuit(op, x, y) ==
    IF ~Good(x) THEN x
    ELSE IF (op = "&&") = (x.v = 0) THEN Truth(op = "||")
    ELSE IF Good(y) THEN Truth(y.v # 0) ELSE y

Inverted(x) == IF Good(x) THEN Truth(x.v = 0) ELSE x
Complemented(x) == IF Good(x) THEN Val(x.w, -1 - x.v) ELSE x

RECURSIVE Run(_)
Run(n) ==
    CASE n.e = "lit"  -> EmitLiteral(n.v, n.ty)
      [] n.e = "bool" -> Val(1, n.v)
      [] n.e = "var"  -> Val(n.ty.bits, n.v)
      [] n.e = "bin" /\ n.op \in Logical -> ShortCircuit(n.op, Run(n.l), Run(n.r))
      [] n.e = "bin" /\ n.op \notin Logical ->
            LET l == Run(n.l)  r == Run(n.r)  o == Operands(n, l, r)
            IN  BothGood(l, r, RunInt(n.op, o.x, o.y, o.signed))
      [] n.e = "cmp"  ->
            LET l == Run(n.l)  r == Run(n.r)  o == Operands(n, l, r)
            IN  BothGood(l, r, Truth(Compared(n.op, Read(o.x, o.signed), Read(o.y, o.signed))))
      [] n.e = "not"  -> Inverted(Run(n.a))
      [] n.e = "bnot" -> Complemented(Run(n.a))
      [] n.e = "cast" -> EmitCast(Run(n.a), n.ty, n.a.ty)

(* Only the initializer of a global (inGlobalInit) may read a global that   *)
(* is not const, whose value by then is its own initializer.               *)
RECURSIVE Fold(_, _)
Fold(n, inGlobalInit) ==
    CASE n.e = "lit"  -> EmitLiteral(n.v, n.ty)
      [] n.e = "bool" -> Val(1, n.v)
      [] n.e = "var"  -> IF n.const \/ inGlobalInit THEN Val(n.ty.bits, n.v) ELSE Refused
      [] n.e = "bin"  ->
            LET l == Fold(n.l, inGlobalInit)  r == Fold(n.r, inGlobalInit)  o == Operands(n, l, r)
            IN  BothGood(l, r, FoldInt(n.op, o.x, o.y, o.signed))
      [] n.e = "cmp"  -> Refused
      [] n.e = "not"  -> Inverted(Fold(n.a, inGlobalInit))
      [] n.e = "bnot" -> Complemented(Fold(n.a, inGlobalInit))
      [] n.e = "cast" -> EmitCast(Fold(n.a, inGlobalInit), n.ty, n.a.ty)

(* A literal is range-checked and takes the target's width at once. *)
CoercedValue(n, t) ==
    IF n.e = "lit" THEN LiteralTyped(n.v, t) ELSE EmitCast(Run(n), t, n.ty)

(* A declaration; the version before it extends a folded value by zeros,   *)
(* as a global's initializer is.                                           *)
LocalZeroExtended(n, t) ==
    LET x == Fold(n, FALSE) IN IF Good(x) THEN Extended(x, t.bits, FALSE) ELSE CoercedValue(n, t)
LocalValue(n, t) ==
    LET x == Fold(n, FALSE) IN IF Good(x) THEN EmitCast(x, t, n.ty) ELSE CoercedValue(n, t)

GlobalValue(n, t) == LET x == Fold(n, TRUE) IN IF Good(x) THEN Extended(x, t.bits, FALSE) ELSE x

-----------------------------------------------------------------------------
NotYet == [w |-> 0, v |-> 2]

ParseInitializer(x, t) ==
    /\ source = [expr |-> x, target |-> t]
    /\ tree = Parsed(source.expr)
    /\ verdict = "parsed"
    /\ local = NotYet /\ assigned = NotYet /\ global = NotYet

CheckInitializer ==
    LET r == Check(tree, source.target)
    IN  /\ verdict = "parsed"
        /\ tree' = r.n
        /\ verdict' = IF ~r.ok THEN "rejected" ELSE IF r.warns THEN "warned" ELSE "accepted"
        /\ UNCHANGED <<source, local, assigned, global>>

Accepted == verdict \in {"accepted", "warned"}

VarDecl ==
    /\ Accepted /\ local = NotYet
    /\ local' = LocalValue(tree, source.target)
    /\ UNCHANGED <<source, tree, verdict, assigned, global>>

VarAssign ==
    /\ local # NotYet /\ assigned = NotYet
    /\ assigned' = CoercedValue(tree, source.target)
    /\ UNCHANGED <<source, tree, verdict, local, global>>

GlobalVariable ==
    /\ assigned # NotYet /\ global = NotYet
    /\ global' = GlobalValue(tree, source.target)
    /\ UNCHANGED <<source, tree, verdict, local, assigned>>

ValueNext == CheckInitializer \/ VarDecl \/ VarAssign \/ GlobalVariable
Lowered == global # NotYet

-----------------------------------------------------------------------------
(* What the properties have to name. *)

RECURSIVE Nodes(_)
Nodes(n) ==
    {n} \union CASE n.e \in {"bin", "cmp"} -> Nodes(n.l) \union Nodes(n.r)
                 [] n.e \in {"not", "bnot", "cast", "neg"} -> Nodes(n.a)
                 [] OTHER -> {}

(* A signed division, remainder or right shift with a negative operand     *)
(* narrower than the carrier: the folder reads it as a large positive one. *)
MisreadsSign(n, inGlobalInit) ==
    \E m \in Nodes(n) :
        /\ m.e = "bin" /\ m.op \in {"/", "%", ">>"} /\ IsSigned(m.l.ty)
        /\ \E x \in {Fold(m.l, inGlobalInit), Fold(m.r, inGlobalInit)} :
               Good(x) /\ x.w < Long /\ AsSigned(x) < 0

(* Arithmetic or `~` on a folded `&&` or `||`: folding leaves it 32 bits   *)
(* wide, an instruction one.                                               *)
IsLogical(n) == n.e = "bin" /\ n.op \in Logical
ComputesOnTruth(n) ==
    \E m \in Nodes(n) :
        \/ m.e = "bin" /\ ~IsLogical(m) /\ (IsLogical(m.l) \/ IsLogical(m.r))
        \/ m.e = "bnot" /\ IsLogical(m.a)

(* A negative literal accepted for an unsigned type at least as wide. *)
NegativeForUnsigned(n, t) == n.e = "lit" /\ n.v < 0 /\ ~IsSigned(t)

(* Arithmetic and `~` keep the type bool, and `as bool` only truncates. *)
LeavesBits(n) ==
    \E m \in Nodes(n) :
        \/ m.e = "bin" /\ m.op \notin Logical /\ Bool \in {m.l.ty, m.r.ty}
        \/ m.e = "bnot" /\ m.a.ty = Bool
        \/ m.e = "cast" /\ m.ty = Bool /\ m.a.ty # Bool

(* The number an expression stands for, when every number in it lies in    *)
(* the ranges of all its types.                                            *)
NoNumber == -(2 ^ (2 * Long))
TypesIn(x) == {n.t : n \in {m \in Nodes(x) : m.e \in {"var", "cast"}}}
              \union (IF \E m \in Nodes(x) : m.e = "bool" THEN {Bool} ELSE {})

Exactly(op, i, j) ==
    CASE op = "+" -> i + j
      [] op = "-" -> i - j
      [] op = "*" -> i * j
      [] op \in {"/", "%"} -> IF j = 0 THEN NoNumber
                              ELSE IF op = "/" THEN TruncDiv(i, j) ELSE TruncRem(i, j)
      [] op = "<<" -> IF j \in 0 .. Narrow - 1 THEN i * 2 ^ j ELSE NoNumber
      [] op = ">>" -> IF j \in 0 .. Narrow - 1 THEN i \div 2 ^ j ELSE NoNumber
      [] op = "&&" -> IF i # 0 /\ j # 0 THEN 1 ELSE 0
      [] op = "||" -> IF i # 0 \/ j # 0 THEN 1 ELSE 0
      [] op \in {"&", "|", "^"} -> IF i < 0 \/ j < 0 THEN NoNumber ELSE Bits(op, i, j)
      [] OTHER -> IF Compared(op, i, j) THEN 1 ELSE 0

RECURSIVE Number(_, _)
Number(x, types) ==
    LET Of(y) == Number(y, types)
        i == CASE x.e = "lit"  -> x.v
               [] x.e = "bool" -> x.v
               [] x.e = "var"  -> Read(Val(x.t.bits, x.v), IsSigned(x.t))
               [] x.e = "neg"  -> IF Of(x.a) = NoNumber THEN NoNumber ELSE -Of(x.a)
               [] x.e = "not"  -> IF Of(x.a) = NoNumber THEN NoNumber
                                  ELSE IF Of(x.a) = 0 THEN 1 ELSE 0
               [] x.e = "bnot" -> IF Of(x.a) = NoNumber THEN NoNumber ELSE -1 - Of(x.a)
               [] x.e = "cast" -> Of(x.a)
               [] x.e \in {"bin", "cmp"} ->
                      IF NoNumber \in {Of(x.l), Of(x.r)} THEN NoNumber
                      ELSE Exactly(x.op, Of(x.l), Of(x.r))
    IN  IF \A t \in types : LiteralFits(i, t) THEN i ELSE NoNumber

-----------------------------------------------------------------------------
(* Properties *)

(* A negative number, folded for a global wider than the expression.       *)
ZeroExtendsSign(n, t) ==
    LET x == Fold(n, TRUE) IN Good(x) /\ x.w < t.bits /\ IsSigned(n.ty) /\ AsSigned(x) < 0

(* `T x = e` leaves in a local what `x = e` would, and so does the same    *)
(* declaration of a global, which may read other globals' start values:    *)
(* constant folding and instructions compute the same bits, but for three  *)
(* kinds of expressions.                                                   *)
InitializersAgree ==
    Lowered /\ Good(assigned) /\ ~ComputesOnTruth(tree) =>
        /\ ~MisreadsSign(tree, FALSE) => local = assigned
        /\ Good(global) /\ ~MisreadsSign(tree, TRUE) /\ ~ZeroExtendsSign(tree, source.target) =>
               global = assigned

(* What the checker accepts the generator can lower: neither a declaration *)
(* nor an assignment of an accepted expression is refused later, but for a *)
(* negative literal assigned to an unsigned variable.                      *)
AcceptedLowers ==
    Lowered => /\ local # Refused
               /\ assigned # Refused \/ NegativeForUnsigned(tree, source.target)

(* As long as every number in an accepted expression is one that all its   *)
(* types can hold, the code computes exactly that number, whatever widths  *)
(* and signs it mixes; and no implicit conversion at the end changes what  *)
(* the expression's own type says, unless the checker warned.              *)
NumbersAreKept ==
    Lowered /\ verdict = "accepted" /\ ~LeavesBits(tree) =>
        LET i == Number(source.expr, TypesIn(source.expr) \union {source.target})
            x == Run(tree)
            stored == Read(assigned, IsSigned(source.target))
        IN  /\ i # NoNumber /\ assigned # Poison => Good(assigned) /\ stored = i
            /\ tree.e \in {"var", "cast", "cmp", "not"} /\ Good(x) /\ Good(assigned) =>
                   stored = Read(x, IsSigned(tree.ty) /\ x.w > 1)

(* A bool in memory is 0 or 1, as the range metadata of its loads asserts, *)
(* unless the expression does arithmetic on bools or casts to bool.        *)
BoolsHoldBits ==
    Lowered /\ source.target = Bool /\ ~LeavesBits(tree) =>
        \A x \in {local, assigned, global} : Good(x) => x.v \in {0, 1}

(* As the header of the emitters states it: both do identical arithmetic.  *)
FoldingIsFaithful == Lowered /\ Good(assigned) => local = assigned
=============================================================================
