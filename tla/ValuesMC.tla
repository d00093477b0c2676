------------------------------ MODULE ValuesMC ------------------------------
(***************************************************************************)
(* The expressions tried: leaves at the ends of every type's range under   *)
(* every operator, and a second level over a handful of them.              *)
(***************************************************************************)
EXTENDS Values

Types == {Bool, SInt(Narrow), UInt(Narrow), SInt(Int32), UInt(Int32), SInt(Long), UInt(Long)}

Lit(v) == [e |-> "lit", v |-> v]
Neg(a) == [e |-> "neg", a |-> a]
Var(t, i, const) == [e |-> "var", t |-> t, v |-> i % 2 ^ t.bits, const |-> const]
Bin(op, l, r) == [e |-> "bin", op |-> op, l |-> l, r |-> r]
Cmp(op, l, r) == [e |-> "cmp", op |-> op, l |-> l, r |-> r]
Un(u, a) == [e |-> u, a |-> a]
Cast(t, a) == [e |-> "cast", t |-> t, a |-> a]

Literals == {Lit(v) : v \in {0, 1, 2, 4, 9}} \union {Neg(Lit(v)) : v \in {1, 4, 8}}
            \union {[e |-> "bool", v |-> 1]}
Variables(ts) == UNION {{Var(t, i, FALSE) : i \in {LowEnd(t), 1, HighEnd(t)}} : t \in ts}
Constants(ts) == {Var(t, LowEnd(t), TRUE) : t \in ts}

Leaves == Literals \union Variables(Types) \union Constants({SInt(Narrow), SInt(Int32), SInt(Long)})
Fewer == {Lit(1), Neg(Lit(8)), Var(Bool, 1, FALSE), Var(UInt(Narrow), 5, FALSE),
          Var(SInt(Int32), -2, FALSE), Var(SInt(Narrow), -3, TRUE), Var(UInt(Long), 9, FALSE)}

Ops == {"+", "-", "*", "/", "%", "<<", ">>", "&", "^", "&&", "||"}
Order == {"==", "<", ">="}

Unary(as) == {Un(u, a) : u \in {"neg", "not", "bnot"}, a \in as}
             \union {Cast(t, a) : t \in Types, a \in as}
Binary(ops, ls, rs) == {Bin(op, l, r) : op \in ops, l \in ls, r \in rs}
                       \union {Cmp(op, l, r) : op \in Order, l \in ls, r \in rs}

Inner == Unary(Fewer) \union Binary({"+", ">>", "&&"}, Fewer, Fewer)

Targets == {Bool, SInt(Narrow), UInt(Int32), SInt(Long)}
DeepTargets == {Bool, SInt(Int32), UInt(Long)}

(* One operator over two leaves, for every pair of leaves. *)
FlatInit ==
    \/ \E t \in Targets : \E x \in Leaves \union Unary(Leaves) : ParseInitializer(x, t)
    \/ \E t \in Targets, l \in Leaves, r \in Leaves :
          \/ \E op \in Ops : ParseInitializer(Bin(op, l, r), t)
          \/ \E op \in Order : ParseInitializer(Cmp(op, l, r), t)

(* Operators over operators. *)
DeepInit ==
    \E t \in DeepTargets, a \in Inner :
        \/ \E x \in Unary({a}) : ParseInitializer(x, t)
        \/ \E op \in {"+", "/", "&&"}, r \in {Lit(1), Var(SInt(Long), -5, TRUE)} :
              ParseInitializer(Bin(op, a, r), t)

ValueSpec == (FlatInit \/ DeepInit) /\ [][ValueNext]_valueVars
=============================================================================
