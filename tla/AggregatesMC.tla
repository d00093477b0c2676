---------------------------- MODULE AggregatesMC ----------------------------
(***************************************************************************)
(* The programs tried: every sum of up to three variants over a few        *)
(* payloads, and types in each other, declared in every order.             *)
(***************************************************************************)
EXTENDS Aggregates

one == scalar(1)
two == scalar(2)
four == scalar(4)
sum(vs) == [k |-> "sum", variants |-> vs]
struct(fs) == [k |-> "struct", fields |-> fs]

Program(types, root) == [types |-> types, root |-> named(root)]

Payloads == {<<>>, <<one>>, <<one, four>>, <<two, pointer>>}
Lone ==
    {Program([x \in {"A"} |-> sum(vs)], "A") :
        vs \in UNION {[1 .. n -> Payloads] : n \in 1 .. 2}
               \union {<<p, <<>>, <<one, four>>>> : p \in Payloads}
               \union {<<<<array(two, 3), one>>, <<four>>>>}
               \union {<<<<>>, <<one>>, <<>>, <<one>>, <<>>>>}}

A == sum(<<<<one>>, <<one, four>>>>)
B == sum(<<<<two>>, <<one, one>>>>)
Holding(t, extra) == {sum(<<<<one, t>>, extra>>), sum(<<<<t>>, extra, <<t, one>>>>)}

\* One type inside another: directly, through a struct, in an array.
Nested ==
    {Program([x \in {"A", "B"} |-> IF x = "A" THEN a ELSE b], "B") :
        a \in {A, B},
        b \in Holding(named("A"), <<>>) \union Holding(array(named("A"), 2), <<one>>)}
    \union {Program([x \in {"A", "B", "R"} |-> IF x = "A" THEN A ELSE IF x = "R" THEN r ELSE b], root) :
               r \in {struct(<<one, named("A")>>), struct(<<two, named("A"), one>>)},
               b \in Holding(named("R"), <<two>>), root \in {"B"}}
    \union {Program([x \in {"A", "R"} |-> IF x = "A" THEN A ELSE struct(<<one, named("A")>>)], "R")}
    \union {Program([x \in {"A", "B", "C", "R"} |->
                        CASE x = "A" -> B
                          [] x = "B" -> sum(<<<<named("R"), one>>, <<>>>>)
                          [] x = "R" -> struct(<<one, named("A")>>)
                          [] x = "C" -> sum(<<<<named("B")>>, <<array(named("A"), 2), one>>>>)], "C")}
    \union {Program([x \in {"R", "S"} |-> IF x = "R" THEN struct(<<one, named("S"), two>>)
                                          ELSE struct(<<two, one>>)], "R"),
            Program([x \in {"R"} |-> struct(<<array(one, 6), two>>)], "R")}

\* Members of no size.
Hollow ==
    {Program([x \in {"E", "R"} |-> IF x = "E" THEN struct(<<>>) ELSE r], "R") :
        r \in {sum(<<<<named("E"), two>>, <<one, array(two, 0)>>>>), struct(<<one, named("E")>>)}}

MCPrograms == Lone \union Nested \union Hollow

AggInit == MemInit /\ LayoutInit
AggSpec == AggInit /\ [][AggNext]_aggVars
=============================================================================
