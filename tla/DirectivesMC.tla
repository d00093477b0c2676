---------------------------- MODULE DirectivesMC ----------------------------
(***************************************************************************)
(* Chains of conditionals, the first of them opened on an expression.      *)
(***************************************************************************)
EXTENDS Conditionals, IfExpressions

MCLiterals == ("0" :> 0) @@ ("1" :> 1) @@ ("6" :> 6)

\* A number, a list that is none, a chain, names defined by each other or by
\* themselves, half an expression each, a flag, and a test within a define.
MCDefines ==
    LET none == [n \in {} |-> <<>>]
    IN  {none,
         ("A" :> <<"1", "+", "6">>) @@ ("B" :> <<"A", "*", "A">>),
         ("A" :> <<"B", "-", "1">>) @@ ("B" :> <<"A">>),
         ("A" :> <<"1", "A">>) @@ ("B" :> <<>>),
         ("A" :> <<"(", "B">>) @@ ("B" :> <<"6", ")">>),
         ("A" :> <<"defined", "(", "B", ")">>)}

\* Whatever is written down.
Anything ==
    UNION {[1 .. n -> {"A", "B", "6", "defined", "(", ")", "-", "*", "!", "=="}] : n \in 0 .. 4}

Prefixed(t) == {<<t>>, <<"-", t>>, <<"!", t>>}
\* Two operators between any numbers, three between some, and parentheses; with 6 << 6
\* the least word on the left of an operator, or on both sides.
Sums ==
    {a \o <<op>> \o b \o <<oq, c>> :
        a \in Prefixed("6"), b \in Prefixed("1") \union {<<"0">>, <<"6">>},
        c \in {"0", "6"}, op \in Operators, oq \in Operators}
    \union {<<a, op, "(", "6", oq, "1", ")">> :
        a \in DOMAIN MCLiterals, op \in Operators, oq \in Operators}
    \union {<<"1", op, "6", oq, "1", or, c>> :
        c \in {"0", "6"}, op \in Operators, oq \in Operators, or \in {"||", "==", "&", "+", "*"}}
    \union {<<"(", "6", "<<", "6", ")", op>> \o c :
        op \in Operators,
        c \in Prefixed("0") \union Prefixed("1") \union Prefixed("6") \union {<<"(", "6", "<<", "6", ")">>}}

Asked(texts, defines) ==
    {[text |-> t, defs |-> d, answer |-> Unanswered] : t \in texts, d \in defines}

NoQuery == [text |-> <<"1">>, defs |-> [n \in {} |-> <<>>], answer |-> Value(1, 2)]

Init ==
    /\ CondInit
    /\ query \in {NoQuery}
           \union Asked(Anything, MCDefines)
           \union Asked(Sums, {[n \in {} |-> <<>>]})

\* open_if with the answer, or the error, of its expression.
OpenIf ==
    /\ query # NoQuery /\ query.answer # Unanswered
    /\ IF Ok(query.answer) THEN Open(CHOOSE f \in Files : TRUE, query.answer.v # 0)
       ELSE err' = query.answer.err /\ UNCHANGED frames
    /\ query' = NoQuery

Next ==
    \/ EvaluateIf /\ UNCHANGED condVars
    \/ OpenIf
    \/ query = NoQuery /\ CondNext /\ UNCHANGED query

DirSpec == Init /\ [][Next]_<<condVars, query>>
=============================================================================
