------------------------------ MODULE BodiesMC ------------------------------
(***************************************************************************)
(* The bodies tried: control flow without names, and names in every        *)
(* construct that opens a scope, both nested twice.                        *)
(***************************************************************************)
EXTENDS Bodies

const(v) == [e |-> "const", v |-> v]
var(x) == [e |-> "var", x |-> x]
vblock(stmts) == [e |-> "block", stmts |-> stmts]
none == [e |-> "none"]

do(n) == [k |-> "do", n |-> n]
use(e) == [k |-> "use", e |-> e]
decl(x, e) == [k |-> "decl", x |-> x, e |-> e]
assign(x, e) == [k |-> "assign", x |-> x, e |-> e]
ret(e) == [k |-> "return", e |-> e]
brk == [k |-> "break"]
cont == [k |-> "continue"]
if(cond, then, else) == [k |-> "if", cond |-> cond, then |-> then, else |-> else]
while(cond, stmts) == [k |-> "while", cond |-> cond, body |-> stmts]
for(init, cond, inc, stmts) ==
    [k |-> "for", init |-> init, cond |-> cond, inc |-> inc, body |-> stmts]
switch(space, arms, default) ==
    [k |-> "switch", space |-> space, arms |-> arms, default |-> default]
arm(cases, binds, stmts) == [cases |-> cases, binds |-> binds, stmts |-> stmts]
block(stmts) == [k |-> "block", stmts |-> stmts]

Ask == <<NoName>>

-----------------------------------------------------------------------------
(* Control flow.  `e` is what the returns of the function carry.           *)

Ends(e) == {<<>>, <<do(1)>>, <<brk>>, <<cont, do(1)>>, <<ret(e)>>}

Optional(lists) == {<<>>} \union {<<l>> : l \in lists}

Forks(e) ==
    {if(Ask, l, m) : l \in Ends(e), m \in Optional(Ends(e))}
    \union {switch(2, <<arm(<<0>>, NoName, l), arm(c, NoName, m)>>, <<>>) :
                l \in Ends(e), m \in {<<brk>>, <<do(1)>>, <<ret(e)>>}, c \in {<<1>>, <<0>>}}
    \union {switch(0, <<arm(<<0, 2>>, NoName, l)>>, d) :
                l \in Ends(e), d \in Optional({<<do(2)>>, <<ret(e)>>})}
    \union {use(vblock(<<if(Ask, l, m), ret(const(5))>>)) :
                l \in {<<brk>>, <<cont>>, <<ret(const(4)), do(1)>>}, m \in {<<>>, <<<<do(2)>>>>}}
    \union {use(vblock(<<if(Ask, l, <<m>>)>>)) : l, m \in {<<ret(const(4))>>, <<do(1)>>, <<brk>>}}
    \union {use(vblock(<<s>>)) :
                s \in {while(Ask, <<ret(const(4))>>),
                       block(<<use(vblock(<<ret(const(6))>>)), ret(const(4))>>),
                       switch(2, <<arm(<<0, 1>>, NoName, <<ret(const(4))>>)>>, <<>>),
                       switch(2, <<arm(<<0, 0>>, NoName, <<ret(const(4))>>)>>, <<>>),
                       switch(2, <<arm(<<0>>, NoName, <<ret(const(4))>>)>>, <<>>)}}

Bodied(e) == Ends(e) \union {<<f>> : f \in Forks(e)} \union {<<f, do(2)>> : f \in Forks(e)}

Loops(e) ==
    UNION {{while(Ask, l), for(<<>>, Ask, <<do(3)>>, l), for(<<do(4)>>, <<>>, <<do(3)>>, l)} :
                l \in Bodied(e)}

Tails(e) == {<<ret(e)>>, <<do(5)>>}

Flow(yields, e) ==
    {[yields |-> yields, stmts |-> <<s>> \o t] : s \in Loops(e) \union Forks(e), t \in Tails(e)}
    \union {[yields |-> yields, stmts |-> <<while(Ask, <<s, do(6)>>)>> \o t] :
                s \in Loops(e), t \in Tails(e)}
    \union {[yields |-> yields, stmts |-> <<block(<<ret(e)>>), do(1)>>]}

-----------------------------------------------------------------------------
(* Names: a local x of the function, and what constructs do with an x.     *)

x == "x"
Touches == {decl(x, const(2)), use(var(x)), assign(x, const(3)), decl(x, var(x)),
            use(vblock(<<decl(x, const(8)), ret(var(x))>>))}
Touching == {<<>>} \union {<<s>> : s \in Touches} \union {<<s, t>> : s, t \in Touches}
Few == {<<use(var(x))>>, <<decl(x, const(2)), use(var(x))>>}
Conds == {Ask, <<x>>, <<x, NoName>>, <<NoName, x>>}
Incs == {<<>>, <<assign(x, const(9))>>, <<use(var(x))>>}

Scoped(inner) ==
    {if(c, l, m) : c \in Conds, l \in inner, m \in Optional(Few)}
    \union {while(c, l) : c \in Conds, l \in inner}
    \union {for(i, Ask, n, l) : i \in {<<>>, <<decl(x, const(6))>>}, n \in Incs, l \in inner}
    \union {switch(2, <<arm(<<1>>, b, l)>>, <<d>>) : b \in {NoName, x}, l \in inner, d \in Few}
    \union {use(vblock(l \o <<ret(var(x))>>)) : l \in inner}
    \union {block(l) : l \in inner}

Nested == {<<s, use(var(x))>> : s \in Scoped(Few)}

Naming(inner) ==
    {[yields |-> "void", stmts |-> <<decl(x, const(1)), s, use(var(x))>>] : s \in Scoped(inner)}

Undeclared == {[yields |-> "void", stmts |-> <<s>>] : s \in Scoped(Few)}

MCBodies == Flow("void", none) \union Flow("value", const(7))
            \union Naming(Touching) \union Naming(Nested) \union Undeclared
=============================================================================
