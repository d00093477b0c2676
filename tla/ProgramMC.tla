----------------------------- MODULE ProgramMC -----------------------------
(***************************************************************************)
(* Programs for the two-pass parse.  Three files: the root module's, which *)
(* imports mid; mid's, which imports hidden; and hidden's.  The programs   *)
(* are three families, one for each thing that can go wrong: aliases in    *)
(* every order, every containment graph over three types, and functions,   *)
(* globals and gates in every order.                                       *)
(***************************************************************************)
EXTENDS Program

MCFiles    == {"root.ap", "mid.ap", "hidden.ap"}
MCModules  == {"", "mid", "hidden"}
MCModuleOf == [f \in MCFiles |-> CASE f = "root.ap" -> ""
                                   [] f = "mid.ap" -> "mid"
                                   [] f = "hidden.ap" -> "hidden"]
MCImports  == [m \in MCModules |-> CASE m = "" -> {"mid"}
                                     [] m = "mid" -> {"hidden"}
                                     [] m = "hidden" -> {}]

Decl(form, name, file, public, refs, body, methods) ==
  [form |-> form, name |-> name, file |-> file, public |-> public,
   refs |-> refs, body |-> body, methods |-> methods]
Val(t) == [to |-> t, ptr |-> FALSE]
Ptr(t) == [to |-> t, ptr |-> TRUE]
Call(n) == [op |-> "call", name |-> n]
Read(n) == [op |-> "read", name |-> n]
Local(t) == [op |-> "local", name |-> t]

AliasD(n, f, r)     == Decl("alias", n, f, FALSE, <<r>>, <<>>, <<>>)
TypeD(n, f, p, rs)  == Decl("type", n, f, p, rs, <<>>, <<>>)
FnD(n, f, p, rs, b) == Decl("fn", n, f, p, rs, b, <<>>)

\* Every order of every choice of at most n different declarations.
Orders(D, n) == UNION {{s \in [1..k -> D] : \A i, j \in 1..k : s[i] = s[j] => i = j}
                        : k \in 1..n}

AliasTexts ==
  Orders({AliasD("A", "root.ap", Val("B")), AliasD("B", "root.ap", Ptr("C")),
          AliasD("B", "root.ap", Val("A")), AliasD("A", "mid.ap", Val("C")),
          AliasD("C", "root.ap", Val("i32")), TypeD("C", "mid.ap", FALSE, <<Val("A")>>),
          TypeD("C", "mid.ap", TRUE, <<Val("B")>>), TypeD("C", "hidden.ap", TRUE, <<>>),
          Decl("enum", "A", "root.ap", FALSE, <<>>, <<>>, <<>>),
          Decl("global", "x", "root.ap", FALSE, <<Val("A")>>, <<>>, <<>>)}, 3)

\* A type-struct, a sum and a type-struct; what each stores.
Stored == {SetToSeq({Val(t) : t \in S}) : S \in SUBSET {"A", "B", "C"}}
LayoutTexts ==
  {<<TypeD("A", "root.ap", FALSE, a), Decl("sum", "B", "root.ap", FALSE, b, <<>>, <<>>),
     TypeD("C", "root.ap", FALSE, c)>> : a \in Stored \cup {<<Ptr("B")>>}, b, c \in Stored}

MethodT(n, f, ms) == Decl("type", n, f, TRUE, <<>>, <<>>, ms)

SymbolTexts ==
  Orders({FnD("f", "root.ap", FALSE, <<>>, <<Call("g")>>),
          FnD("g", "mid.ap", TRUE, <<Val("A")>>, <<Read("f"), Read("x")>>),
          FnD("g", "hidden.ap", TRUE, <<>>, <<>>),
          FnD("g", "mid.ap", FALSE, <<>>, <<Local("A")>>),
          Decl("extern", "h", "mid.ap", TRUE, <<>>, <<>>, <<>>),
          Decl("asm", "g", "root.ap", FALSE, <<>>, <<>>, <<>>),
          Decl("global", "x", "root.ap", FALSE, <<Val("i32")>>, <<Call("g")>>, <<>>),
          Decl("global", "x", "mid.ap", TRUE, <<Ptr("A")>>, <<Read("x")>>, <<>>),
          Decl("global", "g", "mid.ap", FALSE, <<Val("i32")>>, <<>>, <<>>),
          MethodT("A", "mid.ap", <<[name |-> "m", refs |-> <<Val("A")>>, body |-> <<Call("g")>>]>>),
          MethodT("B", "root.ap", <<[name |-> "m", refs |-> <<>>, body |-> <<>>],
                                    [name |-> "n", refs |-> <<Val("A")>>, body |-> <<Read("x")>>]>>),
          MethodT("A", "root.ap", <<[name |-> "m", refs |-> <<>>, body |-> <<>>],
                                    [name |-> "m", refs |-> <<>>, body |-> <<>>]>>)}, 3)

MCTexts == AliasTexts \cup LayoutTexts \cup SymbolTexts
=============================================================================
