------------------------------- MODULE Layouts -------------------------------
(***************************************************************************)
(* How the code generator lays out type-structs and sums: every sum gets   *)
(* an opaque type, type-structs are made of those, and the sums' bodies    *)
(* are set in rounds, a sum as soon as everything in its payloads has a    *)
(* size (src/src/codegen/sums.rs, structs.rs).                             *)
(*                                                                         *)
(* Sizes are scaled down: a pointer has PointerSize bytes and a byte of    *)
(* tag tells TagStep variants apart (in the code 8 and 256).               *)
(***************************************************************************)
EXTENDS Integers, Sequences, FiniteSetsExt

CONSTANTS
    Programs,       \* [types, root]: what is declared, and a type functions are about
    Sizes,          \* of integers, and so of what they are aligned to
    PointerSize, TagStep

VARIABLES
    program,
    pending,        \* the sums this round has still to look at
    waiting,        \* those it could not lay out yet
    tried,          \* how many it started with
    bodies          \* sum -> storage layout, once set_body was called

layoutVars == <<program, pending, waiting, tried, bodies>>

-----------------------------------------------------------------------------
(* Types as declared.  An array has one dimension. *)

scalar(s) == [k |-> "scalar", size |-> s]
pointer == [k |-> "pointer"]
array(t, n) == [k |-> "array", of |-> t, n |-> n]
named(x) == [k |-> "named", name |-> x]

ElementTypes(p) == {scalar(s) : s \in Sizes} \union {pointer} \union {named(x) : x \in DOMAIN p.types}
TypesOf(p) == ElementTypes(p) \union [k : {"array"}, of : ElementTypes(p), n : Nat]

Element(t) == IF t.k = "array" THEN t.of ELSE t
Inside(t) == IF Element(t).k = "named" THEN {Element(t).name} ELSE {}
Members(d) == IF d.k = "struct" THEN {d.fields[i] : i \in DOMAIN d.fields}
              ELSE UNION {{d.variants[v][i] : i \in DOMAIN d.variants[v]} : v \in DOMAIN d.variants}
StoredIn(p, x) == UNION {Inside(t) : t \in Members(p.types[x])}

(* What the parser accepts: a sum has a variant, and no type stores itself *)
(* (check_byvalue_containment_cycles).                                     *)
ASSUME ProgramsAssumption == \A p \in Programs :
    /\ IsFiniteSet(DOMAIN p.types)
    /\ p.types \in [DOMAIN p.types -> [k : {"struct"}, fields : Seq(TypesOf(p))]
                             \union [k : {"sum"}, variants : Seq(Seq(TypesOf(p))) \ {<<>>}]]
    /\ \A X \in SUBSET DOMAIN p.types : X # {} => \E x \in X : StoredIn(p, x) \intersect X = {}

(* One, two and four bytes for tags; of two sizes one divides the other. *)
ASSUME SizesAssumption ==
    /\ {1, 2, 4, PointerSize} \subseteq Sizes
    /\ \A s \in Sizes : s \in Nat \ {0}
    /\ \A s, t \in Sizes : s % t = 0 \/ t % s = 0
    /\ TagStep \in Nat

Fields(t) == program.types[t.name].fields
Variants(x) == program.types[x].variants
IsSum(t) == t.k = "named" /\ program.types[t.name].k = "sum"
IsStruct(t) == t.k = "named" /\ program.types[t.name].k = "struct"
Sums(p) == {x \in DOMAIN p.types : p.types[x].k = "sum"}

-----------------------------------------------------------------------------
(* LLVM layouts: size, alignment, where the fields are, and which bytes    *)
(* belong to a field.                                                      *)

RoundUp(i, a) == ((i + a - 1) \div a) * a
Shifted(S, i) == {i + j : j \in S}

IntLayout(s) == [size |-> s, align |-> s, at |-> <<>>, data |-> 0 .. s - 1]
Repeated(l, n) == [size |-> n * l.size, align |-> l.align, at |-> <<>>,
                   data |-> UNION {Shifted(l.data, i * l.size) : i \in 0 .. n - 1}]

EmptyLayout == [size |-> 0, align |-> 1, at |-> <<>>, data |-> {}]

(* A field goes to the next place its alignment allows. *)
Placed(s, l) ==
    LET place == RoundUp(s.size, l.align)
    IN  [size |-> place + l.size, align |-> Max({s.align, l.align}),
         at |-> Append(s.at, place), data |-> s.data \union Shifted(l.data, place)]

Structure(ls) ==
    LET first[i \in 0 .. Len(ls)] == IF i = 0 THEN EmptyLayout ELSE Placed(first[i - 1], ls[i])
        all == first[Len(ls)]
    IN  [all EXCEPT !.size = RoundUp(@, all.align)]

-----------------------------------------------------------------------------
(* Lowering.  A sum without a body is an opaque type of no size.           *)

BodyOf(x) == IF x \in DOMAIN bodies THEN bodies[x] ELSE EmptyLayout

(* lang_type_to_llvm: an array decays to a pointer, in a struct too. *)
TypeLowered(layouts, t) ==
    CASE t.k = "scalar" -> IntLayout(t.size)
      [] t.k = "named" -> layouts[t.name]
      [] OTHER -> IntLayout(PointerSize)

(* Of the types by name: LLVM's structs hold each other by name, too. *)
NameLowered(layouts, x) ==
    IF x \in Sums(program) THEN BodyOf(x)
    ELSE Structure([i \in DOMAIN program.types[x].fields |->
                       TypeLowered(layouts, program.types[x].fields[i])])

Layouts ==
    LET layouts[x \in DOMAIN program.types] == NameLowered(layouts, x)
    IN  layouts

LayoutOf(t) == TypeLowered(Layouts, t)

(* Payload fields and variables: an array is its elements. *)
Stored(t) == IF t.k = "array" THEN Repeated(LayoutOf(t.of), t.n) ELSE LayoutOf(t)

Payload(x, v) == Structure([i \in DOMAIN Variants(x)[v] |-> Stored(Variants(x)[v][i])])

(* sum_tag_type: the fewest bytes that tell the variants apart. *)
TagSize(x) ==
    LET count == Len(Variants(x))
    IN  IF count <= TagStep THEN 1 ELSE IF count <= TagStep ^ 2 THEN 2 ELSE 4

(* set_sum_body: the tag, and units as wide as the payloads' alignment. *)
SumBody(x) ==
    LET payloads == {Payload(x, v) : v \in DOMAIN Variants(x)}
        size == Max({p.size : p \in payloads})
        align == Max({p.align : p \in payloads})
        units == Repeated(IntLayout(align), RoundUp(size, align) \div align)
    IN  Structure(IF size = 0 THEN <<IntLayout(TagSize(x))>>
                              ELSE <<IntLayout(TagSize(x)), units>>)

-----------------------------------------------------------------------------
(* Whether everything stored in a type has a size by now. *)

Ready(ready, t) == \A x \in Inside(t) : ready[x]

NameReady(ready, x) ==
    IF x \in Sums(program) THEN x \in DOMAIN bodies
    ELSE \A i \in DOMAIN program.types[x].fields : Ready(ready, program.types[x].fields[i])

NamesReady ==
    LET ready[x \in DOMAIN program.types] == NameReady(ready, x)
    IN  ready

TypeReady(t) == Ready(NamesReady, t)

(* First a slip: a struct is taken to be ready. *)
SumReadyButStructs(x) ==
    \A v \in DOMAIN Variants(x) : \A i \in DOMAIN Variants(x)[v] :
        IsSum(Variants(x)[v][i]) => TypeReady(Variants(x)[v][i])
SumReady(x) ==
    \A v \in DOMAIN Variants(x) : \A i \in DOMAIN Variants(x)[v] : TypeReady(Variants(x)[v][i])

-----------------------------------------------------------------------------
(* Registration: sums opaque, structs, then the sums' bodies in rounds.    *)

NoBodies == [x \in {} |-> EmptyLayout]

(* The sums come in the order of their declarations. *)
Orders(S) == {o \in [1 .. Cardinality(S) -> S] :
                 /\ \A x \in S : \E i \in DOMAIN o : o[i] = x
                 /\ \A i, j \in DOMAIN o : o[i] = o[j] => i = j}
RegisterSums(p) ==
    /\ program = p
    /\ pending \in Orders(Sums(p))
    /\ waiting = <<>> /\ tried = Len(pending)
    /\ bodies = NoBodies

LayOut ==
    /\ pending # <<>>
    /\ LET x == Head(pending)
       IN  IF SumReady(x)
           THEN /\ bodies' = [y \in DOMAIN bodies \union {x} |-> IF y = x THEN SumBody(x) ELSE bodies[y]]
                /\ UNCHANGED waiting
           ELSE waiting' = Append(waiting, x) /\ UNCHANGED bodies
    /\ pending' = Tail(pending)
    /\ UNCHANGED <<program, tried>>

NextRound ==
    /\ pending = <<>> /\ Len(waiting) < tried
    /\ pending' = waiting /\ tried' = Len(waiting) /\ waiting' = <<>>
    /\ UNCHANGED <<program, bodies>>

(* "by-value containment cycle survived parsing" *)
CannotLayOut == pending = <<>> /\ waiting # <<>> /\ Len(waiting) = tried
Settled == pending = <<>> /\ tried = 0

LayoutInit == \E p \in Programs : RegisterSums(p)
LayoutNext == LayOut \/ NextRound
LayoutSpec == LayoutInit /\ [][LayoutNext]_layoutVars

-----------------------------------------------------------------------------

(* Where construction and matching look for a variant's payload: field 1.  *)
(* First a slip: behind the tag if it fits into the padding there.         *)
PayloadPacked(x, v) == RoundUp(TagSize(x), Payload(x, v).align)
PayloadAt(x, v) == BodyOf(x).at[2]

(* The rounds of register_sum_bodies end with every sum laid out, in       *)
(* whatever order they are declared; no layout was computed from one still *)
(* opaque; and every payload lies inside field 1 of the storage, aligned.  *)
(* Payloads of no size have no field 1 to lie in.                          *)
LayoutsSettle ==
    /\ ~CannotLayOut
    /\ Settled => \A x \in Sums(program) :
        /\ x \in DOMAIN bodies /\ bodies[x] = SumBody(x)
        /\ \A v \in DOMAIN Variants(x) : Payload(x, v).size > 0 =>
               /\ Shifted(Payload(x, v).data, PayloadAt(x, v)) \subseteq bodies[x].data
               /\ PayloadAt(x, v) % Payload(x, v).align = 0
               /\ bodies[x].align % Payload(x, v).align = 0
=============================================================================
