----------------------------- MODULE Aggregates -----------------------------
(***************************************************************************)
(* Type-structs and sums in memory: how the code generator, having laid    *)
(* them out, builds, folds, copies, passes and returns their values, and   *)
(* reads them back (src/src/codegen/sums.rs, structs.rs, functions.rs,     *)
(* switch.rs, comptime_eval.rs).                                           *)
(*                                                                         *)
(* Memory is bytes, and a byte names what was put there: the i-th byte of  *)
(* a scalar or of a tag.  A load or store of a whole aggregate moves the   *)
(* bytes of its fields only, as LLVM's do; padding reads as junk           *)
(* afterwards.                                                             *)
(***************************************************************************)
EXTENDS Layouts, SequencesExt

CONSTANT MaxSteps   \* bounds a behaviour

VARIABLES
  slots,      \* variable -> its bytes
  bound,      \* the locals of the last pattern match: [bytes, of, was]
  held,       \* history: variable -> the value last put there
  initial,    \* history: what the global was initialised with
  steps

memoryVars == <<slots, bound, held, initial, steps>>
aggVars == <<layoutVars, memoryVars>>

-----------------------------------------------------------------------------
(* Bytes and values.  A value is a scalar's name, or its parts.            *)

Junk == <<"junk", 0, 0>>
Byte(mem, at) == IF at < Len(mem) THEN mem[at + 1] ELSE Junk

ScalarBytes(id, s) == [i \in 1 .. s |-> <<"scalar", id, i>>]
TagBytes(x, v) == [i \in 1 .. TagSize(x) |-> <<"tag", v, i>>]
AddressBytes == [i \in 1 .. PointerSize |-> <<"address", 0, i>>]

Fresh(n) == [i \in 1 .. n |-> Junk]
(* What lies beyond the end belongs to somebody else. *)
Write(mem, at, bs) ==
    SubSeq(SubSeq(mem, 1, at) \o bs \o SubSeq(mem, at + Len(bs) + 1, Len(mem)), 1, Len(mem))
(* A whole value loaded, or stored: fields travel, padding does not. *)
Load(mem, at, l) ==
    [i \in 1 .. l.size |-> IF i - 1 \in l.data THEN Byte(mem, at + i - 1) ELSE Junk]

(* Several writes into fresh memory. *)
Assembled(n, at, parts) ==
    FoldLeft(LAMBDA mem, i : Write(mem, at[i], parts[i]), Fresh(n), [i \in DOMAIN parts |-> i])

(* The value of an expression at run time: a scalar, the chain of          *)
(* `insertvalue`s of a struct literal, or emit_sum_construct's temporary,  *)
(* loaded.  As a payload an array's elements are copied there.             *)
RECURSIVE Emitted(_, _)
Elements(e, t) ==
    Assembled(Stored(t).size, [i \in DOMAIN e.parts |-> (i - 1) * LayoutOf(t.of).size],
              [i \in DOMAIN e.parts |-> Emitted(e.parts[i], t.of)])
Emitted(e, t) ==
    CASE t.k = "scalar" -> ScalarBytes(e.id, t.size)
      [] t.k = "pointer" -> ScalarBytes(e.id, PointerSize)
      [] t.k = "array" -> AddressBytes
      [] IsStruct(t) ->
            Assembled(LayoutOf(t).size, LayoutOf(t).at,
                      [i \in DOMAIN e.parts |-> Emitted(e.parts[i], Fields(t)[i])])
      [] IsSum(t) ->
            LET fields == Variants(t.name)[e.variant]
                Part(i) == IF fields[i].k = "array" THEN Elements(e.parts[i], fields[i])
                                                    ELSE Emitted(e.parts[i], fields[i])
                places == [i \in DOMAIN fields |->
                              PayloadAt(t.name, e.variant) + Payload(t.name, e.variant).at[i]]
                tmp == Assembled(LayoutOf(t).size, <<0>> \o places,
                                 <<TagBytes(t.name, e.variant)>> \o [i \in DOMAIN fields |-> Part(i)])
            IN  Load(tmp, 0, LayoutOf(t))

(* What a program sees of a type's value at an address: fields by GEP, a   *)
(* sum's payload once its tag is matched.  An array field is its own       *)
(* address (field_access).                                                 *)
Torn == [k |-> "torn"]

SeenScalar(mem, at, s) ==
    LET id == Byte(mem, at)[2]
    IN  IF \A i \in 1 .. s : Byte(mem, at + i - 1) = <<"scalar", id, i>>
        THEN [k |-> "scalar", id |-> id] ELSE Torn

MatchedTag(mem, at, x) ==
    {v \in DOMAIN Variants(x) : Load(mem, at, IntLayout(TagSize(x))) = TagBytes(x, v)}

RECURSIVE Seen(_, _, _)
Seen(mem, at, t) ==
    CASE t.k = "scalar" -> SeenScalar(mem, at, t.size)
      [] t.k = "pointer" -> SeenScalar(mem, at, PointerSize)
      [] t.k = "array" ->
            [k |-> "array", parts |-> [i \in 1 .. t.n |-> Seen(mem, at + (i - 1) * LayoutOf(t.of).size, t.of)]]
      [] IsStruct(t) ->
            [k |-> "struct",
             parts |-> [i \in DOMAIN Fields(t) |-> Seen(mem, at + LayoutOf(t).at[i], Fields(t)[i])]]
      [] IsSum(t) ->
            LET x == t.name
            IN  IF MatchedTag(mem, at, x) = {} THEN Torn
                ELSE LET v == CHOOSE v \in MatchedTag(mem, at, x) : TRUE
                         fields == Variants(x)[v]
                     IN  [k |-> "sum", variant |-> v,
                          parts |-> [i \in DOMAIN fields |->
                              Seen(mem, at + PayloadAt(x, v) + Payload(x, v).at[i], fields[i])]]

(* comptime_eval: the constant a global's initializer folds to, with the   *)
(* layout of its own type.  A sum's is an anonymous struct of the tag, the *)
(* payload's own constants and explicit padding; a struct with a sum in it *)
(* is refused; an array is the address of a global array.                  *)
Constant(l, bs) == [ok |-> TRUE, l |-> l, bytes |-> bs]
NotConstant == [ok |-> FALSE, l |-> EmptyLayout, bytes |-> <<>>]
Zeros(n) == Constant(Repeated(IntLayout(1), n), [i \in 1 .. n |-> <<"zero", 0, 0>>])

ConstStruct(cs) ==
    LET l == Structure([i \in DOMAIN cs |-> cs[i].l])
    IN  IF \E i \in DOMAIN cs : ~cs[i].ok THEN NotConstant
        ELSE Constant(l, Assembled(l.size, l.at, [i \in DOMAIN cs |-> cs[i].bytes]))

FoldedSum(x, v, payload) ==
    LET tag == Constant(IntLayout(TagSize(x)), TagBytes(x, v))
        storage == BodyOf(x)
    IN  ConstStruct(IF Variants(x)[v] = <<>> THEN <<tag, Zeros(storage.size - TagSize(x))>>
                    ELSE <<tag, Zeros(storage.align - TagSize(x)), ConstStruct(payload),
                           Zeros(storage.size - storage.align - Payload(x, v).size)>>)

RECURSIVE Folded(_, _)
Folded(e, t) ==
    CASE t.k \in {"scalar", "pointer", "array"} -> Constant(LayoutOf(t), Emitted(e, t))
      [] IsStruct(t) ->
            IF \E i \in DOMAIN Fields(t) : IsSum(Fields(t)[i]) THEN NotConstant
            ELSE ConstStruct([i \in DOMAIN e.parts |-> Folded(e.parts[i], Fields(t)[i])])
      [] IsSum(t) ->
            FoldedSum(t.name, e.variant,
                      [i \in DOMAIN e.parts |-> Folded(e.parts[i], Variants(t.name)[e.variant][i])])

-----------------------------------------------------------------------------
(* A function with a local of the type, one it calls with a parameter of   *)
(* it, and a global.                                                       *)

Root == program.root
Storable(e) == Emitted(e, Root)

(* Values of a type, each part taking each of its own at least once; id    *)
(* names the scalars apart.                                                *)
RECURSIVE ValuesOf(_, _)
Tuples(ts, id) ==
    LET parts == [i \in DOMAIN ts |-> ValuesOf(ts[i], 4 * id + i)]
        most == Max({1} \union {Len(parts[i]) : i \in DOMAIN ts})
    IN  [k \in 1 .. most |-> [i \in DOMAIN ts |-> parts[i][((k + i) % Len(parts[i])) + 1]]]
Composed(kind, ps) == [k \in DOMAIN ps |-> [k |-> kind, parts |-> ps[k]]]
ValuesOf(t, id) ==
    CASE t.k \in {"scalar", "pointer"} -> <<[k |-> "scalar", id |-> id]>>
      [] t.k = "array" -> Composed("array", Tuples([i \in 1 .. t.n |-> t.of], id))
      [] IsStruct(t) -> Composed("struct", Tuples(Fields(t), id))
      [] IsSum(t) ->
            LET ps == [v \in DOMAIN Variants(t.name) |-> Tuples(Variants(t.name)[v], id)]
            IN  FlattenSeq([v \in DOMAIN ps |->
                    [k \in DOMAIN ps[v] |-> [k |-> "sum", variant |-> v, parts |-> ps[v][k]]]])

Nothing == [k |-> "nothing"]
Unbound == [bytes |-> <<>>, of |-> <<>>, was |-> <<>>]

MemInit ==
    /\ slots = [x \in {} |-> Fresh(0)] /\ held = [x \in {} |-> Nothing]
    /\ bound = Unbound /\ initial = Nothing /\ steps = 0

Stores(x, bs, e) ==
    /\ slots' = [y \in DOMAIN slots \union {x} |->
                    IF y # x THEN slots[y]
                    ELSE IF x \in DOMAIN slots THEN Write(slots[x], 0, bs) ELSE bs]
    /\ held' = [y \in DOMAIN held \union {x} |-> IF y = x THEN e ELSE held[y]]

(* What a pattern bound is gone when its arm is left. *)
Running == Settled /\ steps < MaxSteps /\ steps' = steps + 1 /\ bound' = Unbound

DefineGlobal(e) ==
    /\ Running /\ steps = 0
    /\ Folded(e, Root).ok
    /\ Stores("global", Folded(e, Root).bytes, e)
    /\ initial' = e
    /\ UNCHANGED layoutVars

DeclareLocal(e) ==
    /\ Running /\ "local" \notin DOMAIN slots
    /\ Stores("local", Storable(e), e)
    /\ UNCHANGED <<layoutVars, initial>>

AssignVariable(x, e) ==
    /\ Running /\ x \in DOMAIN slots
    /\ Stores(x, Storable(e), e)
    /\ UNCHANGED <<layoutVars, initial>>

(* `to = from` *)
Copy(from, to) ==
    /\ Running /\ {from, to} \subseteq DOMAIN slots
    /\ Stores(to, Load(slots[from], 0, LayoutOf(Root)), held[from])
    /\ UNCHANGED <<layoutVars, initial>>

(* build_call_args: the value goes to a temporary, which is the parameter. *)
PassByVal ==
    /\ Running /\ "local" \in DOMAIN slots /\ "param" \notin DOMAIN slots
    /\ Stores("param", Load(slots["local"], 0, LayoutOf(Root)), held["local"])
    /\ UNCHANGED <<layoutVars, initial>>

(* `x = f(x)` when f returns its parameter: stored through the hidden      *)
(* pointer to the caller's slot, and loaded from there.                    *)
ReturnThroughSlot ==
    /\ Running /\ "param" \in DOMAIN slots
    /\ LET slot == Load(slots["param"], 0, LayoutOf(Root))
       IN  slots' = [x \in DOMAIN slots \ {"param"} |->
                        IF x = "local" THEN Write(slots[x], 0, Load(slot, 0, LayoutOf(Root)))
                                       ELSE slots[x]]
    /\ held' = [x \in DOMAIN held \ {"param"} |-> IF x = "local" THEN held["param"] ELSE held[x]]
    /\ UNCHANGED <<layoutVars, initial>>

(* `x.f = e` *)
FieldAssign(x, i, e) ==
    /\ Running /\ x \in DOMAIN slots
    /\ slots' = [slots EXCEPT ![x] = Write(@, LayoutOf(Root).at[i], Emitted(e, Fields(Root)[i]))]
    /\ held' = [held EXCEPT ![x].parts[i] = e]
    /\ UNCHANGED <<layoutVars, initial>>

(* `is` or `switch` on a variable (a copy of it) or on a pointer to it:    *)
(* the payload of the matched variant is copied into locals.               *)
Match(x, direct) ==
    /\ x \in DOMAIN slots /\ IsSum(Root) /\ bound = Unbound
    /\ LET slot == IF direct THEN slots[x] ELSE Load(slots[x], 0, LayoutOf(Root))
       IN  \E v \in MatchedTag(slot, 0, Root.name) :
              LET fields == Variants(Root.name)[v]
                  From(i) == PayloadAt(Root.name, v) + Payload(Root.name, v).at[i]
              IN  bound' = [of |-> fields, was |-> held[x],
                            bytes |-> [i \in DOMAIN fields |->
                                          Load(slot, From(i), Stored(fields[i]))]]
    /\ UNCHANGED <<layoutVars, slots, held, initial, steps>>

AggNext ==
    \/ LayoutNext /\ UNCHANGED memoryVars
    \/ Running /\ \E e \in ToSet(ValuesOf(Root, 1)) : DefineGlobal(e) \/ DeclareLocal(e)
    \/ \E x \in DOMAIN slots : Running /\ \E e \in ToSet(ValuesOf(Root, 2)) : AssignVariable(x, e)
    \/ \E from, to \in DOMAIN slots : Copy(from, to)
    \/ PassByVal
    \/ ReturnThroughSlot
    \/ \E x \in DOMAIN slots : Running /\ IsStruct(Root) /\ \E i \in DOMAIN Fields(Root) :
           \E e \in ToSet(ValuesOf(Fields(Root)[i], 3)) : FieldAssign(x, i, e)
    \/ \E x \in DOMAIN slots, direct \in BOOLEAN : Match(x, direct)

-----------------------------------------------------------------------------
(* Properties *)

(* A type-struct with an array for a field: the field is lowered to a      *)
(* pointer, and accessed as the array itself.                              *)
DecaysInPlace == \E x \in DOMAIN program.types :
    /\ program.types[x].k = "struct"
    /\ \E i \in DOMAIN program.types[x].fields : program.types[x].fields[i].k = "array"

(* A global whose payload holds a sum, which folds to a constant laid out  *)
(* by itself, or an array, which folds to an address.                      *)
Holds(Kind(_)) ==
    /\ initial # Nothing /\ IsSum(Root)
    /\ \E i \in DOMAIN initial.parts : Kind(Variants(Root.name)[initial.variant][i])
IsArray(t) == t.k = "array"
FoldsApart == Holds(IsSum) \/ Holds(IsArray)

(* Through assignments, calls, returns and matches a variable, parameter,  *)
(* global or pattern binder reads as what was last put in it: no copy      *)
(* loses a payload, no call shares its argument, no global is smaller than *)
(* what is stored in it.                                                   *)
ValuesComeBack ==
    Settled /\ ~DecaysInPlace /\ ~FoldsApart =>
        /\ \A x \in DOMAIN slots : Seen(slots[x], 0, Root) = held[x]
        /\ \A i \in DOMAIN bound.of : Seen(bound.bytes[i], 0, bound.of[i]) = bound.was.parts[i]

(* As comptime_sum_construct states it: explicit padding pins every offset *)
(* of a folded sum to the storage's layout.                                *)
ConstantsMirrorStorage ==
    steps = 1 /\ initial # Nothing /\ IsSum(Root) /\ ~Holds(IsArray) =>
        Seen(slots["global"], 0, Root) = initial
=============================================================================
