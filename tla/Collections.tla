---------------------------- MODULE Collections ----------------------------
(***************************************************************************)
(* The containers of the standard library: the hash map MapStrI64, the     *)
(* vector VecI32 and the string String, each over the memory it allocates. *)
(*                                                                         *)
(* Beside each container stands what its user was promised: the function,  *)
(* the sequence or the text that the calls so far add up to.               *)
(*                                                                         *)
(* Keys are compared and copied as wholes, and allocations succeed: the    *)
(* library does not check them.                                            *)
(***************************************************************************)
EXTENDS Integers, SequencesExt, FiniteSetsExt

CONSTANTS
    Hashes,     \* the hash functions tried, each from the keys tried with it to numbers
    Items,      \* the values put, pushed and appended
    MaxItems,   \* bounds the length of a vector and of a string
    Wanted,     \* what with_capacity is asked for
    MaxPuts     \* bounds the puts into a map

\* A slot that holds no key holds a null pointer.
ASSUME KeysAreNotNull == \A h \in Hashes : h \in [DOMAIN h -> Nat] /\ 0 \notin DOMAIN h
ASSUME WantedAreCounts == Wanted \subseteq Nat

VARIABLES
    map,        \* MapStrI64: [keys, vals, count, cap, hash], and what it owns
    mapping,    \* the promise: a function from keys to values
    vec,        \* VecI32: [data, length], data as long as its capacity
    list,       \* the promise: a sequence
    str,        \* String: [data, length]
    text        \* the promise: a sequence of bytes

Null == 0
Junk == -1      \* what fresh memory holds
NUL == 0        \* the terminator

Unset(n) == [i \in 0 .. n - 1 |-> Junk]
Nulls(n) == [i \in 0 .. n - 1 |-> Null]

-----------------------------------------------------------------------------
(* The map: open addressing, linear probing, a power of two of slots. *)

PowerOfTwo(k) ==
    LET power[i \in 0 .. k] == IF i = 0 THEN 1 ELSE 2 * power[i - 1]
    IN  power[k]

\* The number of slots for `want` entries below 70% load: 8, doubled until it fits.
SlotsFor(want) ==
    LET fits == {k \in 3 .. want + 3 : PowerOfTwo(k) * 7 >= want * 10}
    IN  PowerOfTwo(Min(fits))

NewMap(cap, hash) ==
    [keys |-> Nulls(cap), vals |-> Unset(cap), count |-> 0, cap |-> cap, hash |-> hash,
     owned |-> 2,   \* allocations: the two slot arrays and the key copies
     puts |-> 0]

\* The d-th slot that is tried for key k. The mask, cap - 1, keeps the remainder
\* as long as cap is a power of two (MapIsAFunction).
Probed(m, k, d) == (m.hash[k] + d) % m.cap

Stopping(m, ends, k) ==
    LET stops == {d \in 0 .. m.cap - 1 : m.keys[Probed(m, k, d)] \in ends}
    IN  IF stops = {} THEN -1 ELSE Probed(m, k, Min(stops))

\* The slot of k, or the one where it would go; -1 would be a loop without an end.
FindSlot(m, k) == Stopping(m, {Null, k}, k)

GetOr(m, k, fallback) ==
    LET i == FindSlot(m, k) IN IF m.keys[i] = Null THEN fallback ELSE m.vals[i]

\* Keys move to a table of twice the size.
Rehashed(m, old, j) ==
    IF old.keys[j] = Null THEN m
    ELSE LET i == Stopping(m, {Null}, old.keys[j])
         IN  [m EXCEPT !.keys[i] = old.keys[j], !.vals[i] = old.vals[j]]

\* Without the rehash.
MovedInPlace(old) ==
    [old EXCEPT !.cap = old.cap * 2,
                !.keys = old.keys @@ Nulls(old.cap * 2),
                !.vals = old.vals @@ Unset(old.cap * 2)]
Moved(old) ==
    LET fresh == [NewMap(old.cap * 2, old.hash) EXCEPT
                    !.count = old.count, !.owned = old.owned, !.puts = old.puts]
        moved[j \in 0 .. old.cap] ==
            IF j = 0 THEN fresh ELSE Rehashed(moved[j - 1], old, j - 1)
    IN  moved[old.cap]

Full(m) == (m.count + 1) * 10 >= m.cap * 7

Regrown(m) == IF Full(m) THEN Moved(m) ELSE m

Stored(m, k, v) ==
    LET i == FindSlot(m, k)
    IN  IF m.keys[i] = Null
        THEN [m EXCEPT !.keys[i] = k, !.vals[i] = v, !.count = @ + 1, !.owned = @ + 1]
        ELSE [m EXCEPT !.vals[i] = v]

MapInit ==
    /\ \E hash \in Hashes, want \in Wanted : map = NewMap(SlotsFor(want), hash)
    /\ mapping = <<>>

Put(k, v) ==
    /\ map.cap > 0 /\ map.puts < MaxPuts
    /\ map' = [Stored(Regrown(map), k, v) EXCEPT !.puts = @ + 1]
    /\ mapping' = [x \in DOMAIN mapping \union {k} |-> IF x = k THEN v ELSE mapping[x]]

\* The key copies and the two arrays are freed; no call may follow.
MapDestroy ==
    /\ map.cap > 0
    /\ map' = [map EXCEPT !.count = 0, !.cap = 0,
                          !.owned = @ - 2 - Cardinality({i \in DOMAIN map.keys : map.keys[i] # Null})]
    /\ mapping' = <<>>

\* A value of its own for the overwriting puts.
MapNext ==
    \/ \E k \in DOMAIN map.hash : Put(k, IF k \in DOMAIN mapping THEN mapping[k] + 1 ELSE 1)
    \/ MapDestroy

-----------------------------------------------------------------------------
(* The vector. *)

NewVec(cap) == [data |-> Unset(cap), length |-> 0]
Capacity(c) == Cardinality(DOMAIN c.data)

\* realloc: what was there, and fresh memory behind it.
Realloc(data, n) == [i \in 0 .. n - 1 |-> IF i \in DOMAIN data THEN data[i] ELSE Junk]

GrowthAtLeast(cap, need, least) == Max({cap * 2, need, least})

Room(c, need, least) ==
    IF need <= Capacity(c) THEN c
    ELSE [c EXCEPT !.data = Realloc(@, GrowthAtLeast(Capacity(c), need, least))]

Pushed(c, v) ==
    LET r == Room(c, c.length + 1, 4)
    IN  [r EXCEPT !.data[r.length] = v, !.length = @ + 1]

VecInit == \E cap \in 0 .. 2 : vec = NewVec(cap) /\ list = <<>>

Push(v) == Len(list) < MaxItems /\ vec' = Pushed(vec, v) /\ list' = Append(list, v)

\* pop, at and set abort the program where the index is out of range.
Pop ==
    /\ vec.length # 0
    /\ vec' = [vec EXCEPT !.length = @ - 1]
    /\ list' = Front(list)

Set(i, v) ==
    /\ i < vec.length
    /\ vec' = [vec EXCEPT !.data[i] = v]
    /\ list' = [list EXCEPT ![i + 1] = v]

VecDestroy == vec' = NewVec(0) /\ list' = <<>>

VecNext ==
    \/ \E v \in Items : Push(v)
    \/ Pop
    \/ \E i \in 0 .. vec.length, v \in Items : Set(i, v)
    \/ VecDestroy

-----------------------------------------------------------------------------
(* The string. *)

\* memcpy of the bytes of a C string, the terminator included.
CopiedWithoutNUL(data, at, s) ==
    [i \in DOMAIN data |-> IF i \in at .. at + Len(s) - 1 THEN s[i - at + 1] ELSE data[i]]
Copied(data, at, s) ==
    [i \in DOMAIN data |-> IF i \in at .. at + Len(s) THEN Append(s, NUL)[i - at + 1] ELSE data[i]]

FromCString(s) == [data |-> Copied(Unset(Len(s) + 1), 0, s), length |-> Len(s)]

Extended(c, s) ==
    LET r == Room(c, c.length + Len(s) + 1, 0)
    IN  [data |-> Copied(r.data, r.length, s), length |-> r.length + Len(s)]

ByteAdded(c, b) ==
    LET r == Room(c, c.length + 2, 0)
    IN  [r EXCEPT !.data = [r.data EXCEPT ![r.length] = b, ![r.length + 1] = NUL],
                  !.length = @ + 1]

Texts == UNION {[1 .. n -> Items] : n \in 0 .. 3}

StrInit == \E s \in Texts : str = FromCString(s) /\ text = s

AppendCString(s) ==
    /\ Capacity(str) > 0 /\ Len(text) + Len(s) <= MaxItems
    /\ str' = Extended(str, s)
    /\ text' = text \o s

AppendByte(b) ==
    /\ Capacity(str) > 0 /\ Len(text) < MaxItems
    /\ str' = ByteAdded(str, b)
    /\ text' = Append(text, b)

\* As with the map, no call may follow.
StrDestroy == Capacity(str) > 0 /\ str' = [data |-> Unset(0), length |-> 0] /\ text' = <<>>

StrNext ==
    \/ \E s \in Texts : AppendCString(s)
    \/ \E b \in Items : AppendByte(b)
    \/ StrDestroy

-----------------------------------------------------------------------------
(* Properties. *)

\* A map answers as the function that the puts so far define, however its keys
\* collide, wrap around the end of the table or move when it grows; it counts its
\* keys, and frees in the end exactly what it allocated.  Every probe ends, because
\* there is always an empty slot (find_slot: "The load-factor cap guarantees an
\* empty slot always exists"), and masking is a remainder because the number of
\* slots stays a power of two (put, grow, find_slot).
MapIsAFunction ==
    IF map.cap = 0 THEN map.owned = 0
    ELSE /\ \A k \in DOMAIN map.hash : FindSlot(map, k) # -1
         /\ \E i \in DOMAIN map.keys : map.keys[i] = Null
         /\ \E k \in 3 .. map.cap : map.cap = PowerOfTwo(k)
         /\ \A k \in DOMAIN map.hash : GetOr(map, k, Junk) = IF k \in DOMAIN mapping THEN mapping[k] ELSE Junk
         /\ map.count = Cardinality(DOMAIN mapping)
         /\ map.owned = 2 + map.count

\* Growing, popping and overwriting keep what is stored: vector and string hold
\* the promised items, within their memory, and the string stays terminated
\* (reserve, push, append_cstring, append_byte).
StoresHoldTheirItems ==
    /\ vec.length = Len(list) /\ vec.length <= Capacity(vec)
    /\ \A i \in DOMAIN list : vec.data[i - 1] = list[i]
    /\ str.length = Len(text)
    /\ \A i \in DOMAIN text : str.data[i - 1] = text[i]
    /\ Capacity(str) > 0 => str.length < Capacity(str) /\ str.data[str.length] = NUL
=============================================================================
