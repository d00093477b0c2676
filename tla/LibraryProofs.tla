---------------------------- MODULE LibraryProofs ----------------------------
(***************************************************************************)
(* The standard library's units keep their promises, each a specification  *)
(* of its own here as it is in LibraryMC.                                  *)
(*                                                                         *)
(* The vector and the string hold what was put into them, for every set of *)
(* items and contents of any length: growing keeps every cell there was    *)
(* and yields room for what is needed, the string's terminator included;   *)
(* and what is written is written behind what is stored.                   *)
(*                                                                         *)
(* The hash map answers as the function that was put into it, for every    *)
(* hash function and any number of puts: a key lies where the search for   *)
(* it comes along before it meets an empty slot, storing another key       *)
(* empties none, and below full load a slot is empty, so every search      *)
(* ends.                                                                   *)
(*                                                                         *)
(* What a printer hands out is what it was given, once and in order: the   *)
(* buffers before this one and the bytes of this one that are done.        *)
(*                                                                         *)
(* Of an array that is being sorted, two elements are out of order only if *)
(* one range that is still to be sorted holds both, so in the end none are.*)
(***************************************************************************)
EXTENDS Collections, Output, Sorting, FiniteSetTheorems, SequenceTheorems, NaturalsInduction,
        WellFoundedInduction, TLAPS

-----------------------------------------------------------------------------
(* Numbers. *)

\* A set of numbers has a least one.
LEMMA LeastNumber ==
    ASSUME NEW N, N \subseteq Nat, N # {}
    PROVE  \E n \in N : \A m \in N : n <= m
<1> DEFINE Less == OpToRel(<, Nat)
<1>1. IsWellFoundedOn(Less, Nat)
  BY NatLessThanWellFounded DEF OpToRel
<1> HIDE DEF Less
<1>2. PICK n \in N : \A m \in N : <<m, n>> \notin Less
  BY <1>1, WFMin
<1>3. ASSUME NEW m \in N PROVE ~(m < n)
  <2>1. m \in Nat /\ n \in Nat
    OBVIOUS
  <2>2. m < n => <<m, n>> \in Less
    BY <2>1 DEF Less, OpToRel
  <2> QED BY <1>2, <2>2
<1> QED BY <1>3

\* Min is the least one.
LEMMA MinFacts ==
    ASSUME NEW N, N \subseteq Nat, N # {}
    PROVE  Min(N) \in N /\ \A m \in N : Min(N) <= m
BY LeastNumber DEF Min

-----------------------------------------------------------------------------
(* The vector and the string. *)

StoresInit == VecInit /\ StrInit

StoresNext ==
    \/ VecNext /\ UNCHANGED <<str, text>>
    \/ StrNext /\ UNCHANGED <<vec, list>>

\* The vector and the string side by side, as LibraryMC runs them.
StoresSpec == StoresInit /\ [][StoresNext]_<<vec, list, str, text>>

Cells == Items \cup {Junk, NUL}

IsStore(c) ==
    /\ c = [data |-> c.data, length |-> c.length]
    /\ c.length \in Nat
    /\ \E n \in Nat : c.data \in [0 .. n - 1 -> Cells]

Holds(c, s) ==
    /\ s \in Seq(Items)
    /\ c.length = Len(s) /\ c.length <= Capacity(c)
    /\ \A i \in 1 .. Len(s) : c.data[i - 1] = s[i]

Terminated(c) == Capacity(c) > 0 => c.length < Capacity(c) /\ c.data[c.length] = NUL

\* The inductive invariant.
StoresInv ==
    /\ IsStore(vec) /\ Holds(vec, list)
    /\ IsStore(str) /\ Holds(str, text) /\ Terminated(str)

-----------------------------------------------------------------------------
(* Memory. *)

\* The capacity is the number of cells.
LEMMA CellsOfCapacity ==
    ASSUME NEW c, IsStore(c)
    PROVE  Capacity(c) \in Nat /\ c.data \in [0 .. Capacity(c) - 1 -> Cells]
<1>1. PICK n \in Nat : c.data \in [0 .. n - 1 -> Cells]
  BY DEF IsStore
<1>2. DOMAIN c.data = 0 .. n - 1
  BY <1>1
<1>3. Cardinality(0 .. n - 1) = n
  <2>1. 0 \in Int /\ n - 1 \in Int
    BY <1>1
  <2>2. Cardinality(0 .. n - 1) = IF 0 > n - 1 THEN 0 ELSE (n - 1) - 0 + 1
    BY <2>1, FS_Interval
  <2> QED BY <1>1, <2>2
<1> QED BY <1>1, <1>2, <1>3 DEF Capacity

\* A store is made of its cells.
LEMMA StoreOfCells ==
    ASSUME NEW n \in Nat, NEW d \in [0 .. n - 1 -> Cells], NEW k \in Nat
    PROVE  /\ IsStore([data |-> d, length |-> k])
           /\ Capacity([data |-> d, length |-> k]) = n
<1> DEFINE c == [data |-> d, length |-> k]
<1>1. c.data = d /\ c.length = k /\ c = [data |-> c.data, length |-> c.length]
  OBVIOUS
<1> HIDE DEF c
<1>2. IsStore(c)
  BY <1>1 DEF IsStore
<1>3. Capacity(c) \in Nat /\ d \in [0 .. Capacity(c) - 1 -> Cells]
  BY <1>1, <1>2, CellsOfCapacity
<1>4. 0 .. n - 1 = 0 .. Capacity(c) - 1
  BY <1>3
<1>5. Capacity(c) = n
  <2>1. CASE n = 0
    BY <1>3, <1>4, <2>1
  <2>2. CASE n > 0
    <3>1. n - 1 \in 0 .. Capacity(c) - 1 /\ (Capacity(c) > n => n \in 0 .. n - 1)
      BY <1>3, <1>4, <2>2
    <3> QED BY <1>3, <2>2, <3>1
  <2> QED BY <2>1, <2>2
<1> QED BY <1>2, <1>5 DEF c

\* Growing makes the room that is needed and keeps what there is.
LEMMA RoomKeeps ==
    ASSUME NEW c, IsStore(c), NEW need \in Nat, NEW least \in Nat
    PROVE  LET r == Room(c, need, least)
           IN  /\ IsStore(r) /\ r.length = c.length
               /\ need <= Capacity(r) /\ Capacity(c) <= Capacity(r)
               /\ \A i \in 0 .. Capacity(c) - 1 : r.data[i] = c.data[i]
<1> DEFINE r == Room(c, need, least)
           n == Capacity(c)
           g == GrowthAtLeast(n, need, least)
<1>1. n \in Nat /\ c.data \in [0 .. n - 1 -> Cells] /\ c.length \in Nat
      /\ c = [data |-> c.data, length |-> c.length]
  BY CellsOfCapacity DEF IsStore
<1>2. CASE need <= n
  <2>1. r = c
    BY <1>2 DEF Room
  <2> QED BY <1>1, <1>2, <2>1
<1>3. CASE ~(need <= n)
  <2>1. g \in Nat /\ g >= need /\ g >= n * 2
    <3>1. \A x, y, z \in Nat : \E m \in {x, y, z} : \A k \in {x, y, z} : m >= k
      <4>1. ASSUME NEW x \in Nat, NEW y \in Nat, NEW z \in Nat
            PROVE  \E m \in {x, y, z} : \A k \in {x, y, z} : m >= k
        <5>1. CASE x >= y /\ x >= z
          BY <5>1
        <5>2. CASE y >= x /\ y >= z
          BY <5>2
        <5>3. CASE z >= x /\ z >= y
          BY <5>3
        <5> QED BY <5>1, <5>2, <5>3
      <4> QED BY <4>1
    <3>2. n * 2 \in Nat
      BY <1>1
    <3> DEFINE S == {n * 2, need, least}
    <3> HIDE DEF n
    <3>3. \E m \in S : \A k \in S : m >= k
      BY <3>1, <3>2
    <3>4. Max(S) \in S /\ \A k \in S : Max(S) >= k
      <4> HIDE DEF S
      <4> QED BY <3>3 DEF Max
    <3> QED BY <3>2, <3>4 DEF GrowthAtLeast
  <2>2. g >= n
    BY <1>1, <2>1
  <2> HIDE DEF g
  <2> DEFINE d == Realloc(c.data, g)
  <2>3. d \in [0 .. g - 1 -> Cells] /\ \A i \in 0 .. n - 1 : d[i] = c.data[i]
    <3>1. d = [i \in 0 .. g - 1 |-> IF i \in 0 .. n - 1 THEN c.data[i] ELSE Junk]
      BY <1>1 DEF Realloc
    <3> QED BY <1>1, <2>1, <2>2, <3>1 DEF Cells
  <2>4. r = [data |-> d, length |-> c.length]
    <3>1. r = [c EXCEPT !.data = d]
      BY <1>3 DEF Room, g
    <3> HIDE DEF d, r
    <3> QED BY <1>1, <3>1
  <2> HIDE DEF d
  <2>5. r.data = d /\ r.length = c.length
    BY <2>4
  <2>6. IsStore(r) /\ Capacity(r) = g
    BY <1>1, <2>1, <2>3, <2>4, StoreOfCells
  <2>7. need <= Capacity(r) /\ n <= Capacity(r) /\ \A i \in 0 .. n - 1 : r.data[i] = c.data[i]
    BY <2>1, <2>2, <2>3, <2>5, <2>6
  <2> QED BY <2>5, <2>6, <2>7
<1> QED BY <1>2, <1>3
-----------------------------------------------------------------------------
(* The vector. *)

\* push, behind what is stored.
LEMMA PushedHolds ==
    ASSUME NEW c, NEW s, IsStore(c), Holds(c, s), NEW v \in Items
    PROVE  IsStore(Pushed(c, v)) /\ Holds(Pushed(c, v), Append(s, v))
<1> DEFINE r == Room(c, c.length + 1, 4)
           n == Capacity(r)
           d == [r.data EXCEPT ![r.length] = v]
           p == Pushed(c, v)
<1>1. /\ c.length \in Nat /\ c.length + 1 \in Nat /\ 4 \in Nat /\ c.length = Len(s)
      /\ s \in Seq(Items) /\ c.length <= Capacity(c) /\ Capacity(c) \in Nat
  BY CellsOfCapacity DEF IsStore, Holds
<1>2. /\ IsStore(r) /\ r.length = c.length /\ c.length + 1 <= n
      /\ \A i \in 0 .. Capacity(c) - 1 : r.data[i] = c.data[i]
  BY <1>1, RoomKeeps
<1>3. n \in Nat /\ r.data \in [0 .. n - 1 -> Cells] /\ r = [data |-> r.data, length |-> r.length]
  BY <1>2, CellsOfCapacity DEF IsStore
<1>4. p = [r EXCEPT !.data = d, !.length = r.length + 1]
  <2>1. p = [r EXCEPT !.data[r.length] = v, !.length = @ + 1]
    BY DEF Pushed
  <2> HIDE DEF r, p
  <2> QED BY <1>3, <2>1
<1> HIDE DEF p, r, n
<1>5. /\ d \in [0 .. n - 1 -> Cells] /\ d[c.length] = v
      /\ \A i \in 0 .. n - 1 : i # c.length => d[i] = r.data[i]
  BY <1>1, <1>2, <1>3 DEF Cells
<1> HIDE DEF d
<1>6. p = [data |-> d, length |-> c.length + 1]
  BY <1>2, <1>3, <1>4
<1>7. IsStore(p) /\ Capacity(p) = n /\ p.data = d /\ p.length = c.length + 1
  BY <1>1, <1>3, <1>5, <1>6, StoreOfCells
<1>8. /\ Append(s, v) \in Seq(Items) /\ Len(Append(s, v)) = c.length + 1
      /\ Append(s, v)[c.length + 1] = v
      /\ \A i \in 1 .. c.length : Append(s, v)[i] = s[i]
  BY <1>1
<1>9. ASSUME NEW i \in 1 .. (c.length + 1) PROVE d[i - 1] = Append(s, v)[i]
  <2>1. CASE i = c.length + 1
    BY <1>1, <1>5, <1>8, <2>1
  <2>2. CASE i \in 1 .. c.length
    <3>1. i - 1 \in 0 .. Capacity(c) - 1 /\ i - 1 \in 0 .. n - 1 /\ i - 1 # c.length
      BY <1>1, <1>2, <1>3, <2>2
    <3>2. c.data[i - 1] = s[i]
      BY <1>1, <2>2 DEF Holds
    <3> QED BY <1>2, <1>5, <1>8, <2>2, <3>1, <3>2
  <2> QED BY <1>1, <2>1, <2>2
<1>10. Holds(p, Append(s, v))
  BY <1>1, <1>2, <1>7, <1>8, <1>9 DEF Holds
<1> QED BY <1>7, <1>10 DEF p

\* The steps of the vector.
LEMMA VecStep ==
    ASSUME IsStore(vec), Holds(vec, list), VecNext
    PROVE  IsStore(vec') /\ Holds(vec', list')
<1> DEFINE n == Capacity(vec)
<1>1. /\ n \in Nat /\ vec.data \in [0 .. n - 1 -> Cells] /\ vec.length \in Nat
      /\ vec = [data |-> vec.data, length |-> vec.length]
      /\ list \in Seq(Items) /\ vec.length = Len(list) /\ vec.length <= n
      /\ \A i \in 1 .. Len(list) : vec.data[i - 1] = list[i]
  BY CellsOfCapacity DEF IsStore, Holds
<1>2. ASSUME NEW v \in Items, Push(v) PROVE IsStore(vec') /\ Holds(vec', list')
  BY <1>2, PushedHolds DEF Push
<1>3. ASSUME Pop PROVE IsStore(vec') /\ Holds(vec', list')
  <2> DEFINE m == vec.length - 1
  <2>1. m \in Nat /\ m < vec.length
    BY <1>1, <1>3 DEF Pop
  <2>2. vec' = [data |-> vec.data, length |-> m]
    BY <1>1, <1>3 DEF Pop
  <2>3. IsStore(vec') /\ Capacity(vec') = n /\ vec'.data = vec.data /\ vec'.length = m
    BY <1>1, <2>1, <2>2, StoreOfCells
  <2>4. list' \in Seq(Items) /\ Len(list') = m /\ \A i \in 1 .. m : list'[i] = list[i]
    BY <1>1, <1>3, <2>1 DEF Pop, Front
  <2> QED BY <1>1, <2>1, <2>3, <2>4 DEF Holds
<1>4. ASSUME NEW j \in 0 .. vec.length, NEW v \in Items, Set(j, v)
      PROVE  IsStore(vec') /\ Holds(vec', list')
  <2> DEFINE d == [vec.data EXCEPT ![j] = v]
  <2>1. j \in Nat /\ j < vec.length /\ vec' = [vec EXCEPT !.data = d]
        /\ list' = [list EXCEPT ![j + 1] = v]
    BY <1>1, <1>4 DEF Set
  <2>2. d \in [0 .. n - 1 -> Cells] /\ \A i \in 0 .. n - 1 : d[i] = IF i = j THEN v ELSE vec.data[i]
    BY <1>1, <2>1 DEF Cells
  <2> HIDE DEF d
  <2>3. vec' = [data |-> d, length |-> vec.length]
    BY <1>1, <2>1
  <2>4. IsStore(vec') /\ Capacity(vec') = n /\ vec'.data = d /\ vec'.length = vec.length
    BY <1>1, <2>2, <2>3, StoreOfCells
  <2>5. /\ list' \in Seq(Items) /\ Len(list') = Len(list)
        /\ \A i \in 1 .. Len(list) : list'[i] = IF i = j + 1 THEN v ELSE list[i]
    BY <1>1, <2>1
  <2>6. ASSUME NEW i \in 1 .. Len(list) PROVE d[i - 1] = list'[i]
    <3>1. i - 1 \in 0 .. n - 1 /\ (i - 1 = j <=> i = j + 1)
      BY <1>1, <2>1
    <3> QED BY <1>1, <2>2, <2>5, <3>1
  <2> QED BY <1>1, <2>4, <2>5, <2>6 DEF Holds
<1>5. ASSUME VecDestroy PROVE IsStore(vec') /\ Holds(vec', list')
  <2>1. vec' = [data |-> Unset(0), length |-> 0] /\ list' = <<>>
    BY <1>5 DEF VecDestroy, NewVec
  <2>2. Unset(0) \in [0 .. 0 - 1 -> Cells] /\ 0 \in Nat
    BY DEF Unset
  <2>3. IsStore(vec') /\ Capacity(vec') = 0
    BY <2>1, <2>2, StoreOfCells
  <2> QED BY <2>1, <2>3 DEF Holds
<1> QED BY <1>2, <1>3, <1>4, <1>5 DEF VecNext
-----------------------------------------------------------------------------
(* The string. *)

\* memcpy writes the text and its terminator, and nothing in front of them.
LEMMA CopiedCells ==
    ASSUME NEW n \in Nat, NEW d \in [0 .. n - 1 -> Cells], NEW at \in Nat,
           NEW s \in Seq(Items), at + Len(s) < n
    PROVE  /\ Copied(d, at, s) \in [0 .. n - 1 -> Cells]
           /\ \A i \in 0 .. n - 1 : i < at => Copied(d, at, s)[i] = d[i]
           /\ \A i \in 1 .. Len(s) : Copied(d, at, s)[at + i - 1] = s[i]
           /\ Copied(d, at, s)[at + Len(s)] = NUL
<1> DEFINE t == Append(s, NUL)
           e == Copied(d, at, s)
<1>1. /\ Len(s) \in Nat /\ Len(t) = Len(s) + 1 /\ t[Len(s) + 1] = NUL
      /\ \A i \in 1 .. Len(s) : t[i] = s[i]
  OBVIOUS
<1>2. \A i \in 1 .. (Len(s) + 1) : t[i] \in Cells
  BY <1>1 DEF Cells
<1>3. e = [i \in 0 .. n - 1 |-> IF i \in at .. at + Len(s) THEN t[i - at + 1] ELSE d[i]]
  BY DEF Copied
<1> HIDE DEF t, e
<1>4. \A i \in at .. at + Len(s) : i - at + 1 \in 1 .. (Len(s) + 1) /\ i \in 0 .. n - 1
  BY <1>1
<1>5. e \in [0 .. n - 1 -> Cells]
  BY <1>2, <1>3, <1>4
<1>6. \A i \in 0 .. n - 1 : i < at => e[i] = d[i]
  BY <1>3
<1>7. \A i \in 1 .. Len(s) : e[at + i - 1] = s[i]
  <2>1. ASSUME NEW i \in 1 .. Len(s) PROVE e[at + i - 1] = s[i]
    <3>1. at + i - 1 \in at .. at + Len(s) /\ (at + i - 1) - at + 1 = i
      BY <1>1
    <3> QED BY <1>1, <1>3, <1>4, <3>1
  <2> QED BY <2>1
<1>8. e[at + Len(s)] = NUL
  <2>1. at + Len(s) \in at .. at + Len(s) /\ (at + Len(s)) - at + 1 = Len(s) + 1
    BY <1>1
  <2> QED BY <1>1, <1>3, <1>4, <2>1
<1> QED BY <1>5, <1>6, <1>7, <1>8 DEF e

\* What a memory of n cells holds, stored and terminated.
LEMMA TextInPlace ==
    ASSUME NEW n \in Nat, NEW d \in [0 .. n - 1 -> Cells], NEW s \in Seq(Items),
           Len(s) < n, d[Len(s)] = NUL,
           \A i \in 1 .. Len(s) : d[i - 1] = s[i]
    PROVE  LET c == [data |-> d, length |-> Len(s)]
           IN  IsStore(c) /\ Holds(c, s) /\ Terminated(c)
<1> DEFINE c == [data |-> d, length |-> Len(s)]
<1>1. Len(s) \in Nat /\ IsStore(c) /\ Capacity(c) = n
  BY StoreOfCells
<1>2. c.data = d /\ c.length = Len(s)
  OBVIOUS
<1> HIDE DEF c
<1>3. Holds(c, s) /\ Terminated(c)
  BY <1>1, <1>2 DEF Holds, Terminated
<1> QED BY <1>1, <1>3 DEF c

\* append_cstring, behind the text and over its terminator.
LEMMA ExtendedHolds ==
    ASSUME NEW c, NEW t, IsStore(c), Holds(c, t), NEW s \in Seq(Items)
    PROVE  LET e == Extended(c, s)
           IN  IsStore(e) /\ Holds(e, t \o s) /\ Terminated(e)
<1> DEFINE r == Room(c, c.length + Len(s) + 1, 0)
           n == Capacity(r)
           d == Copied(r.data, r.length, s)
<1>1. /\ c.length \in Nat /\ Len(s) \in Nat /\ c.length + Len(s) + 1 \in Nat /\ 0 \in Nat
      /\ c.length = Len(t) /\ t \in Seq(Items) /\ c.length <= Capacity(c)
      /\ Capacity(c) \in Nat
      /\ \A i \in 1 .. Len(t) : c.data[i - 1] = t[i]
  BY CellsOfCapacity DEF IsStore, Holds
<1>2. /\ IsStore(r) /\ r.length = c.length /\ c.length + Len(s) + 1 <= n
      /\ \A i \in 0 .. Capacity(c) - 1 : r.data[i] = c.data[i]
  BY <1>1, RoomKeeps
<1>3. n \in Nat /\ r.data \in [0 .. n - 1 -> Cells]
  BY <1>2, CellsOfCapacity
<1>4. Extended(c, s) = [data |-> d, length |-> c.length + Len(s)]
  BY <1>2 DEF Extended
<1> HIDE DEF r, n
<1>5. /\ d \in [0 .. n - 1 -> Cells]
      /\ \A i \in 0 .. n - 1 : i < c.length => d[i] = r.data[i]
      /\ \A i \in 1 .. Len(s) : d[c.length + i - 1] = s[i]
      /\ d[c.length + Len(s)] = NUL
  <2>1. d = Copied(r.data, c.length, s) /\ c.length + Len(s) < n
    BY <1>1, <1>2, <1>3
  <2> HIDE DEF d
  <2> DEFINE m == r.data
             e == Copied(m, c.length, s)
  <2>2. m \in [0 .. n - 1 -> Cells] /\ d = e
    BY <1>3, <2>1
  <2> HIDE DEF m
  <2>3. /\ e \in [0 .. n - 1 -> Cells]
        /\ \A i \in 0 .. n - 1 : i < c.length => e[i] = m[i]
        /\ \A i \in 1 .. Len(s) : e[c.length + i - 1] = s[i]
        /\ e[c.length + Len(s)] = NUL
    <3>1. /\ n \in Nat /\ m \in [0 .. n - 1 -> Cells] /\ c.length \in Nat
          /\ s \in Seq(Items) /\ c.length + Len(s) < n
      BY <1>1, <1>3, <2>1, <2>2
    <3> QED BY ONLY <3>1, CopiedCells, Zenon
  <2> QED BY <2>2, <2>3 DEF m
<1> HIDE DEF d
<1>6. /\ t \o s \in Seq(Items) /\ Len(t \o s) = c.length + Len(s)
      /\ \A i \in 1 .. c.length : (t \o s)[i] = t[i]
      /\ \A i \in 1 .. Len(s) : (t \o s)[c.length + i] = s[i]
  BY <1>1
<1>7. ASSUME NEW i \in 1 .. (c.length + Len(s)) PROVE d[i - 1] = (t \o s)[i]
  <2>1. CASE i \in 1 .. c.length
    <3>1. i - 1 \in 0 .. Capacity(c) - 1 /\ i - 1 \in 0 .. n - 1 /\ i - 1 < c.length
      BY <1>1, <1>2, <1>3, <2>1
    <3> QED BY <1>1, <1>2, <1>5, <1>6, <2>1, <3>1
  <2>2. CASE i > c.length
    <3> DEFINE j == i - c.length
    <3>1. j \in 1 .. Len(s) /\ c.length + j - 1 = i - 1 /\ c.length + j = i
      BY <1>1, <2>2
    <3>2. d[c.length + j - 1] = s[j] /\ (t \o s)[c.length + j] = s[j]
      BY <1>5, <1>6, <3>1
    <3> QED BY <3>1, <3>2
  <2> QED BY <1>1, <2>1, <2>2
<1>8. Len(t \o s) < n /\ d[Len(t \o s)] = NUL
  BY <1>1, <1>2, <1>3, <1>5, <1>6
<1>9. Extended(c, s) = [data |-> d, length |-> Len(t \o s)]
  BY <1>4, <1>6
<1> QED BY <1>3, <1>5, <1>6, <1>7, <1>8, <1>9, TextInPlace

\* append_byte, which writes the terminator itself.
LEMMA ByteAddedHolds ==
    ASSUME NEW c, NEW t, IsStore(c), Holds(c, t), NEW b \in Items
    PROVE  LET e == ByteAdded(c, b)
           IN  IsStore(e) /\ Holds(e, Append(t, b)) /\ Terminated(e)
<1> DEFINE r == Room(c, c.length + 2, 0)
           n == Capacity(r)
           d == [r.data EXCEPT ![r.length] = b, ![r.length + 1] = NUL]
           u == Append(t, b)
<1>1. /\ c.length \in Nat /\ c.length + 2 \in Nat /\ 0 \in Nat
      /\ c.length = Len(t) /\ t \in Seq(Items) /\ c.length <= Capacity(c)
      /\ Capacity(c) \in Nat
      /\ \A i \in 1 .. Len(t) : c.data[i - 1] = t[i]
  BY CellsOfCapacity DEF IsStore, Holds
<1>2. /\ IsStore(r) /\ r.length = c.length /\ c.length + 2 <= n
      /\ \A i \in 0 .. Capacity(c) - 1 : r.data[i] = c.data[i]
  BY <1>1, RoomKeeps
<1>3. n \in Nat /\ r.data \in [0 .. n - 1 -> Cells] /\ r = [data |-> r.data, length |-> r.length]
  BY <1>2, CellsOfCapacity DEF IsStore
<1>4. ByteAdded(c, b) = [data |-> d, length |-> c.length + 1]
  <2>1. ByteAdded(c, b) = [r EXCEPT !.data = d, !.length = @ + 1]
    BY DEF ByteAdded
  <2> HIDE DEF r, d
  <2> QED BY <1>2, <1>3, <2>1
<1> HIDE DEF r, n
<1>5. /\ d \in [0 .. n - 1 -> Cells] /\ d[c.length] = b /\ d[c.length + 1] = NUL
      /\ \A i \in 0 .. n - 1 : i < c.length => d[i] = r.data[i]
  <2> DEFINE e == [r.data EXCEPT ![c.length] = b]
  <2>1. d = [e EXCEPT ![c.length + 1] = NUL]
    BY <1>2
  <2>2. c.length \in 0 .. n - 1 /\ c.length + 1 \in 0 .. n - 1
    BY <1>1, <1>2, <1>3
  <2>3. /\ e \in [0 .. n - 1 -> Cells]
        /\ \A i \in 0 .. n - 1 : e[i] = IF i = c.length THEN b ELSE r.data[i]
    BY <1>3, <2>2 DEF Cells
  <2> HIDE DEF d, e
  <2>4. /\ d \in [0 .. n - 1 -> Cells]
        /\ \A i \in 0 .. n - 1 : d[i] = IF i = c.length + 1 THEN NUL ELSE e[i]
    BY <2>1, <2>2, <2>3 DEF Cells
  <2> QED BY <1>1, <1>3, <2>2, <2>3, <2>4
<1> HIDE DEF d
<1>6. /\ u \in Seq(Items) /\ Len(u) = c.length + 1 /\ u[c.length + 1] = b
      /\ \A i \in 1 .. c.length : u[i] = t[i]
  BY <1>1
<1> HIDE DEF u
<1>7. ASSUME NEW i \in 1 .. (c.length + 1) PROVE d[i - 1] = u[i]
  <2>1. CASE i \in 1 .. c.length
    <3>1. i - 1 \in 0 .. Capacity(c) - 1 /\ i - 1 \in 0 .. n - 1 /\ i - 1 < c.length
      BY <1>1, <1>2, <1>3, <2>1
    <3> QED BY <1>1, <1>2, <1>5, <1>6, <2>1, <3>1
  <2>2. CASE i = c.length + 1
    BY <1>1, <1>5, <1>6, <2>2
  <2> QED BY <1>1, <2>1, <2>2
<1>8. Len(u) < n /\ d[Len(u)] = NUL
  BY <1>1, <1>2, <1>3, <1>5, <1>6
<1>9. ByteAdded(c, b) = [data |-> d, length |-> Len(u)]
  BY <1>4, <1>6
<1>10. LET e == ByteAdded(c, b) IN IsStore(e) /\ Holds(e, u) /\ Terminated(e)
  BY <1>3, <1>5, <1>6, <1>7, <1>8, <1>9, TextInPlace
<1> QED BY <1>10 DEF u

\* Every text tried is a sequence of items.
LEMMA TextsAreSequences == Texts \subseteq Seq(Items)
<1>1. ASSUME NEW n \in 0 .. 3, NEW s \in [1 .. n -> Items] PROVE s \in Seq(Items)
  <2>1. n \in Nat /\ \A i \in 1 .. n : s[i] \in Items
    BY <1>1
  <2>2. s = [i \in 1 .. n |-> s[i]]
    BY <1>1
  <2> QED BY <2>1, <2>2, IsASeq
<1> QED BY <1>1 DEF Texts

\* The steps of the string.
LEMMA StrStep ==
    ASSUME IsStore(str), Holds(str, text), Terminated(str), StrNext
    PROVE  IsStore(str') /\ Holds(str', text') /\ Terminated(str')
<1>1. ASSUME NEW s \in Texts, AppendCString(s)
      PROVE  IsStore(str') /\ Holds(str', text') /\ Terminated(str')
  <2>1. s \in Seq(Items)
    BY TextsAreSequences
  <2> QED BY <1>1, <2>1, ExtendedHolds DEF AppendCString
<1>2. ASSUME NEW b \in Items, AppendByte(b)
      PROVE  IsStore(str') /\ Holds(str', text') /\ Terminated(str')
  BY <1>2, ByteAddedHolds DEF AppendByte
<1>3. ASSUME StrDestroy
      PROVE  IsStore(str') /\ Holds(str', text') /\ Terminated(str')
  <2>1. str' = [data |-> Unset(0), length |-> 0] /\ text' = <<>>
    BY <1>3 DEF StrDestroy
  <2>2. Unset(0) \in [0 .. 0 - 1 -> Cells] /\ 0 \in Nat
    BY DEF Unset
  <2>3. IsStore(str') /\ Capacity(str') = 0
    BY <2>1, <2>2, StoreOfCells
  <2> QED BY <2>1, <2>3 DEF Holds, Terminated
<1> QED BY <1>1, <1>2, <1>3 DEF StrNext

-----------------------------------------------------------------------------

\* The inductive invariant of the stores.
THEOREM StoresInvariant == StoresSpec => []StoresInv
<1>1. StoresInit => StoresInv
  <2> SUFFICES ASSUME StoresInit PROVE StoresInv
    OBVIOUS
  <2>1. PICK cap \in 0 .. 2 : vec = [data |-> Unset(cap), length |-> 0] /\ list = <<>>
    BY DEF StoresInit, VecInit, NewVec
  <2>2. cap \in Nat /\ Unset(cap) \in [0 .. cap - 1 -> Cells] /\ 0 \in Nat
    BY DEF Unset, Cells
  <2>3. IsStore(vec) /\ Capacity(vec) = cap
    BY <2>1, <2>2, StoreOfCells
  <2>4. Holds(vec, list)
    BY <2>1, <2>2, <2>3 DEF Holds
  <2>5. PICK s \in Texts : str = FromCString(s) /\ text = s
    BY DEF StoresInit, StrInit
  <2> DEFINE n == Len(s) + 1
             d == Copied(Unset(n), 0, s)
  <2>6. s \in Seq(Items) /\ Len(s) \in Nat /\ n \in Nat /\ 0 + Len(s) < n
    BY TextsAreSequences
  <2>7. Unset(n) \in [0 .. n - 1 -> Cells]
    BY DEF Unset, Cells
  <2>8. str = [data |-> d, length |-> Len(s)]
    BY <2>5 DEF FromCString
  <2> HIDE DEF n
  <2>9. /\ d \in [0 .. n - 1 -> Cells] /\ d[0 + Len(s)] = NUL
        /\ \A i \in 1 .. Len(s) : d[0 + i - 1] = s[i]
    BY <2>6, <2>7, CopiedCells
  <2> HIDE DEF d
  <2>10. d[Len(s)] = NUL /\ Len(s) < n /\ \A i \in 1 .. Len(s) : d[i - 1] = s[i]
    BY <2>6, <2>9
  <2>11. IsStore(str) /\ Holds(str, text) /\ Terminated(str)
    BY <2>5, <2>6, <2>8, <2>9, <2>10, TextInPlace
  <2> QED BY <2>3, <2>4, <2>11 DEF StoresInv
<1>2. StoresInv /\ [StoresNext]_<<vec, list, str, text>> => StoresInv'
  <2> SUFFICES ASSUME StoresInv, [StoresNext]_<<vec, list, str, text>> PROVE StoresInv'
    OBVIOUS
  <2>1. CASE VecNext /\ UNCHANGED <<str, text>>
    BY <2>1, VecStep DEF StoresInv
  <2>2. CASE StrNext /\ UNCHANGED <<vec, list>>
    BY <2>2, StrStep DEF StoresInv
  <2>3. CASE UNCHANGED <<vec, list, str, text>>
    BY <2>3 DEF StoresInv
  <2> QED BY <2>1, <2>2, <2>3 DEF StoresNext
<1> QED BY <1>1, <1>2, PTL DEF StoresSpec

\* Vector and string hold what the calls so far add up to, within their memory,
\* and the string stays terminated: for every set of items, however long.
THEOREM StoresHold == StoresSpec => []StoresHoldTheirItems
<1>1. StoresInv => StoresHoldTheirItems
  <2> SUFFICES ASSUME StoresInv PROVE StoresHoldTheirItems
    OBVIOUS
  <2>1. DOMAIN list = 1 .. Len(list) /\ DOMAIN text = 1 .. Len(text)
    BY DEF StoresInv, Holds
  <2> QED BY <2>1 DEF StoresInv, Holds, Terminated, StoresHoldTheirItems
<1> QED BY <1>1, StoresInvariant, PTL

-----------------------------------------------------------------------------
(* The hash map. *)

\* The slots of a map.
Slots(m) == 0 .. m.cap - 1

-----------------------------------------------------------------------------
(* The number of slots. *)

Doubles(f, n) == f = [i \in 0 .. n |-> IF i = 0 THEN 1 ELSE 2 * f[i - 1]]

LEMMA DoublesShorter ==
    ASSUME NEW n \in Nat, NEW f, Doubles(f, n + 1)
    PROVE  /\ Doubles([i \in 0 .. n |-> f[i]], n)
           /\ f[n + 1] = 2 * f[n]
<1> DEFINE g == [i \in 0 .. n |-> f[i]]
<1>1. /\ \A i \in 0 .. n : i \in 0 .. n + 1
      /\ \A i \in 0 .. n : i # 0 => i - 1 \in 0 .. n
      /\ n + 1 \in 0 .. n + 1 /\ n + 1 # 0 /\ (n + 1) - 1 = n
  OBVIOUS
<1>2. \A i \in 0 .. n + 1 : f[i] = IF i = 0 THEN 1 ELSE 2 * f[i - 1]
  BY DEF Doubles
<1>3. \A i \in 0 .. n : i # 0 => g[i - 1] = f[i - 1]
  BY <1>1
<1>4. \A i \in 0 .. n : g[i] = IF i = 0 THEN 1 ELSE 2 * g[i - 1]
  BY <1>1, <1>2, <1>3
<1>5. g = [i \in 0 .. n |-> g[i]]
  OBVIOUS
<1>6. Doubles(g, n)
  <2> HIDE DEF g
  <2> QED BY <1>4, <1>5 DEF Doubles
<1> QED BY <1>1, <1>2, <1>6

\* There is one list of the powers, however long.
LEMMA DoublesOnce ==
    ASSUME NEW n \in Nat
    PROVE  /\ \E f : Doubles(f, n)
           /\ \A f, g : Doubles(f, n) /\ Doubles(g, n) => f[n] = g[n]
<1> DEFINE Good(k) == /\ \E f : Doubles(f, k)
                      /\ \A f, g : Doubles(f, k) /\ Doubles(g, k) => f[k] = g[k]
           Bad == {k \in Nat : ~Good(k)}
<1>1. Good(0)
  <2>1. Doubles([i \in 0 .. 0 |-> 1], 0)
    BY DEF Doubles
  <2>2. \A f : Doubles(f, 0) => f[0] = 1
    BY DEF Doubles
  <2> QED BY <2>1, <2>2
<1>2. ASSUME NEW k \in Nat, Good(k) PROVE Good(k + 1)
  <2>1. ASSUME NEW f, NEW g, Doubles(f, k + 1), Doubles(g, k + 1)
        PROVE  f[k + 1] = g[k + 1]
    <3> DEFINE ff == [i \in 0 .. k |-> f[i]]
               gg == [i \in 0 .. k |-> g[i]]
    <3>1. Doubles(ff, k) /\ Doubles(gg, k) /\ f[k + 1] = 2 * f[k] /\ g[k + 1] = 2 * g[k]
      BY <2>1, DoublesShorter
    <3>2. ff[k] = f[k] /\ gg[k] = g[k]
      OBVIOUS
    <3> HIDE DEF ff, gg
    <3>3. ff[k] = gg[k]
      BY <1>2, <3>1
    <3> QED BY <3>1, <3>2, <3>3
  <2>2. PICK f : Doubles(f, k)
    BY <1>2
  <2> DEFINE last == 2 * f[k]
             g == [i \in 0 .. k + 1 |-> IF i = k + 1 THEN last ELSE f[i]]
  <2>3. /\ \A i \in 0 .. k + 1 : i \in 0 .. k \/ i = k + 1
        /\ \A i \in 0 .. k : i \in 0 .. k + 1 /\ i # k + 1
        /\ \A i \in 0 .. k + 1 : i # 0 => i - 1 \in 0 .. k
        /\ k + 1 \in 0 .. k + 1 /\ k + 1 # 0 /\ (k + 1) - 1 = k
    OBVIOUS
  <2>4. \A i \in 0 .. k + 1 : i # 0 => g[i - 1] = f[i - 1]
    BY <2>3
  <2>5. \A i \in 0 .. k : f[i] = IF i = 0 THEN 1 ELSE 2 * f[i - 1]
    BY <2>2 DEF Doubles
  <2>6. \A i \in 0 .. k + 1 : g[i] = IF i = 0 THEN 1 ELSE 2 * g[i - 1]
    BY <2>3, <2>4, <2>5
  <2>7. g = [i \in 0 .. k + 1 |-> g[i]]
    OBVIOUS
  <2>8. Doubles(g, k + 1)
    <3> HIDE DEF g
    <3> QED BY <2>6, <2>7 DEF Doubles
  <2> QED BY <2>1, <2>8
<1> HIDE DEF Good
<1>3. Bad = {}
  <2> SUFFICES ASSUME Bad # {} PROVE FALSE
    OBVIOUS
  <2>1. PICK k \in Bad : \A m \in Bad : k <= m
    <3>1. Bad \subseteq Nat
      OBVIOUS
    <3> HIDE DEF Bad
    <3> QED BY <3>1, LeastNumber
  <2>2. k - 1 \in Nat /\ ~(k <= k - 1) /\ (k - 1) + 1 = k
    BY <1>1, <2>1
  <2>3. Good(k - 1)
    BY <2>1, <2>2
  <2>4. Good((k - 1) + 1)
    BY <1>2, <2>2, <2>3
  <2> QED BY <2>1, <2>2, <2>4
<1> QED BY <1>3 DEF Good

\* The powers of two, each twice the one before.
LEMMA Powers ==
    /\ PowerOfTwo(0) = 1
    /\ \A k \in Nat : PowerOfTwo(k + 1) = 2 * PowerOfTwo(k)
<1> DEFINE F(k) == CHOOSE f : Doubles(f, k)
<1>1. ASSUME NEW k \in Nat PROVE Doubles(F(k), k) /\ PowerOfTwo(k) = F(k)[k]
  <2>1. PowerOfTwo(k) = F(k)[k]
    BY DEF PowerOfTwo, Doubles
  <2> QED BY <2>1, DoublesOnce
<1> HIDE DEF F
<1>2. PowerOfTwo(0) = 1
  BY <1>1 DEF Doubles
<1>3. ASSUME NEW k \in Nat PROVE PowerOfTwo(k + 1) = 2 * PowerOfTwo(k)
  <2>1. k + 1 \in Nat
    OBVIOUS
  <2>2. PICK f : f = F(k + 1)
    OBVIOUS
  <2>3. Doubles(f, k + 1) /\ PowerOfTwo(k + 1) = f[k + 1]
    BY <1>1, <2>1, <2>2
  <2> DEFINE ff == [i \in 0 .. k |-> f[i]]
  <2>4. Doubles(ff, k) /\ f[k + 1] = 2 * f[k]
    BY <2>3, DoublesShorter
  <2>5. ff[k] = f[k]
    OBVIOUS
  <2> HIDE DEF ff
  <2>6. ff[k] = F(k)[k]
    BY <1>1, <2>4, DoublesOnce
  <2> QED BY <1>1, <2>3, <2>4, <2>5, <2>6
<1> QED BY <1>2, <1>3

LEMMA PowersGrow ==
    \A k \in Nat : PowerOfTwo(k) \in Nat /\ PowerOfTwo(k) > k /\ (k >= 3 => PowerOfTwo(k) >= 8)
<1> DEFINE Good(k) == /\ PowerOfTwo(k) \in Nat /\ PowerOfTwo(k) > k
                      /\ k >= 1 => PowerOfTwo(k) >= 2
                      /\ k >= 2 => PowerOfTwo(k) >= 4
                      /\ k >= 3 => PowerOfTwo(k) >= 8
           Bad == {k \in Nat : ~Good(k)}
<1>1. Good(0)
  BY Powers
<1>2. ASSUME NEW k \in Nat, Good(k) PROVE Good(k + 1)
  <2>1. PICK x \in Nat : x = PowerOfTwo(k)
    BY <1>2
  <2>2. PowerOfTwo(k + 1) = 2 * x
    BY <2>1, Powers
  <2> QED BY <1>2, <2>1, <2>2
<1> HIDE DEF Good
<1>3. Bad = {}
  <2> SUFFICES ASSUME Bad # {} PROVE FALSE
    OBVIOUS
  <2>1. PICK k \in Bad : \A m \in Bad : k <= m
    <3>1. Bad \subseteq Nat
      OBVIOUS
    <3> HIDE DEF Bad
    <3> QED BY <3>1, LeastNumber
  <2>2. k - 1 \in Nat /\ ~(k <= k - 1) /\ (k - 1) + 1 = k
    BY <1>1, <2>1
  <2>3. Good(k - 1)
    BY <2>1, <2>2
  <2>4. Good((k - 1) + 1)
    BY <1>2, <2>2, <2>3
  <2> QED BY <2>1, <2>2, <2>4
<1> QED BY <1>3 DEF Good

IsPower(n) == \E k \in Nat : k >= 3 /\ n = PowerOfTwo(k)

LEMMA PowerFacts ==
    ASSUME NEW n, IsPower(n)
    PROVE  /\ n \in Nat /\ n >= 8
           /\ \E k \in 3 .. n : n = PowerOfTwo(k)
           /\ IsPower(n * 2)
<1>1. PICK k \in Nat : k >= 3 /\ n = PowerOfTwo(k)
  BY DEF IsPower
<1>2. n \in Nat /\ n > k /\ n >= 8
  BY <1>1, PowersGrow
<1>3. k \in 3 .. n
  BY <1>1, <1>2
<1>4. k + 1 \in Nat /\ k + 1 >= 3 /\ n * 2 = PowerOfTwo(k + 1)
  BY <1>1, <1>2, Powers
<1>5. IsPower(n * 2)
  BY <1>4 DEF IsPower
<1> QED BY <1>1, <1>2, <1>3, <1>5

\* with_capacity asks for a power of two.
LEMMA SlotsArePowers ==
    ASSUME NEW want \in Nat
    PROVE  IsPower(SlotsFor(want))
<1> DEFINE fits == {k \in 3 .. want + 3 : PowerOfTwo(k) * 7 >= want * 10}
<1>1. want + 3 \in Nat /\ want + 3 \in 3 .. want + 3
  OBVIOUS
<1>2. PowerOfTwo(want + 3) * 7 >= want * 10
  <2>1. PICK x \in Nat : x = PowerOfTwo(want)
    BY PowersGrow
  <2>2. x > want
    BY <2>1, PowersGrow
  <2>3. PowerOfTwo(want + 1) = 2 * x
    BY <2>1, Powers
  <2>4. PowerOfTwo((want + 1) + 1) = 2 * (2 * x)
    <3>1. want + 1 \in Nat
      OBVIOUS
    <3> QED BY <2>3, <3>1, Powers
  <2>5. PowerOfTwo(((want + 1) + 1) + 1) = 2 * (2 * (2 * x))
    <3>1. (want + 1) + 1 \in Nat
      OBVIOUS
    <3> QED BY <2>4, <3>1, Powers
  <2>6. ((want + 1) + 1) + 1 = want + 3
    OBVIOUS
  <2> QED BY <2>2, <2>5, <2>6
<1>3. want + 3 \in fits
  BY <1>1, <1>2
<1>4. fits \subseteq Nat /\ \A k \in fits : k >= 3
  OBVIOUS
<1>5. SlotsFor(want) = PowerOfTwo(Min(fits))
  BY DEF SlotsFor
<1> HIDE DEF fits
<1>6. Min(fits) \in fits
  BY <1>3, <1>4, MinFacts
<1> QED BY <1>4, <1>5, <1>6 DEF IsPower

-----------------------------------------------------------------------------
(* Probing. *)

LEMMA RemainderIs ==
    ASSUME NEW c \in Nat, c > 0, NEW x \in Nat
    PROVE  (x % c) \in 0 .. c - 1 /\ \E q \in Nat : x = q * c + (x % c)
<1>1. (x % c) \in 0 .. c - 1
  OBVIOUS
<1>2. x = c * (x \div c) + (x % c)
  OBVIOUS
<1>3. x \div c \in Int
  OBVIOUS
<1>4. x \div c >= 0
  BY <1>1, <1>2, <1>3
<1> QED BY <1>1, <1>2, <1>3, <1>4

LEMMA RemainderOnce ==
    ASSUME NEW c \in Nat, c > 0, NEW q \in Int, NEW p \in Int,
           NEW r \in 0 .. c - 1, NEW s \in 0 .. c - 1,
           q * c + r = p * c + s
    PROVE  r = s
<1>1. CASE q > p
  <2>1. PICK d \in Nat : q = p + 1 + d
    <3>1. q - p - 1 \in Nat /\ q = p + 1 + (q - p - 1)
      BY <1>1
    <3> QED BY <3>1
  <2>2. q * c = p * c + c + d * c
    BY <2>1
  <2>3. d * c >= 0
    BY <2>1
  <2>4. p * c \in Int /\ d * c \in Int /\ q * c \in Int
    BY <2>1
  <2> QED BY <2>2, <2>3, <2>4
<1>2. CASE p > q
  <2>1. PICK d \in Nat : p = q + 1 + d
    <3>1. p - q - 1 \in Nat /\ p = q + 1 + (p - q - 1)
      BY <1>2
    <3> QED BY <3>1
  <2>2. p * c = q * c + c + d * c
    BY <2>1
  <2>3. d * c >= 0
    BY <2>1
  <2>4. p * c \in Int /\ d * c \in Int /\ q * c \in Int
    BY <2>1
  <2> QED BY <2>2, <2>3, <2>4
<1>3. CASE p = q
  <2>1. p * c \in Int
    OBVIOUS
  <2> QED BY <1>3, <2>1
<1> QED BY <1>1, <1>2, <1>3

\* Probing walks the slots from the hash on and around the end.
LEMMA ProbeWalks ==
    ASSUME NEW c \in Nat, c > 0, NEW h \in Nat, NEW d \in 0 .. c - 1
    PROVE  /\ (h % c) \in 0 .. c - 1
           /\ ((h + d) % c) = IF (h % c) + d < c THEN (h % c) + d ELSE (h % c) + d - c
<1>1. /\ (h % c) \in 0 .. c - 1 /\ ((h + d) % c) \in 0 .. c - 1 /\ h + d \in Nat
  BY RemainderIs
<1>2. PICK q \in Nat : h = q * c + (h % c)
  BY RemainderIs
<1>3. PICK p \in Nat : h + d = p * c + ((h + d) % c)
  BY <1>1, RemainderIs
<1>4. CASE (h % c) + d < c
  <2>1. (h % c) + d \in 0 .. c - 1
    BY <1>1, <1>4
  <2>2. q * c + ((h % c) + d) = p * c + ((h + d) % c)
    <3>1. q * c \in Int /\ p * c \in Int
      BY <1>2, <1>3
    <3> QED BY <1>1, <1>2, <1>3, <3>1
  <2> QED BY <1>1, <1>2, <1>3, <1>4, <2>1, <2>2, RemainderOnce
<1>5. CASE ~((h % c) + d < c)
  <2>1. (h % c) + d - c \in 0 .. c - 1
    BY <1>1, <1>5
  <2>2. PICK a \in Int : a = q + 1
    BY <1>2
  <2>3. PICK r \in 0 .. c - 1 : r = (h % c) + d - c
    BY <2>1
  <2>4. PICK s \in 0 .. c - 1 : s = (h + d) % c
    BY <1>1
  <2>5. a * c + r = p * c + s
    <3>1. q * c \in Int /\ p * c \in Int
      BY <1>2, <1>3
    <3>2. a * c = q * c + c
      BY <1>2, <2>2
    <3> QED BY <1>1, <1>2, <1>3, <2>3, <2>4, <3>1, <3>2
  <2>6. r = s
    BY <1>3, <2>5, RemainderOnce, SMTT(20)
  <2> QED BY <1>5, <2>3, <2>4, <2>6
<1> QED BY <1>1, <1>4, <1>5

\* Every slot is tried once.
LEMMA ProbedSlots ==
    ASSUME NEW m, m.cap \in Nat, m.cap > 0, NEW k, m.hash[k] \in Nat
    PROVE  /\ \A d \in Slots(m) : Probed(m, k, d) \in Slots(m)
           /\ \A d, e \in Slots(m) : Probed(m, k, d) = Probed(m, k, e) => d = e
           /\ \A i \in Slots(m) : \E d \in Slots(m) : Probed(m, k, d) = i
<1>1. PICK c \in Nat : c = m.cap /\ c > 0
  OBVIOUS
<1>2. PICK h \in Nat : h = m.hash[k]
  OBVIOUS
<1>3. PICK r : r = h % c
  OBVIOUS
<1>4. r \in 0 .. c - 1
  BY <1>1, <1>2, <1>3, RemainderIs
<1>5. Slots(m) = 0 .. c - 1
  BY <1>1 DEF Slots
<1>6. ASSUME NEW d \in 0 .. c - 1
      PROVE  Probed(m, k, d) = IF r + d < c THEN r + d ELSE r + d - c
  <2>1. Probed(m, k, d) = (h + d) % c
    BY <1>1, <1>2 DEF Probed
  <2> QED BY <1>1, <1>2, <1>3, <2>1, ProbeWalks
<1>7. \A d \in 0 .. c - 1 : Probed(m, k, d) \in 0 .. c - 1
  BY <1>1, <1>4, <1>6
<1>8. \A d, e \in 0 .. c - 1 : Probed(m, k, d) = Probed(m, k, e) => d = e
  BY <1>1, <1>4, <1>6
<1>9. ASSUME NEW i \in 0 .. c - 1 PROVE \E d \in 0 .. c - 1 : Probed(m, k, d) = i
  <2>1. CASE i >= r
    <3>1. i - r \in 0 .. c - 1 /\ r + (i - r) = i /\ i < c
      BY <1>1, <1>4, <2>1
    <3>2. Probed(m, k, i - r) = i
      BY <1>6, <3>1
    <3> QED BY <3>1, <3>2
  <2>2. CASE i < r
    <3>1. i - r + c \in 0 .. c - 1 /\ r + (i - r + c) - c = i /\ ~(r + (i - r + c) < c)
      BY <1>1, <1>4, <2>2
    <3>2. Probed(m, k, i - r + c) = i
      BY <1>6, <3>1
    <3> QED BY <3>1, <3>2
  <2> QED BY <1>4, <2>1, <2>2
<1> QED BY <1>5, <1>7, <1>8, <1>9

-----------------------------------------------------------------------------
(* A table that holds a function. *)

\* Key k lies where a search for it comes along: d slots on, and none empty before.
Placed(m, k, d) ==
    /\ d \in Slots(m)
    /\ m.keys[Probed(m, k, d)] = k
    /\ \A e \in Slots(m) : e < d => m.keys[Probed(m, k, e)] # Null

IsTable(m) ==
    /\ IsPower(m.cap)
    /\ m.keys = [i \in Slots(m) |-> m.keys[i]]
    /\ m.vals = [i \in Slots(m) |-> m.vals[i]]
    /\ Null \notin DOMAIN m.hash
    /\ \A k \in DOMAIN m.hash : m.hash[k] \in Nat

\* The table m holds the function g.
Represents(m, g) ==
    /\ \A i, j \in Slots(m) : m.keys[i] = m.keys[j] /\ m.keys[i] # Null => i = j
    /\ \A i \in Slots(m) : m.keys[i] # Null => m.keys[i] \in DOMAIN g
    /\ \A k \in DOMAIN g :
          /\ k \in DOMAIN m.hash
          /\ \E d : Placed(m, k, d) /\ m.vals[Probed(m, k, d)] = g[k]

LEMMA TableSlots ==
    ASSUME NEW m, IsTable(m), NEW k \in DOMAIN m.hash
    PROVE  /\ m.cap \in Nat /\ m.cap >= 8 /\ Slots(m) \subseteq Nat /\ k # Null
           /\ \A d \in Slots(m) : Probed(m, k, d) \in Slots(m)
           /\ \A d, e \in Slots(m) : Probed(m, k, d) = Probed(m, k, e) => d = e
           /\ \A i \in Slots(m) : \E d \in Slots(m) : Probed(m, k, d) = i
<1>1. m.cap \in Nat /\ m.cap >= 8 /\ k # Null /\ m.hash[k] \in Nat
  BY PowerFacts DEF IsTable
<1>2. m.cap > 0
  BY <1>1
<1>3. Slots(m) \subseteq Nat
  BY <1>1 DEF Slots
<1> QED BY <1>1, <1>2, <1>3, ProbedSlots

\* A search stops at the first slot that ends it.
LEMMA SearchStops ==
    ASSUME NEW m, IsTable(m), NEW k \in DOMAIN m.hash, NEW ends,
           \E i \in Slots(m) : m.keys[i] \in ends
    PROVE  \E d \in Slots(m) :
              /\ Stopping(m, ends, k) = Probed(m, k, d)
              /\ m.keys[Probed(m, k, d)] \in ends
              /\ \A e \in Slots(m) : e < d => m.keys[Probed(m, k, e)] \notin ends
<1> DEFINE stops == {d \in 0 .. m.cap - 1 : m.keys[Probed(m, k, d)] \in ends}
<1>1. stops \subseteq Nat /\ stops \subseteq Slots(m) /\ Slots(m) \subseteq Nat
  BY TableSlots DEF Slots
<1>2. stops # {}
  <2>1. PICK i \in Slots(m) : m.keys[i] \in ends
    OBVIOUS
  <2>2. PICK d \in Slots(m) : Probed(m, k, d) = i
    BY TableSlots
  <2>3. d \in 0 .. m.cap - 1
    BY DEF Slots
  <2> QED BY <2>1, <2>2, <2>3
<1>3. Stopping(m, ends, k) = Probed(m, k, Min(stops))
  BY <1>2 DEF Stopping
<1>4. \A e \in Slots(m) : m.keys[Probed(m, k, e)] \in ends => e \in stops
  BY DEF Slots
<1>5. m.keys[Probed(m, k, Min(stops))] \in ends /\ Min(stops) \in stops
      /\ \A e \in stops : Min(stops) <= e
  <2>1. Min(stops) \in stops /\ \A e \in stops : Min(stops) <= e
    <3> HIDE DEF stops
    <3> QED BY <1>1, <1>2, MinFacts
  <2> QED BY <2>1
<1> HIDE DEF stops
<1>6. PICK d \in stops : d = Min(stops)
  BY <1>5
<1>7. \A e \in Slots(m) : e < d => e \notin stops
  BY <1>1, <1>5, <1>6
<1> QED BY <1>1, <1>3, <1>4, <1>5, <1>6, <1>7

\* A key that is held is found.
LEMMA HeldIsFound ==
    ASSUME NEW m, NEW g, IsTable(m), Represents(m, g), NEW k \in DOMAIN g
    PROVE  /\ FindSlot(m, k) \in Slots(m) /\ k # Null
           /\ m.keys[FindSlot(m, k)] = k
           /\ m.vals[FindSlot(m, k)] = g[k]
<1>1. k \in DOMAIN m.hash
  BY DEF Represents
<1>2. PICK c : Placed(m, k, c) /\ m.vals[Probed(m, k, c)] = g[k]
  BY DEF Represents
<1>3. /\ k # Null /\ Slots(m) \subseteq Nat
      /\ \A d \in Slots(m) : Probed(m, k, d) \in Slots(m)
      /\ \A d, e \in Slots(m) : Probed(m, k, d) = Probed(m, k, e) => d = e
  BY <1>1, TableSlots
<1>4. /\ c \in Slots(m) /\ m.keys[Probed(m, k, c)] = k
      /\ \A e \in Slots(m) : e < c => m.keys[Probed(m, k, e)] # Null
  BY <1>2 DEF Placed
<1>5. PICK d \in Slots(m) :
         /\ FindSlot(m, k) = Probed(m, k, d)
         /\ m.keys[Probed(m, k, d)] \in {Null, k}
         /\ \A e \in Slots(m) : e < d => m.keys[Probed(m, k, e)] \notin {Null, k}
  <2>1. \E i \in Slots(m) : m.keys[i] \in {Null, k}
    BY <1>3, <1>4
  <2> QED BY <1>1, <2>1, SearchStops DEF FindSlot
<1>6. ~(c < d)
  BY <1>4, <1>5
<1>7. m.keys[Probed(m, k, d)] = k => c = d
  BY <1>3, <1>4 DEF Represents
<1>8. d < c => m.keys[Probed(m, k, d)] = k
  BY <1>4, <1>5
<1>9. d = c
  BY <1>3, <1>4, <1>6, <1>7, <1>8
<1> QED BY <1>2, <1>3, <1>4, <1>5, <1>9

\* A search for a key that is not held ends at the first empty slot.
LEMMA MissingIsPlaced ==
    ASSUME NEW m, NEW g, IsTable(m), Represents(m, g), NEW k \in DOMAIN m.hash, k \notin DOMAIN g,
           NEW ends \in {{Null}, {Null, k}},
           \E i \in Slots(m) : m.keys[i] = Null
    PROVE  \E d \in Slots(m) :
              /\ Stopping(m, ends, k) = Probed(m, k, d) /\ Probed(m, k, d) \in Slots(m)
              /\ m.keys[Probed(m, k, d)] = Null
              /\ \A e \in Slots(m) : e < d => m.keys[Probed(m, k, e)] # Null
<1>1. /\ k # Null
      /\ \A d \in Slots(m) : Probed(m, k, d) \in Slots(m)
  BY TableSlots
<1>2. \A i \in Slots(m) : m.keys[i] # k
  BY <1>1 DEF Represents
<1>3. Null \in ends /\ \A x \in ends : x \in {Null, k}
  OBVIOUS
<1>4. \E i \in Slots(m) : m.keys[i] \in ends
  BY <1>3
<1>5. PICK d \in Slots(m) :
         /\ Stopping(m, ends, k) = Probed(m, k, d)
         /\ m.keys[Probed(m, k, d)] \in ends
         /\ \A e \in Slots(m) : e < d => m.keys[Probed(m, k, e)] \notin ends
  BY <1>4, SearchStops
<1> QED BY <1>1, <1>2, <1>3, <1>5

With(g, k, v) == [x \in DOMAIN g \union {k} |-> IF x = k THEN v ELSE g[x]]

\* What is stored where the search ended is held.
LEMMA KeyAdded ==
    ASSUME NEW m, NEW g, IsTable(m), Represents(m, g), NEW k \in DOMAIN m.hash, k \notin DOMAIN g,
           NEW d \in Slots(m), m.keys[Probed(m, k, d)] = Null,
           \A e \in Slots(m) : e < d => m.keys[Probed(m, k, e)] # Null,
           NEW v, NEW n, n.cap = m.cap, n.hash = m.hash,
           n.keys = [m.keys EXCEPT ![Probed(m, k, d)] = k],
           n.vals = [m.vals EXCEPT ![Probed(m, k, d)] = v]
    PROVE  IsTable(n) /\ Represents(n, With(g, k, v))
<1>1. PICK p : p = Probed(m, k, d)
  OBVIOUS
<1>2. /\ p \in Slots(m) /\ k # Null
      /\ \A e \in Slots(m) : Probed(m, k, e) \in Slots(m)
  BY <1>1, TableSlots
<1>3. Slots(n) = Slots(m) /\ \A x, e : Probed(n, x, e) = Probed(m, x, e)
  BY DEF Slots, Probed
<1>4. /\ n.keys = [i \in Slots(m) |-> IF i = p THEN k ELSE m.keys[i]]
      /\ n.vals = [i \in Slots(m) |-> IF i = p THEN v ELSE m.vals[i]]
  <2>1. m.keys = [i \in Slots(m) |-> m.keys[i]] /\ m.vals = [i \in Slots(m) |-> m.vals[i]]
    BY DEF IsTable
  <2>2. n.keys = [m.keys EXCEPT ![p] = k] /\ n.vals = [m.vals EXCEPT ![p] = v]
    BY <1>1
  <2>3. \A f, y : f = [i \in Slots(m) |-> f[i]] =>
                   [f EXCEPT ![p] = y] = [i \in Slots(m) |-> IF i = p THEN y ELSE f[i]]
    <3> SUFFICES ASSUME NEW f, NEW y, f = [i \in Slots(m) |-> f[i]]
                 PROVE  [f EXCEPT ![p] = y] = [i \in Slots(m) |-> IF i = p THEN y ELSE f[i]]
      OBVIOUS
    <3>1. DOMAIN f = Slots(m)
      OBVIOUS
    <3> QED BY <3>1
  <2> QED BY <2>1, <2>2, <2>3
<1>5. /\ \A i \in Slots(m) : n.keys[i] = IF i = p THEN k ELSE m.keys[i]
      /\ \A i \in Slots(m) : n.vals[i] = IF i = p THEN v ELSE m.vals[i]
  BY <1>4
<1>6. IsTable(n)
  <2>1. n.keys = [i \in Slots(n) |-> n.keys[i]] /\ n.vals = [i \in Slots(n) |-> n.vals[i]]
    BY <1>3, <1>4
  <2> QED BY <2>1 DEF IsTable
<1>7. m.keys[p] = Null /\ \A i \in Slots(m) : m.keys[i] # Null => m.keys[i] \in DOMAIN g
  BY <1>1 DEF Represents
<1>8. \A i \in Slots(m) : m.keys[i] # k
  BY <1>2, <1>7
<1> DEFINE w == With(g, k, v)
<1>9. DOMAIN w = DOMAIN g \union {k} /\ w[k] = v /\ \A x \in DOMAIN g : w[x] = g[x]
  BY DEF With
<1> HIDE DEF w
<1>10. \A i, j \in Slots(n) : n.keys[i] = n.keys[j] /\ n.keys[i] # Null => i = j
  <2>1. \A i, j \in Slots(m) : m.keys[i] = m.keys[j] /\ m.keys[i] # Null => i = j
    BY DEF Represents
  <2> QED BY <1>3, <1>5, <1>8, <2>1
<1>11. \A i \in Slots(n) : n.keys[i] # Null => n.keys[i] \in DOMAIN w
  BY <1>3, <1>5, <1>7, <1>9
<1>12. ASSUME NEW x \in DOMAIN w
       PROVE  /\ x \in DOMAIN n.hash
              /\ \E c : Placed(n, x, c) /\ n.vals[Probed(n, x, c)] = w[x]
  <2>1. CASE x = k
    <3>1. /\ n.keys[p] = k /\ n.vals[p] = v
          /\ \A e \in Slots(m) : e < d => n.keys[Probed(m, k, e)] # Null
      BY <1>2, <1>5
    <3>2. Placed(n, x, d)
      BY <1>1, <1>3, <2>1, <3>1 DEF Placed
    <3>3. n.vals[Probed(n, x, d)] = w[x]
      BY <1>1, <1>3, <1>9, <2>1, <3>1
    <3> QED BY <2>1, <3>2, <3>3
  <2>2. CASE x # k
    <3>1. x \in DOMAIN g /\ w[x] = g[x]
      BY <1>9, <2>2
    <3>2. x \in DOMAIN m.hash
      BY <3>1 DEF Represents
    <3>3. PICK c : Placed(m, x, c) /\ m.vals[Probed(m, x, c)] = g[x]
      BY <3>1 DEF Represents
    <3>4. \A e \in Slots(m) : Probed(m, x, e) \in Slots(m)
      BY <3>2, TableSlots
    <3>5. /\ c \in Slots(m) /\ m.keys[Probed(m, x, c)] = x /\ x # Null
          /\ \A e \in Slots(m) : e < c => m.keys[Probed(m, x, e)] # Null
      BY <3>2, <3>3, TableSlots DEF Placed
    <3>6. Probed(m, x, c) # p
      BY <1>7, <3>5
    <3>7. n.keys[Probed(m, x, c)] = x /\ n.vals[Probed(m, x, c)] = g[x]
      BY <1>5, <3>3, <3>4, <3>5, <3>6
    <3>8. \A e \in Slots(m) : e < c => n.keys[Probed(m, x, e)] # Null
      BY <1>2, <1>5, <3>4, <3>5
    <3>9. Placed(n, x, c) /\ n.vals[Probed(n, x, c)] = w[x]
      BY <1>3, <3>1, <3>5, <3>7, <3>8 DEF Placed
    <3> QED BY <3>2, <3>9
  <2> QED BY <2>1, <2>2
<1>13. Represents(n, w)
  BY <1>10, <1>11, <1>12 DEF Represents
<1> QED BY <1>6, <1>13 DEF w

\* A value is overwritten where its key lies.
LEMMA ValueReplaced ==
    ASSUME NEW m, NEW g, IsTable(m), Represents(m, g), NEW k \in DOMAIN g, NEW v,
           NEW n, n.cap = m.cap, n.hash = m.hash, n.keys = m.keys,
           n.vals = [m.vals EXCEPT ![FindSlot(m, k)] = v]
    PROVE  IsTable(n) /\ Represents(n, With(g, k, v))
<1>1. PICK p : p = FindSlot(m, k)
  OBVIOUS
<1>2. p \in Slots(m) /\ k # Null /\ m.keys[p] = k
  BY <1>1, HeldIsFound
<1>3. Slots(n) = Slots(m) /\ \A x, e : Probed(n, x, e) = Probed(m, x, e)
  BY DEF Slots, Probed
<1>4. n.vals = [i \in Slots(m) |-> IF i = p THEN v ELSE m.vals[i]]
  <2>1. m.vals = [i \in Slots(m) |-> m.vals[i]]
    BY DEF IsTable
  <2>2. n.vals = [m.vals EXCEPT ![p] = v] /\ DOMAIN m.vals = Slots(m)
    BY <1>1, <2>1
  <2> QED BY <2>2
<1>5. \A i \in Slots(m) : n.vals[i] = IF i = p THEN v ELSE m.vals[i]
  BY <1>4
<1>6. IsTable(n)
  <2>1. n.vals = [i \in Slots(n) |-> n.vals[i]]
    BY <1>3, <1>4
  <2>2. n.keys = [i \in Slots(n) |-> n.keys[i]]
    BY <1>3 DEF IsTable
  <2> QED BY <2>1, <2>2 DEF IsTable
<1> DEFINE w == With(g, k, v)
<1>7. DOMAIN w = DOMAIN g /\ \A x \in DOMAIN g : w[x] = IF x = k THEN v ELSE g[x]
  BY DEF With
<1> HIDE DEF w
<1>8. \A i, j \in Slots(n) : n.keys[i] = n.keys[j] /\ n.keys[i] # Null => i = j
  BY <1>3 DEF Represents
<1>9. \A i \in Slots(n) : n.keys[i] # Null => n.keys[i] \in DOMAIN w
  BY <1>3, <1>7 DEF Represents
<1>10. ASSUME NEW x \in DOMAIN w
       PROVE  /\ x \in DOMAIN n.hash
              /\ \E c : Placed(n, x, c) /\ n.vals[Probed(n, x, c)] = w[x]
  <2>1. x \in DOMAIN g /\ x \in DOMAIN m.hash
    BY <1>7 DEF Represents
  <2>2. PICK c : Placed(m, x, c) /\ m.vals[Probed(m, x, c)] = g[x]
    BY <2>1 DEF Represents
  <2>3. Placed(n, x, c)
    BY <1>3, <2>2 DEF Placed
  <2>4. Probed(m, x, c) \in Slots(m) /\ m.keys[Probed(m, x, c)] = x /\ x # Null
    BY <2>1, <2>2, TableSlots DEF Placed
  <2>5. Probed(m, x, c) = p <=> x = k
    BY <1>2, <2>4 DEF Represents
  <2>6. n.vals[Probed(m, x, c)] = w[x]
    BY <1>5, <1>7, <2>1, <2>2, <2>4, <2>5
  <2> QED BY <1>3, <2>1, <2>3, <2>6
<1>11. Represents(n, w)
  BY <1>8, <1>9, <1>10 DEF Represents
<1> QED BY <1>6, <1>11 DEF w

\* There are as many occupied slots as keys.
LEMMA OccupiedSlots ==
    ASSUME NEW m, NEW g, IsTable(m), Represents(m, g), IsFiniteSet(DOMAIN g)
    PROVE  LET occupied == {i \in Slots(m) : m.keys[i] # Null}
           IN  Cardinality(occupied) = Cardinality(DOMAIN g)
<1> DEFINE occupied == {i \in Slots(m) : m.keys[i] # Null}
           f == [i \in occupied |-> m.keys[i]]
<1>1. f \in Injection(occupied, DOMAIN g)
  BY DEF Injection, IsInjective, Represents
<1>2. \A k \in DOMAIN g : \E i \in occupied : f[i] = k
  <2>1. ASSUME NEW k \in DOMAIN g PROVE \E i \in occupied : f[i] = k
    <3>1. FindSlot(m, k) \in Slots(m) /\ m.keys[FindSlot(m, k)] = k /\ k # Null
      BY HeldIsFound
    <3> QED BY <3>1
  <2> QED BY <2>1
<1>3. f \in Surjection(occupied, DOMAIN g)
  BY <1>1, <1>2 DEF Injection, Surjection
<1> HIDE DEF f, occupied
<1>4. Cardinality(occupied) = Cardinality(DOMAIN g)
  BY <1>1, <1>3, FS_Injection
<1> QED BY <1>4 DEF occupied

\* As long as there are fewer keys than slots, a slot is empty.
LEMMA EmptySlot ==
    ASSUME NEW m, NEW g, IsTable(m), Represents(m, g),
           IsFiniteSet(DOMAIN g), Cardinality(DOMAIN g) < m.cap
    PROVE  \E i \in Slots(m) : m.keys[i] = Null
<1>1. SUFFICES ASSUME \A i \in Slots(m) : m.keys[i] # Null PROVE FALSE
  OBVIOUS
<1>2. {i \in Slots(m) : m.keys[i] # Null} = Slots(m)
  BY <1>1
<1>3. Cardinality(Slots(m)) = Cardinality(DOMAIN g)
  BY <1>2, OccupiedSlots
<1>4. m.cap \in Nat /\ m.cap >= 8
  BY PowerFacts DEF IsTable
<1>5. Cardinality(0 .. m.cap - 1) = m.cap
  <2>1. 0 \in Int /\ m.cap - 1 \in Int /\ ~(0 > m.cap - 1) /\ (m.cap - 1) - 0 + 1 = m.cap
    BY <1>4
  <2>2. Cardinality(0 .. m.cap - 1) = IF 0 > m.cap - 1 THEN 0 ELSE (m.cap - 1) - 0 + 1
    BY <2>1, FS_Interval
  <2> QED BY <2>1, <2>2
<1> QED BY <1>3, <1>4, <1>5 DEF Slots

-----------------------------------------------------------------------------
(* Growing. *)

IsMap(m) ==
    m = [keys |-> m.keys, vals |-> m.vals, count |-> m.count, cap |-> m.cap, hash |-> m.hash,
         owned |-> m.owned, puts |-> m.puts]

\* What lies in the first j slots.
Upto(old, g, j) == [k \in {old.keys[i] : i \in 0 .. j - 1} \ {Null} |-> g[k]]

\* The first j slots are moved.
MovedUpTo(m, old, g, j) ==
    /\ IsMap(m) /\ IsTable(m) /\ Represents(m, Upto(old, g, j))
    /\ m.cap = old.cap * 2 /\ m.hash = old.hash
    /\ m.count = old.count /\ m.owned = old.owned /\ m.puts = old.puts

\* A new table is empty.
LEMMA NewTable ==
    ASSUME NEW c, IsPower(c), NEW h, Null \notin DOMAIN h, \A k \in DOMAIN h : h[k] \in Nat,
           NEW m, m.cap = c, m.hash = h, m.keys = Nulls(c), m.vals = Unset(c),
           NEW g, DOMAIN g = {}
    PROVE  IsTable(m) /\ Represents(m, g)
<1>1. m.keys = [i \in Slots(m) |-> Null] /\ m.vals = [i \in Slots(m) |-> Junk]
  BY DEF Slots, Nulls, Unset
<1>2. \A i \in Slots(m) : m.keys[i] = Null
  BY <1>1
<1>3. m.keys = [i \in Slots(m) |-> m.keys[i]] /\ m.vals = [i \in Slots(m) |-> m.vals[i]]
  BY <1>1
<1>4. IsTable(m)
  BY <1>3 DEF IsTable
<1>5. Represents(m, g)
  BY <1>2 DEF Represents
<1> QED BY <1>4, <1>5

\* One turn of the loop that moves the keys.
LEMMA SlotMoves ==
    ASSUME NEW old, NEW g, IsTable(old), Represents(old, g),
           IsFiniteSet(DOMAIN g), Cardinality(DOMAIN g) < old.cap,
           NEW j \in Slots(old), NEW m, MovedUpTo(m, old, g, j)
    PROVE  MovedUpTo(Rehashed(m, old, j), old, g, j + 1)
<1> DEFINE u == Upto(old, g, j)
           w == Upto(old, g, j + 1)
<1>1. /\ old.cap \in Nat /\ old.cap >= 8
      /\ \A i \in 0 .. (j + 1) - 1 : i \in 0 .. j - 1 \/ i = j
      /\ \A i \in 0 .. j - 1 : i \in 0 .. (j + 1) - 1 /\ i \in Slots(old) /\ i # j
      /\ j \in 0 .. (j + 1) - 1
  <2>1. old.cap \in Nat /\ old.cap >= 8
    BY PowerFacts DEF IsTable
  <2> QED BY <2>1 DEF Slots
<1>2. CASE old.keys[j] = Null
  <2>1. {old.keys[i] : i \in 0 .. (j + 1) - 1} \ {Null} = {old.keys[i] : i \in 0 .. j - 1} \ {Null}
    BY <1>1, <1>2
  <2>2. w = u
    BY <2>1 DEF Upto
  <2>3. Rehashed(m, old, j) = m
    BY <1>2 DEF Rehashed
  <2> QED BY <2>2, <2>3 DEF MovedUpTo
<1>3. CASE old.keys[j] # Null
  <2>1. PICK k : k = old.keys[j]
    OBVIOUS
  <2>2. k \in DOMAIN g /\ k # Null
    BY <1>3, <2>1 DEF Represents
  <2>3. k \in DOMAIN old.hash /\ old.vals[j] = g[k]
    <3>1. PICK d : Placed(old, k, d) /\ old.vals[Probed(old, k, d)] = g[k]
      BY <2>2 DEF Represents
    <3>2. k \in DOMAIN old.hash
      BY <2>2 DEF Represents
    <3>3. Probed(old, k, d) \in Slots(old) /\ old.keys[Probed(old, k, d)] = k
      BY <3>1, <3>2, TableSlots DEF Placed
    <3>4. Probed(old, k, d) = j
      BY <2>1, <2>2, <3>3 DEF Represents
    <3> QED BY <3>1, <3>2, <3>4
  <2>4. \A i \in 0 .. j - 1 : old.keys[i] # k
    BY <1>1, <2>1, <2>2 DEF Represents
  <2>5. DOMAIN u = {old.keys[i] : i \in 0 .. j - 1} \ {Null} /\ \A x \in DOMAIN u : u[x] = g[x]
    BY DEF Upto
  <2>6. k \notin DOMAIN u
    BY <2>4, <2>5
  <2>7. {old.keys[i] : i \in 0 .. (j + 1) - 1} \ {Null} = DOMAIN u \union {k}
    BY <1>1, <2>1, <2>2, <2>5
  <2>8. w = With(u, k, g[k])
    <3>1. w = [x \in DOMAIN u \union {k} |-> g[x]]
      BY <2>7 DEF Upto
    <3>2. With(u, k, g[k]) = [x \in DOMAIN u \union {k} |-> IF x = k THEN g[k] ELSE u[x]]
      BY DEF With
    <3>3. \A x \in DOMAIN u \union {k} : g[x] = IF x = k THEN g[k] ELSE u[x]
      BY <2>5
    <3> HIDE DEF u, w
    <3> QED BY <3>1, <3>2, <3>3
  <2> HIDE DEF u, w
  <2>9. /\ IsMap(m) /\ IsTable(m) /\ Represents(m, u)
        /\ m.cap = old.cap * 2 /\ m.hash = old.hash
        /\ m.count = old.count /\ m.owned = old.owned /\ m.puts = old.puts
    BY DEF MovedUpTo, u
  <2>10. IsFiniteSet(DOMAIN u) /\ Cardinality(DOMAIN u) < m.cap
    <3>1. DOMAIN u \subseteq DOMAIN g
      BY <1>1, <2>5 DEF Represents
    <3>2. IsFiniteSet(DOMAIN u) /\ Cardinality(DOMAIN u) <= Cardinality(DOMAIN g)
      BY <3>1, FS_Subset
    <3>3. Cardinality(DOMAIN u) \in Nat /\ Cardinality(DOMAIN g) \in Nat
      BY <3>2, FS_CardinalityType
    <3> QED BY <1>1, <2>9, <3>2, <3>3
  <2>11. \E i \in Slots(m) : m.keys[i] = Null
    BY <2>9, <2>10, EmptySlot
  <2>12. PICK d \in Slots(m) :
            /\ Stopping(m, {Null}, k) = Probed(m, k, d) /\ Probed(m, k, d) \in Slots(m)
            /\ m.keys[Probed(m, k, d)] = Null
            /\ \A e \in Slots(m) : e < d => m.keys[Probed(m, k, e)] # Null
    <3>1. {Null} \in {{Null}, {Null, k}} /\ k \in DOMAIN m.hash
      BY <2>3, <2>9
    <3> QED BY <2>6, <2>9, <2>11, <3>1, MissingIsPlaced
  <2>13. PICK p : p = Probed(m, k, d)
    OBVIOUS
  <2>14. Rehashed(m, old, j) = [m EXCEPT !.keys[p] = k, !.vals[p] = g[k]]
    BY <1>3, <2>1, <2>3, <2>12, <2>13 DEF Rehashed
  <2>15. PICK n : n = Rehashed(m, old, j)
    OBVIOUS
  <2>16. /\ n.keys = [m.keys EXCEPT ![p] = k] /\ n.vals = [m.vals EXCEPT ![p] = g[k]]
         /\ n.cap = m.cap /\ n.hash = m.hash /\ n.count = m.count /\ n.owned = m.owned
         /\ n.puts = m.puts /\ IsMap(n)
    <3>1. m = [keys |-> m.keys, vals |-> m.vals, count |-> m.count, cap |-> m.cap, hash |-> m.hash,
               owned |-> m.owned, puts |-> m.puts]
      BY <2>9 DEF IsMap
    <3>2. n = [m EXCEPT !.keys[p] = k, !.vals[p] = g[k]]
      BY <2>14, <2>15
    <3>3. n = [keys |-> [m.keys EXCEPT ![p] = k], vals |-> [m.vals EXCEPT ![p] = g[k]],
               count |-> m.count, cap |-> m.cap, hash |-> m.hash, owned |-> m.owned, puts |-> m.puts]
      BY <3>1, <3>2
    <3> QED BY <3>3 DEF IsMap
  <2>17. IsTable(n) /\ Represents(n, w)
    BY <2>3, <2>6, <2>8, <2>9, <2>12, <2>13, <2>16, KeyAdded
  <2> QED BY <2>9, <2>15, <2>16, <2>17 DEF MovedUpTo, w
<1> QED BY <1>2, <1>3

\* The table after each turn.
Moving(f, old, fresh, n) ==
    f = [j \in 0 .. n |-> IF j = 0 THEN fresh ELSE Rehashed(f[j - 1], old, j - 1)]

LEMMA MovingExists ==
    ASSUME NEW old, NEW fresh, NEW n \in Nat
    PROVE  \E f : Moving(f, old, fresh, n)
<1> DEFINE Good(k) == \E f : Moving(f, old, fresh, k)
           Bad == {k \in Nat : ~Good(k)}
<1>1. Good(0)
  <2>1. Moving([j \in 0 .. 0 |-> fresh], old, fresh, 0)
    BY DEF Moving
  <2> QED BY <2>1
<1>2. ASSUME NEW k \in Nat, Good(k) PROVE Good(k + 1)
  <2>1. PICK f : Moving(f, old, fresh, k)
    BY <1>2
  <2> DEFINE last == Rehashed(f[k], old, k)
             g == [i \in 0 .. k + 1 |-> IF i = k + 1 THEN last ELSE f[i]]
  <2>2. /\ \A i \in 0 .. k + 1 : i \in 0 .. k \/ i = k + 1
        /\ \A i \in 0 .. k : i \in 0 .. k + 1 /\ i # k + 1
        /\ \A i \in 0 .. k + 1 : i # 0 => i - 1 \in 0 .. k
        /\ k + 1 \in 0 .. k + 1 /\ k + 1 # 0 /\ (k + 1) - 1 = k
    OBVIOUS
  <2>3. \A i \in 0 .. k + 1 : i # 0 => g[i - 1] = f[i - 1]
    BY <2>2
  <2>4. \A i \in 0 .. k : f[i] = IF i = 0 THEN fresh ELSE Rehashed(f[i - 1], old, i - 1)
    BY <2>1 DEF Moving
  <2>5. \A i \in 0 .. k + 1 : g[i] = IF i = 0 THEN fresh ELSE Rehashed(g[i - 1], old, i - 1)
    BY <2>2, <2>3, <2>4
  <2>6. g = [i \in 0 .. k + 1 |-> g[i]]
    OBVIOUS
  <2>7. Moving(g, old, fresh, k + 1)
    <3> HIDE DEF g
    <3> QED BY <2>5, <2>6 DEF Moving
  <2> QED BY <2>7
<1> HIDE DEF Good
<1>3. Bad = {}
  <2> SUFFICES ASSUME Bad # {} PROVE FALSE
    OBVIOUS
  <2>1. PICK k \in Bad : \A m \in Bad : k <= m
    <3>1. Bad \subseteq Nat
      OBVIOUS
    <3> HIDE DEF Bad
    <3> QED BY <3>1, LeastNumber
  <2>2. k - 1 \in Nat /\ ~(k <= k - 1) /\ (k - 1) + 1 = k
    BY <1>1, <2>1
  <2>3. Good(k - 1)
    BY <2>1, <2>2
  <2>4. Good((k - 1) + 1)
    BY <1>2, <2>2, <2>3
  <2> QED BY <2>1, <2>2, <2>4
<1> QED BY <1>3 DEF Good

\* A table that grows holds what it held, in twice the slots.
LEMMA MovedHolds ==
    ASSUME NEW old, NEW g, IsTable(old), Represents(old, g), g = [k \in DOMAIN g |-> g[k]],
           IsFiniteSet(DOMAIN g), Cardinality(DOMAIN g) < old.cap
    PROVE  LET m == Moved(old)
           IN  /\ IsMap(m) /\ IsTable(m) /\ Represents(m, g)
               /\ m.cap = old.cap * 2 /\ m.hash = old.hash
               /\ m.count = old.count /\ m.owned = old.owned /\ m.puts = old.puts
<1> DEFINE fresh == [NewMap(old.cap * 2, old.hash) EXCEPT
                       !.count = old.count, !.owned = old.owned, !.puts = old.puts]
           F == CHOOSE f : Moving(f, old, fresh, old.cap)
<1>1. old.cap \in Nat /\ old.cap >= 8 /\ IsPower(old.cap * 2)
  BY PowerFacts DEF IsTable
<1>2. /\ fresh.keys = Nulls(old.cap * 2) /\ fresh.vals = Unset(old.cap * 2)
      /\ fresh.cap = old.cap * 2 /\ fresh.hash = old.hash /\ fresh.count = old.count
      /\ fresh.owned = old.owned /\ fresh.puts = old.puts /\ IsMap(fresh)
  <2>1. fresh = [keys |-> Nulls(old.cap * 2), vals |-> Unset(old.cap * 2), count |-> old.count,
                 cap |-> old.cap * 2, hash |-> old.hash, owned |-> old.owned, puts |-> old.puts]
    <3>1. PICK x : x = NewMap(old.cap * 2, old.hash)
      OBVIOUS
    <3>2. x = [keys |-> Nulls(old.cap * 2), vals |-> Unset(old.cap * 2), count |-> 0,
               cap |-> old.cap * 2, hash |-> old.hash, owned |-> 2, puts |-> 0]
      BY <3>1 DEF NewMap
    <3>3. fresh = [x EXCEPT !.count = old.count, !.owned = old.owned, !.puts = old.puts]
      BY <3>1
    <3> HIDE DEF fresh
    <3> QED BY <3>2, <3>3
  <2> HIDE DEF fresh
  <2> QED BY <2>1 DEF IsMap
<1>3. Moved(old) = F[old.cap]
  BY DEF Moved, Moving
<1> HIDE DEF fresh
<1>4. Moving(F, old, fresh, old.cap)
  BY <1>1, MovingExists
<1> HIDE DEF F
<1>5. \A j \in 0 .. old.cap : F[j] = IF j = 0 THEN fresh ELSE Rehashed(F[j - 1], old, j - 1)
  BY <1>4 DEF Moving
<1>6. MovedUpTo(F[0], old, g, 0)
  <2>1. F[0] = fresh
    BY <1>1, <1>5
  <2>2. DOMAIN Upto(old, g, 0) = {}
    <3>1. 0 .. 0 - 1 = {}
      OBVIOUS
    <3> QED BY <3>1 DEF Upto
  <2>3. Null \notin DOMAIN old.hash /\ \A k \in DOMAIN old.hash : old.hash[k] \in Nat
    BY DEF IsTable
  <2>4. IsTable(fresh) /\ Represents(fresh, Upto(old, g, 0))
    BY <1>1, <1>2, <2>2, <2>3, NewTable
  <2> QED BY <1>2, <2>1, <2>4 DEF MovedUpTo
<1> DEFINE Bad == {j \in 0 .. old.cap : ~MovedUpTo(F[j], old, g, j)}
<1>7. Bad = {}
  <2> SUFFICES ASSUME Bad # {} PROVE FALSE
    OBVIOUS
  <2>1. PICK j \in Bad : \A i \in Bad : j <= i
    <3>1. Bad \subseteq Nat
      BY <1>1
    <3> HIDE DEF Bad
    <3> QED BY <3>1, LeastNumber
  <2>2. j \in 1 .. old.cap
    <3>1. j \in 0 .. old.cap /\ j # 0
      BY <1>6, <2>1
    <3> QED BY <1>1, <3>1
  <2>3. PICK i \in 0 .. old.cap : i = j - 1
    BY <1>1, <2>2
  <2>4. i \in Slots(old) /\ ~(j <= i) /\ i + 1 = j
    BY <1>1, <2>2, <2>3 DEF Slots
  <2>5. MovedUpTo(F[i], old, g, i)
    BY <2>1, <2>3, <2>4
  <2>6. F[j] = Rehashed(F[i], old, i)
    BY <1>1, <1>5, <2>2, <2>3
  <2>7. MovedUpTo(F[j], old, g, j)
    BY <2>4, <2>5, <2>6, SlotMoves
  <2> QED BY <2>1, <2>7
<1>8. MovedUpTo(F[old.cap], old, g, old.cap)
  BY <1>1, <1>7
<1>9. Upto(old, g, old.cap) = g
  <2>1. {old.keys[i] : i \in 0 .. old.cap - 1} \ {Null} = DOMAIN g
    <3>1. \A i \in 0 .. old.cap - 1 : old.keys[i] # Null => old.keys[i] \in DOMAIN g
      BY DEF Represents, Slots
    <3>2. ASSUME NEW k \in DOMAIN g PROVE k # Null /\ \E i \in 0 .. old.cap - 1 : old.keys[i] = k
      BY HeldIsFound DEF Slots
    <3> QED BY <3>1, <3>2
  <2> QED BY <2>1 DEF Upto
<1> QED BY <1>3, <1>8, <1>9 DEF MovedUpTo

-----------------------------------------------------------------------------
(* The map. *)

MapSpec == MapInit /\ [][MapNext]_<<map, mapping>>

\* The map m holds the function g: the load stays below 70%.
IsMapOf(m, g) ==
    /\ IsMap(m) /\ IsTable(m) /\ Represents(m, g)
    /\ g = [k \in DOMAIN g |-> g[k]] /\ IsFiniteSet(DOMAIN g)
    /\ m.count = Cardinality(DOMAIN g) /\ m.count * 10 < m.cap * 7
    /\ m.owned = 2 + m.count

\* The inductive invariant.
MapInv == IF map.cap = 0 THEN map.owned = 0 ELSE IsMapOf(map, mapping)

LEMMA CountsAreNumbers ==
    ASSUME NEW m, NEW g, IsMapOf(m, g)
    PROVE  /\ m.count \in Nat /\ m.cap \in Nat /\ m.cap >= 8 /\ m.count < m.cap
           /\ Cardinality(DOMAIN g) < m.cap
<1>1. m.count \in Nat
  BY FS_CardinalityType DEF IsMapOf
<1>2. m.cap \in Nat /\ m.cap >= 8
  BY PowerFacts DEF IsMapOf, IsTable
<1>3. m.count * 10 < m.cap * 7 /\ m.count = Cardinality(DOMAIN g)
  BY DEF IsMapOf
<1>4. m.count < m.cap
  BY <1>1, <1>2, <1>3
<1> QED BY <1>1, <1>2, <1>3, <1>4

\* Before a put there is room for one key more.
LEMMA RegrownHolds ==
    ASSUME NEW m, NEW g, IsMapOf(m, g)
    PROVE  LET r == Regrown(m)
           IN  IsMapOf(r, g) /\ r.hash = m.hash /\ (r.count + 1) * 10 < r.cap * 7
<1>1. m.count \in Nat /\ m.cap \in Nat /\ m.cap >= 8 /\ Cardinality(DOMAIN g) < m.cap
  BY CountsAreNumbers
<1>2. CASE Full(m)
  <2>1. PICK r : r = Moved(m)
    OBVIOUS
  <2>2. Regrown(m) = r
    BY <1>2, <2>1 DEF Regrown
  <2>3. /\ IsMap(r) /\ IsTable(r) /\ Represents(r, g)
        /\ r.cap = m.cap * 2 /\ r.hash = m.hash
        /\ r.count = m.count /\ r.owned = m.owned /\ r.puts = m.puts
    BY <1>1, <2>1, MovedHolds DEF IsMapOf
  <2>4. m.count * 10 < m.cap * 7
    BY DEF IsMapOf
  <2>5. r.count * 10 < r.cap * 7 /\ (r.count + 1) * 10 < r.cap * 7
    BY <1>1, <2>3, <2>4
  <2>6. IsMapOf(r, g)
    BY <2>3, <2>5 DEF IsMapOf
  <2> QED BY <2>2, <2>3, <2>5, <2>6
<1>3. CASE ~Full(m)
  <2>1. Regrown(m) = m
    BY <1>3 DEF Regrown
  <2>2. (m.count + 1) * 10 < m.cap * 7
    BY <1>1, <1>3 DEF Full
  <2> QED BY <2>1, <2>2
<1> QED BY <1>2, <1>3

\* A search for a key that is not held ends at an empty slot.
LEMMA MissingEndsEmpty ==
    ASSUME NEW m, NEW g, IsMapOf(m, g), NEW k \in DOMAIN m.hash, k \notin DOMAIN g
    PROVE  \E d \in Slots(m) :
              /\ FindSlot(m, k) = Probed(m, k, d) /\ Probed(m, k, d) \in Slots(m)
              /\ m.keys[Probed(m, k, d)] = Null
              /\ \A e \in Slots(m) : e < d => m.keys[Probed(m, k, e)] # Null
<1>1. IsTable(m) /\ Represents(m, g) /\ IsFiniteSet(DOMAIN g) /\ Cardinality(DOMAIN g) < m.cap
  BY CountsAreNumbers DEF IsMapOf
<1>2. \E i \in Slots(m) : m.keys[i] = Null
  BY <1>1, EmptySlot
<1>3. {Null, k} \in {{Null}, {Null, k}}
  OBVIOUS
<1> QED BY <1>1, <1>2, <1>3, MissingIsPlaced DEF FindSlot

LEMMA PutHolds ==
    ASSUME NEW m, NEW g, IsMapOf(m, g), NEW k \in DOMAIN m.hash, NEW v
    PROVE  LET n == [Stored(Regrown(m), k, v) EXCEPT !.puts = @ + 1]
           IN  IsMapOf(n, With(g, k, v)) /\ n.cap # 0
<1>1. PICK r : r = Regrown(m)
  OBVIOUS
<1>2. IsMapOf(r, g) /\ r.hash = m.hash /\ (r.count + 1) * 10 < r.cap * 7
  BY <1>1, RegrownHolds
<1>3. /\ IsMap(r) /\ IsTable(r) /\ Represents(r, g) /\ k \in DOMAIN r.hash
      /\ IsFiniteSet(DOMAIN g) /\ r.count = Cardinality(DOMAIN g) /\ r.count * 10 < r.cap * 7
      /\ r.owned = 2 + r.count /\ r.count \in Nat /\ r.cap \in Nat /\ r.cap >= 8
  BY <1>2, CountsAreNumbers DEF IsMapOf
<1>4. r = [keys |-> r.keys, vals |-> r.vals, count |-> r.count, cap |-> r.cap, hash |-> r.hash,
           owned |-> r.owned, puts |-> r.puts]
  BY <1>3 DEF IsMap
<1>5. PICK p : p = FindSlot(r, k)
  OBVIOUS
<1>6. PICK n : n = [Stored(r, k, v) EXCEPT !.puts = @ + 1]
  OBVIOUS
<1> DEFINE w == With(g, k, v)
<1>7. DOMAIN w = DOMAIN g \union {k} /\ w = [x \in DOMAIN w |-> w[x]]
  BY DEF With
<1>8. IsFiniteSet(DOMAIN w) /\ Cardinality(DOMAIN w) = IF k \in DOMAIN g THEN r.count ELSE r.count + 1
  BY <1>3, <1>7, FS_AddElement
<1> HIDE DEF w
<1>9. CASE k \in DOMAIN g
  <2>1. r.keys[p] = k /\ k # Null
    BY <1>3, <1>5, <1>9, HeldIsFound
  <2>2. Stored(r, k, v) = [r EXCEPT !.vals[p] = v]
    BY <1>5, <2>1 DEF Stored
  <2>3. n = [keys |-> r.keys, vals |-> [r.vals EXCEPT ![p] = v], count |-> r.count, cap |-> r.cap,
             hash |-> r.hash, owned |-> r.owned, puts |-> r.puts + 1]
    BY <1>4, <1>6, <2>2
  <2>4. /\ n.keys = r.keys /\ n.vals = [r.vals EXCEPT ![p] = v] /\ n.count = r.count
        /\ n.cap = r.cap /\ n.hash = r.hash /\ n.owned = r.owned /\ IsMap(n)
    BY <2>3 DEF IsMap
  <2>5. IsTable(n) /\ Represents(n, w)
    BY <1>3, <1>5, <1>9, <2>4, ValueReplaced DEF w
  <2>6. IsMapOf(n, w)
    BY <1>3, <1>7, <1>8, <1>9, <2>4, <2>5 DEF IsMapOf
  <2> QED BY <1>1, <1>3, <1>6, <2>4, <2>6 DEF w
<1>10. CASE k \notin DOMAIN g
  <2>1. PICK d \in Slots(r) :
            /\ p = Probed(r, k, d) /\ p \in Slots(r)
            /\ r.keys[p] = Null
            /\ \A e \in Slots(r) : e < d => r.keys[Probed(r, k, e)] # Null
    BY <1>2, <1>3, <1>5, <1>10, MissingEndsEmpty
  <2>2. Stored(r, k, v) = [r EXCEPT !.keys[p] = k, !.vals[p] = v, !.count = @ + 1, !.owned = @ + 1]
    BY <1>5, <2>1 DEF Stored
  <2>3. n = [keys |-> [r.keys EXCEPT ![p] = k], vals |-> [r.vals EXCEPT ![p] = v],
             count |-> r.count + 1, cap |-> r.cap,
             hash |-> r.hash, owned |-> r.owned + 1, puts |-> r.puts + 1]
    BY <1>4, <1>6, <2>2
  <2>4. /\ n.keys = [r.keys EXCEPT ![p] = k] /\ n.vals = [r.vals EXCEPT ![p] = v]
        /\ n.count = r.count + 1
        /\ n.cap = r.cap /\ n.hash = r.hash /\ n.owned = r.owned + 1 /\ IsMap(n)
    BY <2>3 DEF IsMap
  <2>5. IsTable(n) /\ Represents(n, w)
    BY <1>3, <1>10, <2>1, <2>4, KeyAdded, ZenonT(40) DEF w
  <2>6. n.count * 10 < n.cap * 7 /\ n.owned = 2 + n.count
    BY <1>2, <1>3, <2>4
  <2>7. IsMapOf(n, w)
    BY <1>7, <1>8, <1>10, <2>4, <2>5, <2>6 DEF IsMapOf
  <2> QED BY <1>1, <1>3, <1>6, <2>4, <2>7 DEF w
<1> QED BY <1>9, <1>10

LEMMA MapInvInit == MapInit => MapInv
<1> SUFFICES ASSUME NEW hash \in Hashes, NEW want \in Wanted,
                    map = NewMap(SlotsFor(want), hash), mapping = <<>>
             PROVE  MapInv
  BY DEF MapInit
<1>1. PICK c : c = SlotsFor(want)
  OBVIOUS
<1>2. IsPower(c)
  BY <1>1, SlotsArePowers, WantedAreCounts
<1>3. c \in Nat /\ c >= 8
  BY <1>2, PowerFacts
<1>4. 0 \notin DOMAIN hash /\ \A k \in DOMAIN hash : hash[k] \in Nat
  BY KeysAreNotNull
<1>5. map = [keys |-> Nulls(c), vals |-> Unset(c), count |-> 0, cap |-> c, hash |-> hash,
             owned |-> 2, puts |-> 0]
  BY <1>1 DEF NewMap
<1>6. /\ map.keys = Nulls(c) /\ map.vals = Unset(c) /\ map.count = 0 /\ map.cap = c
      /\ map.hash = hash /\ map.owned = 2 /\ IsMap(map)
  BY <1>5 DEF IsMap
<1>7. DOMAIN mapping = {} /\ mapping = [k \in DOMAIN mapping |-> mapping[k]]
  OBVIOUS
<1>8. IsTable(map) /\ Represents(map, mapping)
  BY <1>2, <1>4, <1>6, <1>7, NewTable DEF Null
<1>9. IsFiniteSet(DOMAIN mapping) /\ Cardinality(DOMAIN mapping) = 0
  BY <1>7, FS_EmptySet
<1>10. map.count * 10 < map.cap * 7
  BY <1>3, <1>6
<1>11. IsMapOf(map, mapping)
  BY <1>6, <1>7, <1>8, <1>9, <1>10 DEF IsMapOf
<1> QED BY <1>3, <1>6, <1>11 DEF MapInv

LEMMA DestroyHolds ==
    ASSUME MapInv, MapDestroy
    PROVE  MapInv'
<1>1. map.cap # 0
  <2> SUFFICES ASSUME map.cap = 0 PROVE FALSE
    OBVIOUS
  <2> QED BY DEF MapDestroy
<1>2. IsMapOf(map, mapping)
  BY <1>1 DEF MapInv
<1>3. /\ IsMap(map) /\ IsTable(map) /\ Represents(map, mapping) /\ IsFiniteSet(DOMAIN mapping)
      /\ map.count = Cardinality(DOMAIN mapping) /\ map.owned = 2 + map.count
      /\ map.count \in Nat
  BY <1>2, CountsAreNumbers DEF IsMapOf
<1>4. DOMAIN map.keys = Slots(map)
  <2>1. map.keys = [i \in Slots(map) |-> map.keys[i]]
    BY <1>3 DEF IsTable
  <2> QED BY <2>1
<1>5. Cardinality({i \in DOMAIN map.keys : map.keys[i] # Null}) = map.count
  BY <1>3, <1>4, OccupiedSlots
<1>6. PICK n : n = map.owned - 2 - Cardinality({i \in DOMAIN map.keys : map.keys[i] # Null})
  OBVIOUS
<1>7. n = 0
  BY <1>3, <1>5, <1>6
<1>8. map' = [map EXCEPT !.count = 0, !.cap = 0, !.owned = n]
  BY <1>6 DEF MapDestroy
<1>9. map = [keys |-> map.keys, vals |-> map.vals, count |-> map.count, cap |-> map.cap,
             hash |-> map.hash, owned |-> map.owned, puts |-> map.puts]
  BY <1>3 DEF IsMap
<1>10. map'.cap = 0 /\ map'.owned = 0
  BY <1>7, <1>8, <1>9
<1> QED BY <1>10 DEF MapInv

LEMMA MapInvStep == MapInv /\ [MapNext]_<<map, mapping>> => MapInv'
<1> SUFFICES ASSUME MapInv, [MapNext]_<<map, mapping>> PROVE MapInv'
  OBVIOUS
<1>1. ASSUME NEW k \in DOMAIN map.hash, NEW v, Put(k, v) PROVE MapInv'
  <2>1. map.cap # 0
    <3> SUFFICES ASSUME map.cap = 0 PROVE FALSE
      OBVIOUS
    <3> QED BY <1>1 DEF Put
  <2>2. IsMapOf(map, mapping)
    BY <2>1 DEF MapInv
  <2>3. /\ map' = [Stored(Regrown(map), k, v) EXCEPT !.puts = @ + 1]
        /\ mapping' = With(mapping, k, v)
    BY <1>1 DEF Put, With
  <2>4. IsMapOf(map', mapping') /\ map'.cap # 0
    BY <2>2, <2>3, PutHolds
  <2> QED BY <2>4 DEF MapInv
<1>2. CASE MapDestroy
  BY <1>2, DestroyHolds
<1>3. CASE UNCHANGED <<map, mapping>>
  BY <1>3 DEF MapInv
<1> QED BY <1>1, <1>2, <1>3 DEF MapNext

\* A map that holds a function answers as it.
LEMMA MapAnswers == MapInv => MapIsAFunction
<1> SUFFICES ASSUME map.cap # 0, IsMapOf(map, mapping)
             PROVE  /\ \A k \in DOMAIN map.hash : FindSlot(map, k) # -1
                    /\ \E i \in DOMAIN map.keys : map.keys[i] = Null
                    /\ \E k \in 3 .. map.cap : map.cap = PowerOfTwo(k)
                    /\ \A k \in DOMAIN map.hash :
                          GetOr(map, k, Junk) = IF k \in DOMAIN mapping THEN mapping[k] ELSE Junk
                    /\ map.count = Cardinality(DOMAIN mapping)
                    /\ map.owned = 2 + map.count
  BY DEF MapInv, MapIsAFunction
<1>1. /\ IsTable(map) /\ Represents(map, mapping) /\ IsFiniteSet(DOMAIN mapping)
      /\ map.count = Cardinality(DOMAIN mapping) /\ map.owned = 2 + map.count
      /\ map.cap \in Nat /\ Cardinality(DOMAIN mapping) < map.cap
  BY CountsAreNumbers DEF IsMapOf
<1>2. Slots(map) \subseteq Nat /\ DOMAIN map.keys = Slots(map)
  <2>1. map.keys = [i \in Slots(map) |-> map.keys[i]]
    BY <1>1 DEF IsTable
  <2>2. Slots(map) \subseteq Nat
    BY <1>1 DEF Slots
  <2> QED BY <2>1, <2>2
<1>3. \E i \in DOMAIN map.keys : map.keys[i] = Null
  BY <1>1, <1>2, EmptySlot
<1>4. \E k \in 3 .. map.cap : map.cap = PowerOfTwo(k)
  BY <1>1, PowerFacts DEF IsTable
<1>5. ASSUME NEW k \in DOMAIN map.hash
      PROVE  /\ FindSlot(map, k) \in Slots(map)
             /\ GetOr(map, k, Junk) = IF k \in DOMAIN mapping THEN mapping[k] ELSE Junk
  <2>1. CASE k \in DOMAIN mapping
    <3>1. /\ FindSlot(map, k) \in Slots(map) /\ k # Null
          /\ map.keys[FindSlot(map, k)] = k /\ map.vals[FindSlot(map, k)] = mapping[k]
      BY <1>1, <2>1, HeldIsFound
    <3> QED BY <2>1, <3>1 DEF GetOr
  <2>2. CASE k \notin DOMAIN mapping
    <3>1. FindSlot(map, k) \in Slots(map) /\ map.keys[FindSlot(map, k)] = Null
      BY <2>2, MissingEndsEmpty
    <3> QED BY <2>2, <3>1 DEF GetOr
  <2> QED BY <2>1, <2>2
<1>6. \A k \in DOMAIN map.hash : FindSlot(map, k) # -1
  <2>1. -1 \notin Nat
    OBVIOUS
  <2> QED BY <1>2, <1>5, <2>1
<1> QED BY <1>1, <1>3, <1>4, <1>5, <1>6

\* The map answers as the function that was put into it, for every hash function.
THEOREM MapsAreFunctions == MapSpec => []MapIsAFunction
<1>1. MapInit => MapInv
  BY MapInvInit
<1>2. MapInv /\ [MapNext]_<<map, mapping>> => MapInv'
  BY MapInvStep
<1>3. MapInv => MapIsAFunction
  BY MapAnswers
<1> QED BY <1>1, <1>2, <1>3, PTL DEF MapSpec

-----------------------------------------------------------------------------
(* Printing. *)

OutSpec == OutInit /\ [][OutNext]_outVars

\* f[k] is the text of the first k buffers of p.
Flattens(f, p) ==
    /\ f \in [0 .. Len(p) -> Seq(Int)]
    /\ f[0] = <<>>
    /\ \A k \in 1 .. Len(p) : f[k] = f[k - 1] \o p[k]
    /\ f[Len(p)] = FlattenSeq(p)

\* The inductive invariant: what is out is the buffers before this one and the
\* first `done` bytes of this one.
OutInv ==
    /\ print \in Seq(Seq(Int)) /\ print # <<>>
    /\ chunk \in 0 .. Len(print)
    /\ sent \in Seq(Int)
    /\ \E f : /\ Flattens(f, print)
              /\ chunk # 0 => /\ result = 0
                              /\ done \in 0 .. Len(Buffer)
                              /\ sent = f[chunk - 1] \o SubSeq(Buffer, 1, done)
    /\ chunk = 0 => PrintsOnceInOrder

\* In front of a text stand its beginnings.
LEMMA PrefixOfJoined ==
    ASSUME NEW s \in Seq(Int), NEW t \in Seq(Int)
    PROVE  s \o t \in Seq(Int) /\ IsPrefix(s, s \o t)
<1>1. s \o t \in Seq(Int) /\ Len(s) <= Len(s \o t)
  OBVIOUS
<1>2. Len(SubSeq(s \o t, 1, Len(s))) = Len(s) /\ SubSeq(s \o t, 1, Len(s)) \in Seq(Int)
  OBVIOUS
<1>3. \A i \in 1 .. Len(s) : SubSeq(s \o t, 1, Len(s))[i] = s[i]
  OBVIOUS
<1>4. SubSeq(s, 1, Len(s)) = s
  OBVIOUS
<1>5. SubSeq(s \o t, 1, Len(s)) = s
  BY <1>2, <1>3, SeqEqual
<1> QED BY <1>1, <1>4, <1>5 DEF IsPrefix

LEMMA PrefixIsTransitive ==
    ASSUME NEW s \in Seq(Int), NEW t \in Seq(Int), NEW u \in Seq(Int),
           IsPrefix(s, t), IsPrefix(t, u)
    PROVE  IsPrefix(s, u)
<1>1. /\ SubSeq(s, 1, Len(s)) = s /\ SubSeq(t, 1, Len(t)) = t
      /\ Len(s) <= Len(t) /\ SubSeq(t, 1, Len(s)) = s
      /\ Len(t) <= Len(u) /\ SubSeq(u, 1, Len(t)) = t
  BY DEF IsPrefix
<1>2. Len(s) <= Len(u)
  BY <1>1
<1>3. \A i \in 1 .. Len(t) : SubSeq(u, 1, Len(t))[i] = u[i]
  BY <1>1
<1>4. \A i \in 1 .. Len(s) : SubSeq(t, 1, Len(s))[i] = t[i]
  BY <1>1
<1>5. \A i \in 1 .. Len(s) : SubSeq(u, 1, Len(s))[i] = u[i]
  BY <1>2
<1>6. \A i \in 1 .. Len(s) : i \in 1 .. Len(t)
  BY <1>1
<1>7. \A i \in 1 .. Len(s) : SubSeq(u, 1, Len(s))[i] = s[i]
  BY <1>1, <1>3, <1>4, <1>5, <1>6
<1>8. SubSeq(u, 1, Len(s)) \in Seq(Int) /\ Len(SubSeq(u, 1, Len(s))) = Len(s)
  BY <1>2
<1>9. SubSeq(u, 1, Len(s)) = s
  BY <1>7, <1>8, SeqEqual
<1> QED BY <1>1, <1>2, <1>9 DEF IsPrefix

\* A text is flattened buffer by buffer.
LEMMA FlattenedStepwise ==
    ASSUME NEW p \in Seq(Seq(Int)), p # <<>>
    PROVE  \E f : Flattens(f, p)
<1> DEFINE N == Len(p)
           Def(f, n) == f = [i \in 1 .. n |-> IF i = 1 THEN p[i] ELSE f[i - 1] \o p[i]]
           Good(n) == \E f : Def(f, n)
           Bad == {n \in 1 .. N : ~Good(n)}
<1>1. N \in Nat /\ N >= 1 /\ \A i \in 1 .. N : p[i] \in Seq(Int)
  OBVIOUS
<1>2. N >= 1 => Good(1)
  <2>1. Def([i \in 1 .. 1 |-> p[1]], 1)
    OBVIOUS
  <2> QED BY <2>1
<1>3. ASSUME NEW n \in 2 .. N, Good(n - 1) PROVE Good(n)
  <2>1. /\ n \in Nat /\ n >= 2 /\ n \in 1 .. n /\ n - 1 \in 1 .. n - 1
        /\ \A i \in 1 .. n : i \in 1 .. n - 1 \/ i = n
        /\ \A i \in 1 .. n : i # 1 => i - 1 \in 1 .. n - 1
        /\ \A i \in 1 .. n - 1 : i \in 1 .. n /\ i # n
    BY <1>1
  <2>2. PICK f : Def(f, n - 1)
    BY <1>3
  <2> DEFINE last == f[n - 1] \o p[n]
             g == [i \in 1 .. n |-> IF i = n THEN last ELSE f[i]]
  <2>3. \A i \in 1 .. n : i # 1 => g[i - 1] = f[i - 1]
    BY <2>1
  <2>4. \A i \in 1 .. n - 1 : f[i] = IF i = 1 THEN p[i] ELSE f[i - 1] \o p[i]
    BY <2>2
  <2>5. \A i \in 1 .. n : g[i] = IF i = 1 THEN p[i] ELSE g[i - 1] \o p[i]
    BY <2>1, <2>3, <2>4
  <2>6. g = [i \in 1 .. n |-> g[i]]
    OBVIOUS
  <2>7. Def(g, n)
    <3> HIDE DEF g
    <3> QED BY <2>5, <2>6
  <2> QED BY <2>7
<1>4. Bad = {}
  <2> SUFFICES ASSUME Bad # {} PROVE FALSE
    OBVIOUS
  <2> HIDE DEF Good
  <2>1. PICK n \in Bad : \A m \in Bad : n <= m
    <3>1. Bad \subseteq Nat
      BY <1>1
    <3> HIDE DEF Bad
    <3> QED BY <3>1, LeastNumber
  <2>2. n \in 2 .. N /\ n - 1 \in 1 .. N /\ ~(n <= n - 1)
    BY <1>1, <1>2, <2>1
  <2> QED BY <1>3, <2>1, <2>2
<1>5. PICK F : F = CHOOSE f : Def(f, N)
  OBVIOUS
<1>6. Def(F, N)
  <2> HIDE DEF Def
  <2>1. Good(N)
    <3>1. N \in 1 .. N
      BY <1>1
    <3> HIDE DEF Good, N
    <3> QED BY <1>4, <3>1
  <2> QED BY <2>1, <1>5
<1>7. FlattenSeq(p) = F[N]
  BY <1>1, <1>5 DEF FlattenSeq
<1> DEFINE H == [k \in 0 .. N |-> IF k = 0 THEN <<>> ELSE F[k]]
<1>8. \A k \in 1 .. N : F[k] = IF k = 1 THEN p[k] ELSE F[k - 1] \o p[k]
  BY <1>6
<1>9. \A k \in 1 .. N : F[k] \in Seq(Int)
  <2> DEFINE Ill == {k \in 1 .. N : F[k] \notin Seq(Int)}
  <2> SUFFICES ASSUME Ill # {} PROVE FALSE
    OBVIOUS
  <2>1. PICK n \in Ill : \A m \in Ill : n <= m
    <3>1. Ill \subseteq Nat
      BY <1>1
    <3> HIDE DEF Ill
    <3> QED BY <3>1, LeastNumber
  <2>2. n # 1 => n - 1 \in 1 .. N /\ ~(n <= n - 1)
    BY <1>1, <2>1
  <2>3. n # 1 => F[n - 1] \in Seq(Int)
    BY <2>1, <2>2
  <2>4. n \in 1 .. N /\ p[n] \in Seq(Int) /\ F[n] \notin Seq(Int)
    BY <1>1, <2>1
  <2>5. CASE n = 1
    BY <1>8, <2>4, <2>5
  <2>6. CASE n # 1
    <3>1. F[n] = F[n - 1] \o p[n]
      BY <1>8, <2>4, <2>6
    <3> QED BY <2>3, <2>4, <2>6, <3>1, ConcatProperties
  <2> QED BY <2>5, <2>6
<1>10. H \in [0 .. N -> Seq(Int)] /\ H[0] = <<>> /\ H[N] = FlattenSeq(p)
  BY <1>1, <1>7, <1>9
<1>11. ASSUME NEW k \in 1 .. N PROVE H[k] = H[k - 1] \o p[k]
  <2>1. k \in 0 .. N /\ k # 0 /\ k - 1 \in 0 .. N /\ p[k] \in Seq(Int)
    BY <1>1
  <2>2. H[k] = F[k] /\ H[k - 1] = IF k - 1 = 0 THEN <<>> ELSE F[k - 1]
    BY <2>1
  <2>3. F[k] = IF k = 1 THEN p[k] ELSE F[k - 1] \o p[k]
    BY <1>8
  <2>4. <<>> \o p[k] = p[k]
    BY <2>1, ConcatEmptySeq
  <2>5. k - 1 = 0 <=> k = 1
    BY <2>1
  <2> HIDE DEF H
  <2> QED BY <2>2, <2>3, <2>4, <2>5
<1> QED
  <2> HIDE DEF H
  <2> QED BY <1>10, <1>11 DEF Flattens

LEMMA BeginningsOfTheText ==
    ASSUME NEW p \in Seq(Seq(Int)), NEW f, Flattens(f, p), NEW k \in 0 .. Len(p)
    PROVE  IsPrefix(f[k], FlattenSeq(p))
<1> DEFINE N == Len(p)
           Bad == {d \in 0 .. N : ~IsPrefix(f[N - d], f[N])}
<1>1. N \in Nat /\ f[N] = FlattenSeq(p) /\ \A i \in 0 .. N : f[i] \in Seq(Int)
  <2>1. N \in Nat
    OBVIOUS
  <2>2. f \in [0 .. N -> Seq(Int)] /\ f[N] = FlattenSeq(p)
    BY DEF Flattens
  <2> QED BY <2>1, <2>2
<1>2. IsPrefix(f[N], f[N])
  BY <1>1 DEF IsPrefix
<1>3. Bad = {}
  <2> SUFFICES ASSUME Bad # {} PROVE FALSE
    OBVIOUS
  <2>1. PICK d \in Bad : \A e \in Bad : d <= e
    <3>1. Bad \subseteq Nat
      BY <1>1
    <3> HIDE DEF Bad
    <3> QED BY <3>1, LeastNumber
  <2>2. d \in 1 .. N
    <3>1. N - 0 = N
      BY <1>1
    <3>2. d \in 0 .. N /\ d # 0
      BY <1>2, <2>1, <3>1
    <3> QED BY <1>1, <3>2
  <2> DEFINE m == N - d
  <2>3. m \in 0 .. N /\ m + 1 \in 1 .. N /\ m + 1 \in 0 .. N /\ m = (m + 1) - 1
        /\ d - 1 \in 0 .. N /\ ~(d <= d - 1) /\ N - (d - 1) = m + 1
    BY <1>1, <2>2
  <2>4. IsPrefix(f[m + 1], f[N])
    BY <2>1, <2>3
  <2> HIDE DEF m
  <2>5. f[m + 1] = f[m] \o p[m + 1]
    BY <2>3 DEF Flattens
  <2>6. f[m] \in Seq(Int) /\ f[m + 1] \in Seq(Int) /\ p[m + 1] \in Seq(Int)
    BY <1>1, <2>3
  <2>7. IsPrefix(f[m], f[m + 1])
    BY <2>5, <2>6, PrefixOfJoined
  <2>8. IsPrefix(f[m], f[N])
    BY <1>1, <2>4, <2>6, <2>7, PrefixIsTransitive
  <2> QED BY <2>1, <2>8 DEF m
<1>4. N - k \in 0 .. N /\ N - (N - k) = k
  BY <1>1
<1> QED BY <1>1, <1>3, <1>4

-----------------------------------------------------------------------------
(* The invariant. *)

\* A print starts with nothing written of its first buffer.
LEMMA OutInvInit == OutInit => OutInv
<1> SUFFICES ASSUME OutInit PROVE OutInv
  OBVIOUS
<1>1. /\ print \in Seq(Seq(Int)) /\ print # <<>>
      /\ chunk = 1 /\ done = 0 /\ sent = <<>> /\ result = 0
  BY PrintsAreBuffers DEF OutInit
<1>2. PICK f : Flattens(f, print)
  BY <1>1, FlattenedStepwise
<1>3. Len(print) \in Nat /\ Len(print) >= 1 /\ print[1] \in Seq(Int)
  BY <1>1
<1>4. done \in 0 .. Len(Buffer) /\ SubSeq(Buffer, 1, done) = <<>>
  BY <1>1, <1>3 DEF Buffer
<1>5. f[chunk - 1] = <<>> /\ <<>> \in Seq(Int)
  BY <1>1, <1>2 DEF Flattens
<1>6. chunk \in 0 .. Len(print) /\ chunk # 0 /\ sent \in Seq(Int)
  BY <1>1, <1>3
<1>7. sent = f[chunk - 1] \o SubSeq(Buffer, 1, done)
  BY <1>1, <1>4, <1>5
<1> QED BY <1>1, <1>2, <1>4, <1>6, <1>7 DEF OutInv

LEMMA Reassociated ==
    \A s, t, u \in Seq(Int) : (s \o t) \o u = s \o (t \o u)
<1> SUFFICES ASSUME NEW s \in Seq(Int), NEW t \in Seq(Int), NEW u \in Seq(Int)
             PROVE  (s \o t) \o u = s \o (t \o u)
  OBVIOUS
<1> QED BY ConcatAssociative, SMTT(20)

\* The texts up to a buffer.
LEMMA TextSoFar ==
    ASSUME NEW p \in Seq(Seq(Int)), NEW f, Flattens(f, p), NEW k \in 1 .. Len(p)
    PROVE  /\ f[k - 1] \in Seq(Int) /\ f[k] \in Seq(Int) /\ FlattenSeq(p) \in Seq(Int)
           /\ f[k] = f[k - 1] \o p[k]
<1>1. Len(p) \in Nat
  OBVIOUS
<1>2. k - 1 \in 0 .. Len(p) /\ k \in 0 .. Len(p) /\ Len(p) \in 0 .. Len(p)
  BY <1>1
<1>3. f \in [0 .. Len(p) -> Seq(Int)] /\ f[Len(p)] = FlattenSeq(p) /\ f[k] = f[k - 1] \o p[k]
  BY DEF Flattens
<1> QED BY <1>2, <1>3

\* A buffer is cut where a write ended.
LEMMA CutBuffer ==
    ASSUME NEW b \in Seq(Int), NEW d \in 0 .. Len(b), NEW w \in 0 .. Len(b) - d
    PROVE  /\ SubSeq(b, 1, d) \in Seq(Int)
           /\ SubSeq(b, d + 1, Len(b)) \in Seq(Int) /\ Len(SubSeq(b, d + 1, Len(b))) = Len(b) - d
           /\ SubSeq(SubSeq(b, d + 1, Len(b)), 1, w) \in Seq(Int)
           /\ b = SubSeq(b, 1, d) \o SubSeq(b, d + 1, Len(b))
           /\ SubSeq(b, 1, d + w)
               = SubSeq(b, 1, d) \o SubSeq(SubSeq(b, d + 1, Len(b)), 1, w)
<1> DEFINE l == Len(b)
           r == SubSeq(b, d + 1, l)
<1>1. l \in Nat /\ d \in Nat /\ w \in Nat /\ d + w <= l /\ \A i \in 1 .. l : b[i] \in Int
  OBVIOUS
<1>2. SubSeq(b, 1, d) \in Seq(Int) /\ Len(SubSeq(b, 1, d)) = d
  BY <1>1
<1>3. r \in Seq(Int) /\ Len(r) = l - d /\ \A i \in 1 .. l - d : r[i] = b[d + i]
  BY <1>1
<1>4. SubSeq(r, 1, w) = SubSeq(b, d + 1, d + w)
  <2>1. SubSeq(r, 1, w) \in Seq(Int) /\ Len(SubSeq(r, 1, w)) = w
        /\ \A i \in 1 .. w : SubSeq(r, 1, w)[i] = r[i]
    <3> HIDE DEF r
    <3> QED BY <1>1, <1>3
  <2>2. SubSeq(b, d + 1, d + w) \in Seq(Int) /\ Len(SubSeq(b, d + 1, d + w)) = w
        /\ \A i \in 1 .. w : SubSeq(b, d + 1, d + w)[i] = b[d + i]
    BY <1>1
  <2>3. \A i \in 1 .. w : i \in 1 .. l - d
    BY <1>1
  <2> HIDE DEF r
  <2> QED BY <1>3, <2>1, <2>2, <2>3, SeqEqual
<1>5. SubSeq(r, 1, w) \in Seq(Int)
  <2> HIDE DEF r
  <2> QED BY <1>1, <1>3
<1>6. SubSeq(b, 1, l) = b
  BY SubSeqFull
<1>7. 1 \in 1 .. l + 1 /\ d \in 1 - 1 .. l /\ l \in d .. l /\ d + w \in d .. l
  BY <1>1
<1>8. SubSeq(b, 1, d) \o SubSeq(b, d + 1, l) = SubSeq(b, 1, l)
  BY <1>7, ConcatAdjacentSubSeq
<1>9. SubSeq(b, 1, d) \o SubSeq(b, d + 1, d + w) = SubSeq(b, 1, d + w)
  BY <1>7, ConcatAdjacentSubSeq
<1> QED BY <1>2, <1>3, <1>4, <1>5, <1>6, <1>8, <1>9

\* A printer that is not done is at one of its buffers.
LEMMA AtABuffer ==
    ASSUME OutInv, chunk # 0
    PROVE  /\ print \in Seq(Seq(Int)) /\ print # <<>> /\ chunk \in 1 .. Len(print) /\ sent \in Seq(Int)
           /\ chunk - 1 \in 0 .. Len(print) /\ chunk \in 0 .. Len(print) /\ Buffer \in Seq(Int)
<1>1. print \in Seq(Seq(Int)) /\ print # <<>> /\ chunk \in 0 .. Len(print) /\ sent \in Seq(Int)
  BY DEF OutInv
<1>2. Len(print) \in Nat
  BY <1>1
<1>3. chunk \in 1 .. Len(print) /\ chunk - 1 \in 0 .. Len(print)
  BY <1>1, <1>2
<1>4. Buffer \in Seq(Int)
  BY <1>1, <1>3 DEF Buffer
<1> QED BY <1>1, <1>3, <1>4

\* What is out is a beginning of the text.
LEMMA InvImpliesPrefix == OutInv => PrintsOnceInOrder
<1> SUFFICES ASSUME OutInv, chunk # 0 PROVE PrintsOnceInOrder
  BY DEF OutInv
<1>1. PICK f : /\ Flattens(f, print)
               /\ done \in 0 .. Len(Buffer)
               /\ sent = f[chunk - 1] \o SubSeq(Buffer, 1, done)
  BY DEF OutInv
<1>2. /\ print \in Seq(Seq(Int)) /\ chunk \in 1 .. Len(print) /\ sent \in Seq(Int)
      /\ chunk - 1 \in 0 .. Len(print) /\ chunk \in 0 .. Len(print) /\ Buffer \in Seq(Int)
  BY AtABuffer
<1>3. /\ f[chunk] = f[chunk - 1] \o Buffer
      /\ f[chunk - 1] \in Seq(Int) /\ f[chunk] \in Seq(Int) /\ FlattenSeq(print) \in Seq(Int)
  BY <1>1, <1>2, TextSoFar DEF Buffer
<1>4. /\ Buffer = SubSeq(Buffer, 1, done) \o Rest(done)
      /\ SubSeq(Buffer, 1, done) \in Seq(Int) /\ Rest(done) \in Seq(Int)
  <2>1. 0 \in 0 .. Len(Buffer) - done
    BY <1>1, <1>2
  <2> QED BY <1>1, <1>2, <2>1, CutBuffer DEF Rest
<1>6. f[chunk] = sent \o Rest(done)
  <2> HIDE DEF Rest
  <2>1. f[chunk - 1] \o (SubSeq(Buffer, 1, done) \o Rest(done))
        = (f[chunk - 1] \o SubSeq(Buffer, 1, done)) \o Rest(done)
    BY <1>3, <1>4, Reassociated
  <2> QED BY <1>1, <1>3, <1>4, <2>1
<1>7. IsPrefix(sent, f[chunk])
  BY <1>2, <1>4, <1>6, PrefixOfJoined
<1>8. IsPrefix(f[chunk], FlattenSeq(print))
  BY <1>1, <1>2, BeginningsOfTheText
<1>9. IsPrefix(sent, FlattenSeq(print))
  BY <1>2, <1>3, <1>7, <1>8, PrefixIsTransitive
<1> QED BY <1>9 DEF PrintsOnceInOrder

\* A printer that gives up at an error.
LEMMA GivesUp ==
    ASSUME OutInv, UNCHANGED print, UNCHANGED sent, chunk' = 0, result' = -1
    PROVE  OutInv'
<1>1. PrintsOnceInOrder
  BY InvImpliesPrefix
<1>2. PrintsOnceInOrder'
  BY <1>1 DEF PrintsOnceInOrder
<1> QED BY <1>2 DEF OutInv

LEMMA WroteKeeps ==
    ASSUME OutInv, NEW w \in Nat, Wrote(w)
    PROVE  OutInv'
<1>1. /\ print' = print /\ chunk # 0 /\ w \in 0 .. Len(Rest(done))
      /\ sent' = sent \o SubSeq(Rest(done), 1, w)
  BY DEF Wrote
<1>2. PICK f : /\ Flattens(f, print)
               /\ result = 0 /\ done \in 0 .. Len(Buffer)
               /\ sent = f[chunk - 1] \o SubSeq(Buffer, 1, done)
  BY <1>1 DEF OutInv
<1>3. /\ print \in Seq(Seq(Int)) /\ print # <<>> /\ chunk \in 1 .. Len(print) /\ sent \in Seq(Int)
      /\ chunk - 1 \in 0 .. Len(print) /\ Buffer \in Seq(Int)
  BY <1>1, AtABuffer
<1>4. CASE w = 0
  <2>1. SubSeq(Rest(done), 1, w) = <<>>
    BY <1>4
  <2>2. sent' = sent
    BY <1>1, <1>3, <2>1, ConcatEmptySeq
  <2>3. chunk' = 0 /\ result' = -1
    BY <1>4 DEF Wrote, Retries, Return
  <2> QED BY <1>1, <2>2, <2>3, GivesUp
<1>5. CASE w # 0
  <2>1. chunk' = chunk /\ result' = result /\ done' = done + w
    <3>1. Retries(w)
      BY <1>5 DEF Retries
    <3> QED BY <3>1 DEF Wrote
  <2>2. Buffer' = Buffer
    BY <1>1, <2>1 DEF Buffer
  <2>3. w \in 0 .. Len(Buffer) - done
    <3>1. 0 \in 0 .. Len(Buffer) - done
      BY <1>2, <1>3
    <3>2. Len(Rest(done)) = Len(Buffer) - done
      BY <1>2, <1>3, <3>1, CutBuffer DEF Rest
    <3> QED BY <1>1, <3>2
  <2>4. done + w \in 0 .. Len(Buffer)
    BY <1>2, <1>3, <2>3
  <2>5. /\ SubSeq(Buffer, 1, done + w) = SubSeq(Buffer, 1, done) \o SubSeq(Rest(done), 1, w)
        /\ SubSeq(Buffer, 1, done) \in Seq(Int) /\ SubSeq(Rest(done), 1, w) \in Seq(Int)
    BY <1>2, <1>3, <2>3, CutBuffer DEF Rest
  <2>6. f[chunk - 1] \in Seq(Int)
    BY <1>2, <1>3, TextSoFar
  <2>7. sent' = f[chunk - 1] \o SubSeq(Buffer, 1, done + w)
    <3>1. (f[chunk - 1] \o SubSeq(Buffer, 1, done)) \o SubSeq(Rest(done), 1, w)
          = f[chunk - 1] \o (SubSeq(Buffer, 1, done) \o SubSeq(Rest(done), 1, w))
      BY <2>5, <2>6, Reassociated
    <3> QED BY <1>1, <1>2, <2>5, <3>1, Zenon
  <2>8. sent' \in Seq(Int)
    BY <1>1, <1>3, <2>5, ConcatProperties
  <2>9. chunk' \in 0 .. Len(print') /\ chunk' # 0
    BY <1>1, <1>3, <2>1
  <2>10. result' = 0 /\ done' \in 0 .. Len(Buffer') /\ sent' = f[chunk' - 1] \o SubSeq(Buffer', 1, done')
    BY <1>2, <2>1, <2>2, <2>4, <2>7
  <2>11. print' \in Seq(Seq(Int)) /\ print' # <<>> /\ Flattens(f, print')
    BY <1>1, <1>2, <1>3
  <2> QED BY <2>8, <2>9, <2>10, <2>11 DEF OutInv
<1> QED BY <1>4, <1>5

LEMMA AllWrittenKeeps ==
    ASSUME OutInv, AllWritten
    PROVE  OutInv'
<1>1. /\ print' = print /\ sent' = sent /\ chunk # 0 /\ done >= Len(Buffer)
      /\ chunk' = IF chunk = Len(print) THEN 0 ELSE chunk + 1
      /\ done' = 0 /\ result' = result
  BY DEF AllWritten, Return
<1>2. PICK f : /\ Flattens(f, print)
               /\ result = 0 /\ done \in 0 .. Len(Buffer)
               /\ sent = f[chunk - 1] \o SubSeq(Buffer, 1, done)
  BY <1>1 DEF OutInv
<1>3. /\ print \in Seq(Seq(Int)) /\ print # <<>> /\ chunk \in 1 .. Len(print) /\ sent \in Seq(Int)
      /\ chunk - 1 \in 0 .. Len(print) /\ Buffer \in Seq(Int)
  BY <1>1, AtABuffer
<1>4. done = Len(Buffer) /\ SubSeq(Buffer, 1, done) = Buffer
  BY <1>1, <1>2, <1>3
<1>5. sent = f[chunk]
  BY <1>2, <1>3, <1>4 DEF Flattens, Buffer
<1>6. CASE chunk = Len(print)
  <2>1. sent = FlattenSeq(print)
    BY <1>2, <1>5, <1>6 DEF Flattens
  <2>2. PrintsOnceInOrder'
    <3>1. IsPrefix(sent', FlattenSeq(print'))
      BY <1>1, <1>3, <2>1 DEF IsPrefix
    <3> QED BY <1>1, <2>1, <3>1 DEF PrintsOnceInOrder
  <2>3. chunk' = 0 /\ 0 \in 0 .. Len(print)
    BY <1>1, <1>3, <1>6
  <2> QED BY <1>1, <1>2, <1>3, <2>2, <2>3 DEF OutInv
<1>7. CASE chunk # Len(print)
  <2>1. chunk' = chunk + 1 /\ chunk' \in 1 .. Len(print) /\ chunk' \in 0 .. Len(print) /\ chunk' - 1 = chunk /\ chunk' # 0
    BY <1>1, <1>3, <1>7
  <2>2. Buffer' \in Seq(Int)
    BY <1>1, <1>3, <2>1 DEF Buffer
  <2>3. done' \in 0 .. Len(Buffer') /\ SubSeq(Buffer', 1, done') = <<>>
    BY <1>1, <2>2
  <2>4. sent' = f[chunk' - 1] \o SubSeq(Buffer', 1, done')
    BY <1>1, <1>3, <1>5, <2>1, <2>3
  <2> QED BY <1>1, <1>2, <1>3, <2>1, <2>3, <2>4 DEF OutInv
<1> QED BY <1>6, <1>7

\* Whatever the kernel takes of a write, the invariant stays.
LEMMA OutInvStep == OutInv /\ [OutNext]_outVars => OutInv'
<1> SUFFICES ASSUME OutInv, [OutNext]_outVars PROVE OutInv'
  OBVIOUS
<1>1. ASSUME NEW w \in 0 .. Len(FlattenSeq(print)), Wrote(w) PROVE OutInv'
  <2>1. w \in Nat
    <3>1. PICK f : Flattens(f, print)
      BY DEF OutInv
    <3>2. FlattenSeq(print) \in Seq(Int)
      <4>1. print \in Seq(Seq(Int)) /\ print # <<>>
        BY DEF OutInv
      <4>2. 1 \in 1 .. Len(print)
        BY <4>1
      <4> QED BY <3>1, <4>1, <4>2, TextSoFar
    <3> QED BY <3>2
  <2> QED BY <1>1, <2>1, WroteKeeps
<1>2. CASE WriteFailed
  BY <1>2, GivesUp DEF WriteFailed, Return
<1>3. CASE AllWritten
  BY <1>3, AllWrittenKeeps
<1>4. CASE UNCHANGED outVars
  <2>1. PrintsOnceInOrder => PrintsOnceInOrder'
    BY <1>4 DEF outVars, PrintsOnceInOrder
  <2>2. Buffer' = Buffer
    BY <1>4 DEF outVars, Buffer
  <2> QED BY <1>4, <2>1, <2>2 DEF outVars, OutInv
<1> QED BY <1>1, <1>2, <1>3, <1>4 DEF OutNext

\* However the writes are split, what is printed comes out once and in order.
THEOREM PrintsComeOutOnce == OutSpec => []PrintsOnceInOrder
<1>1. OutInit => OutInv
  BY OutInvInit
<1>2. OutInv /\ [OutNext]_outVars => OutInv'
  BY OutInvStep
<1>3. OutInv => PrintsOnceInOrder
  BY InvImpliesPrefix
<1> QED BY <1>1, <1>2, <1>3, PTL DEF OutSpec

-----------------------------------------------------------------------------
(* The sort. *)

\* s is an array of n elements, all different.
IsArray(s, n) ==
  /\ s = [x \in 0 .. n - 1 |-> s[x]]
  /\ \A x \in 0 .. n - 1 : s[x].key \in Int
  /\ \A x, y \in 0 .. n - 1 : s[x] = s[y] => x = y

SameElements(s, t, n) == {s[x] : x \in 0 .. n - 1} = {t[x] : x \in 0 .. n - 1}

\* What is not in one of the ranges P together is in order.
OrderedBut(s, n, P) ==
  \A x, y \in 0 .. n - 1 :
    x < y => s[x].key <= s[y].key \/ \E r \in P : r.lo <= x /\ y <= r.hi

\* What the loops and the calls in progress have still to sort.
Busy == run.op \in {"insert", "split"}
Running == IF Busy THEN {[lo |-> run.lo, hi |-> run.hi]} ELSE {}
Awaited == {calls[k] : k \in 1 .. Len(calls)}

SortTyped ==
  /\ calls \in Seq([lo : Nat, hi : Nat])
  /\ run \in [op : {"start", "between", "insert", "split", "done"},
              lo : Nat, hi : Nat, i : Nat, j : Nat]

\* Ranges to come lie behind each other, and behind the one in work.
RangesApart(n) ==
  /\ \A k \in 1 .. Len(calls) : calls[k].lo <= calls[k].hi + 1 /\ calls[k].hi < n
  /\ \A k, l \in 1 .. Len(calls) : k < l => calls[k].hi < calls[l].lo
  /\ Busy => run.lo < run.hi /\ run.hi < n /\ \A k \in 1 .. Len(calls) : run.hi < calls[k].lo

\* Up to i the range is in order, but for what stands before the element at j.
Insertion ==
  run.op = "insert" =>
    /\ run.lo < run.i /\ run.i <= run.hi + 1 /\ run.lo <= run.j /\ run.j <= run.i
    /\ (run.i <= run.hi \/ run.j = run.i)
    /\ \A x, y \in run.lo .. run.hi :
          x < y /\ y <= run.i /\ y # run.j => arr[x].key <= arr[y].key

\* Before j stands what is less than the pivot, from j on what is not.
Division ==
  run.op = "split" =>
    /\ run.lo <= run.j /\ run.j <= run.i /\ run.i <= run.hi
    /\ \A x \in run.lo .. run.j - 1 : arr[x].key < arr[run.hi].key
    /\ \A x \in run.j .. run.i - 1 : arr[run.hi].key <= arr[x].key

Sorts(n) ==
  /\ IsArray(arr, n) /\ DOMAIN given = 0 .. n - 1 /\ SameElements(arr, given, n)
  /\ SortTyped /\ RangesApart(n) /\ Insertion /\ Division
  /\ run.op \in {"start", "done"} => calls = <<>>
  /\ run.op # "start" => OrderedBut(arr, n, Running \cup Awaited)

\* The inductive invariant of the sort.
SortInv == \E n \in 0 .. MaxU64 : Sorts(n)

\* What a swap does.
LEMMA SwapFacts ==
  ASSUME NEW n \in Nat, NEW s, IsArray(s, n), NEW a \in 0 .. n - 1, NEW b \in 0 .. n - 1,
         NEW t, t = Swap(s, a, b)
  PROVE  /\ IsArray(t, n) /\ t[a] = s[b] /\ t[b] = s[a]
         /\ \A x \in 0 .. n - 1 : x # a /\ x # b => t[x] = s[x]
         /\ SameElements(t, s, n)
<1>1. DOMAIN s = 0 .. n - 1
  BY DEF IsArray
<1>2. /\ t = [x \in 0 .. n - 1 |-> t[x]] /\ t[a] = s[b] /\ t[b] = s[a]
      /\ \A x \in 0 .. n - 1 : x # a /\ x # b => t[x] = s[x]
  BY <1>1 DEF Swap
<1>3. \A x \in 0 .. n - 1 : t[x] = s[IF x = a THEN b ELSE IF x = b THEN a ELSE x]
  BY <1>2
<1>4. \A x \in 0 .. n - 1 : t[x].key \in Int
  BY <1>3 DEF IsArray
<1>5. \A x, y \in 0 .. n - 1 : t[x] = t[y] => x = y
  BY <1>3 DEF IsArray
<1>6. \A e : e \in {t[x] : x \in 0 .. n - 1} <=> e \in {s[x] : x \in 0 .. n - 1}
  BY <1>2
<1> QED BY <1>2, <1>4, <1>5, <1>6 DEF IsArray, SameElements

\* Swapping within one of the ranges changes nothing between the others.
LEMMA SwapKeepsOrder ==
  ASSUME NEW n \in Nat, NEW s, IsArray(s, n), NEW P, OrderedBut(s, n, P),
         \A p \in P : p.lo \in Int /\ p.hi \in Int,
         NEW r \in P, r.hi < n, 0 <= r.lo,
         \A p \in P : p = r \/ p.hi < r.lo \/ r.hi < p.lo,
         NEW a \in r.lo .. r.hi, NEW b \in r.lo .. r.hi, NEW t, t = Swap(s, a, b)
  PROVE  OrderedBut(t, n, P)
<1>1. r.lo \in Int /\ r.hi \in Int
  OBVIOUS
<1>2. a \in 0 .. n - 1 /\ b \in 0 .. n - 1
  BY <1>1
<1>3. /\ t[a] = s[b] /\ t[b] = s[a]
      /\ \A x \in 0 .. n - 1 : x # a /\ x # b => t[x] = s[x]
  BY <1>2, SwapFacts, Z3
<1>4. SUFFICES ASSUME NEW x \in 0 .. n - 1, NEW y \in 0 .. n - 1, x < y,
                      \A p \in P : ~(p.lo <= x /\ y <= p.hi)
               PROVE  t[x].key <= t[y].key
  BY DEF OrderedBut
<1>5. x \in Int /\ y \in Int /\ ~(r.lo <= x /\ y <= r.hi)
  BY <1>4
<1>6. ASSUME NEW u \in 0 .. n - 1, NEW v \in 0 .. n - 1, u < v,
             \A p \in P : ~(p.lo <= u /\ v <= p.hi)
      PROVE  s[u].key <= s[v].key
  BY <1>6 DEF OrderedBut
<1>7. CASE x \notin r.lo .. r.hi /\ y \notin r.lo .. r.hi
  <2>1. x # a /\ x # b /\ y # a /\ y # b
    BY <1>7
  <2>2. t[x] = s[x] /\ t[y] = s[y]
    BY <2>1, <1>3
  <2>3. s[x].key <= s[y].key
    BY <1>4, <1>6
  <2> QED BY <2>2, <2>3
<1>8. CASE x \in r.lo .. r.hi
  <2>1. y > r.hi /\ y # a /\ y # b
    BY <1>1, <1>5, <1>8
  <2>2. PICK u \in r.lo .. r.hi : t[x] = s[u]
    BY <1>2, <1>3, <1>8
  <2>3. u \in 0 .. n - 1 /\ u < y
    BY <1>1, <2>1
  <2>4. ASSUME NEW p \in P PROVE ~(p.lo <= u /\ y <= p.hi)
    <3>1. p.lo \in Int /\ p.hi \in Int
      BY <2>4
    <3>2. p = r \/ p.hi < r.lo \/ r.hi < p.lo
      BY <2>4
    <3> QED BY <3>1, <3>2, <2>1, <2>3, <1>1, <1>5
  <2>5. s[u].key <= s[y].key
    BY <1>6, <2>3, <2>4
  <2> QED BY <1>3, <2>1, <2>2, <2>5
<1>9. CASE y \in r.lo .. r.hi
  <2>1. x < r.lo /\ x # a /\ x # b
    BY <1>1, <1>5, <1>9
  <2>2. PICK v \in r.lo .. r.hi : t[y] = s[v]
    BY <1>2, <1>3, <1>9
  <2>3. v \in 0 .. n - 1 /\ x < v
    BY <1>1, <2>1
  <2>4. ASSUME NEW p \in P PROVE ~(p.lo <= x /\ v <= p.hi)
    <3>1. p.lo \in Int /\ p.hi \in Int
      BY <2>4
    <3>2. p = r \/ p.hi < r.lo \/ r.hi < p.lo
      BY <2>4
    <3> QED BY <3>1, <3>2, <2>1, <2>3, <1>1, <1>5
  <2>5. s[x].key <= s[v].key
    BY <1>6, <2>3, <2>4
  <2> QED BY <1>3, <2>1, <2>2, <2>5
<1> QED BY <1>7, <1>8, <1>9

\* Fewer ranges will do when those left out have nothing to sort.
LEMMA FewerRanges ==
  ASSUME NEW n \in Nat, NEW s, NEW P, NEW Q, OrderedBut(s, n, P),
         \A p \in P : p.lo \in Int /\ p.hi \in Int,
         \A p \in P : p \in Q \/ p.hi <= p.lo
  PROVE  OrderedBut(s, n, Q)
<1>1. SUFFICES ASSUME NEW x \in 0 .. n - 1, NEW y \in 0 .. n - 1, x < y,
                      ~(s[x].key <= s[y].key)
               PROVE  \E q \in Q : q.lo <= x /\ y <= q.hi
  BY DEF OrderedBut
<1>2. PICK p \in P : p.lo <= x /\ y <= p.hi
  BY <1>1 DEF OrderedBut
<1>3. ~(p.hi <= p.lo)
  <2>1. p.lo \in Int /\ p.hi \in Int
    BY <1>2
  <2> QED BY <2>1, <1>1, <1>2
<1> QED BY <1>2, <1>3

\* What stays the same in every step of a loop or a call.
LEMMA AwaitedFacts ==
  ASSUME SortTyped
  PROVE  /\ Len(calls) \in Nat
         /\ \A k \in 1 .. Len(calls) : /\ calls[k].lo \in Nat /\ calls[k].hi \in Nat
                                       /\ calls[k] = [lo |-> calls[k].lo, hi |-> calls[k].hi]
         /\ run.op \in {"start", "between", "insert", "split", "done"}
         /\ run.lo \in Nat /\ run.hi \in Nat /\ run.i \in Nat /\ run.j \in Nat
         /\ calls # <<>> => /\ Len(Tail(calls)) = Len(calls) - 1 /\ Len(calls) > 0
                            /\ Tail(calls) \in Seq([lo : Nat, hi : Nat]) /\ Call = calls[1]
                            /\ \A k \in 1 .. Len(calls) - 1 : Tail(calls)[k] = calls[k + 1]
<1>1. calls \in Seq([lo : Nat, hi : Nat])
  BY DEF SortTyped
<1>2. /\ Len(calls) \in Nat
      /\ \A k \in 1 .. Len(calls) : calls[k] \in [lo : Nat, hi : Nat]
  BY <1>1, ElementOfSeq, LenProperties
<1>3. calls # <<>> => /\ Len(Tail(calls)) = Len(calls) - 1 /\ Len(calls) > 0
                      /\ Tail(calls) \in Seq([lo : Nat, hi : Nat]) /\ Call = calls[1]
                      /\ \A k \in 1 .. Len(calls) - 1 : Tail(calls)[k] = calls[k + 1]
  <2>1. SUFFICES ASSUME calls # <<>> PROVE /\ Len(Tail(calls)) = Len(calls) - 1 /\ Len(calls) > 0
                      /\ Tail(calls) \in Seq([lo : Nat, hi : Nat]) /\ Call = calls[1]
                      /\ \A k \in 1 .. Len(calls) - 1 : Tail(calls)[k] = calls[k + 1]
    OBVIOUS
  <2>2. Len(calls) > 0
    BY <1>1, <2>1
  <2>3. Len(Tail(calls)) = Len(calls) - 1 /\ Tail(calls) \in Seq([lo : Nat, hi : Nat])
        /\ \A k \in 1 .. Len(calls) - 1 : Tail(calls)[k] = calls[k + 1]
    BY <1>1, <2>1, HeadTailProperties
  <2> QED BY <2>2, <2>3 DEF Call
<1>4. run.op \in {"start", "between", "insert", "split", "done"}
      /\ run.lo \in Nat /\ run.hi \in Nat /\ run.i \in Nat /\ run.j \in Nat
  BY DEF SortTyped
<1> QED BY <1>2, <1>3, <1>4

\* The next call, and the calls behind it.
LEMMA FirstTaken ==
  ASSUME NEW n \in Nat, SortTyped, RangesApart(n), calls # <<>>
  PROVE  /\ Call.lo \in Nat /\ Call.hi \in Nat /\ Call.hi < n
         /\ Call.lo <= Call.hi + 1 /\ Call = [lo |-> Call.lo, hi |-> Call.hi]
         /\ \A k \in 1 .. Len(calls) : calls[k] = Call \/ Call.hi < calls[k].lo
         /\ \A k \in 1 .. Len(Tail(calls)) :
               /\ Tail(calls)[k].lo <= Tail(calls)[k].hi + 1 /\ Tail(calls)[k].hi < n
               /\ Call.hi < Tail(calls)[k].lo
         /\ \A k, l \in 1 .. Len(Tail(calls)) :
               k < l => Tail(calls)[k].hi < Tail(calls)[l].lo
<1>1. /\ Len(calls) \in Nat /\ Len(calls) > 0 /\ Call = calls[1]
      /\ Len(Tail(calls)) = Len(calls) - 1
      /\ \A k \in 1 .. Len(calls) - 1 : Tail(calls)[k] = calls[k + 1]
      /\ \A k \in 1 .. Len(calls) : /\ calls[k].lo \in Nat /\ calls[k].hi \in Nat
                                    /\ calls[k] = [lo |-> calls[k].lo, hi |-> calls[k].hi]
  BY AwaitedFacts
<1>2. /\ \A k \in 1 .. Len(calls) : calls[k].lo <= calls[k].hi + 1 /\ calls[k].hi < n
      /\ \A k, l \in 1 .. Len(calls) : k < l => calls[k].hi < calls[l].lo
  BY DEF RangesApart
<1>3. 1 \in 1 .. Len(calls)
  BY <1>1
<1>4. \A k \in 1 .. Len(calls) : calls[k] = Call \/ Call.hi < calls[k].lo
  <2>1. \A k \in 1 .. Len(calls) : k = 1 \/ 1 < k
    BY <1>1
  <2> QED BY <1>1, <1>2, <1>3, <2>1
<1>5. ASSUME NEW k \in 1 .. Len(Tail(calls))
      PROVE  /\ Tail(calls)[k] = calls[k + 1] /\ k + 1 \in 1 .. Len(calls) /\ 1 < k + 1
             /\ Call.hi < calls[k + 1].lo
  BY <1>1, <1>2, <1>3, <1>5
<1>6. \A k, l \in 1 .. Len(Tail(calls)) : k < l => Tail(calls)[k].hi < Tail(calls)[l].lo
  <2>1. SUFFICES ASSUME NEW k \in 1 .. Len(Tail(calls)), NEW l \in 1 .. Len(Tail(calls)), k < l
                 PROVE  Tail(calls)[k].hi < Tail(calls)[l].lo
    OBVIOUS
  <2>2. k + 1 < l + 1
    BY <2>1, <1>1
  <2> QED BY <1>2, <1>5, <2>2
<1> QED BY <1>1, <1>2, <1>3, <1>4, <1>5, <1>6

\* Taking the next call takes its range from those awaited.
LEMMA AwaitedSplit ==
  ASSUME SortTyped, calls # <<>>, calls' = Tail(calls)
  PROVE  Awaited = Awaited' \cup {Call}
<1>1. /\ Len(calls) \in Nat /\ Len(calls) > 0 /\ Call = calls[1]
      /\ Len(Tail(calls)) = Len(calls) - 1
      /\ \A k \in 1 .. Len(calls) - 1 : Tail(calls)[k] = calls[k + 1]
  BY AwaitedFacts
<1>2. Awaited' = {Tail(calls)[k] : k \in 1 .. Len(Tail(calls))}
  BY DEF Awaited
<1>3. ASSUME NEW p \in Awaited PROVE p \in Awaited' \cup {Call}
  <2>1. PICK k \in 1 .. Len(calls) : p = calls[k]
    BY DEF Awaited
  <2>2. k = 1 \/ (k - 1 \in 1 .. Len(calls) - 1 /\ k = (k - 1) + 1)
    BY <1>1
  <2> QED BY <1>1, <1>2, <2>1, <2>2
<1>4. ASSUME NEW p \in Awaited' PROVE p \in Awaited
  <2>1. PICK k \in 1 .. Len(Tail(calls)) : p = Tail(calls)[k]
    BY <1>2
  <2>2. k \in 1 .. Len(calls) - 1 /\ k + 1 \in 1 .. Len(calls)
    BY <1>1
  <2> QED BY <1>1, <2>1, <2>2 DEF Awaited
<1>5. Call \in Awaited
  <2>1. 1 \in 1 .. Len(calls)
    BY <1>1
  <2> QED BY <1>1, <2>1 DEF Awaited
<1> QED BY <1>3, <1>4, <1>5

\* The ranges to be sorted are numbers, within the array and apart.
LEMMA RangeFacts ==
  ASSUME NEW n \in Nat, SortTyped, RangesApart(n), NEW p \in Running \cup Awaited
  PROVE  /\ p.lo \in Nat /\ p.hi \in Nat /\ p.lo <= p.hi + 1 /\ p.hi < n
         /\ Busy => p = [lo |-> run.lo, hi |-> run.hi] \/ run.hi < p.lo
<1>1. CASE p \in Awaited
  <2>1. PICK k \in 1 .. Len(calls) : p = calls[k]
    BY <1>1 DEF Awaited
  <2> QED BY <2>1, AwaitedFacts DEF RangesApart
<1>2. CASE p \in Running
  <2>1. Busy /\ p = [lo |-> run.lo, hi |-> run.hi]
    BY <1>2 DEF Running
  <2> QED BY <2>1, AwaitedFacts DEF RangesApart
<1> QED BY <1>1, <1>2

\* A swap within the range that a loop works on.
LEMMA SwapInLoop ==
  ASSUME NEW n \in Nat, Sorts(n), Busy, NEW a \in run.lo .. run.hi, NEW b \in run.lo .. run.hi,
         NEW t, t = Swap(arr, a, b)
  PROVE  /\ IsArray(t, n) /\ SameElements(t, given, n)
         /\ OrderedBut(t, n, Running \cup Awaited)
         /\ t[a] = arr[b] /\ t[b] = arr[a]
         /\ \A x \in 0 .. n - 1 : x # a /\ x # b => t[x] = arr[x]
<1>1. /\ SortTyped /\ RangesApart(n) /\ run.lo < run.hi /\ run.hi < n
      /\ IsArray(arr, n) /\ SameElements(arr, given, n)
      /\ OrderedBut(arr, n, Running \cup Awaited)
  BY DEF Sorts, RangesApart, Busy
<1>2. run.lo \in Nat /\ run.hi \in Nat
  BY <1>1, AwaitedFacts
<1>3. a \in 0 .. n - 1 /\ b \in 0 .. n - 1
  BY <1>1, <1>2
<1>4. /\ IsArray(t, n) /\ SameElements(t, arr, n) /\ t[a] = arr[b] /\ t[b] = arr[a]
      /\ \A x \in 0 .. n - 1 : x # a /\ x # b => t[x] = arr[x]
  BY <1>1, <1>3, SwapFacts, Z3
<1>5. SameElements(t, given, n)
  BY <1>1, <1>4 DEF SameElements
<1> DEFINE r == [lo |-> run.lo, hi |-> run.hi]
           P == Running \cup Awaited
<1>6. r \in P /\ r.lo = run.lo /\ r.hi = run.hi
  BY DEF Running
<1>7. \A p \in P : p.lo \in Int /\ p.hi \in Int /\ (p = r \/ p.hi < r.lo \/ r.hi < p.lo)
  BY <1>1, RangeFacts
<1> HIDE DEF r, P
<1>8. OrderedBut(arr, n, P)
  BY <1>1 DEF P
<1>9. 0 <= r.lo /\ r.hi < n /\ a \in r.lo .. r.hi /\ b \in r.lo .. r.hi
  BY <1>1, <1>2, <1>6
<1>10. OrderedBut(t, n, P)
  BY <1>1, <1>6, <1>7, <1>8, <1>9, SwapKeepsOrder, Z3
<1> QED BY <1>4, <1>5, <1>10 DEF P

\* A round of a loop.
LEMMA LoopRound ==
  ASSUME NEW n \in Nat, Sorts(n), Busy, NEW i \in Nat, NEW j \in Nat,
         run' = [run EXCEPT !.i = i, !.j = j], UNCHANGED <<given, calls>>,
         IsArray(arr', n), SameElements(arr', given, n),
         OrderedBut(arr', n, Running \cup Awaited), Insertion', Division'
  PROVE  Sorts(n)'
<1>1. SortTyped /\ RangesApart(n) /\ DOMAIN given = 0 .. n - 1
  BY DEF Sorts
<1>2. /\ run' \in [op : {"start", "between", "insert", "split", "done"},
                   lo : Nat, hi : Nat, i : Nat, j : Nat]
      /\ run'.op = run.op /\ run'.lo = run.lo /\ run'.hi = run.hi
  BY <1>1 DEF SortTyped
<1>3. SortTyped' /\ Busy'
  BY <1>1, <1>2 DEF SortTyped, Busy
<1>4. RangesApart(n)'
  BY <1>1, <1>2, <1>3 DEF RangesApart
<1>5. Running' = Running /\ Awaited' = Awaited
  BY <1>2, <1>3 DEF Running, Awaited
<1>6. run'.op \notin {"start", "done"}
  BY <1>3 DEF Busy
<1> QED BY <1>1, <1>3, <1>4, <1>5, <1>6 DEF Sorts

\* The element moves one place down: the one it passes is greater.
LEMMA SinkSorts ==
  ASSUME NEW n \in Nat, Sorts(n), Sink
  PROVE  Sorts(n)'
<1>1. /\ SortTyped /\ RangesApart(n) /\ Insertion /\ Division /\ run.op = "insert" /\ Busy
      /\ IsArray(arr, n)
  BY DEF Sorts, Sink, Inserting, Busy
<1> DEFINE lo == run.lo
           hi == run.hi
           i == run.i
           j == run.j
<1>2. /\ lo \in Nat /\ hi \in Nat /\ i \in Nat /\ j \in Nat
      /\ lo < hi /\ hi < n /\ lo < i /\ i <= hi /\ lo < j /\ j <= i
  BY <1>1, AwaitedFacts DEF RangesApart, Insertion, Sink, Inserting, Sinks
<1>3. /\ arr' = Swap(arr, j - 1, j) /\ run' = [run EXCEPT !.i = i, !.j = j - 1]
      /\ UNCHANGED <<given, calls>>
  BY <1>1 DEF Sink, SortTyped
<1>4. arr[j].key < arr[j - 1].key
  <2>1. arr[j].key \in Int /\ arr[j - 1].key \in Int
    BY <1>1, <1>2 DEF IsArray
  <2>2. arr[j - 1].key - arr[j].key > 0
    BY DEF Sink, Sinks, Cmp
  <2> QED BY <2>1, <2>2
<1>5. /\ IsArray(arr', n) /\ SameElements(arr', given, n)
      /\ OrderedBut(arr', n, Running \cup Awaited)
      /\ arr'[j - 1] = arr[j] /\ arr'[j] = arr[j - 1]
      /\ \A x \in 0 .. n - 1 : x # j - 1 /\ x # j => arr'[x] = arr[x]
  <2>1. j - 1 \in run.lo .. run.hi /\ j \in run.lo .. run.hi
    BY <1>2
  <2>2. arr' = Swap(arr, j - 1, j)
    BY <1>3
  <2> DEFINE a == j - 1
             t == arr'
  <2>3. a \in run.lo .. run.hi /\ j \in run.lo .. run.hi /\ t = Swap(arr, a, j)
    BY <2>1, <2>2
  <2> HIDE DEF a, j, t
  <2>4. /\ IsArray(t, n) /\ SameElements(t, given, n)
        /\ OrderedBut(t, n, Running \cup Awaited)
    BY <1>1, <2>3, SwapInLoop
  <2>5. t[a] = arr[j] /\ t[j] = arr[a]
    BY <1>1, <2>3, SwapInLoop
  <2>6. \A x \in 0 .. n - 1 : x # a /\ x # j => t[x] = arr[x]
    BY <1>1, <2>3, SwapInLoop
  <2> QED BY <2>4, <2>5, <2>6 DEF a, t
<1>6. \A x, y \in lo .. hi : x < y /\ y <= i /\ y # j => arr[x].key <= arr[y].key
  BY <1>1 DEF Insertion
<1>7. run'.op = "insert" /\ run'.lo = lo /\ run'.hi = hi /\ run'.i = i /\ run'.j = j - 1
  BY <1>1, <1>3 DEF SortTyped
<1> HIDE DEF lo, hi, i, j
<1>8. ASSUME NEW x \in lo .. hi, NEW y \in lo .. hi, x < y, y <= i, y # j - 1
      PROVE  arr'[x].key <= arr'[y].key
  <2>1. x \in 0 .. n - 1 /\ y \in 0 .. n - 1 /\ j \in lo .. hi /\ j - 1 \in lo .. hi
    BY <1>2
  <2>2. CASE y = j
    <3>1. CASE x = j - 1
      <4>1. arr[j].key \in Int /\ arr[j - 1].key \in Int
        BY <1>1, <1>2 DEF IsArray
      <4> QED BY <4>1, <1>4, <1>5, <2>2, <3>1
    <3>2. CASE x # j - 1
      <4>1. arr[x].key <= arr[j - 1].key
        BY <1>2, <1>6, <1>8, <2>1, <2>2, <3>2
      <4> QED BY <4>1, <1>2, <1>5, <1>8, <2>1, <2>2, <3>2
    <3> QED BY <3>1, <3>2
  <2>3. CASE y # j
    <3>1. arr'[y] = arr[y]
      BY <1>5, <1>8, <2>1, <2>3
    <3>2. CASE x = j - 1
      <4>1. j < y
        BY <1>2, <1>8, <2>3, <3>2
      <4>2. arr[j].key <= arr[y].key
        BY <1>6, <1>8, <2>1, <2>3, <4>1
      <4> QED BY <4>2, <1>5, <3>1, <3>2
    <3>3. CASE x = j
      <4>1. arr[j - 1].key <= arr[y].key
        BY <1>2, <1>6, <1>8, <2>1, <2>3, <3>3
      <4> QED BY <4>1, <1>5, <3>1, <3>3
    <3>4. CASE x # j /\ x # j - 1
      <4>1. arr[x].key <= arr[y].key
        BY <1>6, <1>8, <2>3
      <4> QED BY <4>1, <1>5, <2>1, <3>1, <3>4
    <3> QED BY <3>2, <3>3, <3>4
  <2> QED BY <2>2, <2>3
<1>9. Insertion'
  BY <1>2, <1>7, <1>8 DEF Insertion
<1>10. Division'
  BY <1>7 DEF Division
<1>11. i \in Nat /\ j - 1 \in Nat
  BY <1>2
<1> QED BY <1>1, <1>3, <1>5, <1>9, <1>10, <1>11, LoopRound

\* The element has arrived: nothing before it is greater.
LEMMA InsertNextSorts ==
  ASSUME NEW n \in Nat, Sorts(n), InsertNext
  PROVE  Sorts(n)'
<1>1. /\ SortTyped /\ RangesApart(n) /\ Insertion /\ run.op = "insert" /\ Busy
      /\ IsArray(arr, n) /\ SameElements(arr, given, n)
      /\ OrderedBut(arr, n, Running \cup Awaited)
  BY DEF Sorts, InsertNext, Inserting, Busy
<1> DEFINE lo == run.lo
           hi == run.hi
           i == run.i
           j == run.j
<1>2. /\ lo \in Nat /\ hi \in Nat /\ i \in Nat /\ j \in Nat
      /\ lo < hi /\ hi < n /\ lo < i /\ i <= hi /\ lo <= j /\ j <= i
  BY <1>1, AwaitedFacts DEF RangesApart, Insertion, InsertNext, Inserting
<1>3. /\ arr' = arr /\ run' = [run EXCEPT !.i = i + 1, !.j = i + 1]
      /\ UNCHANGED <<given, calls>>
  BY DEF InsertNext
<1>4. \A x, y \in lo .. hi : x < y /\ y <= i /\ y # j => arr[x].key <= arr[y].key
  BY <1>1 DEF Insertion
<1>5. \A x \in lo .. hi : arr[x].key \in Int
  BY <1>1, <1>2 DEF IsArray
<1>6. j = lo \/ arr[j - 1].key <= arr[j].key
  <2>1. j > lo => ~(arr[j - 1].key - arr[j].key > 0)
    BY DEF InsertNext, Sinks, Cmp
  <2>2. CASE j > lo
    <3>1. arr[j - 1].key \in Int /\ arr[j].key \in Int
      BY <1>2, <1>5, <2>2
    <3> QED BY <2>1, <2>2, <3>1
  <2> QED BY <1>2, <2>2
<1>7. run'.op = "insert" /\ run'.lo = lo /\ run'.hi = hi /\ run'.i = i + 1 /\ run'.j = i + 1
  BY <1>1, <1>3 DEF SortTyped
<1> HIDE DEF lo, hi, i, j
<1>8. ASSUME NEW x \in lo .. hi, NEW y \in lo .. hi, x < y, y <= i + 1, y # i + 1
      PROVE  arr[x].key <= arr[y].key
  <2>1. y <= i
    BY <1>2, <1>8
  <2>2. CASE y # j
    BY <1>4, <1>8, <2>1, <2>2
  <2>3. CASE y = j /\ x = j - 1
    BY <1>2, <1>6, <1>8, <2>3
  <2>4. CASE y = j /\ x # j - 1
    <3>1. j - 1 \in lo .. hi /\ x < j - 1 /\ j - 1 <= i /\ j - 1 # j
      BY <1>2, <1>8, <2>4
    <3>2. arr[x].key <= arr[j - 1].key
      BY <1>4, <3>1
    <3>3. arr[j - 1].key <= arr[j].key
      BY <1>2, <1>6, <1>8, <2>4
    <3>4. arr[x].key \in Int /\ arr[j - 1].key \in Int /\ arr[j].key \in Int
      BY <1>5, <1>8, <2>4, <3>1
    <3> QED BY <2>4, <3>2, <3>3, <3>4
  <2> QED BY <2>2, <2>3, <2>4
<1>9. Insertion'
  BY <1>2, <1>3, <1>7, <1>8 DEF Insertion
<1>10. Division'
  BY <1>7 DEF Division
<1>11. i + 1 \in Nat
  BY <1>2
<1>12. IsArray(arr', n) /\ SameElements(arr', given, n) /\ OrderedBut(arr', n, Running \cup Awaited)
  BY <1>1, <1>3
<1> QED BY <1>1, <1>3, <1>9, <1>10, <1>11, <1>12, LoopRound

\* What is less than the pivot changes places with the first that is not.
LEMMA MoveToFrontSorts ==
  ASSUME NEW n \in Nat, Sorts(n), MoveToFront
  PROVE  Sorts(n)'
<1>1. /\ SortTyped /\ RangesApart(n) /\ Division /\ run.op = "split" /\ Busy
      /\ IsArray(arr, n)
  BY DEF Sorts, MoveToFront, Splitting, Busy
<1> DEFINE lo == run.lo
           hi == run.hi
           i == run.i
           j == run.j
<1>2. /\ lo \in Nat /\ hi \in Nat /\ i \in Nat /\ j \in Nat
      /\ lo < hi /\ hi < n /\ lo <= j /\ j <= i /\ i < hi
  BY <1>1, AwaitedFacts DEF RangesApart, Division, MoveToFront, Splitting
<1>3. /\ arr' = Swap(arr, i, j) /\ run' = [run EXCEPT !.i = i + 1, !.j = j + 1]
      /\ UNCHANGED <<given, calls>>
  BY DEF MoveToFront
<1>4. \A x \in lo .. hi : arr[x].key \in Int
  BY <1>1, <1>2 DEF IsArray
<1>5. arr[i].key < arr[hi].key
  <2>1. arr[i].key - arr[hi].key < 0
    BY DEF MoveToFront, IsLess, Cmp
  <2>2. arr[i].key \in Int /\ arr[hi].key \in Int
    BY <1>2, <1>4
  <2> QED BY <2>1, <2>2
<1>6. /\ \A x \in lo .. j - 1 : arr[x].key < arr[hi].key
      /\ \A x \in j .. i - 1 : arr[hi].key <= arr[x].key
  BY <1>1 DEF Division
<1>7. run'.op = "split" /\ run'.lo = lo /\ run'.hi = hi /\ run'.i = i + 1 /\ run'.j = j + 1
  BY <1>1, <1>3 DEF SortTyped
<1> DEFINE t == arr'
<1>8. i \in run.lo .. run.hi /\ j \in run.lo .. run.hi /\ t = Swap(arr, i, j)
  BY <1>2, <1>3
<1> HIDE DEF i, j, t
<1>9. /\ IsArray(t, n) /\ SameElements(t, given, n)
      /\ OrderedBut(t, n, Running \cup Awaited)
      /\ t[i] = arr[j] /\ t[j] = arr[i]
      /\ \A x \in 0 .. n - 1 : x # i /\ x # j => t[x] = arr[x]
  <2>1. /\ IsArray(t, n) /\ SameElements(t, given, n)
        /\ OrderedBut(t, n, Running \cup Awaited)
    BY <1>1, <1>8, SwapInLoop
  <2>2. t[i] = arr[j] /\ t[j] = arr[i]
    BY <1>1, <1>8, SwapInLoop
  <2>3. \A x \in 0 .. n - 1 : x # i /\ x # j => t[x] = arr[x]
    BY <1>1, <1>8, SwapInLoop
  <2> QED BY <2>1, <2>2, <2>3
<1> HIDE DEF lo, hi
<1>10. t[hi] = arr[hi]
  BY <1>2, <1>9
<1>11. ASSUME NEW x \in lo .. j PROVE t[x].key < t[hi].key
  <2>1. CASE x = j
    BY <1>5, <1>9, <1>10, <2>1
  <2>2. CASE x # j
    <3>1. x \in lo .. j - 1 /\ x # i /\ x \in 0 .. n - 1
      BY <1>2, <1>11, <2>2
    <3> QED BY <1>6, <1>9, <1>10, <2>2, <3>1
  <2> QED BY <2>1, <2>2
<1>12. ASSUME NEW x \in j + 1 .. i PROVE t[hi].key <= t[x].key
  <2>1. CASE x = i
    <3>1. j \in j .. i - 1
      BY <1>2, <1>12, <2>1
    <3> QED BY <1>6, <1>9, <1>10, <2>1, <3>1
  <2>2. CASE x # i
    <3>1. x \in j .. i - 1 /\ x # j /\ x \in 0 .. n - 1
      BY <1>2, <1>12, <2>2
    <3> QED BY <1>6, <1>9, <1>10, <2>2, <3>1
  <2> QED BY <2>1, <2>2
<1>13. Division'
  <2>1. j + 1 - 1 = j /\ i + 1 - 1 = i /\ lo <= j + 1 /\ j + 1 <= i + 1 /\ i + 1 <= hi
    BY <1>2
  <2>2. lo <= run'.j /\ run'.j <= run'.i /\ run'.i <= run'.hi /\ run'.lo = lo
    BY <1>7, <2>1
  <2>3. \A x \in run'.lo .. run'.j - 1 : arr'[x].key < arr'[run'.hi].key
    <3>1. run'.lo .. run'.j - 1 = lo .. j
      BY <1>2, <1>7, <2>1
    <3> QED BY <1>7, <1>11, <3>1 DEF t
  <2>4. \A x \in run'.j .. run'.i - 1 : arr'[run'.hi].key <= arr'[x].key
    <3>1. run'.j .. run'.i - 1 = j + 1 .. i
      BY <1>2, <1>7, <2>1
    <3> QED BY <1>7, <1>12, <3>1 DEF t
  <2> QED BY <2>2, <2>3, <2>4 DEF Division
<1>14. Insertion'
  BY <1>7 DEF Insertion
<1>15. i + 1 \in Nat /\ j + 1 \in Nat
  BY <1>2
<1> QED BY <1>1, <1>3, <1>9, <1>13, <1>14, <1>15, LoopRound DEF t

\* What is not less than the pivot stays where it is.
LEMMA LeaveBehindSorts ==
  ASSUME NEW n \in Nat, Sorts(n), LeaveBehind
  PROVE  Sorts(n)'
<1>1. /\ SortTyped /\ RangesApart(n) /\ Division /\ run.op = "split" /\ Busy
      /\ IsArray(arr, n) /\ SameElements(arr, given, n)
      /\ OrderedBut(arr, n, Running \cup Awaited)
  BY DEF Sorts, LeaveBehind, Splitting, Busy
<1> DEFINE lo == run.lo
           hi == run.hi
           i == run.i
           j == run.j
<1>2. /\ lo \in Nat /\ hi \in Nat /\ i \in Nat /\ j \in Nat
      /\ lo < hi /\ hi < n /\ lo <= j /\ j <= i /\ i < hi
  BY <1>1, AwaitedFacts DEF RangesApart, Division, LeaveBehind, Splitting
<1>3. /\ arr' = arr /\ run' = [run EXCEPT !.i = i + 1, !.j = j]
      /\ UNCHANGED <<given, calls>>
  BY <1>1 DEF LeaveBehind, SortTyped
<1>4. arr[hi].key <= arr[i].key
  <2>1. ~(arr[i].key - arr[hi].key < 0)
    BY DEF LeaveBehind, IsLess, Cmp
  <2>2. arr[i].key \in Int /\ arr[hi].key \in Int
    BY <1>1, <1>2 DEF IsArray
  <2> QED BY <2>1, <2>2
<1>5. /\ \A x \in lo .. j - 1 : arr[x].key < arr[hi].key
      /\ \A x \in j .. i - 1 : arr[hi].key <= arr[x].key
  BY <1>1 DEF Division
<1>6. run'.op = "split" /\ run'.lo = lo /\ run'.hi = hi /\ run'.i = i + 1 /\ run'.j = j
  BY <1>1, <1>3 DEF SortTyped
<1> HIDE DEF lo, hi, i, j
<1>7. ASSUME NEW x \in j .. i PROVE arr[hi].key <= arr[x].key
  <2>1. CASE x = i
    BY <1>4, <2>1
  <2>2. CASE x # i
    BY <1>2, <1>5, <1>7, <2>2
  <2> QED BY <2>1, <2>2
<1>8. Division'
  <2>1. i + 1 - 1 = i /\ j <= i + 1 /\ i + 1 <= hi
    BY <1>2
  <2> QED BY <1>2, <1>3, <1>5, <1>6, <1>7, <2>1 DEF Division
<1>9. Insertion'
  BY <1>6 DEF Insertion
<1>10. i + 1 \in Nat
  BY <1>2
<1>11. IsArray(arr', n) /\ SameElements(arr', given, n) /\ OrderedBut(arr', n, Running \cup Awaited)
  BY <1>1, <1>3
<1> QED BY <1>1, <1>2, <1>3, <1>8, <1>9, <1>10, <1>11, LoopRound

\* All of the range is in order.
LEMMA InsertedSorts ==
  ASSUME NEW n \in Nat, Sorts(n), Inserted
  PROVE  Sorts(n)'
<1>1. /\ SortTyped /\ RangesApart(n) /\ Insertion /\ run.op = "insert" /\ Busy
      /\ IsArray(arr, n) /\ SameElements(arr, given, n) /\ DOMAIN given = 0 .. n - 1
      /\ OrderedBut(arr, n, Running \cup Awaited)
  BY DEF Sorts, Inserted, Busy
<1> DEFINE lo == run.lo
           hi == run.hi
<1>2. /\ lo \in Nat /\ hi \in Nat /\ lo < hi /\ hi < n /\ run.i = hi + 1 /\ run.j = hi + 1
  BY <1>1, AwaitedFacts DEF RangesApart, Insertion, Inserted
<1>3. /\ arr' = arr /\ run' = [run EXCEPT !.op = "between"] /\ UNCHANGED <<given, calls>>
  BY DEF Inserted, Go
<1>4. run'.op = "between" /\ ~Busy' /\ Running' = {} /\ Awaited' = Awaited
  BY <1>1, <1>3 DEF SortTyped, Busy, Running, Awaited
<1>5. SortTyped' /\ RangesApart(n)' /\ Insertion' /\ Division'
  BY <1>1, <1>3, <1>4 DEF SortTyped, RangesApart, Insertion, Division
<1>6. ASSUME NEW x \in lo .. hi, NEW y \in lo .. hi, x < y PROVE arr[x].key <= arr[y].key
  <2>1. y <= run.i /\ y # run.j
    BY <1>2
  <2> QED BY <1>1, <1>6, <2>1 DEF Insertion
<1>7. OrderedBut(arr, n, Awaited)
  <2>1. SUFFICES ASSUME NEW x \in 0 .. n - 1, NEW y \in 0 .. n - 1, x < y,
                        ~(arr[x].key <= arr[y].key)
                 PROVE  \E q \in Awaited : q.lo <= x /\ y <= q.hi
    BY DEF OrderedBut
  <2>2. PICK p \in Running \cup Awaited : p.lo <= x /\ y <= p.hi
    BY <1>1, <2>1 DEF OrderedBut
  <2>3. p \notin Running
    <3>1. SUFFICES ASSUME p = [lo |-> lo, hi |-> hi] PROVE FALSE
      BY DEF Running
    <3>2. lo <= x /\ y <= hi
      BY <2>2, <3>1
    <3>3. x \in lo .. hi /\ y \in lo .. hi
      BY <1>2, <2>1, <3>2
    <3> QED BY <1>6, <2>1, <3>3
  <2> QED BY <2>2, <2>3
<1> QED BY <1>1, <1>3, <1>4, <1>5, <1>7 DEF Sorts

\* A range of one element, or of none, is sorted.
LEMMA NothingToSortSorts ==
  ASSUME NEW n \in Nat, Sorts(n), NothingToSort
  PROVE  Sorts(n)'
<1>1. /\ SortTyped /\ RangesApart(n) /\ run.op = "between" /\ ~Busy
      /\ IsArray(arr, n) /\ SameElements(arr, given, n) /\ DOMAIN given = 0 .. n - 1
      /\ OrderedBut(arr, n, Running \cup Awaited)
  BY DEF Sorts, NothingToSort, Called, Between, Busy
<1>2. /\ calls # <<>> /\ calls' = Tail(calls) /\ Call.hi <= Call.lo
      /\ UNCHANGED <<given, arr, run>>
  BY DEF NothingToSort, Called
<1>3. Awaited = Awaited' \cup {Call} /\ Running = {} /\ Running' = {} /\ ~Busy'
  BY <1>1, <1>2, AwaitedSplit DEF Running, Busy
<1>4. SortTyped' /\ RangesApart(n)' /\ Insertion' /\ Division'
  <2>1. SortTyped'
    BY <1>1, <1>2, AwaitedFacts DEF SortTyped
  <2>2. RangesApart(n)'
    BY <1>1, <1>2, <1>3, FirstTaken DEF RangesApart
  <2> QED BY <1>1, <1>2, <2>1, <2>2 DEF Insertion, Division
<1>5. OrderedBut(arr, n, Awaited')
  <2> DEFINE P == Running \cup Awaited
  <2>1. \A p \in P : p.lo \in Int /\ p.hi \in Int
    BY <1>1, RangeFacts
  <2>2. \A p \in P : p \in Awaited' \/ p.hi <= p.lo
    BY <1>2, <1>3
  <2>3. OrderedBut(arr, n, P)
    BY <1>1
  <2> HIDE DEF P
  <2> QED BY <2>1, <2>2, <2>3, FewerRanges
<1> QED BY <1>1, <1>2, <1>3, <1>4, <1>5 DEF Sorts

\* A range of one element is in order to begin with.
LEMMA StartInsertionSorts ==
  ASSUME NEW n \in Nat, Sorts(n), StartInsertion
  PROVE  Sorts(n)'
<1>1. /\ SortTyped /\ RangesApart(n) /\ run.op = "between" /\ ~Busy
      /\ IsArray(arr, n) /\ SameElements(arr, given, n) /\ DOMAIN given = 0 .. n - 1
      /\ OrderedBut(arr, n, Running \cup Awaited)
  BY DEF Sorts, StartInsertion, Called, Between, Busy
<1>2. /\ calls # <<>> /\ calls' = Tail(calls) /\ Call.lo < Call.hi
      /\ run' = [op |-> "insert", lo |-> Call.lo, hi |-> Call.hi,
                 i |-> Call.lo + 1, j |-> Call.lo + 1]
      /\ UNCHANGED <<given, arr>>
  BY DEF StartInsertion, Called
<1>3. Call.lo \in Nat /\ Call.hi \in Nat /\ Call.hi < n /\ Call = [lo |-> Call.lo, hi |-> Call.hi]
  BY <1>1, <1>2, FirstTaken
<1>4. Awaited = Awaited' \cup {Call} /\ Running = {} /\ Running' = {Call} /\ Busy'
  <2>1. Busy' /\ run'.lo = Call.lo /\ run'.hi = Call.hi
    BY <1>2 DEF Busy
  <2> QED BY <1>1, <1>2, <1>3, <2>1, AwaitedSplit DEF Running
<1>5. Running' \cup Awaited' = Running \cup Awaited
  BY <1>4
<1>6. SortTyped'
  BY <1>1, <1>2, <1>3, AwaitedFacts DEF SortTyped
<1>7. RangesApart(n)'
  BY <1>1, <1>2, <1>3, FirstTaken DEF RangesApart
<1>8. Division'
  BY <1>2 DEF Division
<1>9. Insertion'
  <2>1. run'.lo = Call.lo /\ run'.hi = Call.hi /\ run'.i = Call.lo + 1 /\ run'.j = Call.lo + 1
    BY <1>2
  <2>2. ASSUME NEW x \in Call.lo .. Call.hi, NEW y \in Call.lo .. Call.hi, x < y,
               y <= Call.lo + 1, y # Call.lo + 1
        PROVE  FALSE
    BY <1>3, <2>2
  <2> QED BY <1>2, <1>3, <2>1, <2>2 DEF Insertion
<1>10. run'.op \notin {"start", "done"}
  BY <1>2
<1> QED BY <1>1, <1>2, <1>5, <1>6, <1>7, <1>8, <1>9, <1>10 DEF Sorts

\* The pivot stays within the range.
LEMMA StartPartitionSorts ==
  ASSUME NEW n \in Nat, Sorts(n), StartPartition
  PROVE  Sorts(n)'
<1>1. /\ SortTyped /\ RangesApart(n) /\ run.op = "between" /\ ~Busy
      /\ IsArray(arr, n) /\ SameElements(arr, given, n) /\ DOMAIN given = 0 .. n - 1
      /\ OrderedBut(arr, n, Running \cup Awaited)
  BY DEF Sorts, StartPartition, Called, Between, Busy
<1> DEFINE mid == Call.lo + (Call.hi - Call.lo) \div 2
           hi == Call.hi
           t == arr'
<1>2. /\ calls # <<>> /\ calls' = Tail(calls) /\ Call.lo < Call.hi
      /\ run' = [op |-> "split", lo |-> Call.lo, hi |-> Call.hi,
                 i |-> Call.lo, j |-> Call.lo]
      /\ t = Swap(arr, mid, hi) /\ UNCHANGED given
  BY DEF StartPartition, Called
<1>3. Call.lo \in Nat /\ Call.hi \in Nat /\ Call.hi < n /\ Call = [lo |-> Call.lo, hi |-> Call.hi]
  BY <1>1, <1>2, FirstTaken
<1>4. mid \in Call.lo .. Call.hi /\ hi \in Call.lo .. Call.hi
  BY <1>2, <1>3
<1>5. Awaited = Awaited' \cup {Call} /\ Running = {} /\ Running' = {Call} /\ Busy'
  <2>1. Busy' /\ run'.lo = Call.lo /\ run'.hi = Call.hi
    BY <1>2 DEF Busy
  <2> QED BY <1>1, <1>2, <1>3, <2>1, AwaitedSplit DEF Running
<1>6. SortTyped'
  BY <1>1, <1>2, <1>3, AwaitedFacts DEF SortTyped
<1>7. RangesApart(n)'
  BY <1>1, <1>2, <1>3, FirstTaken DEF RangesApart
<1>8. Insertion'
  BY <1>2 DEF Insertion
<1>9. Division'
  <2>1. run'.lo = Call.lo /\ run'.hi = Call.hi /\ run'.i = Call.lo /\ run'.j = Call.lo
    BY <1>2
  <2>2. \A x \in Call.lo .. Call.lo - 1 : FALSE
    BY <1>3
  <2> QED BY <1>2, <1>3, <2>1, <2>2 DEF Division
<1>10. run'.op \notin {"start", "done"}
  BY <1>2
<1> DEFINE P == Running \cup Awaited
           c == Call
<1>11. c \in P /\ 0 <= c.lo /\ c.hi < n
  BY <1>3, <1>5
<1>12. \A p \in P : p.lo \in Int /\ p.hi \in Int /\ (p = c \/ c.hi < p.lo)
  <2>1. SUFFICES ASSUME NEW p \in P PROVE p.lo \in Int /\ p.hi \in Int /\ (p = c \/ c.hi < p.lo)
    OBVIOUS
  <2>2. p.lo \in Int /\ p.hi \in Int
    BY <1>1, RangeFacts
  <2>3. PICK k \in 1 .. Len(calls) : p = calls[k]
    BY <1>5 DEF Awaited
  <2> QED BY <1>1, <1>2, <2>2, <2>3, FirstTaken
<1>13. IsArray(t, n) /\ SameElements(t, arr, n)
  <2>1. mid \in 0 .. n - 1 /\ hi \in 0 .. n - 1
    BY <1>3, <1>4
  <2> HIDE DEF mid, hi, t
  <2> QED BY <1>1, <1>2, <2>1, SwapFacts, Z3
<1>14. OrderedBut(t, n, P)
  <2>1. OrderedBut(arr, n, P)
    BY <1>1
  <2>2. mid \in c.lo .. c.hi /\ hi \in c.lo .. c.hi /\ t = Swap(arr, mid, hi)
    BY <1>2, <1>4
  <2> HIDE DEF mid, hi, t, P, c
  <2> QED BY <1>1, <1>11, <1>12, <2>1, <2>2, SwapKeepsOrder, Z3
<1>15. SameElements(t, given, n)
  BY <1>1, <1>13 DEF SameElements
<1>16. Running' \cup Awaited' = P
  BY <1>5
<1> QED BY <1>1, <1>2, <1>6, <1>7, <1>8, <1>9, <1>10, <1>13, <1>14, <1>15, <1>16 DEF Sorts

\* Two sequences of one element make one of two.
LEMMA TwoInARow ==
  ASSUME NEW S, NEW a \in S, NEW b \in S
  PROVE  <<a>> \o <<b>> = <<a, b>>
<1> DEFINE s == <<a>> \o <<b>>
           t == <<a, b>>
<1>1. <<a>> \in Seq(S) /\ <<b>> \in Seq(S)
  OBVIOUS
<1>2. t \in Seq(S) /\ Len(t) = 2 /\ t[1] = a /\ t[2] = b
  OBVIOUS
<1>3. s \in Seq(S) /\ Len(s) = 2 /\ s[1] = a /\ s[2] = b
  BY <1>1, ConcatProperties
<1> HIDE DEF s, t
<1>4. \A k \in 1 .. Len(s) : s[k] = t[k]
  BY <1>2, <1>3
<1>5. s = t
  BY <1>2, <1>3, <1>4, SeqEqual
<1> QED BY <1>5 DEF s, t

\* The pivot comes to where the ranges before and behind it meet.
LEMMA PartitionedSorts ==
  ASSUME NEW n \in Nat, Sorts(n), Partitioned
  PROVE  Sorts(n)'
<1>1. /\ SortTyped /\ RangesApart(n) /\ Division /\ run.op = "split" /\ Busy
      /\ IsArray(arr, n) /\ DOMAIN given = 0 .. n - 1
  BY DEF Sorts, Partitioned, Busy
<1> DEFINE lo == run.lo
           hi == run.hi
           j == run.j
           t == arr'
           left == [lo |-> lo, hi |-> j - 1]
           right == [lo |-> j + 1, hi |-> hi]
<1>2. /\ lo \in Nat /\ hi \in Nat /\ j \in Nat /\ lo < hi /\ hi < n
      /\ lo <= j /\ j <= hi /\ run.i = hi
  BY <1>1, AwaitedFacts DEF RangesApart, Division, Partitioned
<1>3. /\ t = Swap(arr, j, hi) /\ run' = [run EXCEPT !.op = "between"]
      /\ calls' = Halves \o calls /\ UNCHANGED given
  BY DEF Partitioned, PivotIsPlaced, Go
<1>4. Halves = IF j > lo THEN <<left, right>> ELSE <<right>>
  <2>1. CASE j > lo
    <3>1. j # 0
      BY <1>2, <2>1
    <3>2. OneLess(run.j) = j - 1
      BY <3>1 DEF OneLess
    <3>3. Halves = <<left>> \o <<right>>
      BY <2>1, <3>2 DEF Halves
    <3>4. Halves = <<left, right>>
      <4> DEFINE S == {left, right}
      <4>1. left \in S /\ right \in S
        OBVIOUS
      <4> HIDE DEF left, right, S
      <4> QED BY <3>3, <4>1, TwoInARow
    <3> QED BY <2>1, <3>4
  <2>2. CASE ~(j > lo)
    <3>1. Halves = <<>> \o <<right>>
      BY <2>2 DEF Halves
    <3>2. Halves = <<right>>
      <4> HIDE DEF right
      <4> QED BY <3>1
    <3> QED BY <2>2, <3>2
  <2> QED BY <2>1, <2>2
<1>5. IsArray(t, n) /\ SameElements(t, given, n) /\ OrderedBut(t, n, Running \cup Awaited)
  <2>1. j \in run.lo .. run.hi /\ hi \in run.lo .. run.hi
    BY <1>2
  <2> HIDE DEF j, hi, t
  <2> QED BY <1>1, <1>3, <2>1, SwapInLoop
<1>6. t[j] = arr[hi] /\ t[hi] = arr[j]
  <2>1. j \in run.lo .. run.hi /\ hi \in run.lo .. run.hi
    BY <1>2
  <2> HIDE DEF j, hi, t
  <2> QED BY <1>1, <1>3, <2>1, SwapInLoop
<1>7. \A x \in 0 .. n - 1 : x # j /\ x # hi => t[x] = arr[x]
  <2>1. j \in run.lo .. run.hi /\ hi \in run.lo .. run.hi
    BY <1>2
  <2> HIDE DEF j, hi, t
  <2> QED BY <1>1, <1>3, <2>1, SwapInLoop
<1>8. /\ \A x \in lo .. j - 1 : arr[x].key < arr[hi].key
      /\ \A x \in j .. hi - 1 : arr[hi].key <= arr[x].key
  BY <1>1, <1>2 DEF Division
<1>9. run'.op = "between" /\ ~Busy' /\ Running' = {}
  BY <1>1, <1>3 DEF SortTyped, Busy, Running
<1>10. /\ Len(calls) \in Nat
       /\ \A k \in 1 .. Len(calls) : /\ calls[k].lo <= calls[k].hi + 1 /\ calls[k].hi < n
                                     /\ hi < calls[k].lo /\ calls[k] \in [lo : Nat, hi : Nat]
       /\ \A k, l \in 1 .. Len(calls) : k < l => calls[k].hi < calls[l].lo
  <2>1. /\ Len(calls) \in Nat
        /\ \A k \in 1 .. Len(calls) : calls[k] \in [lo : Nat, hi : Nat]
    BY <1>1, ElementOfSeq, LenProperties DEF SortTyped
  <2> QED BY <1>1, <2>1 DEF RangesApart
<1>11. SortTyped'
  <2>1. right \in [lo : Nat, hi : Nat] /\ (j > lo => left \in [lo : Nat, hi : Nat])
    BY <1>2
  <2>2. Halves \in Seq([lo : Nat, hi : Nat])
    <3> DEFINE R == [lo : Nat, hi : Nat]
    <3>1. right \in R /\ (j > lo => left \in R)
      BY <2>1
    <3> HIDE DEF left, right, R
    <3>2. <<right>> \in Seq(R) /\ (j > lo => <<left, right>> \in Seq(R))
      BY <3>1
    <3>3. Halves \in Seq(R)
      BY <1>4, <3>2
    <3> QED BY <3>3 DEF R
  <2>3. calls' \in Seq([lo : Nat, hi : Nat])
    <3>1. calls \in Seq([lo : Nat, hi : Nat])
      BY <1>1 DEF SortTyped
    <3> QED BY <1>3, <2>2, <3>1, ConcatProperties
  <2> QED BY <1>1, <1>3, <2>3 DEF SortTyped
<1> DEFINE h == Len(Halves)
<1>12. /\ h \in Nat /\ Len(calls') = h + Len(calls)
       /\ \A k \in 1 .. Len(calls') : calls'[k] = IF k <= h THEN Halves[k] ELSE calls[k - h]
       /\ h = (IF j > lo THEN 2 ELSE 1)
       /\ Halves[h] = right /\ (j > lo => Halves[1] = left)
  <2>1. calls \in Seq([lo : Nat, hi : Nat])
    BY <1>1 DEF SortTyped
  <2>2. right \in [lo : Nat, hi : Nat] /\ (j > lo => left \in [lo : Nat, hi : Nat])
    BY <1>2
  <2>3. Halves \in Seq([lo : Nat, hi : Nat])
    <3> DEFINE R == [lo : Nat, hi : Nat]
    <3>1. right \in R /\ (j > lo => left \in R)
      BY <2>2
    <3> HIDE DEF left, right, R
    <3>2. <<right>> \in Seq(R) /\ (j > lo => <<left, right>> \in Seq(R))
      BY <3>1
    <3>3. Halves \in Seq(R)
      BY <1>4, <3>2
    <3> QED BY <3>3 DEF R
  <2>4. h \in Nat
    BY <2>3, LenProperties
  <2>5. /\ Len(calls') = h + Len(calls)
        /\ \A k \in 1 .. Len(calls') : calls'[k] = IF k <= h THEN Halves[k] ELSE calls[k - h]
    BY <1>3, <2>1, <2>3, ConcatProperties
  <2>6. /\ h = (IF j > lo THEN 2 ELSE 1)
        /\ Halves[h] = right /\ (j > lo => Halves[1] = left)
    <3> HIDE DEF left, right
    <3> QED BY <1>4
  <2> QED BY <2>4, <2>5, <2>6
<1>13. \A k \in 1 .. h : \/ k = h /\ Halves[k] = right
                         \/ j > lo /\ k = 1 /\ h = 2 /\ Halves[k] = left
  <2> HIDE DEF left, right
  <2> QED BY <1>12
<1>14. RangesApart(n)'
  <2>1. ASSUME NEW k \in 1 .. h
        PROVE  Halves[k].lo <= Halves[k].hi + 1 /\ Halves[k].hi < n /\ Halves[k].hi <= hi
    BY <1>2, <1>13
  <2>2. ASSUME NEW k \in 1 .. Len(calls'), k > h
        PROVE  k - h \in 1 .. Len(calls) /\ calls'[k] = calls[k - h]
    BY <1>10, <1>12, <2>2
  <2>3. ASSUME NEW k \in 1 .. Len(calls')
        PROVE  calls'[k].lo <= calls'[k].hi + 1 /\ calls'[k].hi < n
    <3>1. CASE k <= h
      <4>1. k \in 1 .. h /\ calls'[k] = Halves[k]
        BY <1>12, <2>3, <3>1
      <4> QED BY <2>1, <4>1
    <3>2. CASE k > h
      BY <1>10, <2>2, <3>2
    <3> QED BY <1>12, <3>1, <3>2
  <2>4. ASSUME NEW k \in 1 .. Len(calls'), NEW l \in 1 .. Len(calls'), k < l
        PROVE  calls'[k].hi < calls'[l].lo
    <3>1. CASE l <= h
      <4>1. k = 1 /\ l = 2 /\ h = 2 /\ j > lo
        BY <1>12, <2>4, <3>1
      <4>2. calls'[k] = left /\ calls'[l] = right
        <5> HIDE DEF left, right
        <5> QED BY <1>12, <4>1
      <4> QED BY <1>2, <4>2
    <3>2. CASE k <= h /\ l > h
      <4>1. k \in 1 .. h /\ calls'[k] = Halves[k]
        BY <1>12, <2>4, <3>2
      <4>2. calls'[k].hi <= hi
        BY <2>1, <4>1
      <4>3. calls'[k].hi \in Int
        BY <1>2, <1>13, <4>1
      <4>4. hi < calls'[l].lo /\ calls'[l].lo \in Nat
        BY <1>10, <2>2, <3>2
      <4> QED BY <1>2, <4>2, <4>3, <4>4
    <3>3. CASE k > h
      <4>1. l > h /\ k - h < l - h
        BY <1>12, <2>4, <3>3
      <4> QED BY <1>10, <2>2, <3>3, <4>1
    <3> QED BY <1>12, <3>1, <3>2, <3>3
  <2> QED BY <1>9, <2>3, <2>4 DEF RangesApart
<1>15. /\ Awaited \subseteq Awaited' /\ right \in Awaited'
       /\ (j > lo => left \in Awaited')
  <2> HIDE DEF left, right, h
  <2>1. Awaited' = {calls'[k] : k \in 1 .. Len(calls')}
    BY DEF Awaited
  <2>2. ASSUME NEW p \in Awaited PROVE p \in Awaited'
    <3>1. PICK k \in 1 .. Len(calls) : p = calls[k]
      BY DEF Awaited
    <3>2. k + h \in 1 .. Len(calls') /\ ~(k + h <= h) /\ (k + h) - h = k
      BY <1>10, <1>12
    <3> QED BY <1>12, <2>1, <3>1, <3>2
  <2>3. right \in Awaited'
    <3>1. h \in 1 .. Len(calls')
      BY <1>10, <1>12
    <3> QED BY <1>12, <2>1, <3>1
  <2>4. ASSUME j > lo PROVE left \in Awaited'
    <3>1. 1 \in 1 .. Len(calls') /\ 1 <= h
      BY <1>10, <1>12, <2>4
    <3> QED BY <1>12, <2>1, <2>4, <3>1
  <2> QED BY <2>2, <2>3, <2>4
<1>16. \A x \in lo .. hi : arr[x].key \in Int
  BY <1>1, <1>2 DEF IsArray
<1>17. /\ \A x \in lo .. j - 1 : t[x].key < t[j].key
       /\ \A x \in j + 1 .. hi : t[j].key <= t[x].key
       /\ \A x \in lo .. hi : t[x].key \in Int
  <2> HIDE DEF lo, hi, j, t
  <2>1. ASSUME NEW x \in lo .. j - 1 PROVE t[x].key < t[j].key
    <3>1. x \in 0 .. n - 1 /\ x # j /\ x # hi
      BY <1>2, <2>1
    <3> QED BY <1>6, <1>7, <1>8, <2>1, <3>1
  <2>2. ASSUME NEW x \in j + 1 .. hi PROVE t[j].key <= t[x].key
    <3>1. CASE x = hi
      <4>1. j \in j .. hi - 1
        BY <1>2, <2>2, <3>1
      <4> QED BY <1>6, <1>8, <3>1, <4>1
    <3>2. CASE x # hi
      <4>1. x \in j .. hi - 1 /\ x \in 0 .. n - 1 /\ x # j
        BY <1>2, <2>2, <3>2
      <4> QED BY <1>6, <1>7, <1>8, <3>2, <4>1
    <3> QED BY <3>1, <3>2
  <2>3. ASSUME NEW x \in lo .. hi PROVE t[x].key \in Int
    <3>1. x \in 0 .. n - 1
      BY <1>2, <2>3
    <3> QED BY <1>5, <3>1 DEF IsArray
  <2> QED BY <2>1, <2>2, <2>3
<1>18. ASSUME NEW x \in lo .. hi, NEW y \in lo .. hi, x < y, ~(t[x].key <= t[y].key)
       PROVE  (j > lo /\ left.lo <= x /\ y <= left.hi) \/ (right.lo <= x /\ y <= right.hi)
  <2> HIDE DEF t
  <2>1. left.lo = lo /\ left.hi = j - 1 /\ right.lo = j + 1 /\ right.hi = hi
    OBVIOUS
  <2> HIDE DEF lo, hi, j, left, right
  <2>2. CASE y < j
    <3>1. j > lo /\ y <= j - 1 /\ lo <= x
      BY <1>2, <1>18, <2>2
    <3> QED BY <2>1, <3>1
  <2>3. CASE x > j
    <3>1. j + 1 <= x /\ y <= hi
      BY <1>2, <1>18, <2>3
    <3> QED BY <2>1, <3>1
  <2>4. CASE x <= j /\ j <= y
    <3>1. j \in lo .. hi
      BY <1>2
    <3>2. t[x].key \in Int /\ t[y].key \in Int /\ t[j].key \in Int
      BY <1>17, <1>18, <3>1
    <3>3. x = j \/ t[x].key < t[j].key
      BY <1>2, <1>17, <1>18, <2>4
    <3>4. y = j \/ t[j].key <= t[y].key
      BY <1>2, <1>17, <1>18, <2>4
    <3> QED BY <1>18, <3>2, <3>3, <3>4
  <2> QED BY <1>2, <1>18, <2>2, <2>3, <2>4
<1>19. OrderedBut(t, n, Awaited')
  <2> HIDE DEF t
  <2>1. SUFFICES ASSUME NEW x \in 0 .. n - 1, NEW y \in 0 .. n - 1, x < y,
                        ~(t[x].key <= t[y].key)
                 PROVE  \E q \in Awaited' : q.lo <= x /\ y <= q.hi
    BY DEF OrderedBut
  <2>2. PICK p \in Running \cup Awaited : p.lo <= x /\ y <= p.hi
    BY <1>5, <2>1 DEF OrderedBut
  <2>3. CASE p \in Awaited
    BY <1>15, <2>2, <2>3
  <2>4. CASE p \in Running
    <3>1. p.lo = lo /\ p.hi = hi
      BY <2>4 DEF Running
    <3>2. x \in lo .. hi /\ y \in lo .. hi
      BY <1>2, <2>1, <2>2, <3>1
    <3> HIDE DEF left, right, lo, hi, j
    <3> QED BY <1>15, <1>18, <2>1, <3>2
  <2> QED BY <2>3, <2>4
<1>20. Insertion' /\ Division'
  BY <1>9 DEF Insertion, Division
<1> QED BY <1>1, <1>3, <1>5, <1>9, <1>11, <1>14, <1>19, <1>20 DEF Sorts

\* The whole array is to be sorted; one element is.
LEMMA SortBytesSorts ==
  ASSUME NEW n \in Nat, Sorts(n), NEW m \in 0 .. MaxU64, SortBytes(m)
  PROVE  Sorts(n)'
<1>1. /\ SortTyped /\ IsArray(arr, n) /\ SameElements(arr, given, n) /\ DOMAIN given = 0 .. n - 1
      /\ run.op = "start"
  BY DEF Sorts, SortBytes
<1>2. /\ DOMAIN arr = 0 .. m - 1
      /\ calls' = (IF m < 2 THEN <<>> ELSE <<[lo |-> 0, hi |-> OneLess(m)]>>)
      /\ run' = [run EXCEPT !.op = "between"] /\ UNCHANGED <<given, arr>>
  BY DEF SortBytes, Go
<1>3. m = n
  <2>1. 0 .. m - 1 = 0 .. n - 1 /\ m \in Nat
    BY <1>1, <1>2, ArraysAssumption DEF IsArray
  <2>2. m > 0 => m - 1 \in 0 .. n - 1
    BY <2>1
  <2>3. n > 0 => n - 1 \in 0 .. m - 1
    BY <2>1
  <2> QED BY <2>1, <2>2, <2>3
<1>4. run'.op = "between" /\ ~Busy' /\ Running' = {}
  BY <1>1, <1>2 DEF SortTyped, Busy, Running
<1> DEFINE all == [lo |-> 0, hi |-> n - 1]
<1>5. calls' = IF n < 2 THEN <<>> ELSE <<all>>
  <2>1. n >= 2 => OneLess(n) = n - 1
    BY DEF OneLess
  <2> QED BY <1>2, <1>3, <2>1
<1>6. SortTyped' /\ RangesApart(n)' /\ Awaited' = (IF n < 2 THEN {} ELSE {all})
  <2>1. run' \in [op : {"start", "between", "insert", "split", "done"},
                  lo : Nat, hi : Nat, i : Nat, j : Nat]
    BY <1>1, <1>2 DEF SortTyped
  <2>2. CASE n < 2
    <3>1. calls' = <<>> /\ Len(calls') = 0 /\ 1 .. Len(calls') = {}
      BY <1>5, <2>2
    <3>2. SortTyped'
      BY <2>1, <3>1 DEF SortTyped
    <3>3. RangesApart(n)'
      BY <1>4, <3>1 DEF RangesApart
    <3>4. Awaited' = {}
      BY <3>1 DEF Awaited
    <3> QED BY <2>2, <3>2, <3>3, <3>4
  <2>3. CASE ~(n < 2)
    <3>1. all \in [lo : Nat, hi : Nat]
      BY <2>3
    <3>2. calls' = <<all>> /\ Len(calls') = 1 /\ 1 .. Len(calls') = {1} /\ calls'[1] = all
      <4> HIDE DEF all
      <4> QED BY <1>5, <2>3
    <3>3. SortTyped'
      BY <2>1, <3>1, <3>2 DEF SortTyped
    <3>4. RangesApart(n)'
      BY <1>4, <2>3, <3>2 DEF RangesApart
    <3>5. Awaited' = {all}
      BY <3>2 DEF Awaited
    <3> QED BY <2>3, <3>3, <3>4, <3>5
  <2> QED BY <2>2, <2>3
<1>7. OrderedBut(arr, n, Awaited')
  <2>1. SUFFICES ASSUME NEW x \in 0 .. n - 1, NEW y \in 0 .. n - 1, x < y
                 PROVE  \E q \in Awaited' : q.lo <= x /\ y <= q.hi
    BY DEF OrderedBut
  <2>2. ~(n < 2) /\ all.lo <= x /\ y <= all.hi
    BY <2>1
  <2> QED BY <1>6, <2>2
<1> QED BY <1>1, <1>2, <1>4, <1>6, <1>7 DEF Sorts, Insertion, Division

\* No call is left, so nothing is awaited.
LEMMA SortReturnsSorts ==
  ASSUME NEW n \in Nat, Sorts(n), SortReturns
  PROVE  Sorts(n)'
<1>1. /\ run.op = "between" /\ calls = <<>> /\ run' = [run EXCEPT !.op = "done"]
      /\ UNCHANGED <<given, arr, calls>> /\ SortTyped
  BY DEF SortReturns, Between, Go, Sorts
<1>2. run'.op = "done" /\ Running = {} /\ Running' = {} /\ Awaited' = Awaited /\ ~Busy'
  BY <1>1 DEF SortTyped, Busy, Running, Awaited
<1> QED BY <1>1, <1>2 DEF Sorts, SortTyped, RangesApart, Insertion, Division

\* Before the first step the array is as it was passed.
LEMMA SortStarts ==
  ASSUME SortInit
  PROVE  SortInv
<1>1. PICK n \in 0 .. MaxU64 :
        /\ given = [x \in 0 .. n - 1 |-> given[x]]
        /\ \A x \in 0 .. n - 1 : given[x].key \in Int
        /\ \A x, y \in 0 .. n - 1 : given[x] = given[y] => x = y
  BY ArraysAssumption DEF SortInit
<1>2. /\ arr = given /\ calls = <<>>
      /\ run = [op |-> "start", lo |-> 0, hi |-> 0, i |-> 0, j |-> 0]
  BY DEF SortInit
<1>3. IsArray(arr, n) /\ DOMAIN given = 0 .. n - 1 /\ SameElements(arr, given, n)
  BY <1>1, <1>2 DEF IsArray, SameElements
<1>4. Len(calls) = 0 /\ 1 .. Len(calls) = {} /\ ~Busy
  BY <1>2 DEF Busy
<1>5. SortTyped /\ RangesApart(n) /\ Insertion /\ Division
  BY <1>2, <1>4 DEF SortTyped, RangesApart, Insertion, Division
<1>6. Sorts(n)
  BY <1>2, <1>3, <1>5 DEF Sorts
<1> QED BY <1>6 DEF SortInv

\* Every step of the sort keeps the invariant.
LEMMA SortSteps ==
  ASSUME SortInv, [SortNext]_sortVars
  PROVE  SortInv'
<1>1. PICK n \in 0 .. MaxU64 : Sorts(n)
  BY DEF SortInv
<1>2. n \in Nat
  BY <1>1, ArraysAssumption
<1>3. CASE UNCHANGED sortVars
  <2>1. SortTyped' = SortTyped /\ RangesApart(n)' = RangesApart(n)
    BY <1>3 DEF sortVars, SortTyped, RangesApart, Busy
  <2>2. Insertion' = Insertion /\ Division' = Division
    BY <1>3 DEF sortVars, Insertion, Division
  <2>3. Running' = Running /\ Awaited' = Awaited
    BY <1>3 DEF sortVars, Running, Awaited, Busy
  <2>4. Sorts(n)'
    BY <1>1, <1>3, <2>1, <2>2, <2>3 DEF sortVars, Sorts
  <2> QED BY <1>1, <2>4 DEF SortInv
<1>4. CASE SortNext
  <2>1. CASE \E m \in 0 .. MaxU64 : SortBytes(m)
    BY <1>1, <1>2, <2>1, SortBytesSorts DEF SortInv
  <2>2. CASE NothingToSort
    BY <1>1, <1>2, <2>2, NothingToSortSorts DEF SortInv
  <2>3. CASE StartInsertion
    BY <1>1, <1>2, <2>3, StartInsertionSorts DEF SortInv
  <2>4. CASE StartPartition
    BY <1>1, <1>2, <2>4, StartPartitionSorts DEF SortInv
  <2>5. CASE Sink
    BY <1>1, <1>2, <2>5, SinkSorts DEF SortInv
  <2>6. CASE InsertNext
    BY <1>1, <1>2, <2>6, InsertNextSorts DEF SortInv
  <2>7. CASE Inserted
    BY <1>1, <1>2, <2>7, InsertedSorts DEF SortInv
  <2>8. CASE MoveToFront
    BY <1>1, <1>2, <2>8, MoveToFrontSorts DEF SortInv
  <2>9. CASE LeaveBehind
    BY <1>1, <1>2, <2>9, LeaveBehindSorts DEF SortInv
  <2>10. CASE Partitioned
    BY <1>1, <1>2, <2>10, PartitionedSorts DEF SortInv
  <2>11. CASE SortReturns
    BY <1>1, <1>2, <2>11, SortReturnsSorts DEF SortInv
  <2> QED BY <1>4, <2>1, <2>2, <2>3, <2>4, <2>5, <2>6, <2>7, <2>8, <2>9, <2>10, <2>11 DEF SortNext
<1> QED BY <1>3, <1>4

\* While it is being sorted an array keeps its elements and is in order but for
\* what the loop in progress and the calls to come have still to sort
\* (quicksort_range, insertion_range).
THEOREM SortInvariant == SortSpec => []SortInv
<1>1. SortInit => SortInv
  BY SortStarts
<1>2. SortInv /\ [SortNext]_sortVars => SortInv'
  BY SortSteps
<1> QED BY <1>1, <1>2, PTL DEF SortSpec

\* Every array, of any length and whatever its keys, comes out sorted
\* (SortsInPlace; quicksort_range, insertion_range).
THEOREM ArraysAreSorted == SortSpec => []SortsInPlace
<1>1. ASSUME SortInv PROVE SortsInPlace
  <2>1. SUFFICES ASSUME run.op = "done"
                 PROVE  /\ DOMAIN arr = DOMAIN given
                        /\ {arr[x] : x \in DOMAIN arr} = {given[x] : x \in DOMAIN given}
                        /\ \A x, y \in DOMAIN arr : arr[x] = arr[y] => x = y
                        /\ \A x, y \in DOMAIN arr : x < y => arr[x].key <= arr[y].key
    BY DEF SortsInPlace
  <2>2. PICK n \in 0 .. MaxU64 : Sorts(n)
    BY <1>1 DEF SortInv
  <2>3. /\ DOMAIN arr = 0 .. n - 1 /\ DOMAIN given = 0 .. n - 1
        /\ SameElements(arr, given, n) /\ IsArray(arr, n)
    BY <2>2 DEF Sorts, IsArray
  <2>4. Running \cup Awaited = {}
    <3>1. calls = <<>> /\ 1 .. Len(calls) = {}
      BY <2>1, <2>2 DEF Sorts
    <3> QED BY <2>1, <3>1 DEF Running, Awaited, Busy
  <2>5. OrderedBut(arr, n, {})
    BY <2>1, <2>2, <2>4 DEF Sorts
  <2>6. \A x, y \in 0 .. n - 1 : x < y => arr[x].key <= arr[y].key
    BY <2>5 DEF OrderedBut
  <2> QED BY <2>3, <2>6 DEF IsArray, SameElements
<1> QED BY <1>1, SortInvariant, PTL
=============================================================================
