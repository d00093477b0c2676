----------------------------- MODULE HeapProofs ------------------------------
(***************************************************************************)
(* The allocator as its callers see it.  Sys(H, B, L, T) is the inductive   *)
(* invariant: the words of H are the blocks B at rest, every used block and *)
(* every mapping T belongs to one of the pointers L, every pointer to one   *)
(* of them, and each object fits.  Every call keeps it (SysMalloc, SysFree, *)
(* SysRealloc, SysWrite, and SysSettled for what is forgotten between two   *)
(* calls) and does to B, L and the objects' words what one of six relations *)
(* says (Idle, GivenAt, ReturnedAt, RelocatedAt, ResizedAt, WrittenAt).     *)
(*                                                                          *)
(* From these follow, for all values of the constants, that the heap is     *)
(* sound (HeapSound), that its words implement the tiling of BlockHeap      *)
(* (HeapImplementsBlocks), and that callers get what malloc, calloc,        *)
(* realloc and free promise (HeapKeepsPromise).                             *)
(***************************************************************************)
EXTENDS HeapWordsProofs

-----------------------------------------------------------------------------
(* Who was given what. *)

\* A mapping of its own: whole pages, outside the reservation.
IsMapping(b, total) ==
  /\ b \in Int /\ b > 0 /\ b % 16 = 0 /\ total \in Int /\ total % 16 = 0 /\ 16 <= total
  /\ b + total <= Base \/ Base + Reserve <= b

\* T: the pointers into mappings, each with its mapping's length.
MapWords(T) == UNION {Words(p - 16, T[p]) : p \in DOMAIN T}
KeptWords(L, T) ==
  (UNION {Words(p, L[p]) : p \in DOMAIN L}) \cup (UNION {{p - 16, p - 8} : p \in DOMAIN T})

IsObject(p, n) == p \in Int /\ p > 0 /\ p % 16 = 0 /\ n \in Nat /\ n % 8 = 0

Owners(B, L, T) ==
  /\ DOMAIN T \subseteq DOMAIN L
  /\ \A p \in DOMAIN L : IsObject(p, L[p])
  /\ \A p \in DOMAIN T : IsMapping(p - 16, T[p]) /\ L[p] + 16 <= T[p]
  /\ \A p, q \in DOMAIN T : p # q => (p - 16) + T[p] <= q - 16 \/ (q - 16) + T[q] <= p - 16
  /\ \A p \in DOMAIN L : p \notin DOMAIN T => p - 8 \in Useds(B) /\ L[p] + 16 <= B[p - 8].size
  /\ \A h \in Useds(B) : h \in Int /\ h + 8 \in DOMAIN L /\ h + 8 \notin DOMAIN T

\* Every mapping records its length and is marked as one.
Heads(H, T) == \A p \in DOMAIN T : Get(H, p - 16) = T[p] /\ Get(H, p - 8) = 3

Sys(H, B, L, T) ==
  Rest(H, B, KeptWords(L, T), H, MapWords(T)) /\ Owners(B, L, T) /\ Heads(H, T)

\* The words of an object.
LEMMA ObjectWords ==
  ASSUME NEW p, NEW n, IsObject(p, n), NEW a
  PROVE  a \in Words(p, n) <=> a \in Int /\ p <= a /\ a < p + n /\ a % 8 = 0
<1>1. p \in Int /\ p % 8 = 0 /\ n \in Nat /\ n % 8 = 0
  BY DEF IsObject
<1> QED BY <1>1, WordsFacts

\* The words of a mapping.
LEMMA MappingWords ==
  ASSUME NEW b, NEW n, IsMapping(b, n), NEW a
  PROVE  a \in Words(b, n) <=> a \in Int /\ b <= a /\ a < b + n /\ a % 8 = 0
<1>1. b \in Int /\ b % 8 = 0 /\ n \in Nat /\ n % 8 = 0
  BY DEF IsMapping
<1> QED BY <1>1, WordsFacts

\* The words of all mappings.
LEMMA MapWordsFacts ==
  ASSUME NEW B, NEW L, NEW T, Owners(B, L, T), NEW a
  PROVE  /\ a \in MapWords(T) <=> \E p \in DOMAIN T : a \in Words(p - 16, T[p])
         /\ a \in MapWords(T) <=> a \in Int /\ a % 8 = 0
                                  /\ \E p \in DOMAIN T : p - 16 <= a /\ a < (p - 16) + T[p]
<1>1. a \in MapWords(T) <=> \E p \in DOMAIN T : a \in Words(p - 16, T[p])
  BY DEF MapWords
<1>2. \A p \in DOMAIN T : a \in Words(p - 16, T[p]) <=> a \in Int /\ p - 16 <= a /\ a < (p - 16) + T[p] /\ a % 8 = 0
  BY MappingWords DEF Owners
<1> QED BY <1>1, <1>2

\* The words of all objects and the heads of the mappings.
LEMMA KeptWordsFacts ==
  ASSUME NEW B, NEW L, NEW T, Owners(B, L, T), NEW a
  PROVE  a \in KeptWords(L, T) <=>
           \/ a \in Int /\ a % 8 = 0 /\ \E p \in DOMAIN L : p <= a /\ a < p + L[p]
           \/ \E p \in DOMAIN T : a = p - 16 \/ a = p - 8
<1>1. a \in KeptWords(L, T) <=>
           \/ \E p \in DOMAIN L : a \in Words(p, L[p])
           \/ \E p \in DOMAIN T : a = p - 16 \/ a = p - 8
  <2> DEFINE U == UNION {Words(p, L[p]) : p \in DOMAIN L}
             V == UNION {{p - 16, p - 8} : p \in DOMAIN T}
  <2>1. a \in U <=> \E p \in DOMAIN L : a \in Words(p, L[p])
    OBVIOUS
  <2>2. a \in V <=> \E p \in DOMAIN T : a = p - 16 \/ a = p - 8
    OBVIOUS
  <2>3. KeptWords(L, T) = U \cup V
    BY Zenon DEF KeptWords, U, V
  <2> HIDE DEF U, V
  <2> QED BY <2>1, <2>2, <2>3
<1>2. \A p \in DOMAIN L : a \in Words(p, L[p]) <=> a \in Int /\ p <= a /\ a < p + L[p] /\ a % 8 = 0
  BY ObjectWords DEF Owners
<1> QED BY <1>1, <1>2

\* Mappings lie outside of what is reserved.
LEMMA MapOutside ==
  ASSUME NEW B, NEW L, NEW T, Owners(B, L, T)
  PROVE  Outside(MapWords(T))
<1>1. ASSUME NEW a \in MapWords(T) PROVE a \in Int /\ (a < Base \/ Base + Reserve <= a)
  <2>1. a \in Int /\ \E p \in DOMAIN T : p - 16 <= a /\ a < (p - 16) + T[p]
    BY MapWordsFacts
  <2>2. PICK p \in DOMAIN T : p - 16 <= a /\ a < (p - 16) + T[p]
    BY <2>1
  <2>3. p \in Int /\ T[p] \in Int /\ ((p - 16) + T[p] <= Base \/ Base + Reserve <= p - 16)
    BY DEF Owners, IsMapping, IsObject
  <2> QED BY <2>1, <2>2, <2>3, BaseFacts
<1> QED BY <1>1 DEF Outside

\* What the owners keep lies in mappings and inside used blocks.
LEMMA KeptPlaced ==
  ASSUME NEW B, NEW e, NEW L, NEW T, Owners(B, L, T), Shape(B, e) \/ DOMAIN B = {},
         NEW a \in KeptWords(L, T)
  PROVE  a \in Int /\ a % 8 = 0 /\ (a \in MapWords(T) \/ (Inside(B, Frees(B), a) /\ Shape(B, e)))
<1>1. CASE \E p \in DOMAIN T : a = p - 16 \/ a = p - 8
  <2>1. PICK p \in DOMAIN T : a = p - 16 \/ a = p - 8
    BY <1>1
  <2>2. p \in Int /\ p % 16 = 0 /\ T[p] \in Int /\ T[p] >= 16
    BY DEF Owners, IsMapping, IsObject
  <2>3. a \in Int /\ a % 8 = 0 /\ p - 16 <= a /\ a < (p - 16) + T[p]
    BY <2>1, <2>2
  <2> QED BY <2>3, MapWordsFacts
<1>2. CASE a \in Int /\ a % 8 = 0 /\ \E p \in DOMAIN L : p <= a /\ a < p + L[p]
  <2>1. PICK p \in DOMAIN L : p <= a /\ a < p + L[p]
    BY <1>2
  <2>2. p \in Int /\ p % 16 = 0 /\ L[p] \in Int
    BY DEF Owners, IsObject
  <2>3. CASE p \in DOMAIN T
    <3>1. T[p] \in Int /\ L[p] + 16 <= T[p]
      BY <2>3 DEF Owners, IsMapping
    <3>2. p - 16 <= a /\ a < (p - 16) + T[p]
      BY <2>1, <2>2, <3>1, <1>2
    <3> QED BY <1>2, <2>3, <3>2, MapWordsFacts
  <2>4. CASE p \notin DOMAIN T
    <3> DEFINE h == p - 8
    <3>1. h \in Useds(B) /\ L[p] + 16 <= B[h].size
      BY <2>4 DEF Owners
    <3>2. h \in DOMAIN B /\ h \notin Frees(B)
      BY <3>1 DEF Useds, Frees
    <3>3. Shape(B, e)
      BY <3>2
    <3>4. BP!End(B, h) = h + B[h].size /\ B[h].size \in Int
      BY <3>2, <3>3, BlockFacts
    <3>5. h + 8 <= a /\ a < BP!End(B, h) - 8
      <4>1. h + 8 = p /\ h \in Int
        BY <2>2
      <4> HIDE DEF h
      <4>2. a \in Int /\ p \in Int /\ L[p] \in Int
        BY <1>2, <2>2
      <4> QED BY <4>1, <4>2, <3>1, <3>4, <2>1
    <3> HIDE DEF h
    <3> QED BY <1>2, <3>2, <3>3, <3>5 DEF Inside
  <2> QED BY <2>3, <2>4
<1> QED BY <1>1, <1>2, KeptWordsFacts

\* What the owners hold is kept.
LEMMA OwnersKept ==
  ASSUME NEW H, NEW B, NEW K, NEW o, NEW L, NEW T, Rest(H, B, K, o, MapWords(T)), Owners(B, L, T)
  PROVE  /\ Kept(H, B, Frees(B), KeptWords(L, T), H, MapWords(T))
         /\ Rest(H, B, KeptWords(L, T), H, MapWords(T))
<1> DEFINE D == MapWords(T)
           M == KeptWords(L, T)
           e == H.commit - 8
<1>1. CASE Bare(H, B, K, o, D)
  <2>1. DOMAIN B = {} /\ DOMAIN H.mem = D
    BY <1>1 DEF Bare
  <2>2. ASSUME NEW a \in M PROVE a \in D
    <3>1. \A h : ~(h \in DOMAIN B)
      BY <2>1
    <3>2. a \in D \/ Inside(B, Frees(B), a)
      BY <2>1, KeptPlaced
    <3> QED BY <3>1, <3>2 DEF Inside
  <2> HIDE DEF D, M
  <2>3. Kept(H, B, Frees(B), M, H, D)
    BY <2>1, <2>2 DEF Kept
  <2>4. Bare(H, B, M, H, D)
    BY <1>1, <2>2 DEF Bare
  <2> QED BY <2>3, <2>4 DEF Rest, D, M
<1>2. CASE At(H, B, Frees(B), K, o, D) /\ BP!NoNeighboursFree(B)
  <2> HIDE DEF D
  <2>1. Shape(B, e) /\ Grounds(H)
    BY <1>2, AtFacts
  <2> HIDE DEF e
  <2>2. ASSUME NEW a \in M PROVE a \in DOMAIN H.mem /\ (a \in D \/ Inside(B, Frees(B), a))
    <3>1. a \in Int /\ a % 8 = 0 /\ (a \in D \/ Inside(B, Frees(B), a))
      BY <2>1, KeptPlaced DEF D
    <3>2. CASE a \in D
      BY <1>2, <3>1, <3>2, RestFacts DEF At
    <3>3. CASE Inside(B, Frees(B), a)
      <4>1. PICK h \in DOMAIN B : h + 8 <= a /\ a < BP!End(B, h) - 8
        BY <3>3 DEF Inside
      <4>2. h \in Int /\ BP!End(B, h) \in Int
        BY <2>1, BlockFacts
      <4>3. h <= a /\ a < BP!End(B, h)
        BY <4>1, <4>2, <3>1
      <4>4. Shape(B, H.commit - 8)
        BY <2>1 DEF e
      <4>5. a \in DOMAIN H.mem
        BY <2>1, <3>1, <4>3, <4>4, BlockWords
      <4> QED BY <3>3, <4>5
    <3> QED BY <3>1, <3>2, <3>3
  <2> HIDE DEF M
  <2>3. Kept(H, B, Frees(B), M, H, D)
    BY <2>2 DEF Kept
  <2>4. At(H, B, Frees(B), M, H, D)
    BY <1>2, <2>3 DEF At
  <2> QED BY <1>2, <2>3, <2>4 DEF Rest, D, M
<1> QED BY <1>1, <1>2 DEF Rest

\* A mapping's object and a block's are apart.
LEMMA MappingApart ==
  ASSUME NEW x \in Int, NEW n \in Int, NEW t \in Int, n + 16 <= t,
         NEW y \in Int, NEW k \in Int, Base + 24 <= y - 8, y + k <= Base + Reserve,
         (x - 16) + t <= Base \/ Base + Reserve <= x - 16
  PROVE  x + n <= y \/ y + k <= x
<1>1. Base \in Int /\ Reserve \in Int
  BY HeapAssumption
<1>2. CASE (x - 16) + t <= Base
  <2>1. x + n <= y
    BY <1>1, <1>2
  <2> QED BY <2>1
<1>3. CASE Base + Reserve <= x - 16
  <2>1. y + k <= x
    BY <1>1, <1>3
  <2> QED BY <2>1
<1> QED BY <1>2, <1>3

\* No two owners' objects overlap.
LEMMA ObjectsApart ==
  ASSUME NEW B, NEW e, NEW L, NEW T, Owners(B, L, T), (Shape(B, e) /\ e <= Base + Reserve - 8) \/ DOMAIN B = {},
         NEW p \in DOMAIN L, NEW q \in DOMAIN L, p # q
  PROVE  p + L[p] <= q \/ q + L[q] <= p
<1>0. FirstBlock = Base + 24 /\ Base \in Int /\ Reserve \in Int
  BY BaseFacts
<1>1. ASSUME NEW x \in DOMAIN L
      PROVE  x \in Int /\ x % 16 = 0 /\ L[x] \in Nat
  BY DEF Owners, IsObject
<1>2. ASSUME NEW x \in DOMAIN L, x \notin DOMAIN T
      PROVE  /\ Shape(B, e) /\ e <= Base + Reserve - 8 /\ x - 8 \in DOMAIN B
             /\ FirstBlock <= x - 8 /\ x + L[x] <= BP!End(B, x - 8) /\ BP!End(B, x - 8) <= e
             /\ BP!End(B, x - 8) \in Int /\ e \in Int
  <2> DEFINE h == x - 8
  <2>1. h \in DOMAIN B /\ L[x] + 16 <= B[h].size
    BY <1>2 DEF Owners, Useds
  <2>2. Shape(B, e) /\ e <= Base + Reserve - 8
    BY <2>1
  <2>3. FirstBlock <= h /\ BP!End(B, h) = h + B[h].size /\ B[h].size \in Int /\ BP!End(B, h) \in Int /\ BP!End(B, h) <= e
    BY <2>1, <2>2, BlockFacts
  <2>4. x + L[x] <= BP!End(B, h)
    <3>1. h \in Int /\ x = h + 8
      BY <1>1, <1>2
    <3> HIDE DEF h
    <3>2. x \in Int /\ L[x] \in Int
      BY <1>1
    <3> QED BY <2>1, <2>3, <3>1, <3>2
  <2>5. e \in Int
    BY <2>2 DEF Shape
  <2> QED BY <2>1, <2>2, <2>3, <2>4, <2>5
<1>3. ASSUME NEW x \in DOMAIN L, x \in DOMAIN T
      PROVE  T[x] \in Int /\ L[x] + 16 <= T[x] /\ ((x - 16) + T[x] <= Base \/ Base + Reserve <= x - 16)
  BY <1>3 DEF Owners, IsMapping
<1>4. CASE p \in DOMAIN T /\ q \in DOMAIN T
  <2>1. (p - 16) + T[p] <= q - 16 \/ (q - 16) + T[q] <= p - 16
    BY <1>4 DEF Owners
  <2>2. /\ T[p] \in Int /\ L[p] + 16 <= T[p] /\ T[q] \in Int /\ L[q] + 16 <= T[q]
        /\ p \in Int /\ q \in Int /\ L[p] \in Int /\ L[q] \in Int
    BY <1>1, <1>3, <1>4
  <2>3. CASE (p - 16) + T[p] <= q - 16
    BY <2>2, <2>3
  <2>4. CASE (q - 16) + T[q] <= p - 16
    BY <2>2, <2>4
  <2> QED BY <2>1, <2>3, <2>4
<1>5. CASE p \in DOMAIN T /\ q \notin DOMAIN T
  <2>1. /\ T[p] \in Int /\ L[p] + 16 <= T[p]
        /\ (p - 16) + T[p] <= Base \/ Base + Reserve <= p - 16
    BY <1>3, <1>5
  <2>2. /\ e <= Base + Reserve - 8 /\ FirstBlock <= q - 8 /\ q + L[q] <= BP!End(B, q - 8)
        /\ BP!End(B, q - 8) <= e /\ BP!End(B, q - 8) \in Int /\ e \in Int
    BY <1>2, <1>5
  <2>3. p \in Int /\ q \in Int /\ L[p] \in Nat /\ L[q] \in Nat
    BY <1>1
  <2>6. Base + 24 <= q - 8 /\ q + L[q] <= Base + Reserve
    <3>1. q + L[q] <= e /\ e <= Base + Reserve - 8
      BY <2>2, <2>3
    <3>2. q + L[q] <= Base + Reserve
      BY <3>1, <2>2, <2>3, <1>0
    <3>3. Base + 24 <= q - 8
      BY <2>2, <1>0
    <3> QED BY <3>2, <3>3
  <2>4. p + L[p] <= q \/ q + L[q] <= p
    <3>1. /\ p \in Int /\ L[p] \in Int /\ T[p] \in Int /\ L[p] + 16 <= T[p]
          /\ q \in Int /\ L[q] \in Int
          /\ (p - 16) + T[p] <= Base \/ Base + Reserve <= p - 16
      BY <2>1, <2>3
    <3> QED BY <3>1, <2>6, MappingApart, Zenon
  <2> QED BY <2>4
<1>6. CASE q \in DOMAIN T /\ p \notin DOMAIN T
  <2>1. /\ T[q] \in Int /\ L[q] + 16 <= T[q]
        /\ (q - 16) + T[q] <= Base \/ Base + Reserve <= q - 16
    BY <1>3, <1>6
  <2>2. /\ e <= Base + Reserve - 8 /\ FirstBlock <= p - 8 /\ p + L[p] <= BP!End(B, p - 8)
        /\ BP!End(B, p - 8) <= e /\ BP!End(B, p - 8) \in Int /\ e \in Int
    BY <1>2, <1>6
  <2>3. p \in Int /\ q \in Int /\ L[p] \in Nat /\ L[q] \in Nat
    BY <1>1
  <2>6. Base + 24 <= p - 8 /\ p + L[p] <= Base + Reserve
    <3>1. p + L[p] <= e /\ e <= Base + Reserve - 8
      BY <2>2, <2>3
    <3>2. p + L[p] <= Base + Reserve
      BY <3>1, <2>2, <2>3, <1>0
    <3>3. Base + 24 <= p - 8
      BY <2>2, <1>0
    <3> QED BY <3>2, <3>3
  <2>4. q + L[q] <= p \/ p + L[p] <= q
    <3>1. /\ q \in Int /\ L[q] \in Int /\ T[q] \in Int /\ L[q] + 16 <= T[q]
          /\ p \in Int /\ L[p] \in Int
          /\ (q - 16) + T[q] <= Base \/ Base + Reserve <= q - 16
      BY <2>1, <2>3
    <3> QED BY <3>1, <2>6, MappingApart, Zenon
  <2> QED BY <2>4
<1>7. CASE p \notin DOMAIN T /\ q \notin DOMAIN T
  <2>1. Shape(B, e) /\ p - 8 \in DOMAIN B /\ q - 8 \in DOMAIN B /\ p - 8 # q - 8
    BY <1>1, <1>2, <1>7
  <2>2. BP!End(B, p - 8) <= q - 8 \/ BP!End(B, q - 8) <= p - 8
    BY <2>1, BlocksApart
  <2> QED BY <2>2, <1>1, <1>2, <1>7
<1> QED BY <1>4, <1>5, <1>6, <1>7

\* L and M say the same of every pointer but p.
SameBut(L, M, p) ==
  \A q : q # p => (q \in DOMAIN L <=> q \in DOMAIN M) /\ (q \in DOMAIN L => M[q] = L[q])

\* A pointer into the region is handed out, given back or resized with its block.
LEMMA OwnersInRegion ==
  ASSUME NEW B, NEW L, NEW T, Owners(B, L, T), NEW p \in Int, NEW C, NEW M,
         SameUsed(B, C, {p - 8}), SameBut(L, M, p), p \notin DOMAIN T,
         p \in DOMAIN M <=> p - 8 \in Useds(C),
         p \in DOMAIN M => IsObject(p, M[p]) /\ M[p] + 16 <= C[p - 8].size
  PROVE  Owners(C, M, T)
<1>1. \A q \in DOMAIN T : q # p /\ q \in DOMAIN M /\ M[q] = L[q]
  BY DEF Owners, SameBut
<1>2. \A q \in DOMAIN L : IsObject(q, L[q])
  BY DEF Owners
<1>3. \A q \in DOMAIN M : IsObject(q, M[q])
  <2>1. ASSUME NEW q \in DOMAIN M PROVE IsObject(q, M[q])
    <3>1. q # p => q \in DOMAIN L /\ M[q] = L[q]
      BY DEF SameBut
    <3> QED BY <3>1, <1>2
  <2> QED BY <2>1
<1>4. ASSUME NEW q \in DOMAIN M, q \notin DOMAIN T PROVE q - 8 \in Useds(C) /\ M[q] + 16 <= C[q - 8].size
  <2>1. CASE q = p
    BY <2>1
  <2>2. CASE q # p
    <3>1. q \in DOMAIN L /\ M[q] = L[q]
      BY <2>2 DEF SameBut
    <3>2. q - 8 \in Useds(B) /\ L[q] + 16 <= B[q - 8].size
      BY <3>1, <1>4 DEF Owners
    <3>3. q - 8 \notin {p - 8}
      <4>1. q \in Int
        BY <3>1, <1>2 DEF IsObject
      <4> QED BY <4>1, <2>2
    <3>4. q - 8 \in Useds(C) /\ C[q - 8] = B[q - 8]
      BY <3>2, <3>3 DEF SameUsed
    <3> QED BY <3>1, <3>2, <3>4
  <2> QED BY <2>1, <2>2
<1>5. ASSUME NEW h \in Useds(C) PROVE h \in Int /\ h + 8 \in DOMAIN M /\ h + 8 \notin DOMAIN T
  <2>1. CASE h = p - 8
    <3>1. h + 8 = p
      BY <2>1
    <3> QED BY <3>1, <2>1
  <2>2. CASE h # p - 8
    <3>1. h \in Useds(B)
      BY <2>2 DEF SameUsed
    <3>2. h \in Int /\ h + 8 \in DOMAIN L /\ h + 8 \notin DOMAIN T
      BY <3>1 DEF Owners
    <3>3. h + 8 # p
      BY <3>2, <2>2
    <3> QED BY <3>2, <3>3 DEF SameBut
  <2> QED BY <2>1, <2>2
<1> QED BY <1>1, <1>3, <1>4, <1>5 DEF Owners

\* A mapping is handed out or given back.
LEMMA OwnersMapped ==
  ASSUME NEW B, NEW L, NEW T, Owners(B, L, T), NEW p \in Int, NEW M, NEW U,
         SameBut(L, M, p), SameBut(T, U, p), p - 8 \notin Useds(B),
         p \in DOMAIN M <=> p \in DOMAIN U,
         p \in DOMAIN U => IsObject(p, M[p]) /\ IsMapping(p - 16, U[p]) /\ M[p] + 16 <= U[p],
         \A q \in DOMAIN T : q # p /\ p \in DOMAIN U =>
            (q - 16) + T[q] <= p - 16 \/ (p - 16) + U[p] <= q - 16
  PROVE  Owners(B, M, U)
<1>1. \A q : q # p => /\ (q \in DOMAIN L <=> q \in DOMAIN M) /\ (q \in DOMAIN L => M[q] = L[q])
                      /\ (q \in DOMAIN T <=> q \in DOMAIN U) /\ (q \in DOMAIN T => U[q] = T[q])
  BY DEF SameBut
<1>2. DOMAIN U \subseteq DOMAIN M
  BY <1>1 DEF Owners
<1>3. \A q \in DOMAIN M : IsObject(q, M[q])
  <2>1. ASSUME NEW q \in DOMAIN M PROVE IsObject(q, M[q])
    BY <1>1 DEF Owners
  <2> QED BY <2>1
<1>4. \A q \in DOMAIN U : IsMapping(q - 16, U[q]) /\ M[q] + 16 <= U[q]
  <2>1. ASSUME NEW q \in DOMAIN U PROVE IsMapping(q - 16, U[q]) /\ M[q] + 16 <= U[q]
    <3>1. CASE q = p
      BY <3>1
    <3>2. CASE q # p
      <4>1. q \in DOMAIN T /\ q \in DOMAIN L /\ U[q] = T[q] /\ M[q] = L[q]
        BY <1>1, <3>2 DEF Owners
      <4>2. IsMapping(q - 16, T[q]) /\ L[q] + 16 <= T[q]
        BY <4>1 DEF Owners
      <4> QED BY <4>1, <4>2
    <3> QED BY <3>1, <3>2
  <2> QED BY <2>1
<1>5. ASSUME NEW q \in DOMAIN U, NEW r \in DOMAIN U, q # r
      PROVE  (q - 16) + U[q] <= r - 16 \/ (r - 16) + U[r] <= q - 16
  <2>1. CASE q # p /\ r # p
    <3>1. q \in DOMAIN T /\ r \in DOMAIN T /\ U[q] = T[q] /\ U[r] = T[r]
      BY <1>1, <2>1
    <3>2. (q - 16) + T[q] <= r - 16 \/ (r - 16) + T[r] <= q - 16
      BY <3>1, <1>5 DEF Owners
    <3> QED BY <3>1, <3>2
  <2>2. CASE q = p
    <3>1. r \in DOMAIN T /\ U[r] = T[r]
      BY <1>1, <1>5, <2>2
    <3>2. (r - 16) + T[r] <= p - 16 \/ (p - 16) + U[p] <= r - 16
      BY <3>1, <1>5, <2>2
    <3> QED BY <3>1, <3>2, <2>2
  <2>3. CASE r = p
    <3>1. q \in DOMAIN T /\ U[q] = T[q]
      BY <1>1, <1>5, <2>3
    <3>2. (q - 16) + T[q] <= p - 16 \/ (p - 16) + U[p] <= q - 16
      BY <3>1, <1>5, <2>3
    <3> QED BY <3>1, <3>2, <2>3
  <2> QED BY <2>1, <2>2, <2>3
<1>6. ASSUME NEW q \in DOMAIN M, q \notin DOMAIN U PROVE q - 8 \in Useds(B) /\ M[q] + 16 <= B[q - 8].size
  <2>1. q # p
    BY <1>6
  <2>2. q \in DOMAIN L /\ q \notin DOMAIN T /\ M[q] = L[q]
    BY <1>1, <1>6, <2>1
  <2>3. q - 8 \in Useds(B) /\ L[q] + 16 <= B[q - 8].size
    BY <2>2 DEF Owners
  <2> QED BY <2>2, <2>3
<1>7. ASSUME NEW h \in Useds(B) PROVE h \in Int /\ h + 8 \in DOMAIN M /\ h + 8 \notin DOMAIN U
  <2>1. h \in Int /\ h + 8 \in DOMAIN L /\ h + 8 \notin DOMAIN T
    BY <1>7 DEF Owners
  <2>2. h + 8 # p
    <3>1. h + 8 = p => h = p - 8
      BY <2>1
    <3> QED BY <3>1, <1>7
  <2> QED BY <2>1, <2>2, <1>1
<1> QED BY <1>2, <1>3, <1>4, <1>5, <1>6, <1>7 DEF Owners

\* A word that is kept holds what it held.
LEMMA RestKept ==
  ASSUME NEW H, NEW B, NEW K, NEW o, NEW D, Rest(H, B, K, o, D), NEW a \in K
  PROVE  a \in DOMAIN H.mem /\ Get(H, a) = Get(o, a)
BY DEF Rest, Bare, At, Kept

\* A heap at rest that kept the heads of the mappings.
LEMMA SysFrom ==
  ASSUME NEW G, NEW C, NEW K, NEW H, NEW M, NEW T, Rest(G, C, K, H, MapWords(T)), Owners(C, M, T),
         Heads(H, T), \A p \in DOMAIN T : p - 16 \in K /\ p - 8 \in K
  PROVE  Sys(G, C, M, T)
<1>1. Rest(G, C, KeptWords(M, T), G, MapWords(T))
  BY OwnersKept
<1>2. Heads(G, T)
  BY RestKept DEF Heads
<1> QED BY <1>1, <1>2 DEF Sys

\* What Sys says.
LEMMA SysFacts ==
  ASSUME NEW H, NEW B, NEW L, NEW T, Sys(H, B, L, T)
  PROVE  /\ Rest(H, B, KeptWords(L, T), H, MapWords(T)) /\ Owners(B, L, T) /\ Heads(H, T)
         /\ IsHeap(H)
         /\ \A p \in DOMAIN T : p - 16 \in KeptWords(L, T) /\ p - 8 \in KeptWords(L, T)
         /\ (Shape(B, H.commit - 8) /\ H.commit - 8 <= Base + Reserve - 8) \/ DOMAIN B = {}
<1>1. Rest(H, B, KeptWords(L, T), H, MapWords(T)) /\ Owners(B, L, T) /\ Heads(H, T)
  BY DEF Sys
<1>2. \A p \in DOMAIN T : p - 16 \in KeptWords(L, T) /\ p - 8 \in KeptWords(L, T)
  BY <1>1, KeptWordsFacts
<1>3. (Shape(B, H.commit - 8) /\ H.commit - 8 <= Base + Reserve - 8) \/ DOMAIN B = {}
  <2>1. CASE Bare(H, B, KeptWords(L, T), H, MapWords(T))
    BY <2>1 DEF Bare
  <2>2. CASE At(H, B, Frees(B), KeptWords(L, T), H, MapWords(T))
    <3>1. Shape(B, H.commit - 8) /\ H.commit \in Int /\ H.commit <= Base + Reserve
      BY <2>2, AtFacts
    <3> QED BY <3>1, BaseFacts
  <2> QED BY <1>1, <2>1, <2>2 DEF Rest
<1> QED BY <1>1, <1>2, <1>3, RestFacts

\* No object reaches into the two words before another mapping's object.
LEMMA HeadsApart ==
  ASSUME NEW B, NEW e, NEW L, NEW T, Owners(B, L, T),
         (Shape(B, e) /\ e <= Base + Reserve - 8) \/ DOMAIN B = {},
         NEW p \in DOMAIN L, NEW q \in DOMAIN T
  PROVE  q - 16 \notin Words(p, L[p]) /\ q - 8 \notin Words(p, L[p])
<1>1. /\ p \in Int /\ L[p] \in Nat /\ q \in Int /\ T[q] \in Int /\ T[q] >= 16
      /\ ((q - 16) + T[q] <= Base \/ Base + Reserve <= q - 16) /\ IsObject(p, L[p])
  BY DEF Owners, IsObject, IsMapping
<1>2. p = q \/ p + L[p] <= q - 16 \/ q <= p
  <2>1. CASE p \in DOMAIN T /\ p # q
    <3>1. (p - 16) + T[p] <= q - 16 \/ (q - 16) + T[q] <= p - 16
      BY <2>1 DEF Owners
    <3>2. L[p] + 16 <= T[p] /\ T[p] \in Int
      BY <2>1 DEF Owners, IsMapping
    <3> QED BY <1>1, <3>1, <3>2
  <2>2. CASE p \notin DOMAIN T
    <3> DEFINE h == p - 8
    <3>1. h \in DOMAIN B /\ L[p] + 16 <= B[h].size
      BY <2>2 DEF Owners, Useds
    <3>2. Shape(B, e) /\ e <= Base + Reserve - 8
      BY <3>1
    <3>3. FirstBlock <= h /\ BP!End(B, h) = h + B[h].size /\ B[h].size \in Int /\ BP!End(B, h) <= e
      BY <3>1, <3>2, BlockFacts
    <3>4. e \in Int
      BY <3>2 DEF Shape
    <3>5. p = h + 8 /\ h \in Int
      BY <1>1
    <3>6. Base + 24 <= p - 8 /\ p + L[p] + 8 <= e /\ e <= Base + Reserve - 8
      <4> DEFINE b == B[h].size
      <4>1. h + b <= e /\ b \in Int /\ L[p] + 16 <= b /\ FirstBlock = Base + 24
        BY <3>1, <3>3, BaseFacts
      <4> HIDE DEF h, b
      <4> QED BY <4>1, <3>2, <3>3, <3>4, <3>5, <1>1, BaseFacts
    <3>7. CASE (q - 16) + T[q] <= Base
      <4>1. q <= p
        BY <3>6, <3>7, <1>1, BaseFacts
      <4> QED BY <4>1
    <3>8. CASE Base + Reserve <= q - 16
      <4>1. p + L[p] <= q - 16
        BY <3>4, <3>6, <3>8, <1>1, BaseFacts
      <4> QED BY <4>1
    <3> QED BY <3>7, <3>8, <1>1
  <2> QED BY <2>1, <2>2
<1>3. \A a : a \in Words(p, L[p]) => p <= a /\ a < p + L[p]
  BY <1>1, ObjectWords
<1> QED BY <1>1, <1>2, <1>3

\* An owner's words are there, and the allocator never reads them.
LEMMA OwnWords ==
  ASSUME NEW H, NEW B, NEW L, NEW T, Sys(H, B, L, T), NEW p \in DOMAIN L, NEW a \in Words(p, L[p])
  PROVE  /\ a \in DOMAIN H.mem /\ a \in KeptWords(L, T)
         /\ a \in MapWords(T) \/ Inside(B, Frees(B), a)
<1>1. Rest(H, B, KeptWords(L, T), H, MapWords(T)) /\ Owners(B, L, T)
      /\ (Shape(B, H.commit - 8) \/ DOMAIN B = {})
  BY SysFacts
<1>2. a \in KeptWords(L, T)
  BY DEF KeptWords
<1> QED BY <1>1, <1>2, RestKept, KeptPlaced

\* An owner writes to its object.
LEMMA SysStore ==
  ASSUME NEW H, NEW B, NEW L, NEW T, Sys(H, B, L, T), NEW p \in DOMAIN L,
         NEW ws, DOMAIN ws \subseteq Words(p, L[p]), NEW G, PutWords(H, ws) = G
  PROVE  /\ Sys(G, B, L, T) /\ Brk(G) = Brk(H)
         /\ \A w \in DOMAIN ws : Get(G, w) = ws[w]
         /\ \A a \in DOMAIN H.mem : a \notin DOMAIN ws => Get(G, a) = Get(H, a)
<1> DEFINE D == MapWords(T)
<1>1. Rest(H, B, KeptWords(L, T), H, D) /\ Owners(B, L, T) /\ Heads(H, T) /\ IsHeap(H)
      /\ (\A q \in DOMAIN T : q - 16 \in KeptWords(L, T) /\ q - 8 \in KeptWords(L, T))
      /\ ((Shape(B, H.commit - 8) /\ H.commit - 8 <= Base + Reserve - 8) \/ DOMAIN B = {})
  BY SysFacts
<1>2. \A w \in DOMAIN ws : w \in Words(p, L[p]) /\ w \in DOMAIN H.mem /\ (w \in D \/ Inside(B, Frees(B), w))
  BY OwnWords
<1>3. /\ IsHeap(G) /\ SameFields(H, G) /\ G.free = H.free
      /\ DOMAIN G.mem = DOMAIN H.mem \cup DOMAIN ws
      /\ \A a \in DOMAIN ws : Get(G, a) = ws[a]
      /\ \A a \in DOMAIN H.mem : a \notin DOMAIN ws => Get(G, a) = Get(H, a)
  BY <1>1, PutWordsFacts
<1> HIDE DEF D
<1>4. DOMAIN G.mem = DOMAIN H.mem
  BY <1>2, <1>3
<1>5. Rest(G, B, {}, G, D) /\ Brk(G) = Brk(H)
  <2>1. \A a \in DOMAIN H.mem : a \notin D /\ ~Inside(B, Frees(B), a) => Get(G, a) = Get(H, a)
    BY <1>2, <1>3
  <2>2. D \subseteq DOMAIN H.mem /\ Outside(D)
    BY <1>1, RestFacts
  <2>3. \A a : a \in DOMAIN G.mem <=> (a \in DOMAIN H.mem /\ a \notin D) \/ a \in D
    BY <1>4, <2>2
  <2>4. Kept(G, B, Frees(B), {}, G, D)
    BY DEF Kept
  <2> QED BY <1>1, <1>3, <2>1, <2>2, <2>3, <2>4, FrameRest
<1>6. Heads(G, T)
  <2>1. ASSUME NEW q \in DOMAIN T PROVE Get(G, q - 16) = T[q] /\ Get(G, q - 8) = 3
    <3>1. q - 16 \notin DOMAIN ws /\ q - 8 \notin DOMAIN ws
      BY <1>1, <1>2, HeadsApart
    <3>2. q - 16 \in DOMAIN H.mem /\ q - 8 \in DOMAIN H.mem
      BY <1>1, RestKept
    <3> QED BY <1>1, <1>3, <3>1, <3>2 DEF Heads
  <2> QED BY <2>1 DEF Heads
<1>7. Sys(G, B, L, T)
  <2>1. Rest(G, B, KeptWords(L, T), G, MapWords(T))
    BY <1>1, <1>5, OwnersKept DEF D
  <2> QED BY <1>1, <1>6, <2>1 DEF Sys
<1> QED BY <1>3, <1>5, <1>7

\* Fewer words are kept, too.
LEMMA RestSome ==
  ASSUME NEW H, NEW B, NEW K, NEW o, NEW D, Rest(H, B, K, o, D), NEW M, M \subseteq K
  PROVE  Rest(H, B, M, o, D)
BY DEF Rest, Bare, At, Kept

\* Which kind of object it is, as free and realloc find out.
LEMMA KindOf ==
  ASSUME NEW H, NEW B, NEW L, NEW T, Sys(H, B, L, T), NEW p \in DOMAIN L
  PROVE  /\ p \in DOMAIN T => MmapBit(H, p - 8) = 1 /\ Get(H, p - 16) = T[p]
         /\ p \notin DOMAIN T => /\ MmapBit(H, p - 8) = 0 /\ p - 8 \in Useds(B) /\ p - 8 \in DOMAIN B
                                 /\ H.base # 0 /\ At(H, B, Frees(B), KeptWords(L, T), H, MapWords(T))
                                 /\ BP!NoNeighboursFree(B)
                                 /\ L[p] + 16 <= B[p - 8].size
<1>1. Rest(H, B, KeptWords(L, T), H, MapWords(T)) /\ Owners(B, L, T) /\ Heads(H, T)
  BY SysFacts
<1>2. CASE p \in DOMAIN T
  <2>1. Get(H, p - 8) = 3 /\ Get(H, p - 16) = T[p]
    BY <1>1, <1>2 DEF Heads
  <2>2. (3 \div 2) % 2 = 1
    OBVIOUS
  <2> QED BY <1>2, <2>1, <2>2 DEF MmapBit
<1>3. CASE p \notin DOMAIN T
  <2>1. p - 8 \in Useds(B) /\ p - 8 \in DOMAIN B /\ L[p] + 16 <= B[p - 8].size
    BY <1>1, <1>3 DEF Owners, Useds
  <2>2. H.base # 0
    BY <1>1, <2>1, RestFacts DEF Bare
  <2>3. At(H, B, Frees(B), KeptWords(L, T), H, MapWords(T)) /\ BP!NoNeighboursFree(B)
    BY <1>1, <2>2, RestFacts
  <2>4. Shape(B, H.commit - 8) /\ Tagged(H, B)
    BY <2>3, AtFacts
  <2>5. MmapBit(H, p - 8) = 0
    BY <2>1, <2>4, BlockBits
  <2> QED BY <1>3, <2>1, <2>2, <2>3, <2>5
<1> QED BY <1>2, <1>3

-----------------------------------------------------------------------------
(* What the calls do to what callers hold: free, and mappings. *)

\* Everybody but p finds the same words as before.
Intact(H, G, L, p) == \A q \in DOMAIN L : q # p => \A a \in Words(q, L[q]) : Get(G, a) = Get(H, a)

\* A tiling that ends where the region ended: the region did not move.
LEMMA SameRegion ==
  ASSUME NEW H, NEW B, NEW X, NEW K, NEW o, NEW D, At(H, B, X, K, o, D),
         NEW G, NEW C, NEW M, NEW u, NEW E, At(G, C, Frees(C), M, u, E),
         BP!Good(C, H.commit - 8)
  PROVE  Rest(G, C, M, u, E) /\ Brk(G) = Brk(H) /\ G.commit = H.commit
<1> DEFINE e == H.commit - 8
<1>1. /\ Grounds(H) /\ Grounds(G) /\ H.commit \in Int /\ G.commit \in Int
      /\ FirstBlock + 32 <= e /\ FirstBlock + 32 <= G.commit - 8 /\ Shape(B, e) /\ Shape(C, G.commit - 8)
  BY AtFacts
<1>2. Shape(C, e)
  <2>1. e \in Int /\ e % 16 = 8
    BY <1>1 DEF Shape
  <2> HIDE DEF e
  <2>2. BP!Good(C, e)
    BY DEF e
  <2> QED BY <1>1, <2>1, <2>2 DEF Shape, BP!Good
<1>3. FirstBlock # e /\ FirstBlock # G.commit - 8
  BY <1>1, BaseFacts
<1>4. G.commit - 8 = e
  <2> HIDE DEF e
  <2> QED BY <1>1, <1>2, <1>3, SameEnd
<1>5. G.commit = H.commit
  BY <1>1, <1>4
<1>6. G.base = H.base
  BY <1>1 DEF Grounds
<1> QED BY <1>5, <1>6 DEF Rest, Brk, BP!Good

\* Of what the owners keep, only p's words lie in p's block.
LEMMA InBlock ==
  ASSUME NEW H, NEW B, NEW L, NEW T, Sys(H, B, L, T), NEW p \in DOMAIN L, p \notin DOMAIN T,
         NEW a \in KeptWords(L, T), p - 8 <= a, a < BP!End(B, p - 8)
  PROVE  a \in Words(p, L[p]) /\ a \in Int /\ p <= a /\ a < p + L[p]
<1> DEFINE h == p - 8
           e == H.commit - 8
<1>1. Owners(B, L, T) /\ Shape(B, e) /\ h \in DOMAIN B /\ e \in Int /\ e <= Base + Reserve - 8
  <2>1. Owners(B, L, T) /\ h \in DOMAIN B
    BY SysFacts, KindOf
  <2>2. Shape(B, e) /\ e <= Base + Reserve - 8
    BY <2>1, SysFacts
  <2> QED BY <2>1, <2>2 DEF Shape
<1>2. h \in Int /\ FirstBlock <= h /\ BP!End(B, h) <= e /\ BP!End(B, h) \in Int
  BY <1>1, BlockFacts
<1>3. a \notin MapWords(T)
  <2>1. SUFFICES ASSUME a \in MapWords(T) PROVE FALSE
    OBVIOUS
  <2>2. a \in Int /\ (a < Base \/ Base + Reserve <= a)
    BY <1>1, <2>1, MapOutside DEF Outside
  <2> HIDE DEF h, e
  <2>3. h <= a /\ a < BP!End(B, h)
    BY DEF h
  <2> QED BY <2>2, <2>3, <1>1, <1>2, BaseFacts
<1>4. PICK q \in DOMAIN L : a \in Words(q, L[q])
  <2>1. \A q \in DOMAIN T : a # q - 16 /\ a # q - 8
    <3>1. ASSUME NEW q \in DOMAIN T PROVE a # q - 16 /\ a # q - 8
      <4>1. q \in Int /\ q % 16 = 0 /\ T[q] \in Int /\ T[q] >= 16
        BY <1>1 DEF Owners, IsMapping, IsObject
      <4>2. (q - 16) % 8 = 0 /\ (q - 8) % 8 = 0 /\ q - 16 <= q - 8 /\ q - 8 < (q - 16) + T[q] /\ q - 16 < (q - 16) + T[q]
        BY <4>1
      <4>3. q - 16 \in MapWords(T) /\ q - 8 \in MapWords(T)
        BY <1>1, <4>1, <4>2, MapWordsFacts
      <4> QED BY <4>3, <1>3
    <3> QED BY <3>1
  <2> QED BY <2>1 DEF KeptWords
<1>5. IsObject(q, L[q]) /\ IsObject(p, L[p])
  BY <1>1 DEF Owners
<1>6. a \in Int /\ q <= a /\ a < q + L[q]
  BY <1>4, <1>5, ObjectWords
<1>7. CASE q = p
  BY <1>4, <1>6, <1>7
<1>8. CASE q # p
  <2>1. q \notin DOMAIN T
    <3>1. SUFFICES ASSUME q \in DOMAIN T PROVE FALSE
      OBVIOUS
    <3>2. T[q] \in Int /\ L[q] + 16 <= T[q] /\ q \in Int /\ L[q] \in Int
      BY <1>1, <1>5, <3>1 DEF Owners, IsMapping, IsObject
    <3>3. q - 16 <= a /\ a < (q - 16) + T[q] /\ a % 8 = 0
      BY <1>4, <1>5, <1>6, <3>2, ObjectWords
    <3> QED BY <1>1, <1>3, <1>6, <3>1, <3>3, MapWordsFacts
  <2>2. q - 8 \in DOMAIN B /\ L[q] + 16 <= B[q - 8].size
    BY <1>1, <2>1 DEF Owners, Useds
  <2>3. BP!End(B, q - 8) = (q - 8) + B[q - 8].size /\ B[q - 8].size \in Int
    BY <1>1, <2>2, BlockFacts
  <2>4. q \in Int /\ p \in Int /\ L[q] \in Int
    BY <1>5 DEF IsObject
  <2>5. q - 8 # h
    BY <2>4, <1>8
  <2>6. BP!End(B, q - 8) <= h \/ BP!End(B, h) <= q - 8
    <3> HIDE DEF h, e
    <3> QED BY <1>1, <2>2, <2>5, BlocksApart
  <2> QED BY <2>2, <2>3, <2>4, <2>6, <1>2, <1>6
<1> QED BY <1>7, <1>8

\* free of a pointer into the region
LEMMA SysFreeBlock ==
  ASSUME NEW H, NEW B, NEW L, NEW T, Sys(H, B, L, T), NEW p \in DOMAIN L, p \notin DOMAIN T,
         NEW M, SameBut(L, M, p), p \notin DOMAIN M, NEW G, FreedHeap(H, p) = G,
         NEW C, BP!Released(B, p - 8) = C
  PROVE  Sys(G, C, M, T) /\ Brk(G) = Brk(H) /\ Intact(H, G, L, p)
<1> DEFINE h == p - 8
           e == H.commit - 8
           W == Words(p, L[p])
           K == KeptWords(L, T) \ W
           D == MapWords(T)
<1>1. /\ Owners(B, L, T) /\ Heads(H, T) /\ h \in Useds(B) /\ h \in DOMAIN B
      /\ At(H, B, Frees(B), KeptWords(L, T), H, D) /\ BP!NoNeighboursFree(B)
  BY SysFacts, KindOf
<1>2. Shape(B, e) /\ e \in Int
  BY <1>1, AtFacts DEF Shape
<1>3. h \in Int /\ BP!End(B, h) \in Int /\ h + 32 <= BP!End(B, h) /\ p = h + 8 /\ p \in Int
  <2>1. h \in Int /\ BP!End(B, h) \in Int /\ h + 32 <= BP!End(B, h)
    BY <1>1, <1>2, BlockFacts
  <2>2. p \in Int
    BY <1>1 DEF Owners, IsObject
  <2> QED BY <2>1, <2>2
<1>4. NoneIn(K, h, BP!End(B, h))
  BY InBlock DEF NoneIn
<1>5. At(H, B, Frees(B), K, H, D)
  BY <1>1 DEF At, Kept
<1> HIDE DEF K, W, D
<1>6. At(G, C, Frees(C), K, H, D)
  <2>1. B[h].used
    BY <1>1 DEF Useds
  <2>2. At(FreedHeap(H, h + 8), C, Frees(C), K, H, D)
    <3>1. BP!Released(B, h) = C
      OBVIOUS
    <3> HIDE DEF h
    <3> QED BY <1>1, <1>4, <1>5, <2>1, <3>1, FreedAt
  <2> HIDE DEF h
  <2> QED BY <2>2, <1>3
<1>7. BP!Good(C, e)
  <2>1. BP!Good(B, e)
    BY <1>1, <1>2, GoodShape
  <2> HIDE DEF h
  <2>2. BP!Good(BP!Released(B, h), e)
    BY <1>1, <2>1, BP!ReleaseKeepsGood, RegionOK
  <2> QED BY <2>2 DEF h
<1>8. Rest(G, C, K, H, D) /\ Brk(G) = Brk(H)
  BY <1>5, <1>6, <1>7, SameRegion
<1>9. SameUsed(B, C, {h}) /\ h \notin Useds(C)
  <2>1. UsedIn(B, h, BP!End(B, h), {h})
    <3> HIDE DEF h
    <3> QED BY <1>1, <1>2, OneInside DEF Useds, UsedIn
  <2>2. BP!Freed(B, h, BP!End(B, h)) = C
    BY DEF BP!Released
  <2>3. SameUsed(B, C, {h}) /\ \A g \in Useds(C) : g \in Useds(B) /\ (g < h \/ BP!End(B, h) <= g)
    <3>1. h < BP!End(B, h)
      BY <1>3
    <3> HIDE DEF h
    <3> QED BY <3>1, <1>2, <1>3, <2>1, <2>2, FreedUsed
  <2>4. ~(h < h) /\ ~(BP!End(B, h) <= h)
    BY <1>3
  <2> HIDE DEF h
  <2> QED BY <2>3, <2>4
<1>10. Owners(C, M, T)
  BY <1>1, <1>3, <1>9, OwnersInRegion
<1>11. \A q \in DOMAIN T : q - 16 \in K /\ q - 8 \in K
  <2>1. \A q \in DOMAIN T : q - 16 \in KeptWords(L, T) /\ q - 8 \in KeptWords(L, T)
    BY SysFacts
  <2>2. (Shape(B, e) /\ e <= Base + Reserve - 8) \/ DOMAIN B = {}
    BY SysFacts
  <2> HIDE DEF e
  <2>3. \A q \in DOMAIN T : q - 16 \notin W /\ q - 8 \notin W
    BY <1>1, <2>2, HeadsApart DEF W
  <2> QED BY <2>1, <2>3 DEF K
<1>12. Sys(G, C, M, T)
  BY <1>1, <1>8, <1>10, <1>11, SysFrom DEF D
<1>13. Intact(H, G, L, p)
  <2>1. ASSUME NEW q \in DOMAIN L, q # p, NEW a \in Words(q, L[q]) PROVE Get(G, a) = Get(H, a)
    <3>1. a \in KeptWords(L, T)
      BY OwnWords
    <3>2. a \notin W
      <4>1. (Shape(B, e) /\ e <= Base + Reserve - 8) \/ DOMAIN B = {}
        BY SysFacts
      <4> HIDE DEF e
      <4>2. p + L[p] <= q \/ q + L[q] <= p
        BY <1>1, <2>1, <4>1, ObjectsApart
      <4>3. IsObject(q, L[q]) /\ IsObject(p, L[p])
        BY <1>1 DEF Owners
      <4>4. a \in Int /\ q <= a /\ a < q + L[q]
        BY <4>3, ObjectWords
      <4>5. a \in W => p <= a /\ a < p + L[p]
        BY <4>3, ObjectWords DEF W
      <4>6. p \in Int /\ q \in Int /\ L[p] \in Int /\ L[q] \in Int
        BY <4>3 DEF IsObject
      <4> QED BY <4>2, <4>4, <4>5, <4>6
    <3>3. a \in K
      BY <3>1, <3>2 DEF K
    <3> QED BY <3>3, <1>8, RestKept
  <2> QED BY <2>1 DEF Intact
<1> QED BY <1>8, <1>12, <1>13

\* page_release takes the words of the mapping and no others.
LEMMA LargeFreeFacts ==
  ASSUME NEW H, IsHeap(H), NEW b, NEW t, Get(H, b) = t, NEW G, LargeFree(H, b) = G
  PROVE  /\ IsHeap(G) /\ SameFields(H, G) /\ G.free = H.free
         /\ \A a : a \in DOMAIN G.mem <=> a \in DOMAIN H.mem /\ (a < b \/ b + t <= a)
         /\ \A a \in DOMAIN G.mem : Get(G, a) = Get(H, a)
<1> DEFINE left == {x \in DOMAIN H.mem : x < b \/ b + Get(H, b) <= x}
           m == [w \in left |-> H.mem[w]]
<1>1. G = [mem |-> m, base |-> H.base, commit |-> H.commit, reserve |-> H.reserve,
           free |-> H.free, ready |-> H.ready]
  BY DEF IsHeap, LargeFree
<1>2. DOMAIN m = left /\ (\A a \in left : m[a] = H.mem[a]) /\ m = [w \in DOMAIN m |-> m[w]]
  OBVIOUS
<1>3. \A a : a \in left <=> a \in DOMAIN H.mem /\ (a < b \/ b + t <= a)
  OBVIOUS
<1> HIDE DEF m, left
<1> QED BY <1>1, <1>2, <1>3 DEF IsHeap, SameFields, Get

\* A mapped word lies in a mapping or in the region.
LEMMA MemWords ==
  ASSUME NEW H, NEW B, NEW K, NEW o, NEW D, Rest(H, B, K, o, D), NEW a \in DOMAIN H.mem
  PROVE  a \in D \/ (a \in Int /\ a % 8 = 0 /\ Base <= a /\ a < Base + Reserve)
<1>1. CASE Bare(H, B, K, o, D)
  BY <1>1 DEF Bare
<1>2. CASE At(H, B, Frees(B), K, o, D)
  <2>1. DOMAIN H.mem = {x \in Base .. H.commit - 8 : x % 8 = 0} \cup D
    BY <1>2 DEF At
  <2>2. H.commit \in Int /\ H.commit <= Base + Reserve
    BY <1>2, AtFacts
  <2> QED BY <2>1, <2>2, BaseFacts
<1> QED BY <1>1, <1>2 DEF Rest

\* free of a large object
LEMMA SysFreeMapping ==
  ASSUME NEW H, NEW B, NEW L, NEW T, Sys(H, B, L, T), NEW p \in DOMAIN T,
         NEW M, SameBut(L, M, p), p \notin DOMAIN M, NEW U, SameBut(T, U, p), p \notin DOMAIN U,
         NEW G, FreedHeap(H, p) = G
  PROVE  Sys(G, B, M, U) /\ Brk(G) = Brk(H) /\ Intact(H, G, L, p)
<1> DEFINE b == p - 16
           D == MapWords(T)
           E == MapWords(U)
<1>1. /\ Rest(H, B, KeptWords(L, T), H, D) /\ Owners(B, L, T) /\ Heads(H, T) /\ IsHeap(H)
      /\ Get(H, b) = T[p] /\ MmapBit(H, p - 8) = 1 /\ p \in DOMAIN L
      /\ (Shape(B, H.commit - 8) /\ H.commit - 8 <= Base + Reserve - 8) \/ DOMAIN B = {}
  <2>1. p \in DOMAIN L
    BY SysFacts DEF Owners
  <2> QED BY <2>1, SysFacts, KindOf
<1>2. IsMapping(b, T[p]) /\ p \in Int /\ b \in Int /\ T[p] \in Int /\ T[p] >= 16
      /\ (b + T[p] <= Base \/ Base + Reserve <= b)
  <2>1. IsMapping(b, T[p]) /\ IsObject(p, L[p])
    BY <1>1 DEF Owners
  <2> QED BY <2>1 DEF IsMapping, IsObject
<1>3. LargeFree(H, b) = G
  BY <1>1 DEF FreedHeap
<1>4. /\ IsHeap(G) /\ SameFields(H, G) /\ G.free = H.free
      /\ \A a : a \in DOMAIN G.mem <=> a \in DOMAIN H.mem /\ (a < b \/ b + T[p] <= a)
      /\ \A a \in DOMAIN G.mem : Get(G, a) = Get(H, a)
  <2> HIDE DEF b
  <2> QED BY <1>1, <1>3, LargeFreeFacts
<1>5. Owners(B, M, U)
  <2>1. p - 8 \notin Useds(B)
    <3>1. SUFFICES ASSUME p - 8 \in Useds(B) PROVE FALSE
      OBVIOUS
    <3>2. (p - 8) + 8 = p
      BY <1>2
    <3>3. (p - 8) + 8 \notin DOMAIN T
      BY <1>1, <3>1 DEF Owners
    <3> QED BY <3>2, <3>3
  <2> QED BY <2>1, <1>1, <1>2, OwnersMapped
<1>6. \A q \in DOMAIN T : q # p => (q - 16) + T[q] <= b \/ b + T[p] <= q - 16
  BY <1>1 DEF Owners
<1>7. \A q \in DOMAIN T : q - 16 \in Int /\ T[q] \in Int /\ (q \in DOMAIN U <=> q # p)
                          /\ (q # p => U[q] = T[q])
  BY <1>1 DEF Owners, IsMapping, SameBut
<1>8. \A q \in DOMAIN U : q \in DOMAIN T /\ q # p /\ U[q] = T[q]
  BY DEF SameBut
<1>9. ASSUME NEW a PROVE a \in E <=> a \in D /\ (a < b \/ b + T[p] <= a)
  <2>1. a \in E => a \in Int /\ a % 8 = 0 /\ \E q \in DOMAIN U : q - 16 <= a /\ a < (q - 16) + U[q]
    BY <1>5, MapWordsFacts
  <2>2. a \in D <=> a \in Int /\ a % 8 = 0 /\ \E q \in DOMAIN T : q - 16 <= a /\ a < (q - 16) + T[q]
    BY <1>1, MapWordsFacts
  <2>3. a \in E <=> a \in Int /\ a % 8 = 0 /\ \E q \in DOMAIN U : q - 16 <= a /\ a < (q - 16) + U[q]
    BY <1>5, MapWordsFacts
  <2> HIDE DEF b, D, E
  <2>4. ASSUME a \in E PROVE a \in D /\ (a < b \/ b + T[p] <= a)
    <3>1. PICK q \in DOMAIN U : q - 16 <= a /\ a < (q - 16) + U[q]
      BY <2>1, <2>4
    <3>2. q \in DOMAIN T /\ q # p /\ U[q] = T[q]
      BY <1>8
    <3>3. (q - 16) + T[q] <= b \/ b + T[p] <= q - 16
      BY <1>6, <3>2
    <3>4. a \in Int /\ q - 16 \in Int /\ T[q] \in Int
      BY <1>7, <2>1, <2>4, <3>2
    <3>5. a < b \/ b + T[p] <= a
      BY <3>1, <3>2, <3>3, <3>4, <1>2
    <3> QED BY <2>1, <2>2, <2>4, <3>1, <3>2, <3>5
  <2>5. ASSUME a \in D, a < b \/ b + T[p] <= a PROVE a \in E
    <3>1. PICK q \in DOMAIN T : q - 16 <= a /\ a < (q - 16) + T[q]
      BY <2>2, <2>5
    <3>2. q # p
      <4>1. SUFFICES ASSUME q = p PROVE FALSE
        OBVIOUS
      <4>2. b <= a /\ a < b + T[p] /\ a \in Int
        BY <3>1, <4>1, <2>2, <2>5 DEF b
      <4> QED BY <4>2, <2>5, <1>2
    <3>3. q \in DOMAIN U /\ U[q] = T[q]
      BY <1>7, <3>2
    <3> QED BY <2>2, <2>3, <2>5, <3>1, <3>3
  <2> QED BY <2>4, <2>5
<1>10. ASSUME NEW a \in DOMAIN H.mem, a \notin D PROVE a < b \/ b + T[p] <= a
  <2>1. a \in Int /\ Base <= a /\ a < Base + Reserve
    BY <1>1, <1>10, MemWords
  <2> HIDE DEF b
  <2> QED BY <2>1, <1>2, BaseFacts
<1>11. D \subseteq DOMAIN H.mem
  BY <1>1, RestFacts
<1> HIDE DEF b
<1>12. Rest(G, B, {}, G, E) /\ Brk(G) = Brk(H)
  <2>1. \A a : a \in DOMAIN G.mem <=> (a \in DOMAIN H.mem /\ a \notin D) \/ a \in E
    BY <1>4, <1>9, <1>10, <1>11
  <2>2. \A a \in DOMAIN H.mem : a \notin D /\ ~Inside(B, Frees(B), a) => Get(G, a) = Get(H, a)
    BY <1>4, <1>10
  <2>3. Outside(E)
    BY <1>5, MapOutside
  <2>4. Kept(G, B, Frees(B), {}, G, E)
    BY DEF Kept
  <2> HIDE DEF D, E
  <2> QED BY <1>1, <1>4, <2>1, <2>2, <2>3, <2>4, FrameRest
<1>13. Rest(G, B, KeptWords(M, U), G, E)
  BY <1>5, <1>12, OwnersKept
<1>14. ASSUME NEW a \in DOMAIN H.mem, a < b \/ b + T[p] <= a PROVE Get(G, a) = Get(H, a)
  BY <1>4, <1>14
<1>15. Heads(G, U)
  <2>1. ASSUME NEW q \in DOMAIN U PROVE Get(G, q - 16) = U[q] /\ Get(G, q - 8) = 3
    <3>1. q \in DOMAIN T /\ q # p /\ U[q] = T[q]
      BY <1>8
    <3>2. q - 16 \in KeptWords(L, T) /\ q - 8 \in KeptWords(L, T)
      BY <3>1, SysFacts
    <3>3. q - 16 \in DOMAIN H.mem /\ q - 8 \in DOMAIN H.mem
      BY <3>2, <1>1, RestKept
    <3>4. IsMapping(q - 16, T[q]) /\ IsObject(q, L[q])
      BY <3>1, <1>1 DEF Owners
    <3>5. q \in Int /\ T[q] \in Int /\ T[q] >= 16
      BY <3>4 DEF IsMapping, IsObject
    <3>6. (q - 16) + T[q] <= b \/ b + T[p] <= q - 16
      BY <1>6, <3>1
    <3>7. (q - 16 < b \/ b + T[p] <= q - 16) /\ (q - 8 < b \/ b + T[p] <= q - 8)
      BY <3>5, <3>6, <1>2
    <3> QED BY <1>1, <1>14, <3>1, <3>3, <3>7 DEF Heads
  <2> QED BY <2>1 DEF Heads
<1>16. Intact(H, G, L, p)
  <2>1. ASSUME NEW q \in DOMAIN L, q # p, NEW a \in Words(q, L[q]) PROVE Get(G, a) = Get(H, a)
    <3>1. a \in DOMAIN H.mem
      BY OwnWords
    <3>2. IsObject(q, L[q])
      BY <1>1 DEF Owners
    <3>3. a \in Int /\ q <= a /\ a < q + L[q] /\ q \in Int /\ L[q] \in Nat
      BY <3>2, ObjectWords DEF IsObject
    <3>4. a < b \/ b + T[p] <= a
      <4>1. CASE q \in DOMAIN T
        <5>1. (q - 16) + T[q] <= b \/ b + T[p] <= q - 16
          BY <1>6, <2>1, <4>1
        <5>2. L[q] + 16 <= T[q] /\ T[q] \in Int
          BY <1>1, <4>1 DEF Owners, IsMapping
        <5> QED BY <5>1, <5>2, <3>3, <1>2
      <4>2. CASE q \notin DOMAIN T
        <5>1. q - 8 \in DOMAIN B /\ L[q] + 16 <= B[q - 8].size
          BY <1>1, <4>2 DEF Owners, Useds
        <5>2. Shape(B, H.commit - 8) /\ H.commit - 8 <= Base + Reserve - 8
          BY <1>1, <5>1
        <5>3. /\ FirstBlock <= q - 8 /\ BP!End(B, q - 8) = (q - 8) + B[q - 8].size
              /\ BP!End(B, q - 8) <= H.commit - 8 /\ B[q - 8].size \in Int
          BY <5>1, <5>2, BlockFacts
        <5>4. H.commit - 8 \in Int
          BY <5>2 DEF Shape
        <5> QED BY <5>1, <5>2, <5>3, <5>4, <3>3, <1>2, BaseFacts
      <4> QED BY <4>1, <4>2
    <3> QED BY <3>1, <3>4, <1>14
  <2> QED BY <2>1 DEF Intact
<1> QED BY <1>5, <1>12, <1>13, <1>15, <1>16 DEF Sys

\* A mapping, as LargeOutcomes makes it.
Mapped(H, b, t) == Put(Put(PutWords(H, Filled(b, t, Junk)), b, t), b + 8, 3)

\* A fresh mapping: its two words, and nothing else changed.
LEMMA MappedFacts ==
  ASSUME NEW H, IsHeap(H), NEW b, NEW t, IsMapping(b, t), NEW G, Mapped(H, b, t) = G
  PROVE  /\ IsHeap(G) /\ SameFields(H, G) /\ G.free = H.free
         /\ DOMAIN G.mem = DOMAIN H.mem \cup Words(b, t)
         /\ Get(G, b) = t /\ Get(G, b + 8) = 3
         /\ \A a \in DOMAIN H.mem : a \notin Words(b, t) => Get(G, a) = Get(H, a)
<1> DEFINE H1 == PutWords(H, Filled(b, t, Junk))
           H2 == Put(H1, b, t)
<1>1. DOMAIN Filled(b, t, Junk) = Words(b, t)
  BY FilledFacts
<1>2. b \in Words(b, t) /\ b + 8 \in Words(b, t) /\ b # b + 8
  <2>1. b \in Int /\ b % 16 = 0 /\ t \in Int /\ 16 <= t
    BY DEF IsMapping
  <2>2. b \in Int /\ b <= b /\ b < b + t /\ b % 8 = 0 /\ b + 8 \in Int /\ b <= b + 8 /\ b + 8 < b + t
        /\ (b + 8) % 8 = 0 /\ b # b + 8
    BY <2>1
  <2> QED BY <2>2, MappingWords
<1>3. /\ IsHeap(H1) /\ SameFields(H, H1) /\ H1.free = H.free
      /\ DOMAIN H1.mem = DOMAIN H.mem \cup Words(b, t)
      /\ \A a \in DOMAIN H.mem : a \notin Words(b, t) => Get(H1, a) = Get(H, a)
  <2> DEFINE ws == Filled(b, t, Junk)
  <2>1. DOMAIN ws = Words(b, t)
    BY <1>1
  <2>2. PutWords(H, ws) = H1
    OBVIOUS
  <2> HIDE DEF ws, H1
  <2>3. LET K == PutWords(H, ws) IN
        /\ IsHeap(K) /\ SameFields(H, K) /\ K.free = H.free
        /\ DOMAIN K.mem = DOMAIN H.mem \cup DOMAIN ws
        /\ \A a \in DOMAIN H.mem : a \notin DOMAIN ws => Get(K, a) = Get(H, a)
    BY PutWordsFacts
  <2> QED BY <2>1, <2>2, <2>3
<1>4. G = Put(H2, b + 8, 3)
  BY DEF Mapped
<1> HIDE DEF H1
<1>5. Wrote(H1, H2, {b}) /\ H2.free = H1.free /\ Get(H2, b) = t
  BY <1>2, <1>3, PutFacts
<1> HIDE DEF H2
<1>6. IsHeap(H2) /\ DOMAIN H2.mem = DOMAIN H1.mem
  BY <1>5 DEF Wrote
<1>7. Wrote(H2, G, {b + 8}) /\ G.free = H2.free /\ Get(G, b + 8) = 3
  BY <1>2, <1>3, <1>4, <1>6, PutFacts
<1>8. Get(G, b) = t
  BY <1>2, <1>3, <1>5, <1>6, <1>7 DEF Wrote
<1>9. \A a \in DOMAIN H.mem : a \notin Words(b, t) => Get(G, a) = Get(H, a)
  BY <1>2, <1>3, <1>5, <1>6, <1>7 DEF Wrote
<1>10. SameFields(H, G) /\ IsHeap(G) /\ DOMAIN G.mem = DOMAIN H.mem \cup Words(b, t)
  BY <1>3, <1>5, <1>6, <1>7 DEF Wrote, SameFields
<1> QED BY <1>3, <1>5, <1>7, <1>8, <1>9, <1>10

\* Nothing is mapped between b and b + t.
FreeSpace(H, b, t) == \A w \in DOMAIN H.mem : w < b \/ b + t <= w

\* A mapping goes to one new pointer.
LEMMA SysMap ==
  ASSUME NEW H, NEW B, NEW L, NEW T, Sys(H, B, L, T), NEW b \in Int, NEW t, IsMapping(b, t),
         FreeSpace(H, b, t), NEW p \in Int, b + 16 = p, NEW n, IsObject(p, n), n + 16 <= t,
         NEW M, SameBut(L, M, p), p \in DOMAIN M, M[p] = n,
         NEW U, SameBut(T, U, p), p \in DOMAIN U, U[p] = t,
         NEW G, Mapped(H, b, t) = G
  PROVE  /\ Sys(G, B, M, U) /\ Brk(G) = Brk(H) /\ Intact(H, G, L, p) /\ p \notin DOMAIN L
<1> DEFINE D == MapWords(T)
           E == MapWords(U)
<1>1. /\ Rest(H, B, KeptWords(L, T), H, D) /\ Owners(B, L, T) /\ Heads(H, T)
      /\ IsHeap(H)
      /\ (Shape(B, H.commit - 8) /\ H.commit - 8 <= Base + Reserve - 8) \/ DOMAIN B = {}
  BY SysFacts
<1>2. /\ b \in Int /\ b > 0 /\ b % 16 = 0 /\ t \in Int /\ 16 <= t /\ t % 16 = 0
      /\ p - 16 = b /\ p - 8 = b + 8
  BY DEF IsMapping
<1>3. /\ IsHeap(G) /\ SameFields(H, G) /\ G.free = H.free
      /\ DOMAIN G.mem = DOMAIN H.mem \cup Words(b, t)
      /\ Get(G, b) = t /\ Get(G, b + 8) = 3
      /\ \A a \in DOMAIN H.mem : a \notin Words(b, t) => Get(G, a) = Get(H, a)
  BY <1>1, MappedFacts
<1>4. ASSUME NEW a \in DOMAIN H.mem PROVE a \notin Words(b, t) /\ Get(G, a) = Get(H, a)
  <2>1. a < b \/ b + t <= a
    BY DEF FreeSpace
  <2>2. a \in Words(b, t) => a \in Int /\ b <= a /\ a < b + t
    BY MappingWords
  <2>3. a \notin Words(b, t)
    BY <2>1, <2>2, <1>2
  <2> QED BY <2>3, <1>3
<1>5. p - 8 \notin Useds(B)
  <2>1. SUFFICES ASSUME p - 8 \in Useds(B) PROVE FALSE
    OBVIOUS
  <2>2. p - 8 \in DOMAIN B
    BY <2>1 DEF Useds
  <2>3. Shape(B, H.commit - 8) /\ H.commit - 8 <= Base + Reserve - 8
    BY <1>1, <2>2
  <2>4. /\ FirstBlock <= p - 8 /\ p - 8 + 32 <= BP!End(B, p - 8)
        /\ BP!End(B, p - 8) <= H.commit - 8 /\ BP!End(B, p - 8) \in Int
    BY <2>2, <2>3, BlockFacts
  <2>5. H.commit - 8 \in Int
    BY <2>3 DEF Shape
  <2>6. b + t <= Base \/ Base + Reserve <= b
    BY DEF IsMapping
  <2> QED BY <2>3, <2>4, <2>5, <2>6, <1>2, BaseFacts
<1>6. ASSUME NEW q \in DOMAIN T
      PROVE  q \in Int /\ T[q] \in Int /\ ((q - 16) + T[q] <= b \/ b + t <= q - 16)
  <2>1. IsMapping(q - 16, T[q])
    BY <1>1 DEF Owners
  <2>2. q \in Int /\ T[q] \in Int /\ T[q] >= 16 /\ (q - 16) % 16 = 0
    <3>1. q \in DOMAIN L /\ IsObject(q, L[q])
      BY <1>1 DEF Owners
    <3> QED BY <2>1, <3>1 DEF IsMapping, IsObject
  <2>3. \A a \in Int : a % 8 = 0 /\ q - 16 <= a /\ a < (q - 16) + T[q] => a \in DOMAIN H.mem
    <3>1. ASSUME NEW a \in Int, a % 8 = 0, q - 16 <= a, a < (q - 16) + T[q] PROVE a \in DOMAIN H.mem
      <4>1. a \in D
        BY <3>1, <1>1, MapWordsFacts
      <4>2. D \subseteq DOMAIN H.mem
        BY <1>1, RestFacts
      <4> QED BY <4>1, <4>2
    <3> QED BY <3>1
  <2>4. q - 16 \in DOMAIN H.mem
    BY <2>2, <2>3
  <2>5. q - 16 < b \/ b + t <= q - 16
    BY <2>4 DEF FreeSpace
  <2>6. ~(q - 16 <= b /\ b < (q - 16) + T[q])
    <3>1. SUFFICES ASSUME q - 16 <= b, b < (q - 16) + T[q] PROVE FALSE
      OBVIOUS
    <3>2. b \in DOMAIN H.mem
      BY <2>3, <3>1, <1>2
    <3>3. b < b \/ b + t <= b
      BY <3>2 DEF FreeSpace
    <3> QED BY <3>3, <1>2
  <2> QED BY <2>2, <2>5, <2>6, <1>2
<1>7. p \notin DOMAIN T /\ p \notin DOMAIN L
  <2>1. p \notin DOMAIN T
    <3>1. SUFFICES ASSUME p \in DOMAIN T PROVE FALSE
      OBVIOUS
    <3>2. (p - 16) + T[p] <= b \/ b + t <= p - 16
      BY <1>6, <3>1
    <3>3. IsMapping(p - 16, T[p])
      BY <1>1, <3>1 DEF Owners
    <3> QED BY <3>2, <3>3, <1>2 DEF IsMapping
  <2> QED BY <2>1, <1>1, <1>5 DEF Owners
<1>8. Owners(B, M, U)
  <2>1. \A q \in DOMAIN T : q # p /\ p \in DOMAIN U =>
            (q - 16) + T[q] <= p - 16 \/ (p - 16) + U[p] <= q - 16
    BY <1>6, <1>2
  <2>2. p \in DOMAIN U => IsObject(p, M[p]) /\ IsMapping(p - 16, U[p]) /\ M[p] + 16 <= U[p]
    BY <1>2
  <2> QED BY <1>1, <1>5, <2>1, <2>2, OwnersMapped
<1>9. \A q : q \in DOMAIN U <=> q \in DOMAIN T \/ q = p
  BY DEF SameBut
<1>10. \A q \in DOMAIN T : U[q] = T[q]
  BY <1>7 DEF SameBut
<1>11. ASSUME NEW a PROVE a \in E <=> a \in D \/ a \in Words(b, t)
  <2>1. a \in E <=> \E q \in DOMAIN U : a \in Words(q - 16, U[q])
    BY <1>8, MapWordsFacts
  <2>2. a \in D <=> \E q \in DOMAIN T : a \in Words(q - 16, T[q])
    BY <1>1, MapWordsFacts
  <2> QED BY <1>2, <1>9, <1>10, <2>1, <2>2
<1>12. D \subseteq DOMAIN H.mem
  BY <1>1, RestFacts
<1>13. Rest(G, B, {}, G, E) /\ Brk(G) = Brk(H)
  <2>1. \A a : a \in DOMAIN G.mem <=> (a \in DOMAIN H.mem /\ a \notin D) \/ a \in E
    BY <1>3, <1>11, <1>12
  <2>2. \A a \in DOMAIN H.mem : a \notin D /\ ~Inside(B, Frees(B), a) => Get(G, a) = Get(H, a)
    BY <1>4
  <2>3. Outside(E)
    BY <1>8, MapOutside
  <2>4. Kept(G, B, Frees(B), {}, G, E)
    BY DEF Kept
  <2> HIDE DEF D, E
  <2> QED BY <1>1, <1>3, <2>1, <2>2, <2>3, <2>4, FrameRest
<1>14. Rest(G, B, KeptWords(M, U), G, E)
  BY <1>8, <1>13, OwnersKept
<1>15. Heads(G, U)
  <2>1. ASSUME NEW q \in DOMAIN U PROVE Get(G, q - 16) = U[q] /\ Get(G, q - 8) = 3
    <3>1. CASE q = p
      BY <3>1, <1>2, <1>3
    <3>2. CASE q # p
      <4>1. q \in DOMAIN T /\ U[q] = T[q]
        BY <1>9, <1>10, <3>2
      <4>2. q - 16 \in KeptWords(L, T) /\ q - 8 \in KeptWords(L, T)
        BY <4>1, SysFacts
      <4>3. q - 16 \in DOMAIN H.mem /\ q - 8 \in DOMAIN H.mem
        BY <4>2, <1>1, RestKept
      <4> QED BY <1>1, <1>4, <4>1, <4>3 DEF Heads
    <3> QED BY <3>1, <3>2
  <2> QED BY <2>1 DEF Heads
<1>16. Intact(H, G, L, p)
  <2>1. ASSUME NEW q \in DOMAIN L, q # p, NEW a \in Words(q, L[q]) PROVE Get(G, a) = Get(H, a)
    BY <1>4, OwnWords
  <2> QED BY <2>1 DEF Intact
<1> QED BY <1>7, <1>8, <1>13, <1>14, <1>15, <1>16 DEF Sys

-----------------------------------------------------------------------------
(* malloc *)

\* A region at rest, set up or not, is a tiling of aligned blocks.
Settles(B, e) == BP!Good(B, e) /\ Aligned(B) /\ IsFcn(B) /\ e \in Int /\ e % 16 = 8 /\ FirstBlock <= e

\* A region that is set up,
LEMMA ShapeSettles ==
  ASSUME NEW B, NEW e, Shape(B, e), BP!NoNeighboursFree(B), FirstBlock <= e
  PROVE  Settles(B, e)
<1>1. BP!Good(B, e)
  BY GoodShape
<1> QED BY <1>1 DEF Settles, Shape, IsFcn

\* and one that may not be.
LEMMA RestSettles ==
  ASSUME NEW H, NEW B, NEW K, NEW o, NEW D, Rest(H, B, K, o, D)
  PROVE  /\ Settles(B, Brk(H)) /\ Brk(H) <= Base + Reserve - 8
         /\ \/ DOMAIN B = {} /\ Brk(H) = FirstBlock /\ H.base = 0
            \/ /\ Shape(B, Brk(H)) /\ Brk(H) = H.commit - 8 /\ H.base = Base /\ H.base # 0
               /\ FirstBlock + 32 <= Brk(H)
<1>1. CASE Bare(H, B, K, o, D)
  <2>1. DOMAIN B = {} /\ H.base = 0 /\ IsFcn(B)
    BY <1>1 DEF Bare
  <2>2. Brk(H) = FirstBlock
    BY <2>1 DEF Brk
  <2>3. FirstBlock \in Int /\ FirstBlock % 16 = 8 /\ FirstBlock <= FirstBlock /\ FirstBlock <= Base + Reserve - 8
    BY BaseFacts
  <2>4. BP!Good(B, FirstBlock)
    BY <2>1, <2>3 DEF BP!Good, BP!Tiles, BP!NoNeighboursFree, BP!HoldsLinks
  <2> QED BY <2>1, <2>2, <2>3, <2>4 DEF Settles, Aligned
<1>2. CASE At(H, B, Frees(B), K, o, D) /\ BP!NoNeighboursFree(B)
  <2>1. /\ Grounds(H) /\ Shape(B, H.commit - 8) /\ FirstBlock + 32 <= H.commit - 8
        /\ H.commit <= Base + Reserve /\ H.commit \in Int
    BY <1>2, AtFacts
  <2>2. H.base = Base /\ H.base # 0
    BY <2>1, BaseFacts DEF Grounds
  <2>3. Brk(H) = H.commit - 8
    BY <2>2 DEF Brk
  <2>4. FirstBlock <= H.commit - 8 /\ H.commit - 8 <= Base + Reserve - 8
    BY <2>1, BaseFacts
  <2> QED BY <1>2, <2>1, <2>2, <2>3, <2>4, ShapeSettles
<1> QED BY <1>1, <1>2 DEF Rest

\* Growing a region at rest, set up or not, by one free block.
LEMMA GrownShape ==
  ASSUME NEW B, NEW e \in Int, NEW f \in Int, NEW C, Settles(B, e), e + 32 <= f, f % 16 = 8,
         BP!Freed(B, e, f) = C
  PROVE  Shape(C, f) /\ BP!NoNeighboursFree(C) /\ SameUsed(B, C, {}) /\ Settles(C, f)
<1> DEFINE l == BP!Lower(B, e)
           T == FreeOne(l, f)
<1>1. BP!Good(B, e) /\ Aligned(B) /\ IsFcn(B) /\ e % 16 = 8 /\ FirstBlock <= e
  BY DEF Settles
<1>2. BP!Good(C, f)
  <2>1. f >= e /\ f = (IF f >= e THEN f ELSE e) /\ FirstBlock <= e /\ e + 32 <= f
    BY <1>1
  <2>2. BP!Good(BP!Freed(B, e, f), f)
    BY <1>1, <2>1, BP!FreedGood, RegionOK
  <2> QED BY <2>2
<1>3. ASSUME NEW g \in DOMAIN B
      PROVE  g \in Int /\ BP!End(B, g) \in Int /\ g < BP!End(B, g) /\ BP!End(B, g) <= e /\ FirstBlock <= g
  BY <1>1, BP!EndIsBoundary, RegionOK
<1>4. BP!Upper(B, f) = f
  <2>1. f \notin DOMAIN B
    <3>1. SUFFICES ASSUME f \in DOMAIN B PROVE FALSE
      OBVIOUS
    <3>2. f < BP!End(B, f) /\ BP!End(B, f) <= e /\ BP!End(B, f) \in Int
      BY <1>3, <3>1
    <3> QED BY <3>2
  <2> QED BY <2>1 DEF BP!Upper, BP!IsFree
<1>5. (l = e) \/ (l \in DOMAIN B /\ BP!IsFree(B, l) /\ BP!End(B, l) = e)
  BY DEF BP!Lower
<1>6. BP!Retile(B, l, f, T) = C
  BY <1>4, Zenon DEF BP!Freed, FreeOne
<1> HIDE DEF l
<1>7. l \in Int /\ l <= e /\ l % 16 = 8 /\ l + 32 <= f
  BY <1>1, <1>3, <1>5 DEF Aligned
<1>8. IsOne(T, l, f, FALSE)
  <2>1. T = BP!One(l, f, FALSE)
    BY DEF FreeOne
  <2> HIDE DEF T
  <2> QED BY <2>1, <1>7, OneParts
<1> HIDE DEF T
<1>9. /\ \A h : h \in DOMAIN T <=> h = l
      /\ T[l].used = FALSE /\ Aligned(T)
  BY <1>8 DEF IsOne
<1>10. Within(T, l, f)
  BY <1>7, <1>9 DEF Within
<1>11. UsedIn(B, l, f, {})
  <2>1. ASSUME NEW g \in Useds(B), l <= g, g < f PROVE FALSE
    <3>1. g \in DOMAIN B /\ B[g].used
      BY DEF Useds
    <3>2. g < e /\ g \in Int
      BY <1>3, <3>1
    <3>3. l \in DOMAIN B /\ BP!IsFree(B, l) /\ BP!End(B, l) = e
      BY <1>5, <1>7, <2>1, <3>2
    <3>4. l # g
      BY <3>1, <3>3 DEF BP!IsFree
    <3>5. l < g
      BY <1>7, <2>1, <3>2, <3>4
    <3>6. BP!End(B, l) <= g
      BY <1>1, <3>1, <3>3, <3>5 DEF BP!Good, BP!Tiles
    <3> QED BY <3>2, <3>3, <3>6
  <2> QED BY <2>1 DEF UsedIn
<1>12. SameUsed(B, C, {}) /\ Retiles(C, B, l, f, T)
  <2>1. Useds(T) \subseteq {}
    BY <1>9 DEF Useds
  <2>2. DOMAIN B \subseteq Int
    BY <1>3
  <2> QED BY <2>1, <2>2, <1>6, <1>7, <1>10, <1>11, RetileUsed
<1>13. Aligned(C)
  <2>1. ASSUME NEW h \in DOMAIN C PROVE h % 16 = 8 /\ C[h].size % 16 = 0
    <3>1. CASE h \in DOMAIN T
      <4>1. C[h] = T[h]
        BY <1>12, <3>1 DEF Retiles
      <4> QED BY <4>1, <3>1, <1>9 DEF Aligned
    <3>2. CASE h \notin DOMAIN T
      <4>1. h \in DOMAIN B /\ C[h] = B[h]
        BY <1>12, <3>2 DEF Retiles
      <4> QED BY <4>1, <1>1 DEF Aligned
    <3> QED BY <3>1, <3>2
  <2> QED BY <2>1 DEF Aligned
<1>14. Shape(C, f) /\ BP!NoNeighboursFree(C)
  <2>1. IsFcn(C)
    BY <1>12 DEF Retiles
  <2>2. BP!Tiles(C, FirstBlock, f) /\ BP!HoldsLinks(C) /\ BP!NoNeighboursFree(C)
    BY <1>2 DEF BP!Good
  <2> QED BY <2>1, <2>2, <1>13 DEF Shape, IsFcn
<1>15. FirstBlock <= f
  BY <1>1, BaseFacts
<1> QED BY <1>12, <1>14, <1>15, ShapeSettles

\* The used blocks stay, and stay but for S.
LEMMA SameUsedTwice ==
  ASSUME NEW B, NEW C, NEW D, NEW S, SameUsed(B, C, {}), SameUsed(C, D, S)
  PROVE  SameUsed(B, D, S)
BY DEF SameUsed

\* A block is taken: it was no used one, the others stay.
LEMMA TookUsed ==
  ASSUME NEW B, NEW e \in Int, NEW C, NEW f \in Int, NEW need \in Int, NEW h, Settles(B, e), 32 <= need,
         f % 16 = 8, Took(B, e, C, f, need, h)
  PROVE  /\ SameUsed(B, C, {h}) /\ h \notin Useds(B) /\ h \in Useds(C)
         /\ need <= C[h].size /\ C[h].size \in Int
<1>1. CASE TookHere(B, e, C, f, need, h)
  <2>1. BP!Fits(B, h, need) /\ BP!Place(B, h, need) = C
    BY <1>1 DEF TookHere
  <2>2. Shape(B, e)
    BY DEF Settles, Shape, IsFcn, BP!Good
  <2> QED BY <2>1, <2>2, PlaceUsed
<1>2. CASE TookGrown(B, e, C, f, need, h)
  <2>1. PICK M : BP!Freed(B, e, f) = M /\ BP!Fits(M, h, need) /\ BP!Place(M, h, need) = C
    BY <1>2 DEF TookGrown
  <2>2. e + 32 <= f
    BY <1>2 DEF TookGrown
  <2>3. Shape(M, f) /\ SameUsed(B, M, {})
    BY <2>1, <2>2, GrownShape
  <2>4. /\ SameUsed(M, C, {h}) /\ h \notin Useds(M) /\ h \in Useds(C)
        /\ need <= C[h].size /\ C[h].size \in Int
    BY <2>1, <2>3, PlaceUsed
  <2>5. h \notin Useds(B)
    BY <2>3, <2>4 DEF SameUsed
  <2> QED BY <2>3, <2>4, <2>5, SameUsedTwice
<1> QED BY <1>1, <1>2 DEF Took

\* A region that was only readied has the same owners.
LEMMA ReadiedOwners ==
  ASSUME NEW B, NEW e \in Int, NEW C, NEW f \in Int, NEW L, NEW T, Owners(B, L, T), Settles(B, e),
         f % 16 = 8, Readied(B, e, C, f)
  PROVE  Owners(C, L, T)
<1>1. CASE C = B /\ f = e
  BY <1>1
<1>2. CASE SetUp(B, e, C, f)
  <2>1. SameUsed(B, C, {})
    BY <1>2, GrownShape DEF SetUp
  <2>2. SameUsed(B, C, {0 - 8})
    BY <2>1 DEF SameUsed
  <2>3. \A p \in DOMAIN L : p > 0 /\ p \in Int
    BY DEF Owners, IsObject
  <2>4. 0 \notin DOMAIN L /\ 0 \notin DOMAIN T
    BY <2>3 DEF Owners
  <2>5. 0 - 8 \notin Useds(C)
    <3>1. \A g \in Useds(B) : g \in Int /\ FirstBlock <= g
      <4>1. BP!Good(B, e)
        BY DEF Settles
      <4> QED BY <4>1, BP!EndIsBoundary, RegionOK DEF Useds
    <3>2. 0 - 8 \notin Useds(B)
      BY <3>1, BaseFacts
    <3> QED BY <2>1, <3>2 DEF SameUsed
  <2>6. SameBut(L, L, 0)
    BY DEF SameBut
  <2> DEFINE z == 0
  <2>7. z \in Int /\ SameUsed(B, C, {z - 8}) /\ SameBut(L, L, z) /\ z \notin DOMAIN L /\ z \notin DOMAIN T
        /\ z - 8 \notin Useds(C)
    BY <2>2, <2>4, <2>5, <2>6
  <2> HIDE DEF z
  <2>8. /\ z \in DOMAIN L <=> z - 8 \in Useds(C)
        /\ z \in DOMAIN L => IsObject(z, L[z]) /\ L[z] + 16 <= C[z - 8].size
    BY <2>7
  <2> QED BY <2>7, <2>8, OwnersInRegion
<1> QED BY <1>1, <1>2 DEF Readied

\* L and one pointer more.
Held(L, p, n) == [q \in DOMAIN L \cup {p} |-> IF q = p THEN n ELSE L[q]]

\* L and one pointer more, seen from the other pointers.
LEMMA HeldFacts ==
  ASSUME NEW L, NEW p, NEW n, NEW M, Held(L, p, n) = M
  PROVE  SameBut(L, M, p) /\ p \in DOMAIN M /\ M[p] = n
BY DEF Held, SameBut

\* What a malloc of n bytes can do.
Refused(H, B, G, L, T) ==
  Intact(H, G, L, 0) /\ \E C : Sys(G, C, L, T) /\ Readied(B, Brk(H), C, Brk(G))
GaveBlock(H, B, G, p, L, T, n) ==
  /\ p \notin DOMAIN L /\ p \in Int /\ p > 0 /\ Intact(H, G, L, p)
  /\ \E C : Sys(G, C, Held(L, p, n), T) /\ Took(B, Brk(H), C, Brk(G), Need(n), p - 8)
GaveMapping(H, B, G, p, L, T, n) ==
  /\ p \notin DOMAIN L /\ p \in Int /\ p > 0 /\ Intact(H, G, L, p)
  /\ \E C, t : Sys(G, C, Held(L, p, n), Held(T, p, t)) /\ Readied(B, Brk(H), C, Brk(G))

\* Every request rounds up to a block size that holds it; 0 counts as 1.
LEMMA NeedIs ==
  ASSUME NEW n \in Requests, NEW r, r = n \/ (n = 0 /\ r = 1)
  PROVE  IsNeed(Need(n)) /\ Need(r) = Need(n) /\ n + 16 <= Need(n) /\ n \in Nat /\ n % 8 = 0
<1>1. /\ Need(r) \in Nat /\ Need(r) >= 32 /\ Need(r) % 16 = 0
      /\ Need(r) >= n + 16 /\ Need(r) + PageSize <= WordRange /\ Need(r) = Need(n)
  BY NeedFacts
<1>2. n \in Nat /\ n % 8 = 0
  BY RequestAssumption
<1> HIDE DEF Need
<1>3. IsNeed(Need(n))
  BY <1>1 DEF IsNeed
<1> QED BY <1>1, <1>2, <1>3

\* Objects whose words are kept are intact.
LEMMA KeptIntact ==
  ASSUME NEW H, NEW B, NEW L, NEW T, Sys(H, B, L, T), NEW G, NEW C, NEW D, NEW p,
         Rest(G, C, KeptWords(L, T), H, D)
  PROVE  Intact(H, G, L, p)
<1>1. ASSUME NEW q \in DOMAIN L, NEW a \in Words(q, L[q]) PROVE Get(G, a) = Get(H, a)
  BY OwnWords, RestKept
<1> QED BY <1>1 DEF Intact

\* The epilogue's place.
LEMMA BrkIs ==
  ASSUME NEW H, NEW B, NEW K, NEW o, NEW D, Rest(H, B, K, o, D)
  PROVE  Settles(B, Brk(H)) /\ Brk(H) \in Int /\ Brk(H) % 16 = 8
BY RestSettles DEF Settles

\* The system when only heap_init ran, or nothing.
LEMMA SysReadied ==
  ASSUME NEW H, NEW B, NEW L, NEW T, Sys(H, B, L, T), NEW G, NEW C,
         Rest(G, C, KeptWords(L, T), H, MapWords(T)), Readied(B, Brk(H), C, Brk(G))
  PROVE  Sys(G, C, L, T) /\ Intact(H, G, L, 0) /\ Refused(H, B, G, L, T)
<1>1. /\ Rest(H, B, KeptWords(L, T), H, MapWords(T)) /\ Owners(B, L, T) /\ Heads(H, T)
      /\ \A p \in DOMAIN T : p - 16 \in KeptWords(L, T) /\ p - 8 \in KeptWords(L, T)
  BY SysFacts
<1>2. Settles(B, Brk(H)) /\ Brk(H) \in Int /\ Brk(G) \in Int /\ Brk(G) % 16 = 8
  BY <1>1, BrkIs
<1>3. Owners(C, L, T)
  BY <1>1, <1>2, ReadiedOwners
<1>4. Sys(G, C, L, T)
  BY <1>1, <1>3, SysFrom
<1>5. Intact(H, G, L, 0)
  BY KeptIntact
<1> QED BY <1>4, <1>5 DEF Refused

\* heap_init keeps what callers hold.
LEMMA SysInit ==
  ASSUME NEW H, NEW B, NEW L, NEW T, Sys(H, B, L, T), NEW G \in InitOutcomes(H)
  PROVE  \E C : Sys(G, C, L, T) /\ Readied(B, Brk(H), C, Brk(G)) /\ Intact(H, G, L, 0)
<1>1. Rest(H, B, KeptWords(L, T), H, MapWords(T))
  BY SysFacts
<1>2. \E C : Rest(G, C, KeptWords(L, T), H, MapWords(T)) /\ Readied(B, Brk(H), C, Brk(G))
  BY <1>1, InitRest DEF Readied, Rest
<1> QED BY <1>2, SysReadied

\* malloc from the region.
LEMMA SysSmall ==
  ASSUME NEW H, NEW B, NEW L, NEW T, Sys(H, B, L, T), NEW n \in Requests, NEW req,
         req = n \/ (n = 0 /\ req = 1),
         NEW G \in InitOutcomes(H), NEW r \in SmallOutcomes(G, req)
  PROVE  \/ r.ptr = 0 /\ Refused(H, B, r.heap, L, T)
         \/ GaveBlock(H, B, r.heap, r.ptr, L, T, n)
<1> DEFINE need == Need(n)
           K == KeptWords(L, T)
           D == MapWords(T)
<1>1. /\ Rest(H, B, K, H, D) /\ Owners(B, L, T) /\ Heads(H, T)
      /\ \A p \in DOMAIN T : p - 16 \in K /\ p - 8 \in K
  BY SysFacts
<1>2. IsNeed(need) /\ Need(req) = need /\ n + 16 <= need /\ n \in Nat /\ n % 8 = 0
  BY NeedIs
<1>3. need \in Int /\ 32 <= need
  BY <1>2 DEF IsNeed
<1> HIDE DEF need, K, D
<1>4. \/ r.ptr = 0 /\ \E C : Rest(r.heap, C, K, H, D) /\ Readied(B, Brk(H), C, Brk(r.heap))
      \/ \E h, C : /\ r.ptr = h + 8 /\ h \in Int /\ h > 0
                   /\ At(r.heap, C, Frees(C), K, H, D) /\ BP!NoNeighboursFree(C)
                   /\ Took(B, Brk(H), C, Brk(r.heap), need, h)
  BY <1>1, <1>2, SmallMalloc
<1>5. ASSUME NEW C, Rest(r.heap, C, K, H, D), Readied(B, Brk(H), C, Brk(r.heap))
      PROVE  Refused(H, B, r.heap, L, T)
  BY <1>5, SysReadied DEF K, D
<1>6. ASSUME NEW h \in Int, NEW C, r.ptr = h + 8, h > 0,
             At(r.heap, C, Frees(C), K, H, D), BP!NoNeighboursFree(C),
             Took(B, Brk(H), C, Brk(r.heap), need, h)
      PROVE  GaveBlock(H, B, r.heap, r.ptr, L, T, n)
  <2> DEFINE p == h + 8
             M == Held(L, p, n)
             e == Brk(H)
             f == Brk(r.heap)
  <2>1. Rest(r.heap, C, K, H, D)
    BY <1>6 DEF Rest
  <2>2. Settles(B, e) /\ e \in Int /\ f \in Int /\ f % 16 = 8
    BY <1>1, <2>1, BrkIs
  <2>3. Took(B, e, C, f, need, h)
    BY <1>6
  <2>4. p \in Int /\ p - 8 = h /\ p > 0
    BY <1>6
  <2> HIDE DEF e, f, p
  <2>5. /\ SameUsed(B, C, {h}) /\ h \notin Useds(B) /\ h \in Useds(C)
        /\ need <= C[h].size /\ C[h].size \in Int
    BY <1>3, <2>2, <2>3, TookUsed
  <2>6. p \notin DOMAIN T /\ p \notin DOMAIN L
    <3>1. p \notin DOMAIN T
      <4>1. SUFFICES ASSUME p \in DOMAIN T PROVE FALSE
        OBVIOUS
      <4>2. IsMapping(p - 16, T[p])
        BY <1>1, <4>1 DEF Owners
      <4>3. h \in DOMAIN C /\ Shape(C, r.heap.commit - 8) /\ r.heap.commit <= Base + Reserve
            /\ r.heap.commit \in Int
        BY <1>6, <2>5, AtFacts DEF Useds
      <4>4. FirstBlock <= h /\ h + 32 <= BP!End(C, h) /\ BP!End(C, h) <= r.heap.commit - 8
            /\ BP!End(C, h) \in Int
        BY <4>3, BlockFacts
      <4>5. /\ (p - 16) + T[p] <= Base \/ Base + Reserve <= p - 16
            /\ 16 <= T[p] /\ T[p] \in Int
        BY <4>2 DEF IsMapping
      <4> QED BY <4>3, <4>4, <4>5, <2>4, BaseFacts
    <3> QED BY <3>1, <1>1, <2>4, <2>5 DEF Owners
  <2>7. SameBut(L, M, p) /\ p \in DOMAIN M /\ M[p] = n
    BY HeldFacts
  <2>8. IsObject(p, n)
    <3>1. h \in DOMAIN C /\ Shape(C, r.heap.commit - 8)
      BY <1>6, <2>5, AtFacts DEF Useds
    <3>2. h % 16 = 8
      BY <3>1, BlockFacts
    <3>3. p % 16 = 0
      BY <3>2, <2>4 DEF p
    <3> QED BY <3>3, <1>2, <2>4 DEF IsObject
  <2> HIDE DEF M
  <2>9. Owners(C, M, T)
    <3>1. p - 8 \in Useds(C) /\ M[p] + 16 <= C[p - 8].size
      <4>1. n + 16 <= C[h].size
        BY <1>2, <1>3, <2>5
      <4> QED BY <4>1, <2>4, <2>5, <2>7
    <3>2. SameUsed(B, C, {p - 8})
      BY <2>4, <2>5
    <3> QED BY <3>1, <3>2, <1>1, <2>4, <2>6, <2>7, <2>8, OwnersInRegion
  <2>10. Sys(r.heap, C, M, T)
    BY <1>1, <2>1, <2>9, SysFrom DEF D
  <2>11. Intact(H, r.heap, L, p)
    BY <2>1, KeptIntact DEF K
  <2>12. r.ptr = p
    BY <1>6 DEF p
  <2>13. Took(B, Brk(H), C, Brk(r.heap), Need(n), p - 8)
    BY <2>3, <2>4 DEF e, f, need
  <2> QED BY <2>4, <2>6, <2>10, <2>11, <2>12, <2>13 DEF GaveBlock, M
<1> QED BY <1>4, <1>5, <1>6

\* The length of a mapping is whole pages and holds the request.
LEMMA LargeSize ==
  ASSUME NEW n \in Requests, n > 0, NEW t, RoundPage(Word(n + 16)) = t, NEW b \in MapBases
  PROVE  IsMapping(b, t) /\ n + 16 <= t
<1>1. n \in Nat /\ n + PageSize + 32 <= WordRange /\ WordRange \in Nat
  BY RequestAssumption
<1>2. PageSize \in Nat /\ PageSize >= 16
  BY BaseFacts
<1>3. Word(n + 16) = n + 16
  <2>1. n + 16 \in Nat /\ n + 16 < WordRange
    BY <1>1, <1>2
  <2> QED BY <2>1, <1>1 DEF Word
<1>4. t \in Nat /\ t >= n + 16 /\ t % 16 = 0
  <2>1. RoundPage(n + 16) = t
    BY <1>3
  <2>2. n + 16 \in Nat /\ n + 16 > 0 /\ (n + 16) + PageSize <= WordRange
    BY <1>1, <1>2
  <2> QED BY <2>1, <2>2, RoundPageFacts
<1>5. /\ b \in Nat /\ b > 0 /\ b % PageSize = 0
      /\ b + t <= Base \/ Base + Reserve <= b
  BY MappingAssumption
<1>6. b % 16 = 0
  BY <1>5, PagesAreAligned
<1> QED BY <1>1, <1>4, <1>5, <1>6 DEF IsMapping

\* malloc of a mapping.
LEMMA SysLarge ==
  ASSUME NEW H, NEW B, NEW L, NEW T, Sys(H, B, L, T), NEW n \in Requests, n > 0,
         NEW r \in LargeOutcomes(H, n)
  PROVE  \/ r.ptr = 0 /\ r.heap = H
         \/ /\ r.ptr \notin DOMAIN L /\ r.ptr \in Int /\ r.ptr > 0 /\ Intact(H, r.heap, L, r.ptr)
            /\ \E t : Sys(r.heap, B, Held(L, r.ptr, n), Held(T, r.ptr, t))
            /\ Brk(r.heap) = Brk(H)
<1> DEFINE t == RoundPage(Word(n + 16))
<1>1. \/ r = [heap |-> H, ptr |-> 0]
      \/ \E b \in MapBases : FreeSpace(H, b, t) /\ r = [heap |-> Mapped(H, b, t), ptr |-> b + 16]
  BY DEF LargeOutcomes, FreeSpace, Mapped
<1>2. CASE r = [heap |-> H, ptr |-> 0]
  BY <1>2
<1>3. ASSUME NEW b \in MapBases, FreeSpace(H, b, t), r = [heap |-> Mapped(H, b, t), ptr |-> b + 16]
      PROVE  /\ r.ptr \notin DOMAIN L /\ r.ptr \in Int /\ r.ptr > 0 /\ Intact(H, r.heap, L, r.ptr)
             /\ Sys(r.heap, B, Held(L, r.ptr, n), Held(T, r.ptr, t))
             /\ Brk(r.heap) = Brk(H)
  <2> DEFINE p == b + 16
             M == Held(L, p, n)
             U == Held(T, p, t)
             G == Mapped(H, b, t)
  <2>1. IsMapping(b, t) /\ n + 16 <= t
    BY LargeSize
  <2>2. r.heap = G /\ r.ptr = p
    BY <1>3
  <2> HIDE DEF t
  <2>3. b \in Int /\ b > 0 /\ p \in Int /\ p > 0 /\ p % 16 = 0
    BY <2>1 DEF IsMapping
  <2>4. IsObject(p, n)
    <3>1. n \in Nat /\ n % 8 = 0
      BY RequestAssumption
    <3> HIDE DEF p
    <3> QED BY <3>1, <2>3 DEF IsObject
  <2>5. b + 16 = p /\ Mapped(H, b, t) = G /\ Held(L, p, n) = M /\ Held(T, p, t) = U
    OBVIOUS
  <2> HIDE DEF p, G, M, U
  <2>6. SameBut(L, M, p) /\ p \in DOMAIN M /\ M[p] = n /\ SameBut(T, U, p) /\ p \in DOMAIN U /\ U[p] = t
    BY <2>5, HeldFacts
  <2>7. /\ Sys(G, B, M, U) /\ Brk(G) = Brk(H) /\ Intact(H, G, L, p) /\ p \notin DOMAIN L
    BY <1>3, <2>1, <2>3, <2>4, <2>5, <2>6, SysMap
  <2> QED BY <2>2, <2>3, <2>5, <2>7
<1> QED BY <1>1, <1>2, <1>3

\* Intact over two steps.
LEMMA IntactTwice ==
  ASSUME NEW F, NEW G, NEW H, NEW L, NEW p, Intact(F, G, L, 0), Intact(G, H, L, p), 0 \notin DOMAIN L
  PROVE  Intact(F, H, L, p)
BY DEF Intact

\* Nobody holds the null pointer.
LEMMA NoNull ==
  ASSUME NEW B, NEW L, NEW T, Owners(B, L, T)
  PROVE  0 \notin DOMAIN L
BY DEF Owners, IsObject

\* malloc keeps the system: it hands out nothing, a block, or a mapping.
LEMMA SysMalloc ==
  ASSUME NEW H, NEW B, NEW L, NEW T, Sys(H, B, L, T), NEW n \in Requests, NEW r \in MallocOutcomes(H, n)
  PROVE  \/ r.ptr = 0 /\ Refused(H, B, r.heap, L, T)
         \/ GaveBlock(H, B, r.heap, r.ptr, L, T, n)
         \/ GaveMapping(H, B, r.heap, r.ptr, L, T, n)
<1> DEFINE req == IF n = 0 THEN 1 ELSE n
<1>1. n \in Nat
  BY RequestAssumption
<1>2. req = n \/ (n = 0 /\ req = 1)
  OBVIOUS
<1>3. PICK G \in InitOutcomes(H) : r \in IF req >= Large THEN LargeOutcomes(G, req) ELSE SmallOutcomes(G, req)
  BY DEF MallocOutcomes
<1>4. CASE req >= Large
  <2>1. n > 0 /\ req = n
    <3>1. Large \in Nat /\ Large > 1
      BY HeapAssumption
    <3> QED BY <3>1, <1>1, <1>4
  <2>2. r \in LargeOutcomes(G, n)
    BY <1>3, <1>4, <2>1
  <2>3. PICK C : Sys(G, C, L, T) /\ Readied(B, Brk(H), C, Brk(G)) /\ Intact(H, G, L, 0)
    BY SysInit
  <2>4. 0 \notin DOMAIN L
    BY SysFacts, NoNull
  <2>5. \/ r.ptr = 0 /\ r.heap = G
        \/ /\ r.ptr \notin DOMAIN L /\ r.ptr \in Int /\ r.ptr > 0 /\ Intact(G, r.heap, L, r.ptr)
           /\ \E t : Sys(r.heap, C, Held(L, r.ptr, n), Held(T, r.ptr, t))
           /\ Brk(r.heap) = Brk(G)
    BY <2>1, <2>2, <2>3, SysLarge
  <2>6. CASE r.ptr = 0 /\ r.heap = G
    BY <2>3, <2>6 DEF Refused
  <2>7. CASE /\ r.ptr \notin DOMAIN L /\ r.ptr \in Int /\ r.ptr > 0 /\ Intact(G, r.heap, L, r.ptr)
             /\ \E t : Sys(r.heap, C, Held(L, r.ptr, n), Held(T, r.ptr, t))
             /\ Brk(r.heap) = Brk(G)
    <3>1. Intact(H, r.heap, L, r.ptr)
      BY <2>3, <2>4, <2>7, IntactTwice
    <3> QED BY <2>3, <2>7, <3>1 DEF GaveMapping
  <2> QED BY <2>5, <2>6, <2>7
<1>5. CASE ~(req >= Large)
  <2>1. r \in SmallOutcomes(G, req)
    BY <1>3, <1>5
  <2> HIDE DEF req
  <2> QED BY <2>1, <1>2, SysSmall
<1> QED BY <1>4, <1>5

-----------------------------------------------------------------------------
(* realloc in place *)

\* What is kept when the object at p keeps only its first n bytes.
KeptBut(L, T, p, n) == {a \in KeptWords(L, T) : ~(p + n <= a /\ a \in Words(p, L[p]))}

\* The first n bytes of the object at p, as far as it had any, are now at q.
Carried(H, G, p, old, q, n) == \A a \in Words(p, old) : a < p + n => Get(G, q + (a - p)) = Get(H, a)

\* Objects other than p's, and the heads, are kept.
LEMMA OthersKept ==
  ASSUME NEW H, NEW B, NEW L, NEW T, Sys(H, B, L, T), NEW p \in DOMAIN L, NEW n
  PROVE  /\ \A q \in DOMAIN T : q - 16 \in KeptBut(L, T, p, n) /\ q - 8 \in KeptBut(L, T, p, n)
         /\ \A q \in DOMAIN L : q # p => Words(q, L[q]) \subseteq KeptBut(L, T, p, n)
<1> DEFINE e == H.commit - 8
           W == Words(p, L[p])
<1>1. /\ Owners(B, L, T)
      /\ (Shape(B, e) /\ e <= Base + Reserve - 8) \/ DOMAIN B = {}
      /\ \A q \in DOMAIN T : q - 16 \in KeptWords(L, T) /\ q - 8 \in KeptWords(L, T)
  BY SysFacts
<1> HIDE DEF e
<1>2. \A q \in DOMAIN T : q - 16 \notin W /\ q - 8 \notin W
  BY <1>1, HeadsApart
<1>3. ASSUME NEW q \in DOMAIN L, q # p, NEW a \in Words(q, L[q]) PROVE a \in KeptWords(L, T) /\ a \notin W
  <2>1. a \in KeptWords(L, T)
    BY OwnWords
  <2>2. p + L[p] <= q \/ q + L[q] <= p
    BY <1>1, <1>3, ObjectsApart
  <2>3. IsObject(q, L[q]) /\ IsObject(p, L[p])
    BY <1>1 DEF Owners
  <2>4. a \in Int /\ q <= a /\ a < q + L[q]
    BY <2>3, ObjectWords
  <2>5. a \in W => p <= a /\ a < p + L[p]
    BY <2>3, ObjectWords
  <2>6. p \in Int /\ q \in Int /\ L[p] \in Int /\ L[q] \in Int
    BY <2>3 DEF IsObject
  <2> HIDE DEF W
  <2> QED BY <2>1, <2>2, <2>4, <2>5, <2>6
<1> QED BY <1>1, <1>2, <1>3 DEF KeptBut

\* An object that stays where it is, in a block changed around it.
LEMMA SysResized ==
  ASSUME NEW H, NEW B, NEW L, NEW T, Sys(H, B, L, T), NEW p \in DOMAIN L, p \notin DOMAIN T,
         NEW n, NEW G, NEW C, At(G, C, Frees(C), KeptBut(L, T, p, n), H, MapWords(T)),
         BP!Good(C, H.commit - 8), SameUsed(B, C, {p - 8}), p - 8 \in Useds(C),
         IsObject(p, n), n + 16 <= C[p - 8].size,
         NEW M, SameBut(L, M, p), p \in DOMAIN M, M[p] = n
  PROVE  Sys(G, C, M, T) /\ Brk(G) = Brk(H) /\ Intact(H, G, L, p) /\ Carried(H, G, p, L[p], p, n)
<1> DEFINE K == KeptBut(L, T, p, n)
           D == MapWords(T)
<1>1. /\ Owners(B, L, T) /\ Heads(H, T)
      /\ At(H, B, Frees(B), KeptWords(L, T), H, D)
  BY SysFacts, KindOf
<1>2. /\ \A q \in DOMAIN T : q - 16 \in K /\ q - 8 \in K
      /\ \A q \in DOMAIN L : q # p => Words(q, L[q]) \subseteq K
  BY OthersKept
<1>3. \A a \in Words(p, L[p]) : a \in Int /\ (a < p + n => a \in K)
  <2>1. ASSUME NEW a \in Words(p, L[p]) PROVE a \in Int /\ (a < p + n => a \in K)
    <3>1. a \in KeptWords(L, T)
      BY OwnWords
    <3>2. IsObject(p, L[p])
      BY <1>1 DEF Owners
    <3>3. a \in Int
      BY <3>2, ObjectWords
    <3>4. p \in Int /\ n \in Int
      BY DEF IsObject
    <3>5. a < p + n => ~(p + n <= a)
      BY <3>3, <3>4
    <3> QED BY <3>1, <3>3, <3>5 DEF KeptBut
  <2> QED BY <2>1
<1> HIDE DEF K, D
<1>4. Rest(G, C, K, H, D) /\ Brk(G) = Brk(H)
  BY <1>1, SameRegion DEF K, D
<1>5. Owners(C, M, T)
  <2>1. p \in Int
    BY DEF IsObject
  <2> QED BY <2>1, <1>1, OwnersInRegion
<1>6. Sys(G, C, M, T)
  BY <1>1, <1>2, <1>4, <1>5, SysFrom DEF D
<1>7. Intact(H, G, L, p)
  <2>1. ASSUME NEW q \in DOMAIN L, q # p, NEW a \in Words(q, L[q]) PROVE Get(G, a) = Get(H, a)
    <3>1. a \in K
      BY <1>2, <2>1
    <3> QED BY <3>1, <1>4, RestKept
  <2> QED BY <2>1 DEF Intact
<1>8. Carried(H, G, p, L[p], p, n)
  <2>1. ASSUME NEW a \in Words(p, L[p]), a < p + n PROVE Get(G, p + (a - p)) = Get(H, a)
    <3>1. a \in K /\ a \in Int
      BY <1>3, <2>1
    <3>2. p \in Int
      BY DEF IsObject
    <3>3. p + (a - p) = a
      BY <3>1, <3>2
    <3>4. Get(G, a) = Get(H, a)
      BY <3>1, <1>4, RestKept
    <3> QED BY <3>3, <3>4
  <2> QED BY <2>1 DEF Carried
<1> QED BY <1>4, <1>6, <1>7, <1>8

\* In p's block only p's words are kept, and of them the first n bytes.
LEMMA FitsKept ==
  ASSUME NEW H, NEW B, NEW L, NEW T, Sys(H, B, L, T), NEW p \in DOMAIN L, p \notin DOMAIN T, NEW n,
         NEW h \in Int, p - 8 = h, NEW hi, BP!End(B, h) = hi, NEW mid \in Int,
         IsObject(p, n), p + n <= mid - 8 \/ p + L[p] <= mid - 8
  PROVE  Fitting(KeptBut(L, T, p, n), h, mid, hi)
<1>1. IsObject(p, L[p])
  BY SysFacts DEF Owners
<1>2. p \in Int /\ n \in Int /\ L[p] \in Int
  BY <1>1 DEF IsObject
<1>3. ASSUME NEW a \in KeptBut(L, T, p, n), h <= a, a < hi PROVE h + 8 <= a /\ a < mid - 8
  <2>1. a \in KeptWords(L, T) /\ ~(p + n <= a /\ a \in Words(p, L[p]))
    BY DEF KeptBut
  <2>2. p - 8 <= a /\ a < BP!End(B, p - 8)
    BY <1>3
  <2>3. a \in Words(p, L[p]) /\ a \in Int /\ p <= a /\ a < p + L[p]
    BY <2>1, <2>2, InBlock
  <2> QED BY <1>2, <2>1, <2>3
<1> QED BY <1>3 DEF Fitting

\* Aligned blocks in the place of blocks leave an aligned region.
LEMMA RetileShape ==
  ASSUME NEW B, NEW e, NEW lo, NEW hi, NEW T, NEW R, Shape(B, e), BP!Good(R, e),
         Retiles(R, B, lo, hi, T), Aligned(T)
  PROVE  Shape(R, e) /\ BP!NoNeighboursFree(R)
<1>1. Aligned(R)
  <2>1. ASSUME NEW h \in DOMAIN R PROVE h % 16 = 8 /\ R[h].size % 16 = 0
    <3>1. CASE h \in DOMAIN T
      <4>1. R[h] = T[h]
        BY <3>1 DEF Retiles
      <4> QED BY <4>1, <3>1 DEF Aligned
    <3>2. CASE h \notin DOMAIN T
      <4>1. h \in DOMAIN B /\ R[h] = B[h]
        BY <3>2 DEF Retiles
      <4> QED BY <4>1 DEF Shape, Aligned
    <3> QED BY <3>1, <3>2
  <2> QED BY <2>1 DEF Aligned
<1>2. IsFcn(R)
  BY DEF Retiles
<1>3. BP!Tiles(R, FirstBlock, e) /\ BP!HoldsLinks(R) /\ BP!NoNeighboursFree(R) /\ e \in Int
  BY DEF BP!Good
<1>4. e % 16 = 8
  BY DEF Shape
<1> QED BY <1>1, <1>2, <1>3, <1>4 DEF Shape, IsFcn

\* The used block h of B, up to hi, is cut at mid, and what is cut off freed.
CutOff(B, e, h, hi, mid, need, C) ==
  /\ Shape(B, e) /\ BP!NoNeighboursFree(B) /\ h \in Useds(B) /\ BP!End(B, h) = hi
  /\ need % 16 = 0 /\ 32 <= need /\ h + need = mid /\ mid + 32 <= hi
  /\ BP!Released(BP!Split(B, h, need), mid) = C

\* That leaves h used, need bytes long, and the other used blocks alone.
LEMMA ShrinkUsed ==
  ASSUME NEW B, NEW e, NEW h, NEW hi, NEW mid \in Int, NEW need \in Int, NEW C,
         CutOff(B, e, h, hi, mid, need, C)
  PROVE  /\ SameUsed(B, C, {h}) /\ h \in Useds(C) /\ C[h].size = need
         /\ BP!Good(C, e)
<1> /\ Shape(B, e) /\ BP!NoNeighboursFree(B) /\ h \in Useds(B) /\ BP!End(B, h) = hi
    /\ need % 16 = 0 /\ 32 <= need /\ h + need = mid /\ mid + 32 <= hi
    /\ BP!Released(BP!Split(B, h, need), mid) = C
  BY DEF CutOff
<1> DEFINE T == UsedTwo(h, mid, hi)
           S == BP!Retile(B, h, hi, T)
<1>1. h \in DOMAIN B /\ B[h].used
  BY DEF Useds
<1>2. /\ h \in Int /\ h % 16 = 8 /\ FirstBlock <= h /\ hi \in Int /\ hi % 16 = 8 /\ hi <= e /\ e \in Int
      /\ hi = e \/ hi \in DOMAIN B
  BY <1>1, BlockFacts DEF Shape
<1>3. mid % 16 = 8 /\ h + 32 <= mid /\ h < mid /\ mid < hi /\ mid - h = need
  BY <1>2
<1>4. BP!Split(B, h, need) = S
  BY DEF BP!Split, UsedTwo
<1>5. BP!Two(h, mid, hi, TRUE) = T
  BY DEF UsedTwo
<1>6. BP!Good(S, e)
  <2>1. BP!Good(B, e)
    BY GoodShape
  <2>2. BP!Good(BP!Retile(B, h, hi, BP!Two(h, mid, hi, TRUE)), e)
    BY <1>1, <1>2, <1>3, <2>1, BP!TwoGood, RegionOK
  <2> QED BY <1>5, <2>2
<1>7. IsTwo(T, h, mid, hi, TRUE)
  <2>1. TRUE \in BOOLEAN
    OBVIOUS
  <2>2. T = BP!Two(h, mid, hi, TRUE)
    BY <1>5
  <2> HIDE DEF T
  <2> QED BY <2>2, <1>2, <1>3, TwoParts
<1> HIDE DEF T
<1>8. /\ \A x : x \in DOMAIN T <=> x = h \/ x = mid
      /\ T[h].size = need /\ T[h].used = TRUE /\ T[mid].used = TRUE /\ Aligned(T)
      /\ BP!End(T, mid) = hi
  BY <1>7, <1>3 DEF IsTwo
<1>9. Within(T, h, hi) /\ Useds(T) \subseteq Pair(h, mid)
  BY <1>2, <1>3, <1>8 DEF Within, Useds, Pair
<1>10. UsedIn(B, h, hi, Pair(h, mid))
  BY <1>1, OneInside DEF Useds, UsedIn, Pair
<1>11. BP!Retile(B, h, hi, T) = S
  OBVIOUS
<1> HIDE DEF S
<1>12. SameUsed(B, S, Pair(h, mid)) /\ Retiles(S, B, h, hi, T)
  <2>1. DOMAIN B \subseteq Int
    BY BlockFacts
  <2> QED BY <2>1, <1>2, <1>9, <1>10, <1>11, RetileUsed
<1>13. /\ Shape(S, e) /\ h \in DOMAIN S /\ mid \in DOMAIN S /\ S[h] = T[h] /\ S[mid] = T[mid]
       /\ BP!End(S, mid) = hi
  <2>1. Shape(S, e)
    BY <1>6, <1>8, <1>12, RetileShape
  <2> QED BY <2>1, <1>8, <1>12 DEF Retiles
<1>14. BP!Freed(S, mid, hi) = C
  BY <1>4, <1>13 DEF BP!Released
<1>15. SameUsed(S, C, {mid}) /\ \A g \in Useds(C) : g \in Useds(S) /\ (g < mid \/ hi <= g)
  <2>1. UsedIn(S, mid, hi, {mid})
    BY <1>13, OneInside DEF Useds, UsedIn
  <2> QED BY <2>1, <1>2, <1>3, <1>13, <1>14, FreedUsed
<1>16. mid \notin Useds(B) /\ mid \notin Useds(C)
  <2>1. mid \notin Useds(B)
    <3>1. SUFFICES ASSUME mid \in DOMAIN B PROVE FALSE
      BY DEF Useds
    <3>2. mid = h
      BY <3>1, <1>1, <1>2, <1>3, OneInside
    <3> QED BY <3>2, <1>3, <1>2
  <2>2. mid \notin Useds(C)
    <3>1. ~(mid < mid) /\ ~(hi <= mid)
      BY <1>2, <1>3
    <3> QED BY <3>1, <1>15
  <2> QED BY <2>1, <2>2
<1>17. SameUsed(B, C, {h})
  <2>1. ASSUME NEW g, g # h PROVE (g \in Useds(B) <=> g \in Useds(C)) /\ (g \in Useds(B) => C[g] = B[g])
    <3>1. CASE g = mid
      BY <3>1, <1>16
    <3>2. CASE g # mid
      <4>1. (g \in Useds(B) <=> g \in Useds(S)) /\ (g \in Useds(B) => S[g] = B[g])
        BY <3>2, <2>1, <1>12 DEF SameUsed, Pair
      <4>2. (g \in Useds(S) <=> g \in Useds(C)) /\ (g \in Useds(S) => C[g] = S[g])
        BY <3>2, <1>15 DEF SameUsed
      <4> QED BY <4>1, <4>2
    <3> QED BY <3>1, <3>2
  <2> QED BY <2>1 DEF SameUsed
<1>18. h \in Useds(C) /\ C[h].size = need
  <2>1. h \in Useds(S) /\ S[h].size = need /\ h # mid
    BY <1>3, <1>2, <1>8, <1>13 DEF Useds
  <2>2. h \in Useds(C) /\ C[h] = S[h]
    BY <2>1, <1>15 DEF SameUsed
  <2> QED BY <2>1, <2>2
<1>19. BP!Good(C, e)
  <2>1. BP!Good(BP!Released(S, mid), e)
    BY <1>6, <1>13, BP!ReleaseKeepsGood, RegionOK
  <2> QED BY <2>1, <1>4
<1> QED BY <1>17, <1>18, <1>19

\* realloc to a size that leaves a block over, G and C the heap and the blocks after it.
Cutting(H, B, p, h, need, mid, size, t, G, C) ==
  /\ p - 8 = h /\ h + need = mid /\ BSize(H, h) = size /\ size - need = t /\ 32 <= t
  /\ CoalesceAndInsert(SetBlock(SetBlock(H, h, need, 1), mid, t, 0), mid).heap = G
  /\ BP!Released(BP!Split(B, h, need), mid) = C

\* realloc in place to less.
LEMMA SysShrink ==
  ASSUME NEW H, NEW B, NEW L, NEW T, Sys(H, B, L, T), NEW p \in DOMAIN L, p \notin DOMAIN T,
         NEW n, NEW need, IsNeed(need), IsObject(p, n), n + 16 <= need,
         NEW h, NEW mid, NEW size, NEW t, NEW G, NEW C, Cutting(H, B, p, h, need, mid, size, t, G, C),
         NEW M, SameBut(L, M, p), p \in DOMAIN M, M[p] = n
  PROVE  /\ Sys(G, C, M, T) /\ Brk(G) = Brk(H) /\ Intact(H, G, L, p) /\ Carried(H, G, p, L[p], p, n)
         /\ size = B[h].size /\ h \in DOMAIN B /\ B[h].used
<1> DEFINE e == H.commit - 8
           hi == BP!End(B, h)
           K == KeptBut(L, T, p, n)
           D == MapWords(T)
<1>0. CoalesceAndInsert(SetBlock(SetBlock(H, h, need, 1), mid, t, 0), mid).heap = G
  BY DEF Cutting
<1>0a. h + need = mid /\ BP!Released(BP!Split(B, h, need), mid) = C
  BY DEF Cutting
<1> p - 8 = h /\ h + need = mid /\ BSize(H, h) = size /\ size - need = t /\ 32 <= t
  BY DEF Cutting
<1>1. /\ h \in Useds(B) /\ h \in DOMAIN B /\ B[h].used
      /\ At(H, B, Frees(B), KeptWords(L, T), H, D) /\ BP!NoNeighboursFree(B)
  BY SysFacts, KindOf DEF Useds
<1>2. Shape(B, e) /\ e \in Int /\ Tagged(H, B)
  BY <1>1, AtFacts DEF Shape
<1>3. h \in Int /\ hi \in Int /\ hi = h + B[h].size /\ B[h].size \in Int
  BY <1>1, <1>2, BlockFacts
<1>4. size = B[h].size
  <2>1. BP!End(B, h) - 8 = BP!End(B, h) - 8
    OBVIOUS
  <2> HIDE DEF e, hi
  <2> QED BY <1>1, <1>2, BlockBits
<1>5. need \in Int /\ need % 16 = 0 /\ 32 <= need
  BY DEF IsNeed
<1>6. mid \in Int /\ mid + 32 <= hi /\ hi - mid = t /\ t \in Int
  BY <1>3, <1>4, <1>5
<1>7. At(H, B, Frees(B), K, H, D)
  <2>1. K \subseteq KeptWords(L, T)
    BY DEF KeptBut
  <2> HIDE DEF K, D
  <2> QED BY <2>1, <1>1 DEF At, Kept
<1>8. p + n <= mid - 8
  <2>1. p \in Int /\ n \in Int
    BY DEF IsObject
  <2> QED BY <2>1, <1>5, <1>6, <1>3
<1>9. Fitting(K, h, mid, hi)
  <2>1. BP!End(B, h) = hi
    OBVIOUS
  <2> HIDE DEF hi
  <2> QED BY <2>1, <1>3, <1>6, <1>8, FitsKept DEF K
<1>10. BP!End(B, h) = hi
  OBVIOUS
<1> HIDE DEF K, D, hi
<1>11. At(G, C, Frees(C), K, H, D)
  BY <1>0, <1>0a, <1>1, <1>5, <1>6, <1>7, <1>9, <1>10, ShrinkAt
<1>12. /\ SameUsed(B, C, {h}) /\ h \in Useds(C) /\ C[h].size = need
       /\ BP!Good(C, e)
  <2> HIDE DEF e
  <2>1. CutOff(B, e, h, hi, mid, need, C)
    BY <1>0a, <1>1, <1>2, <1>5, <1>6, <1>10 DEF CutOff
  <2> QED BY <1>5, <1>6, <2>1, ShrinkUsed
<1>13. n + 16 <= C[p - 8].size /\ SameUsed(B, C, {p - 8}) /\ p - 8 \in Useds(C)
  BY <1>12
<1> QED BY <1>1, <1>4, <1>11, <1>12, <1>13, SysResized DEF K, D, e

\* A used block takes in the free one behind it.
LEMMA AbsorbUsed ==
  ASSUME NEW B, NEW e, NEW h, NEW nxt, NEW hi, NEW need, NEW C, IsNeed(need),
         Shape(B, e), BP!NoNeighboursFree(B), h \in Useds(B), BP!End(B, h) = nxt,
         nxt \in Frees(B), BP!End(B, nxt) = hi, h + need <= hi,
         BP!Retile(B, h, hi, BP!Placed(h, hi, need)) = C
  PROVE  /\ SameUsed(B, C, {h}) /\ h \in Useds(C) /\ need <= C[h].size /\ C[h].size \in Int
         /\ BP!Good(C, e)
<1> DEFINE T == BP!Placed(h, hi, need)
<1>1. h \in DOMAIN B /\ B[h].used /\ nxt \in DOMAIN B /\ ~B[nxt].used
  BY DEF Useds, Frees
<1>2. need \in Int /\ need % 16 = 0 /\ 32 <= need /\ need \in {Need(n) : n \in Requests}
  BY DEF IsNeed
<1>3. /\ h \in Int /\ FirstBlock <= h /\ nxt \in Int /\ h + 32 <= nxt
      /\ hi \in Int /\ nxt + 32 <= hi /\ hi <= e /\ e \in Int
      /\ hi \in DOMAIN B \/ hi = e
  <2>1. h \in Int /\ FirstBlock <= h /\ nxt \in Int /\ h + 32 <= nxt
    BY <1>1, BlockFacts
  <2>2. hi \in Int /\ nxt + 32 <= hi /\ hi <= e /\ (hi \in DOMAIN B \/ hi = e)
    BY <1>1, BlockFacts
  <2> QED BY <2>1, <2>2 DEF Shape
<1>4. BP!Good(C, e)
  <2>1. BP!Good(B, e)
    BY GoodShape
  <2>2. ~BP!IsFree(B, hi)
    BY <1>1 DEF BP!NoNeighboursFree, BP!IsFree
  <2>3. BP!Good(BP!Retile(B, h, hi, BP!Placed(h, hi, need)), e)
    BY <1>1, <1>2, <1>3, <2>1, <2>2, BP!PlacedGood, RegionOK
  <2> QED BY <2>3
<1>5. /\ Within(T, h, hi) /\ Useds(T) = {h} /\ h \in DOMAIN T /\ T[h].used = TRUE
      /\ need <= T[h].size /\ T[h].size \in Int
  BY <1>2, <1>3, PlacedParts
<1>6. UsedIn(B, h, hi, {h})
  <2>1. ASSUME NEW g \in Useds(B), h <= g, g < hi PROVE g = h
    <3>1. g \in DOMAIN B /\ B[g].used /\ g \in Int
      BY BlockFacts DEF Useds
    <3>2. CASE g < nxt
      BY <3>1, <3>2, <2>1, <1>1, OneInside
    <3>3. CASE nxt <= g
      <4>1. g = nxt
        BY <3>1, <3>3, <2>1, <1>1, OneInside
      <4> QED BY <4>1, <3>1, <1>1
    <3> QED BY <3>1, <3>2, <3>3, <1>3
  <2> QED BY <2>1 DEF UsedIn
<1>7. BP!Retile(B, h, hi, T) = C
  OBVIOUS
<1> HIDE DEF T
<1>8. SameUsed(B, C, {h}) /\ Retiles(C, B, h, hi, T)
  <2>1. DOMAIN B \subseteq Int
    BY BlockFacts
  <2>2. Useds(T) \subseteq {h}
    BY <1>5
  <2> QED BY <2>1, <2>2, <1>3, <1>5, <1>6, <1>7, RetileUsed
<1>9. C[h] = T[h] /\ h \in DOMAIN C
  BY <1>5, <1>8 DEF Retiles
<1> QED BY <1>4, <1>5, <1>8, <1>9 DEF Useds

\* realloc to a size for which the block behind suffices.
LEMMA SysAbsorb ==
  ASSUME NEW H, NEW B, NEW L, NEW T, Sys(H, B, L, T), NEW p \in DOMAIN L, p \notin DOMAIN T,
         NEW n, NEW need, IsNeed(need), IsObject(p, n), n + 16 <= need,
         NEW h, p - 8 = h, NEW size, BSize(H, h) = size, ~(size >= need),
         NEW nxt, h + size = nxt, AllocBit(H, nxt) = 0,
         NEW both, size + BSize(H, nxt) = both, both >= need,
         NEW G, PlaceIn(SetBlock(FlRemove(H, nxt), h, both, 0), h, need) = G,
         NEW hi, BP!End(B, nxt) = hi, NEW C, BP!Retile(B, h, hi, BP!Placed(h, hi, need)) = C,
         NEW M, SameBut(L, M, p), p \in DOMAIN M, M[p] = n
  PROVE  /\ Sys(G, C, M, T) /\ Brk(G) = Brk(H) /\ Intact(H, G, L, p) /\ Carried(H, G, p, L[p], p, n)
         /\ size = B[h].size /\ h \in DOMAIN B /\ B[h].used /\ BP!End(B, h) = nxt
         /\ nxt \in Frees(B) /\ hi - h >= need
<1> DEFINE e == H.commit - 8
           K == KeptBut(L, T, p, n)
           D == MapWords(T)
<1>1. /\ h \in Useds(B) /\ h \in DOMAIN B /\ B[h].used
      /\ At(H, B, Frees(B), KeptWords(L, T), H, D) /\ BP!NoNeighboursFree(B)
      /\ L[p] + 16 <= B[h].size
  BY SysFacts, KindOf DEF Useds
<1>2. Shape(B, e) /\ e \in Int /\ Tagged(H, B) /\ Grounds(H)
  BY <1>1, AtFacts DEF Shape
<1>3. /\ h \in Int /\ BP!End(B, h) = h + B[h].size /\ B[h].size \in Int /\ B[h].size >= 32
      /\ BP!End(B, h) = e \/ BP!End(B, h) \in DOMAIN B
  BY <1>1, <1>2, BlockFacts
<1>4. size = B[h].size
  <2> DEFINE f == BP!End(B, h) - 8
  <2>1. f = BP!End(B, h) - 8
    OBVIOUS
  <2> HIDE DEF e, f
  <2> QED BY <2>1, <1>1, <1>2, BlockBits
<1>5. BP!End(B, h) = nxt /\ nxt \in Int /\ nxt - h = size
  BY <1>3, <1>4
<1>6. nxt \in DOMAIN B
  <2>1. nxt # e
    <3>1. AllocBit(H, e) = 1
      BY <1>2, SentinelBits
    <3> QED BY <3>1
  <2> QED BY <2>1, <1>3, <1>5
<1>7. nxt \in Frees(B) /\ BSize(H, nxt) = B[nxt].size
  <2> DEFINE f == BP!End(B, nxt) - 8
  <2>1. f = BP!End(B, nxt) - 8
    OBVIOUS
  <2> HIDE DEF e, f
  <2>2. AllocBit(H, nxt) = Bit(B[nxt].used) /\ BSize(H, nxt) = B[nxt].size
    <3>1. Shape(B, e) /\ Tagged(H, B)
      BY <1>2
    <3> QED BY <3>1, <2>1, <1>6, BlockBits
  <2>3. B[nxt].used \in BOOLEAN
    BY <1>2, <1>6, BlockFacts
  <2>4. ~B[nxt].used
    BY <2>2, <2>3, BitIsUsed
  <2> QED BY <2>2, <2>4, <1>6 DEF Frees
<1>8. hi = nxt + B[nxt].size /\ B[nxt].size \in Int /\ hi \in Int /\ hi - h = both /\ hi - h >= need
  <2>1. BP!End(B, nxt) = nxt + B[nxt].size /\ B[nxt].size \in Int
    BY <1>2, <1>6, BlockFacts
  <2> QED BY <2>1, <1>3, <1>4, <1>5, <1>7
<1>9. need \in Int /\ need % 16 = 0 /\ 32 <= need
  BY DEF IsNeed
<1>10. nxt <= h + need /\ h + need <= hi
  BY <1>3, <1>4, <1>5, <1>8, <1>9
<1>11. At(H, B, Frees(B), K, H, D)
  <2>1. K \subseteq KeptWords(L, T)
    BY DEF KeptBut
  <2> HIDE DEF K, D
  <2> QED BY <2>1, <1>1 DEF At, Kept
<1>12. Fitting(K, h, nxt, nxt)
  <2>1. p + L[p] <= nxt - 8
    <3>1. IsObject(p, L[p])
      BY SysFacts DEF Owners
    <3>2. p \in Int /\ L[p] \in Int
      BY <3>1 DEF IsObject
    <3> QED BY <3>2, <1>1, <1>3, <1>5
  <2> QED BY <2>1, <1>3, <1>5, FitsKept
<1> HIDE DEF K, D
<1>13. At(G, C, Frees(C), K, H, D)
  <2>1. PlaceIn(SetBlock(FlRemove(H, nxt), h, both, 0), h, need) = G
    OBVIOUS
  <2>2. At(PlaceIn(SetBlock(FlRemove(H, nxt), h, both, 0), h, need), C, Frees(C), K, H, D)
    BY <1>1, <1>5, <1>7, <1>8, <1>9, <1>10, <1>11, <1>12, AbsorbAt
  <2> QED BY <2>1, <2>2
<1>14. /\ SameUsed(B, C, {h}) /\ h \in Useds(C) /\ need <= C[h].size /\ C[h].size \in Int
       /\ BP!Good(C, e)
  <2> HIDE DEF e
  <2>1. /\ Shape(B, e) /\ BP!NoNeighboursFree(B) /\ h \in Useds(B) /\ BP!End(B, h) = nxt
        /\ nxt \in Frees(B) /\ h + need <= hi
    BY <1>1, <1>2, <1>5, <1>7, <1>10
  <2> QED BY <2>1, AbsorbUsed
<1>15. n + 16 <= C[p - 8].size /\ SameUsed(B, C, {p - 8}) /\ p - 8 \in Useds(C)
  <2>1. n \in Int
    BY DEF IsObject
  <2>2. n + 16 <= C[h].size
    BY <2>1, <1>9, <1>14
  <2> QED BY <2>2, <1>14
<1>16. Sys(G, C, M, T) /\ Brk(G) = Brk(H) /\ Intact(H, G, L, p) /\ Carried(H, G, p, L[p], p, n)
  <2>1. /\ At(G, C, Frees(C), KeptBut(L, T, p, n), H, MapWords(T))
        /\ BP!Good(C, H.commit - 8)
    BY <1>13, <1>14 DEF K, D, e
  <2> HIDE DEF e
  <2> QED BY <2>1, <1>15, SysResized
<1> QED BY <1>1, <1>4, <1>5, <1>7, <1>8, <1>16

\* realloc to a size that p's block holds already.
LEMMA SysStays ==
  ASSUME NEW H, NEW B, NEW L, NEW T, Sys(H, B, L, T), NEW p \in DOMAIN L, p \notin DOMAIN T,
         NEW n, IsObject(p, n), NEW need \in Int, n + 16 <= need, BSize(H, p - 8) >= need,
         NEW M, SameBut(L, M, p), p \in DOMAIN M, M[p] = n
  PROVE  Sys(H, B, M, T) /\ Intact(H, H, L, p) /\ Carried(H, H, p, L[p], p, n)
<1> DEFINE e == H.commit - 8
           h == p - 8
           K == KeptBut(L, T, p, n)
           D == MapWords(T)
<1>1. /\ h \in Useds(B) /\ h \in DOMAIN B
      /\ At(H, B, Frees(B), KeptWords(L, T), H, D) /\ BP!NoNeighboursFree(B)
  BY SysFacts, KindOf DEF Useds
<1>2. Shape(B, e) /\ e \in Int /\ Tagged(H, B)
  BY <1>1, AtFacts DEF Shape
<1>3. BSize(H, h) = B[h].size
  <2> DEFINE f == BP!End(B, h) - 8
  <2>1. f = BP!End(B, h) - 8
    OBVIOUS
  <2> HIDE DEF e, f, h
  <2> QED BY <2>1, <1>1, <1>2, BlockBits
<1>4. n + 16 <= B[h].size
  <2>1. B[h].size \in Int
    <3> HIDE DEF e, h
    <3> QED BY <1>1, <1>2, BlockFacts
  <2>2. n \in Int
    BY DEF IsObject
  <2> QED BY <1>3, <2>1, <2>2
<1>5. BP!Good(B, e)
  <2> HIDE DEF e
  <2> QED BY <1>1, <1>2, GoodShape
<1>6. At(H, B, Frees(B), K, H, D)
  <2>1. K \subseteq KeptWords(L, T)
    BY DEF KeptBut
  <2> HIDE DEF K, D
  <2> QED BY <2>1, <1>1 DEF At, Kept
<1>7. SameUsed(B, B, {p - 8})
  BY DEF SameUsed
<1> HIDE DEF e
<1> QED BY <1>1, <1>4, <1>5, <1>6, <1>7, SysResized DEF e

-----------------------------------------------------------------------------
(* free, memset, memcpy and realloc by way of a new object. *)

\* What freeing p does to the blocks.
Gone(B, C, T, p) ==
  \/ p \in DOMAIN T /\ C = B
  \/ p \notin DOMAIN T /\ p - 8 \in Useds(B) /\ BP!Released(B, p - 8) = C

Without(L, p) == [q \in DOMAIN L \ {p} |-> L[q]]

\* L without p, seen from the other pointers.
LEMMA WithoutFacts ==
  ASSUME NEW L, NEW p, NEW M, Without(L, p) = M
  PROVE  SameBut(L, M, p) /\ p \notin DOMAIN M
BY DEF Without, SameBut

\* free
LEMMA SysFree ==
  ASSUME NEW H, NEW B, NEW L, NEW T, Sys(H, B, L, T), NEW p \in DOMAIN L,
         NEW M, SameBut(L, M, p), p \notin DOMAIN M, NEW G, FreedHeap(H, p) = G
  PROVE  /\ Brk(G) = Brk(H) /\ Intact(H, G, L, p)
         /\ \E C, U : Sys(G, C, M, U) /\ Gone(B, C, T, p)
<1>1. CASE p \in DOMAIN T
  <2> DEFINE U == Without(T, p)
  <2>1. SameBut(T, U, p) /\ p \notin DOMAIN U
    BY WithoutFacts
  <2> HIDE DEF U
  <2>2. Sys(G, B, M, U) /\ Brk(G) = Brk(H) /\ Intact(H, G, L, p)
    BY <1>1, <2>1, SysFreeMapping
  <2> QED BY <1>1, <2>2 DEF Gone
<1>2. CASE p \notin DOMAIN T
  <2> DEFINE C == BP!Released(B, p - 8)
  <2>1. BP!Released(B, p - 8) = C
    OBVIOUS
  <2> HIDE DEF C
  <2>2. Sys(G, C, M, T) /\ Brk(G) = Brk(H) /\ Intact(H, G, L, p)
    BY <1>2, <2>1, SysFreeBlock
  <2>3. p - 8 \in Useds(B)
    BY <1>2, KindOf
  <2> QED BY <1>2, <2>1, <2>2, <2>3 DEF Gone
<1> QED BY <1>1, <1>2

\* memcpy writes the words of q from those of p.
LEMMA CopiedFacts ==
  ASSUME NEW H, NEW q, NEW p, NEW n
  PROVE  \E ws : /\ Copied(H, q, p, n) = PutWords(H, ws) /\ DOMAIN ws = Words(q, n)
                 /\ \A w \in Words(q, n) : ws[w] = H.mem[p + (w - q)]
<1> DEFINE ws == [w \in Words(q, n) |-> H.mem[p + (w - q)]]
<1>1. Copied(H, q, p, n) = PutWords(H, ws) /\ DOMAIN ws = Words(q, n)
      /\ \A w \in Words(q, n) : ws[w] = H.mem[p + (w - q)]
  BY DEF Copied
<1> HIDE DEF ws
<1> QED BY <1>1

\* No word of one object is a word of another.
LEMMA WordsApart ==
  ASSUME NEW H, NEW B, NEW L, NEW T, Sys(H, B, L, T), NEW p \in DOMAIN L, NEW q \in DOMAIN L, p # q,
         NEW a \in Words(q, L[q])
  PROVE  a \notin Words(p, L[p])
<1> DEFINE e == H.commit - 8
<1>1. Owners(B, L, T) /\ ((Shape(B, e) /\ e <= Base + Reserve - 8) \/ DOMAIN B = {})
  BY SysFacts
<1> HIDE DEF e
<1>2. p + L[p] <= q \/ q + L[q] <= p
  BY <1>1, ObjectsApart
<1>3. IsObject(q, L[q]) /\ IsObject(p, L[p])
  BY <1>1 DEF Owners
<1>4. a \in Int /\ q <= a /\ a < q + L[q]
  BY <1>3, ObjectWords
<1>5. a \in Words(p, L[p]) => p <= a /\ a < p + L[p]
  BY <1>3, ObjectWords
<1>6. p \in Int /\ q \in Int /\ L[p] \in Int /\ L[q] \in Int
  BY <1>3 DEF IsObject
<1> QED BY <1>2, <1>4, <1>5, <1>6

\* A write into one object leaves the others as they were.
LEMMA SysWrite ==
  ASSUME NEW H, NEW B, NEW L, NEW T, Sys(H, B, L, T), NEW p \in DOMAIN L,
         NEW ws, DOMAIN ws \subseteq Words(p, L[p]), NEW G, PutWords(H, ws) = G
  PROVE  /\ Sys(G, B, L, T) /\ Brk(G) = Brk(H) /\ Intact(H, G, L, p)
         /\ \A w \in DOMAIN ws : Get(G, w) = ws[w]
         /\ \A a \in Words(p, L[p]) : a \notin DOMAIN ws => Get(G, a) = Get(H, a)
<1>1. /\ Sys(G, B, L, T) /\ Brk(G) = Brk(H)
      /\ \A w \in DOMAIN ws : Get(G, w) = ws[w]
      /\ \A a \in DOMAIN H.mem : a \notin DOMAIN ws => Get(G, a) = Get(H, a)
  BY SysStore
<1>2. ASSUME NEW q \in DOMAIN L, q # p, NEW a \in Words(q, L[q]) PROVE Get(G, a) = Get(H, a)
  <2>1. a \notin Words(p, L[p])
    BY <1>2, WordsApart
  <2>2. a \in DOMAIN H.mem
    BY OwnWords
  <2> QED BY <2>1, <2>2, <1>1
<1>3. \A a \in Words(p, L[p]) : a \in DOMAIN H.mem
  BY OwnWords
<1> QED BY <1>1, <1>2, <1>3 DEF Intact

\* The first c bytes are copied from p to the new object q.
LEMMA SysCopy ==
  ASSUME NEW H, NEW B, NEW L, NEW T, Sys(H, B, L, T), NEW p \in DOMAIN L, NEW q \in DOMAIN L, p # q,
         NEW c \in Nat, c % 8 = 0, c <= L[q], NEW m \in Int, m <= c \/ L[p] <= c, m <= L[q],
         NEW G, Copied(H, q, p, c) = G
  PROVE  /\ Sys(G, B, L, T) /\ Brk(G) = Brk(H) /\ Intact(H, G, L, q)
         /\ \A a \in Words(p, L[p]) : a < p + m =>
              q + (a - p) \in Words(q, L[q]) /\ Get(G, q + (a - p)) = Get(H, a)
<1>1. PICK ws : /\ Copied(H, q, p, c) = PutWords(H, ws) /\ DOMAIN ws = Words(q, c)
                /\ \A w \in Words(q, c) : ws[w] = H.mem[p + (w - q)]
  BY CopiedFacts
<1>2. IsObject(p, L[p]) /\ IsObject(q, L[q])
  BY SysFacts DEF Owners
<1>3. /\ p \in Int /\ q \in Int /\ p % 16 = 0 /\ q % 16 = 0 /\ q > 0
      /\ L[p] \in Int /\ L[q] \in Int /\ IsObject(q, c)
  BY <1>2 DEF IsObject
<1>4. Words(q, c) \subseteq Words(q, L[q])
  <2>1. ASSUME NEW a \in Words(q, c) PROVE a \in Words(q, L[q])
    <3>1. a \in Int /\ q <= a /\ a < q + c /\ a % 8 = 0
      BY <1>3, ObjectWords
    <3>2. a < q + L[q]
      BY <3>1, <1>3
    <3> QED BY <3>1, <3>2, <1>2, ObjectWords
  <2> QED BY <2>1
<1>5. /\ Sys(G, B, L, T) /\ Brk(G) = Brk(H) /\ Intact(H, G, L, q)
      /\ \A w \in DOMAIN ws : Get(G, w) = ws[w]
  <2>1. DOMAIN ws \subseteq Words(q, L[q]) /\ PutWords(H, ws) = G
    BY <1>1, <1>4
  <2> QED BY <2>1, SysWrite
<1>6. ASSUME NEW a \in Words(p, L[p]), a < p + m
      PROVE  q + (a - p) \in Words(q, L[q]) /\ Get(G, q + (a - p)) = Get(H, a)
  <2> DEFINE w == q + (a - p)
  <2>1. a \in Int /\ p <= a /\ a < p + L[p] /\ a % 8 = 0
    BY <1>2, ObjectWords
  <2>2. w \in Int /\ q <= w /\ w < q + c /\ w % 8 = 0 /\ p + (w - q) = a
    BY <2>1, <1>3, <1>6
  <2> HIDE DEF w
  <2>3. w \in Words(q, c)
    BY <2>2, <1>3, ObjectWords
  <2>4. Get(G, w) = H.mem[p + (w - q)]
    BY <2>3, <1>1, <1>5
  <2>5. Get(G, w) = Get(H, a)
    BY <2>2, <2>4 DEF Get
  <2> QED BY <2>3, <2>5, <1>4 DEF w
<1> QED BY <1>5, <1>6

\* L with q of n bytes in the place of p.
Swapped(L, p, q, n) == [x \in (DOMAIN L \ {p}) \cup {q} |-> IF x = q THEN n ELSE L[x]]

\* L with q in the place of p, as one more and one less.
LEMMA SwappedFacts ==
  ASSUME NEW L, NEW p, NEW q, NEW n, NEW M, Swapped(L, p, q, n) = M, p \in DOMAIN L
  PROVE  /\ q # p => SameBut(Held(L, q, n), M, p) /\ p \notin DOMAIN M
         /\ q = p => SameBut(L, M, p) /\ p \in DOMAIN M /\ M[p] = n
BY DEF Swapped, Held, SameBut

\* The object is copied to its new place, and the old place is freed.
LEMMA SysCarry ==
  ASSUME NEW H, NEW B, NEW L, NEW T, Sys(H, B, L, T), NEW p \in DOMAIN L, NEW q, q \notin DOMAIN L,
         NEW n \in Nat, n % 8 = 0, NEW F, NEW C, NEW N, NEW U, Held(L, q, n) = N, Sys(F, C, N, U), Intact(H, F, L, q),
         NEW old \in Nat, old % 8 = 0, L[p] <= old, NEW c, (IF n < old THEN n ELSE old) = c,
         NEW G, FreedHeap(Copied(F, q, p, c), p) = G,
         NEW M, Swapped(L, p, q, n) = M
  PROVE  /\ Brk(G) = Brk(F) /\ Intact(H, G, L, p) /\ Carried(H, G, p, L[p], q, n)
         /\ \E D, V : Sys(G, D, M, V) /\ Gone(C, D, U, p)
<1>1. /\ SameBut(L, N, q) /\ q \in DOMAIN N /\ N[q] = n /\ p # q
      /\ SameBut(N, M, p) /\ p \notin DOMAIN M
  <2>1. SameBut(L, N, q) /\ q \in DOMAIN N /\ N[q] = n
    BY HeldFacts
  <2>2. p # q
    OBVIOUS
  <2> QED BY <2>1, <2>2, SwappedFacts
<1>2. /\ p \in DOMAIN N /\ N[p] = L[p]
      /\ \A x \in DOMAIN L : x \in DOMAIN N /\ N[x] = L[x] /\ x # q
  BY <1>1 DEF SameBut
<1>3. c \in Nat /\ c % 8 = 0 /\ c <= n /\ (n <= c \/ L[p] <= c)
  <2>1. c \in Nat /\ c % 8 = 0 /\ c <= n /\ (n <= c \/ old <= c)
    OBVIOUS
  <2>2. IsObject(p, L[p])
    BY SysFacts DEF Owners
  <2>3. L[p] \in Int
    BY <2>2 DEF IsObject
  <2> QED BY <2>1, <2>3
<1> DEFINE G2 == Copied(F, q, p, c)
<1>4. Copied(F, q, p, c) = G2 /\ FreedHeap(G2, p) = G
  OBVIOUS
<1> HIDE DEF G2
<1>5. /\ Sys(G2, C, N, U) /\ Brk(G2) = Brk(F) /\ Intact(F, G2, N, q)
      /\ \A a \in Words(p, N[p]) : a < p + n =>
              q + (a - p) \in Words(q, N[q]) /\ Get(G2, q + (a - p)) = Get(F, a)
  <2>1. n \in Int /\ (n <= c \/ N[p] <= c) /\ n <= N[q] /\ c <= N[q] /\ c \in Nat /\ c % 8 = 0
    BY <1>1, <1>2, <1>3
  <2> QED BY <2>1, <1>1, <1>2, <1>4, SysCopy
<1>6. /\ Brk(G) = Brk(G2) /\ Intact(G2, G, N, p)
      /\ \E D, V : Sys(G, D, M, V) /\ Gone(C, D, U, p)
  BY <1>1, <1>2, <1>4, <1>5, SysFree
<1>7. Intact(H, G, L, p)
  <2>1. ASSUME NEW x \in DOMAIN L, x # p, NEW a \in Words(x, L[x]) PROVE Get(G, a) = Get(H, a)
    <3>1. x \in DOMAIN N /\ N[x] = L[x] /\ x # q
      BY <1>2
    <3>2. Get(F, a) = Get(H, a)
      BY <3>1 DEF Intact
    <3>3. Get(G2, a) = Get(F, a)
      BY <3>1, <1>5 DEF Intact
    <3>4. Get(G, a) = Get(G2, a)
      BY <2>1, <3>1, <1>6 DEF Intact
    <3> QED BY <3>2, <3>3, <3>4
  <2> QED BY <2>1 DEF Intact
<1>8. Carried(H, G, p, L[p], q, n)
  <2>1. ASSUME NEW a \in Words(p, L[p]), a < p + n PROVE Get(G, q + (a - p)) = Get(H, a)
    <3>1. q + (a - p) \in Words(q, N[q]) /\ Get(G2, q + (a - p)) = Get(F, a)
      BY <2>1, <1>2, <1>5
    <3>2. Get(F, a) = Get(H, a)
      BY <1>1 DEF Intact
    <3>3. Get(G, q + (a - p)) = Get(G2, q + (a - p))
      BY <3>1, <1>1, <1>6 DEF Intact
    <3> QED BY <3>1, <3>2, <3>3
  <2> QED BY <2>1 DEF Carried
<1> QED BY <1>5, <1>6, <1>7, <1>8

\* What malloc did to the blocks.
Stepped(B, e, C, f, n, q) == Readied(B, e, C, f) \/ Took(B, e, C, f, Need(n), q - 8)

MovedTo(H, B, G, p, q, L, T, n) ==
  /\ q \notin DOMAIN L /\ q \in Int /\ q > 0 /\ Intact(H, G, L, p) /\ Carried(H, G, p, L[p], q, n)
  /\ \E C, U : /\ Sys(G, C, Swapped(L, p, q, n), U)
               /\ \E M : /\ Stepped(B, Brk(H), M, Brk(G), n, q)
                         /\ \/ p \in DOMAIN T /\ C = M
                            \/ p \notin DOMAIN T /\ p - 8 \in Useds(B) /\ BP!Released(M, p - 8) = C

\* heap_realloc_move
LEMMA SysMove ==
  ASSUME NEW H, NEW B, NEW L, NEW T, Sys(H, B, L, T), NEW p \in DOMAIN L, NEW n \in Requests,
         NEW old \in Nat, old % 8 = 0, L[p] <= old, NEW r \in MoveOutcomes(H, p, old, n)
  PROVE  \/ r.ptr = 0 /\ Refused(H, B, r.heap, L, T)
         \/ MovedTo(H, B, r.heap, p, r.ptr, L, T, n)
<1> DEFINE c == IF n < old THEN n ELSE old
<1>1. PICK s \in MallocOutcomes(H, n) :
        r = IF s.ptr = 0 THEN s
            ELSE [heap |-> FreedHeap(Copied(s.heap, s.ptr, p, c), p), ptr |-> s.ptr]
  BY DEF MoveOutcomes
<1>2. n \in Nat /\ n % 8 = 0
  BY RequestAssumption
<1> DEFINE q == s.ptr
           F == s.heap
           N == Held(L, q, n)
           M == Swapped(L, p, q, n)
           G == FreedHeap(Copied(F, q, p, c), p)
<1>3. (IF n < old THEN n ELSE old) = c /\ Held(L, q, n) = N /\ Swapped(L, p, q, n) = M
      /\ FreedHeap(Copied(F, q, p, c), p) = G
  OBVIOUS
<1>4. CASE s.ptr = 0 /\ Refused(H, B, s.heap, L, T)
  BY <1>1, <1>4
<1>5. ASSUME s.ptr # 0 PROVE r.heap = G /\ r.ptr = q
  BY <1>1, <1>5
<1>6. 0 \notin DOMAIN L
  BY SysFacts, NoNull
<1> HIDE DEF c, G, M, N
<1>7. p \notin DOMAIN T => p - 8 \in Useds(B)
  BY KindOf
<1>8. CASE GaveBlock(H, B, F, q, L, T, n)
  <2>1. PICK C : Sys(F, C, N, T) /\ Took(B, Brk(H), C, Brk(F), Need(n), q - 8)
    BY <1>8, <1>3 DEF GaveBlock
  <2>2. q \notin DOMAIN L /\ q \in Int /\ q > 0 /\ Intact(H, F, L, q)
    BY <1>8 DEF GaveBlock
  <2>3. r.heap = G /\ r.ptr = q
    BY <1>5, <2>2
  <2> HIDE DEF F, q
  <2>4. /\ Brk(G) = Brk(F) /\ Intact(H, G, L, p) /\ Carried(H, G, p, L[p], q, n)
        /\ \E D, V : Sys(G, D, M, V) /\ Gone(C, D, T, p)
    BY <1>2, <1>3, <2>1, <2>2, SysCarry
  <2>5. PICK D, V : Sys(G, D, M, V) /\ Gone(C, D, T, p)
    BY <2>4
  <2>6. \/ p \in DOMAIN T /\ D = C
        \/ p \notin DOMAIN T /\ p - 8 \in Useds(B) /\ BP!Released(C, p - 8) = D
    BY <2>5, <1>7 DEF Gone
  <2>7. Stepped(B, Brk(H), C, Brk(G), n, q)
    BY <2>1, <2>4 DEF Stepped
  <2>8. MovedTo(H, B, G, p, q, L, T, n)
    BY <1>3, <2>2, <2>4, <2>5, <2>6, <2>7 DEF MovedTo
  <2> QED BY <2>3, <2>8
<1>9. CASE GaveMapping(H, B, F, q, L, T, n)
  <2>1. PICK C, t : Sys(F, C, N, Held(T, q, t)) /\ Readied(B, Brk(H), C, Brk(F))
    BY <1>9, <1>3 DEF GaveMapping
  <2>2. q \notin DOMAIN L /\ q \in Int /\ q > 0 /\ Intact(H, F, L, q)
    BY <1>9 DEF GaveMapping
  <2>3. r.heap = G /\ r.ptr = q
    BY <1>5, <2>2
  <2> DEFINE U == Held(T, q, t)
  <2>4. p \in DOMAIN U <=> p \in DOMAIN T
    <3>1. p # q
      BY <2>2
    <3> QED BY <3>1 DEF Held
  <2> HIDE DEF F, q, U
  <2>5. /\ Brk(G) = Brk(F) /\ Intact(H, G, L, p) /\ Carried(H, G, p, L[p], q, n)
        /\ \E D, V : Sys(G, D, M, V) /\ Gone(C, D, U, p)
    <3>1. Sys(F, C, N, U)
      BY <2>1 DEF U
    <3> QED BY <1>2, <1>3, <2>2, <3>1, SysCarry
  <2>6. PICK D, V : Sys(G, D, M, V) /\ Gone(C, D, U, p)
    BY <2>5
  <2>7. \/ p \in DOMAIN T /\ D = C
        \/ p \notin DOMAIN T /\ p - 8 \in Useds(B) /\ BP!Released(C, p - 8) = D
    BY <2>4, <2>6, <1>7 DEF Gone
  <2>8. Stepped(B, Brk(H), C, Brk(G), n, q)
    BY <2>1, <2>5 DEF Stepped
  <2>9. MovedTo(H, B, G, p, q, L, T, n)
    BY <1>3, <2>2, <2>5, <2>6, <2>7, <2>8 DEF MovedTo
  <2> QED BY <2>3, <2>9
<1> QED BY <1>4, <1>8, <1>9, SysMalloc

\* What a realloc in place does to the blocks.
Shrunk(B, C, h, need) ==
  B[h].size - need >= 32 /\ BP!Released(BP!Split(B, h, need), h + need) = C
Absorbed(B, C, h, need) ==
  /\ B[h].size < need /\ BP!End(B, h) \in Frees(B)
  /\ BP!End(B, BP!End(B, h)) - h >= need
  /\ BP!Retile(B, h, BP!End(B, BP!End(B, h)), BP!Placed(h, BP!End(B, BP!End(B, h)), need)) = C

StayedAt(H, B, G, p, L, T, n) ==
  /\ Intact(H, G, L, p) /\ Carried(H, G, p, L[p], p, n) /\ Brk(G) = Brk(H)
  /\ p \notin DOMAIN T /\ p - 8 \in Useds(B)
  /\ \E C : /\ Sys(G, C, Swapped(L, p, p, n), T)
            /\ C = B \/ Shrunk(B, C, p - 8, Need(n)) \/ Absorbed(B, C, p - 8, Need(n))

\* What realloc takes for the old size covers the object.
LEMMA OldSizes ==
  ASSUME NEW H, NEW B, NEW L, NEW T, Sys(H, B, L, T), NEW p \in DOMAIN L
  PROVE  /\ p \in DOMAIN T => /\ Get(H, p - 16) - 16 \in Nat /\ (Get(H, p - 16) - 16) % 8 = 0
                              /\ L[p] <= Get(H, p - 16) - 16
         /\ p \notin DOMAIN T => /\ BSize(H, p - 8) \in Int /\ BSize(H, p - 8) - 16 \in Nat /\ (BSize(H, p - 8) - 16) % 8 = 0
                                 /\ L[p] <= BSize(H, p - 8) - 16
<1> DEFINE e == H.commit - 8
           h == p - 8
<1>1. IsObject(p, L[p])
  BY SysFacts DEF Owners
<1>2. L[p] \in Nat
  BY <1>1 DEF IsObject
<1>3. ASSUME p \in DOMAIN T
      PROVE  Get(H, p - 16) - 16 \in Nat /\ (Get(H, p - 16) - 16) % 8 = 0 /\ L[p] <= Get(H, p - 16) - 16
  <2>1. Get(H, p - 16) = T[p]
    BY <1>3, KindOf
  <2>2. IsMapping(p - 16, T[p]) /\ L[p] + 16 <= T[p]
    BY <1>3, SysFacts DEF Owners
  <2>3. T[p] \in Int /\ T[p] % 16 = 0
    BY <2>2 DEF IsMapping
  <2> QED BY <2>1, <2>2, <2>3, <1>2
<1>4. ASSUME p \notin DOMAIN T
      PROVE  /\ BSize(H, h) \in Int /\ BSize(H, h) - 16 \in Nat /\ (BSize(H, h) - 16) % 8 = 0
             /\ L[p] <= BSize(H, h) - 16
  <2>1. /\ h \in DOMAIN B /\ L[p] + 16 <= B[h].size
        /\ At(H, B, Frees(B), KeptWords(L, T), H, MapWords(T))
    BY <1>4, KindOf
  <2>2. Shape(B, e) /\ Tagged(H, B)
    BY <2>1, AtFacts
  <2> DEFINE f == BP!End(B, h) - 8
  <2>3. f = BP!End(B, h) - 8
    OBVIOUS
  <2> HIDE DEF e, f, h
  <2>4. BSize(H, h) = B[h].size
    BY <2>1, <2>2, <2>3, BlockBits
  <2>5. B[h].size \in Nat /\ B[h].size % 16 = 0
    BY <2>1, <2>2, BlockFacts
  <2> QED BY <2>1, <2>4, <2>5, <1>2
<1> QED BY <1>3, <1>4

\* realloc is refused, moves the object, or leaves it where it is.
LEMMA SysRealloc ==
  ASSUME NEW H, NEW B, NEW L, NEW T, Sys(H, B, L, T), NEW p \in DOMAIN L, NEW n \in Requests,
         NEW r \in ReallocOutcomes(H, p, n)
  PROVE  \/ r.ptr = 0 /\ Refused(H, B, r.heap, L, T)
         \/ MovedTo(H, B, r.heap, p, r.ptr, L, T, n)
         \/ r.ptr = p /\ StayedAt(H, B, r.heap, p, L, T, n)
<1> DEFINE h == p - 8
           size == BSize(H, h)
           need == Need(n)
           nxt == h + size
           both == size + BSize(H, nxt)
           mid == h + need
           t == size - need
           M == Swapped(L, p, p, n)
<1>1. IsNeed(need) /\ n + 16 <= need /\ n \in Nat /\ n % 8 = 0
  BY NeedIs
<1>2. IsObject(p, n)
  <2>1. IsObject(p, L[p])
    BY SysFacts DEF Owners
  <2> QED BY <2>1, <1>1 DEF IsObject
<1>3. CASE MmapBit(H, h) # 0
  <2>1. p \in DOMAIN T
    BY <1>3, KindOf
  <2>2. r \in MoveOutcomes(H, p, Get(H, p - 16) - 16, n)
    BY <1>3 DEF ReallocOutcomes
  <2> DEFINE old == Get(H, p - 16) - 16
  <2>3. old \in Nat /\ old % 8 = 0 /\ L[p] <= old /\ r \in MoveOutcomes(H, p, old, n)
    BY <2>1, <2>2, OldSizes
  <2> HIDE DEF old
  <2> QED BY <2>3, SysMove
<1>4. CASE MmapBit(H, h) = 0
  <2>1. p \notin DOMAIN T
    <3>1. p \in DOMAIN T => MmapBit(H, p - 8) = 1
      BY KindOf
    <3> QED BY <3>1, <1>4
  <2>2. size \in Int /\ size - 16 \in Nat /\ (size - 16) % 8 = 0 /\ L[p] <= size - 16
    BY <2>1, OldSizes
  <2>3. p - 8 \in Useds(B)
    BY <2>1, KindOf
  <2>4. SameBut(L, M, p) /\ p \in DOMAIN M /\ M[p] = n
    BY SwappedFacts
  <2>5. ASSUME r \in MoveOutcomes(H, p, size - 16, n)
        PROVE  \/ r.ptr = 0 /\ Refused(H, B, r.heap, L, T)
               \/ MovedTo(H, B, r.heap, p, r.ptr, L, T, n)
    <3> DEFINE old == size - 16
    <3>1. old \in Nat /\ old % 8 = 0 /\ L[p] <= old /\ r \in MoveOutcomes(H, p, old, n)
      BY <2>2, <2>5
    <3> HIDE DEF old
    <3> QED BY <3>1, SysMove
  <2>6. size \in Int /\ need \in Int
    <3>1. need \in Int
      BY <1>1 DEF IsNeed
    <3> QED BY <3>1, <2>2
  <2> DEFINE G1 == CoalesceAndInsert(SetBlock(SetBlock(H, h, need, 1), mid, t, 0), mid).heap
             G2 == PlaceIn(SetBlock(FlRemove(H, nxt), h, both, 0), h, need)
  <2>7. \/ r \in MoveOutcomes(H, p, size - 16, n)
        \/ size >= need /\ t >= 32 /\ r = [heap |-> G1, ptr |-> p]
        \/ size >= need /\ r = [heap |-> H, ptr |-> p]
        \/ ~(size >= need) /\ AllocBit(H, nxt) = 0 /\ both >= need /\ r = [heap |-> G2, ptr |-> p]
    BY <1>4, Zenon DEF ReallocOutcomes
  <2>8. Swapped(L, p, p, n) = M /\ p - 8 = h /\ BSize(H, h) = size /\ h + size = nxt
        /\ size + BSize(H, nxt) = both /\ h + need = mid /\ size - need = t
        /\ CoalesceAndInsert(SetBlock(SetBlock(H, h, need, 1), mid, t, 0), mid).heap = G1
        /\ PlaceIn(SetBlock(FlRemove(H, nxt), h, both, 0), h, need) = G2 /\ Need(n) = need
    OBVIOUS
  <2>9. CASE size >= need /\ t >= 32 /\ r = [heap |-> G1, ptr |-> p]
    <3> DEFINE C == BP!Released(BP!Split(B, h, need), mid)
    <3>1. BP!Released(BP!Split(B, h, need), mid) = C /\ r.heap = G1 /\ r.ptr = p /\ 32 <= t
      BY <2>9, <2>6
    <3> HIDE DEF h, size, need, nxt, both, mid, t, M, G1, G2, C
    <3>2. /\ Sys(G1, C, M, T) /\ Brk(G1) = Brk(H) /\ Intact(H, G1, L, p) /\ Carried(H, G1, p, L[p], p, n)
          /\ size = B[h].size
      <4>1. Cutting(H, B, p, h, need, mid, size, t, G1, C)
        BY <2>8, <3>1 DEF Cutting
      <4> QED BY <4>1, <1>1, <1>2, <2>1, <2>4, SysShrink
    <3>3. Shrunk(B, C, p - 8, Need(n))
      <4>1. BP!Released(BP!Split(B, p - 8, Need(n)), (p - 8) + Need(n)) = C
        BY <3>1, <2>8
      <4>2. B[p - 8].size - Need(n) >= 32
        BY <3>1, <3>2, <2>8, <2>6
      <4> QED BY <4>1, <4>2 DEF Shrunk
    <3>4. StayedAt(H, B, G1, p, L, T, n)
      BY <2>1, <2>3, <2>8, <3>2, <3>3 DEF StayedAt
    <3> QED BY <3>1, <3>4
  <2>10. CASE size >= need /\ r = [heap |-> H, ptr |-> p]
    <3>1. BSize(H, p - 8) >= need /\ r.heap = H /\ r.ptr = p
      BY <2>10
    <3> HIDE DEF h, size, need, nxt, both, mid, t, M, G1, G2
    <3>2. Sys(H, B, M, T) /\ Intact(H, H, L, p) /\ Carried(H, H, p, L[p], p, n)
      BY <1>1, <1>2, <2>1, <2>4, <2>6, <3>1, SysStays
    <3>3. StayedAt(H, B, H, p, L, T, n)
      BY <2>1, <2>3, <2>8, <3>2 DEF StayedAt
    <3> QED BY <3>1, <3>3
  <2>11. CASE ~(size >= need) /\ AllocBit(H, nxt) = 0 /\ both >= need /\ r = [heap |-> G2, ptr |-> p]
    <3> DEFINE hi == BP!End(B, nxt)
               C == BP!Retile(B, h, hi, BP!Placed(h, hi, need))
    <3>1. /\ BP!End(B, nxt) = hi /\ BP!Retile(B, h, hi, BP!Placed(h, hi, need)) = C
          /\ r.heap = G2 /\ r.ptr = p
      BY <2>11
    <3> HIDE DEF h, size, need, nxt, both, mid, t, M, G1, G2, C, hi
    <3>2. /\ Sys(G2, C, M, T) /\ Brk(G2) = Brk(H) /\ Intact(H, G2, L, p) /\ Carried(H, G2, p, L[p], p, n)
          /\ size = B[h].size /\ BP!End(B, h) = nxt /\ nxt \in Frees(B) /\ hi - h >= need
      BY <1>1, <1>2, <2>1, <2>4, <2>8, <2>11, <3>1, SysAbsorb
    <3>3. Absorbed(B, C, p - 8, Need(n))
      <4>1. BP!End(B, p - 8) = nxt /\ BP!End(B, BP!End(B, p - 8)) = hi
        BY <3>1, <3>2, <2>8
      <4>2. BP!Retile(B, p - 8, hi, BP!Placed(p - 8, hi, Need(n))) = C
        BY <3>1, <2>8
      <4>3. B[p - 8].size < Need(n)
        BY <2>11, <2>6, <2>8, <3>2
      <4>4. hi - (p - 8) >= Need(n)
        BY <2>8, <3>2
      <4> QED BY <3>2, <4>1, <4>2, <4>3, <4>4 DEF Absorbed
    <3>4. StayedAt(H, B, G2, p, L, T, n)
      BY <2>1, <2>3, <2>8, <3>2, <3>3 DEF StayedAt
    <3> QED BY <3>1, <3>4
  <2> QED BY <2>5, <2>7, <2>9, <2>10, <2>11
<1>5. MmapBit(H, h) # 0 \/ MmapBit(H, h) = 0
  OBVIOUS
<1> QED BY <1>3, <1>4, <1>5

-----------------------------------------------------------------------------
(* The walk along the tags finds the blocks. *)

\* The walk along the tags, block by block.
LEMMA BlockWalkStep ==
  ASSUME NEW H, NEW at, BlockWalk(H) = at
  PROVE  /\ at[0] = FirstBlock /\ DOMAIN at = Steps
         /\ \A i \in Steps : i # 0 =>
              (at[i - 1] \in Int =>
                 at[i] = IF InRegion(H, at[i - 1]) THEN at[i - 1] + BSize(H, at[i - 1]) ELSE at[i - 1])
<1> DEFINE after == [h \in Int |-> IF InRegion(H, h) THEN h + BSize(H, h) ELSE h]
<1>1. \E f : f = [i \in Steps |-> IF i = 0 THEN FirstBlock ELSE after[f[i - 1]]]
  <2> HIDE DEF after
  <2>1. \E f : Iterate(f, FirstBlock, after, Reserve \div 32)
    <3>1. Reserve \div 32 \in Nat
      BY StepsFacts
    <3> QED BY <3>1, Iterates, Zenon
  <2>2. Steps = 0 .. Reserve \div 32
    BY StepsFacts
  <2> QED BY <2>1, <2>2, Zenon DEF Iterate
<1>2. at = [i \in Steps |-> IF i = 0 THEN FirstBlock ELSE after[at[i - 1]]]
  BY <1>1 DEF BlockWalk
<1>3. DOMAIN at = Steps /\ \A i \in Steps : at[i] = IF i = 0 THEN FirstBlock ELSE after[at[i - 1]]
  BY <1>2
<1>4. \A h \in Int : after[h] = IF InRegion(H, h) THEN h + BSize(H, h) ELSE h
  OBVIOUS
<1> HIDE DEF after
<1> QED BY <1>3, <1>4, StepsFacts

\* From the headers of the blocks the walk goes to the end of the block.
LEMMA InRegionIs ==
  ASSUME NEW H, NEW B, NEW K, NEW o, NEW D, At(H, B, Frees(B), K, o, D), NEW h,
         h \in DOMAIN B \/ h = H.commit - 8
  PROVE  /\ InRegion(H, h) <=> h \in DOMAIN B
         /\ h \in DOMAIN B => h + BSize(H, h) = BP!End(B, h) /\ BSize(H, h) = B[h].size
                              /\ (AllocBit(H, h) = 1 <=> B[h].used)
<1> DEFINE e == H.commit - 8
<1>1. Shape(B, e) /\ Tagged(H, B) /\ Grounds(H) /\ e \in Int
  BY AtFacts DEF Shape
<1>2. ASSUME h \in DOMAIN B
      PROVE  /\ InRegion(H, h) /\ h + BSize(H, h) = BP!End(B, h) /\ BSize(H, h) = B[h].size
             /\ AllocBit(H, h) = 1 <=> B[h].used
  <2> DEFINE f == BP!End(B, h) - 8
  <2>1. BP!End(B, h) - 8 = f
    OBVIOUS
  <2>2. h \in DOMAIN H.mem
    BY <1>1, <1>2, LinksAreMapped
  <2> HIDE DEF e, f
  <2>3. BSize(H, h) = B[h].size /\ AllocBit(H, h) = Bit(B[h].used)
    BY <2>1, <1>1, <1>2, BlockBits
  <2>4. /\ BP!End(B, h) = h + B[h].size /\ BP!End(B, h) <= e /\ h + 32 <= BP!End(B, h)
        /\ h \in Int /\ B[h].size \in Int /\ B[h].used \in BOOLEAN /\ B[h].size >= 32
    BY <1>1, <1>2, BlockFacts
  <2>5. h < e /\ BSize(H, h) > 0
    BY <1>1, <2>3, <2>4
  <2>6. AllocBit(H, h) = 1 <=> B[h].used
    BY <2>3, <2>4, BitIsUsed
  <2> QED BY <2>2, <2>3, <2>4, <2>5, <2>6 DEF InRegion, e
<1>3. ASSUME h = e, h \notin DOMAIN B PROVE ~InRegion(H, h)
  BY <1>1, <1>3 DEF InRegion
<1> QED BY <1>2, <1>3

\* It steps from block to block until the epilogue.
LEMMA WalkStays ==
  ASSUME NEW H, NEW B, NEW K, NEW o, NEW D, At(H, B, Frees(B), K, o, D), NEW at, BlockWalk(H) = at
  PROVE  /\ at[0] = FirstBlock /\ FirstBlock \in DOMAIN B
         /\ \A i \in Steps : at[i] \in DOMAIN B \/ at[i] = H.commit - 8
         /\ \A i \in Steps : i # 0 /\ at[i - 1] \in DOMAIN B => at[i] = BP!End(B, at[i - 1])
<1> DEFINE e == H.commit - 8
           Good(i) == at[i] \in DOMAIN B \/ at[i] = e
<1>1. Shape(B, e) /\ e \in Int /\ FirstBlock + 32 <= e
  BY AtFacts DEF Shape
<1>2. /\ at[0] = FirstBlock
      /\ \A i \in Steps : i # 0 =>
              (at[i - 1] \in Int =>
                 at[i] = IF InRegion(H, at[i - 1]) THEN at[i - 1] + BSize(H, at[i - 1]) ELSE at[i - 1])
  BY BlockWalkStep
<1>3. FirstBlock \in DOMAIN B
  <2>1. FirstBlock # e
    BY <1>1, BaseFacts
  <2> QED BY <2>1, <1>1 DEF Shape, BP!Tiles
<1>4. ASSUME NEW i \in Steps, i # 0, Good(i - 1)
      PROVE  Good(i) /\ (at[i - 1] \in DOMAIN B => at[i] = BP!End(B, at[i - 1]))
  <2> DEFINE x == at[i - 1]
  <2>1. x \in DOMAIN B \/ x = e
    BY <1>4
  <2>2. x \in Int
    BY <2>1, <1>1, BlockFacts
  <2>3. at[i] = IF InRegion(H, x) THEN x + BSize(H, x) ELSE x
    BY <1>2, <1>4, <2>2
  <2> HIDE DEF x
  <2>4. CASE x \in DOMAIN B
    <3>1. InRegion(H, x) /\ x + BSize(H, x) = BP!End(B, x)
      BY <2>4, InRegionIs
    <3>2. at[i] = BP!End(B, x)
      BY <2>3, <3>1
    <3>3. BP!End(B, x) = e \/ BP!End(B, x) \in DOMAIN B
      BY <1>1, <2>4, BlockFacts
    <3> QED BY <3>2, <3>3 DEF x
  <2>5. CASE x \notin DOMAIN B
    <3>1. x = H.commit - 8 /\ ~InRegion(H, x)
      BY <2>1, <2>5, InRegionIs DEF e
    <3> QED BY <3>1, <2>3, <2>5 DEF x
  <2> QED BY <2>4, <2>5
<1>5. \A i \in Steps : Good(i)
  <2> DEFINE N == {i \in Steps : ~Good(i)}
  <2>1. SUFFICES ASSUME N # {} PROVE FALSE
    OBVIOUS
  <2>2. N \subseteq Nat
    BY StepsFacts
  <2> HIDE DEF Good
  <2>3. PICK i \in N : \A m \in N : i <= m
    <3> HIDE DEF N
    <3> QED BY <2>1, <2>2, LeastNumber
  <2>4. i \in Steps /\ ~Good(i) /\ i \in Nat
    BY <2>2
  <2>5. i # 0
    BY <2>4, <1>2, <1>3 DEF Good
  <2>6. i - 1 \in Steps /\ i - 1 < i
    BY <2>4, <2>5, StepsFacts, BaseFacts
  <2>7. i - 1 \notin N
    BY <2>3, <2>4, <2>6
  <2>8. Good(i - 1)
    BY <2>6, <2>7
  <2> QED BY <1>4, <2>4, <2>5, <2>8
<1>6. ASSUME NEW i \in Steps, i # 0 PROVE i - 1 \in Steps
  BY <1>6, StepsFacts, BaseFacts
<1>7. \A i \in Steps : i # 0 /\ at[i - 1] \in DOMAIN B => at[i] = BP!End(B, at[i - 1])
  BY <1>4
<1> QED BY <1>2, <1>3, <1>5, <1>7

\* The walk reaches every block.
LEMMA WalkReaches ==
  ASSUME NEW H, NEW B, NEW K, NEW o, NEW D, At(H, B, Frees(B), K, o, D), NEW at, BlockWalk(H) = at,
         NEW h \in DOMAIN B
  PROVE  \E i \in Steps : at[i] = h
<1> DEFINE e == H.commit - 8
           Reached(x) == \E i \in Steps : 32 * i <= x - FirstBlock /\ at[i] = x
           N == {x \in DOMAIN B : ~Reached(x)}
<1>1. Shape(B, e) /\ e \in Int /\ FirstBlock # e /\ e <= Base + Reserve - 8
  <2>1. Shape(B, e) /\ e \in Int /\ FirstBlock + 32 <= e /\ H.commit <= Base + Reserve /\ H.commit \in Int
    BY AtFacts DEF Shape
  <2> QED BY <2>1, BaseFacts
<1>2. /\ at[0] = FirstBlock
      /\ \A i \in Steps : i # 0 /\ at[i - 1] \in DOMAIN B => at[i] = BP!End(B, at[i - 1])
  BY WalkStays
<1> HIDE DEF e
<1>3. SUFFICES ASSUME N # {} PROVE FALSE
  OBVIOUS
<1>4. N \subseteq Nat
  <2>1. ASSUME NEW x \in DOMAIN B PROVE x \in Nat
    <3>1. x \in Int /\ FirstBlock <= x
      BY <1>1, BlockFacts
    <3> QED BY <3>1, BaseFacts
  <2> QED BY <2>1
<1>5. PICK x \in N : \A m \in N : x <= m
  <2> HIDE DEF N
  <2> QED BY <1>3, <1>4, LeastNumber
<1>6. x \in DOMAIN B /\ ~Reached(x) /\ x \in Nat
  BY <1>4
<1>7. x # FirstBlock
  <2>1. SUFFICES ASSUME x = FirstBlock PROVE FALSE
    OBVIOUS
  <2>2. 0 \in Steps /\ 32 * 0 <= x - FirstBlock /\ at[0] = x
    BY <2>1, <1>2, BaseFacts, StepsFacts
  <2> QED BY <2>2, <1>6
<1>8. PICK g \in DOMAIN B : BP!End(B, g) = x
  BY <1>1, <1>6, <1>7, SomeEnds
<1>9. g \in Int /\ g + 32 <= x /\ FirstBlock <= g
  BY <1>1, <1>8, BlockFacts
<1>10. Reached(g)
  <2>1. g \notin N
    <3>1. ~(x <= g)
      BY <1>6, <1>9
    <3> QED BY <3>1, <1>5
  <2> QED BY <2>1
<1>11. PICK i \in Steps : 32 * i <= g - FirstBlock /\ at[i] = g
  BY <1>10
<1>12. x < e
  <2>1. x + 32 <= BP!End(B, x) /\ BP!End(B, x) <= e /\ BP!End(B, x) \in Int
    BY <1>1, <1>6, BlockFacts
  <2> QED BY <2>1, <1>1, <1>6
<1>13. i \in Nat /\ 32 * (i + 1) <= x - FirstBlock /\ i + 1 \in Steps
  <2>1. i \in Nat
    BY StepsFacts
  <2>2. 32 * (i + 1) <= x - FirstBlock
    BY <2>1, <1>6, <1>9, <1>11, BaseFacts
  <2>3. 32 * (i + 1) <= Reserve
    BY <2>1, <2>2, <1>1, <1>6, <1>12, BaseFacts
  <2> QED BY <2>1, <2>2, <2>3, StepsFacts
<1>14. at[i + 1] = x
  <2>1. (i + 1) - 1 = i /\ i + 1 # 0
    BY <1>13
  <2> QED BY <2>1, <1>2, <1>8, <1>11, <1>13
<1> QED BY <1>6, <1>13, <1>14

HeadersOf(H, at) == {h \in {at[i] : i \in Steps} : InRegion(H, h)}

\* The headers it finds are those of the blocks.
LEMMA HeadersAre ==
  ASSUME NEW H, NEW B, NEW K, NEW o, NEW D, At(H, B, Frees(B), K, o, D), NEW h
  PROVE  h \in Headers(H) <=> h \in DOMAIN B
<1> DEFINE at == BlockWalk(H)
<1>1. BlockWalk(H) = at
  OBVIOUS
<1>2. Headers(H) = HeadersOf(H, at)
  <2>1. H.base # 0
    <3>1. Grounds(H)
      BY AtFacts
    <3> QED BY <3>1, BaseFacts DEF Grounds
  <2> QED BY <2>1 DEF Headers, HeadersOf
<1> HIDE DEF at
<1>3. \A i \in Steps : at[i] \in DOMAIN B \/ at[i] = H.commit - 8
  BY <1>1, WalkStays
<1>4. ASSUME h \in DOMAIN B PROVE h \in HeadersOf(H, at)
  <2>1. InRegion(H, h)
    BY <1>4, InRegionIs
  <2>2. \E i \in Steps : at[i] = h
    BY <1>1, <1>4, WalkReaches
  <2> QED BY <2>1, <2>2 DEF HeadersOf
<1>5. ASSUME h \in HeadersOf(H, at) PROVE h \in DOMAIN B
  <2>1. InRegion(H, h) /\ (h \in DOMAIN B \/ h = H.commit - 8)
    BY <1>3, <1>5 DEF HeadersOf
  <2> QED BY <2>1, InRegionIs
<1> QED BY <1>2, <1>4, <1>5

\* The blocks the tags describe are those of the tiling.
LEMMA BlocksAre ==
  ASSUME NEW H, NEW B, NEW K, NEW o, NEW D, Rest(H, B, K, o, D)
  PROVE  BlocksOf(H) = B
<1> DEFINE C == BlocksOf(H)
<1>1. /\ IsFcn(C) /\ DOMAIN C = Headers(H)
      /\ \A h \in Headers(H) : C[h] = [size |-> BSize(H, h), used |-> AllocBit(H, h) = 1]
  BY DEF BlocksOf, IsFcn
<1>2. CASE Bare(H, B, K, o, D)
  <2>1. DOMAIN B = {} /\ IsFcn(B) /\ Headers(H) = {}
    BY <1>2 DEF Bare, Headers
  <2> HIDE DEF C
  <2>2. (\A h : h \in DOMAIN C <=> h \in DOMAIN B) /\ (\A h \in DOMAIN C : C[h] = B[h])
    BY <1>1, <2>1
  <2>3. C = B
    BY <1>1, <2>1, <2>2, SameBlocks
  <2> QED BY <2>3 DEF C
<1>3. CASE At(H, B, Frees(B), K, o, D)
  <2> HIDE DEF C
  <2>1. \A h : h \in DOMAIN C <=> h \in DOMAIN B
    BY <1>1, <1>3, HeadersAre
  <2>2. ASSUME NEW h \in DOMAIN B PROVE C[h] = B[h]
    <3>1. C[h] = [size |-> BSize(H, h), used |-> AllocBit(H, h) = 1]
      BY <1>1, <2>1
    <3>2. BSize(H, h) = B[h].size /\ (AllocBit(H, h) = 1 <=> B[h].used)
      BY <1>3, InRegionIs
    <3>3. Shape(B, H.commit - 8)
      BY <1>3, AtFacts
    <3>4. B[h] = [size |-> B[h].size, used |-> B[h].used] /\ B[h].used \in BOOLEAN
      BY <3>3, BlockFacts
    <3>5. (AllocBit(H, h) = 1) = B[h].used
      BY <3>2, <3>4
    <3> QED BY <3>1, <3>2, <3>4, <3>5
  <2>3. IsFcn(B)
    BY <1>3, AtFacts DEF Shape, IsFcn
  <2>4. C = B
    BY <1>1, <2>1, <2>2, <2>3, SameBlocks
  <2> QED BY <2>4 DEF C
<1> QED BY <1>2, <1>3 DEF Rest

\* Settled keeps the words that mean something.
LEMMA SettledFacts ==
  ASSUME NEW H, IsHeap(H), NEW L, NEW kept, Meaningful(H, L) = kept, NEW G, Settled(H, L) = G
  PROVE  /\ IsHeap(G) /\ SameFields(H, G) /\ G.free = H.free /\ DOMAIN G.mem = DOMAIN H.mem
         /\ \A a \in DOMAIN H.mem : a \in kept => Get(G, a) = Get(H, a)
<1> DEFINE m == [a \in DOMAIN H.mem |-> IF a \in kept THEN H.mem[a] ELSE Junk]
<1>1. G = [H EXCEPT !.mem = m]
  BY DEF Settled
<1>2. DOMAIN m = DOMAIN H.mem /\ m = [a \in DOMAIN m |-> m[a]]
      /\ \A a \in DOMAIN H.mem : a \in kept => m[a] = H.mem[a]
  OBVIOUS
<1> HIDE DEF m
<1>3. /\ G.mem = m /\ G.base = H.base /\ G.commit = H.commit /\ G.reserve = H.reserve
      /\ G.free = H.free /\ G.ready = H.ready
      /\ G = [mem |-> G.mem, base |-> G.base, commit |-> G.commit, reserve |-> G.reserve,
              free |-> G.free, ready |-> G.ready]
  BY <1>1 DEF IsHeap
<1> QED BY <1>2, <1>3 DEF IsHeap, SameFields, Get

\* What means something includes what the proofs rely on.
LEMMA MeaningfulIs ==
  ASSUME NEW H, NEW B, NEW L, NEW T, Sys(H, B, L, T), NEW a
  PROVE  /\ H.base # 0 /\ Essential(H.commit - 8, B, Frees(B), a) => a \in Meaningful(H, L)
         /\ \A p \in DOMAIN L : a \in Words(p, L[p]) => a \in Meaningful(H, L)
         /\ \A p \in DOMAIN T : a = p - 16 \/ a = p - 8 => a \in Meaningful(H, L)
<1> DEFINE ends   == IF H.base = 0 THEN {} ELSE {Base + 8, Base + 16, H.commit - 8}
           tags   == UNION {{h, h + B[h].size - 8} : h \in DOMAIN B}
           links  == UNION {{h + 8, h + 16} : h \in {b \in DOMAIN B : ~B[b].used}}
           mapped == UNION {{p - 16, p - 8} : p \in {q \in DOMAIN L : MmapBit(H, q - 8) # 0}}
           words  == UNION {Words(p, L[p]) : p \in DOMAIN L}
<1>1. BlocksOf(H) = B
  BY SysFacts, BlocksAre
<1>2. Meaningful(H, L) = ends \cup tags \cup links \cup mapped \cup words
  BY <1>1 DEF Meaningful
<1>3. ASSUME NEW p \in DOMAIN L, a \in Words(p, L[p]) PROVE a \in words
  BY <1>3
<1>4. ASSUME NEW p \in DOMAIN T, a = p - 16 \/ a = p - 8 PROVE a \in mapped
  <2>1. p \in DOMAIN L
    BY SysFacts DEF Owners
  <2>2. MmapBit(H, p - 8) # 0
    <3>1. MmapBit(H, p - 8) = 1
      BY <2>1, KindOf
    <3> QED BY <3>1
  <2> QED BY <1>4, <2>1, <2>2
<1>5. ASSUME H.base # 0, Essential(H.commit - 8, B, Frees(B), a) PROVE a \in ends \cup tags \cup links
  <2>1. Shape(B, H.commit - 8)
    BY <1>5, SysFacts, RestFacts, AtFacts
  <2>2. \A h \in DOMAIN B : BP!End(B, h) = h + B[h].size
    BY <2>1, BlockFacts
  <2>3. CASE a = Base + 16 \/ a = H.commit - 8
    BY <1>5, <2>3
  <2>4. CASE \E h \in DOMAIN B : a = h \/ a = BP!End(B, h) - 8
    <3>1. PICK h \in DOMAIN B : a = h \/ a = BP!End(B, h) - 8
      BY <2>4
    <3>2. a \in {h, h + B[h].size - 8}
      <4>1. BP!End(B, h) = h + B[h].size /\ h \in Int /\ B[h].size \in Int
        BY <2>1, BlockFacts
      <4> QED BY <3>1, <4>1
    <3>3. a \in tags
      BY <3>2
    <3> QED BY <3>3
  <2>5. CASE \E h \in Frees(B) : a = h + 8 \/ a = h + 16
    <3>1. a \in links
      BY <2>5 DEF Frees
    <3> QED BY <3>1
  <2> QED BY <1>5, <2>3, <2>4, <2>5 DEF Essential
<1> HIDE DEF ends, tags, links, mapped, words
<1> QED BY <1>2, <1>3, <1>4, <1>5

\* Forgetting what nobody may read changes nothing that counts.
LEMMA SysSettled ==
  ASSUME NEW H, NEW B, NEW L, NEW T, Sys(H, B, L, T), NEW G, Settled(H, L) = G
  PROVE  /\ Sys(G, B, L, T) /\ Brk(G) = Brk(H)
         /\ \A p \in DOMAIN L : \A a \in Words(p, L[p]) : Get(G, a) = Get(H, a)
<1> DEFINE D == MapWords(T)
           kept == Meaningful(H, L)
<1>1. /\ Rest(H, B, KeptWords(L, T), H, D) /\ Owners(B, L, T) /\ Heads(H, T) /\ IsHeap(H)
      /\ \A p \in DOMAIN T : p - 16 \in KeptWords(L, T) /\ p - 8 \in KeptWords(L, T)
  BY SysFacts
<1>2. Meaningful(H, L) = kept
  OBVIOUS
<1> HIDE DEF kept
<1>3. /\ IsHeap(G) /\ SameFields(H, G) /\ G.free = H.free /\ DOMAIN G.mem = DOMAIN H.mem
      /\ \A a \in DOMAIN H.mem : a \in kept => Get(G, a) = Get(H, a)
  BY <1>1, <1>2, SettledFacts
<1>4. /\ \A a : H.base # 0 /\ Essential(H.commit - 8, B, Frees(B), a) => a \in kept
      /\ \A p \in DOMAIN L : \A a \in Words(p, L[p]) : a \in kept
      /\ \A p \in DOMAIN T : p - 16 \in kept /\ p - 8 \in kept
  BY <1>2, MeaningfulIs
<1>5. Brk(G) = Brk(H)
  BY <1>3 DEF SameFields, Brk
<1>6. Outside(D)
  BY <1>1, MapOutside
<1>7. Kept(G, B, Frees(B), {}, G, D)
  BY DEF Kept
<1>8. Rest(G, B, {}, G, D)
  <2>1. CASE H.base = 0
    <3>1. Bare(H, B, KeptWords(L, T), H, D)
      BY <1>1, <2>1, RestFacts
    <3>2. /\ H.free = 0 /\ H.ready \in BOOLEAN /\ IsFcn(B) /\ DOMAIN B = {} /\ DOMAIN H.mem = D
      BY <3>1 DEF Bare
    <3>3. G.base = 0 /\ G.ready = H.ready
      BY <1>3, <2>1 DEF SameFields
    <3>4. Bare(G, B, {}, G, D)
      BY <1>3, <1>6, <3>2, <3>3 DEF Bare
    <3> QED BY <3>4 DEF Rest
  <2>2. CASE H.base # 0
    <3>1. At(H, B, Frees(B), KeptWords(L, T), H, D) /\ BP!NoNeighboursFree(B)
      BY <1>1, <2>2, RestFacts
    <3>2. DOMAIN G.mem = RegionWords(H.commit - 8) \cup D
      BY <1>3, <3>1 DEF At, RegionWords
    <3>3. \A a : Essential(H.commit - 8, B, Frees(B), a) => Get(G, a) = Get(H, a)
      <4>1. \A a : Essential(H.commit - 8, B, Frees(B), a) => a \in DOMAIN H.mem
        BY <3>1, EssentialFacts
      <4> QED BY <4>1, <1>3, <1>4, <2>2
    <3> HIDE DEF D
    <3>4. At(G, B, Frees(B), {}, G, D)
      BY <1>3, <1>6, <1>7, <3>1, <3>2, <3>3, FrameAt
    <3> QED BY <3>1, <3>4 DEF Rest
  <2> QED BY <2>1, <2>2
<1>9. Rest(G, B, KeptWords(L, T), G, D)
  BY <1>1, <1>8, OwnersKept
<1>10. Heads(G, T)
  <2>1. \A p \in DOMAIN T : p - 16 \in DOMAIN H.mem /\ p - 8 \in DOMAIN H.mem
    BY <1>1, RestKept
  <2> QED BY <1>1, <1>3, <1>4, <2>1 DEF Heads
<1>11. \A p \in DOMAIN L : \A a \in Words(p, L[p]) : Get(G, a) = Get(H, a)
  BY <1>3, <1>4, OwnWords
<1> QED BY <1>1, <1>5, <1>9, <1>10, <1>11 DEF Sys

-----------------------------------------------------------------------------
(* Whole calls, what is forgotten between them included. *)

\* What a call does, to the heap H, its blocks B and the pointers L.
Idle(H, G, B, C, L, M) ==
  M = L /\ Readied(B, Brk(H), C, Brk(G)) /\ Intact(H, G, L, 0)
GivenAt(H, G, B, C, L, M, q, n) ==
  /\ n \in Requests /\ q \notin DOMAIN L /\ q \in Int /\ q > 0 /\ M = Held(L, q, n)
  /\ Stepped(B, Brk(H), C, Brk(G), n, q) /\ Intact(H, G, L, q)
ReturnedAt(H, G, B, C, L, M, T, p) ==
  M = Without(L, p) /\ Gone(B, C, T, p) /\ Brk(G) = Brk(H) /\ Intact(H, G, L, p)
RelocatedAt(H, G, B, C, L, M, T, p, q, n) ==
  /\ n \in Requests /\ q \notin DOMAIN L /\ q \in Int /\ q > 0 /\ M = Swapped(L, p, q, n)
  /\ Intact(H, G, L, p) /\ Carried(H, G, p, L[p], q, n)
  /\ \E N : /\ Stepped(B, Brk(H), N, Brk(G), n, q)
            /\ \/ p \in DOMAIN T /\ C = N
               \/ p \notin DOMAIN T /\ p - 8 \in Useds(B) /\ BP!Released(N, p - 8) = C
ResizedAt(H, G, B, C, L, M, T, p, n) ==
  /\ n \in Requests /\ M = Swapped(L, p, p, n) /\ Brk(G) = Brk(H)
  /\ Intact(H, G, L, p) /\ Carried(H, G, p, L[p], p, n)
  /\ p \notin DOMAIN T /\ p - 8 \in Useds(B)
  /\ C = B \/ Shrunk(B, C, p - 8, Need(n)) \/ Absorbed(B, C, p - 8, Need(n))
WrittenAt(H, G, B, C, L, M, p) ==
  M = L /\ C = B /\ Brk(G) = Brk(H) /\ Intact(H, G, L, p)

\* The end of a call: the object at q is written to, the rest is forgotten.
LEMMA Finish ==
  ASSUME NEW F, NEW C, NEW M, NEW U, Sys(F, C, M, U), NEW q \in DOMAIN M,
         NEW ws, DOMAIN ws \subseteq Words(q, M[q]), NEW G, Settled(PutWords(F, ws), M) = G
  PROVE  /\ Sys(G, C, M, U) /\ Brk(G) = Brk(F) /\ Intact(F, G, M, q)
         /\ \A a \in Words(q, M[q]) : a \notin DOMAIN ws => Get(G, a) = Get(F, a)
<1> DEFINE E == PutWords(F, ws)
<1>1. PutWords(F, ws) = E /\ Settled(E, M) = G
  OBVIOUS
<1> HIDE DEF E
<1>2. /\ Sys(E, C, M, U) /\ Brk(E) = Brk(F) /\ Intact(F, E, M, q)
      /\ \A a \in Words(q, M[q]) : a \notin DOMAIN ws => Get(E, a) = Get(F, a)
  BY <1>1, SysWrite
<1>3. /\ Sys(G, C, M, U) /\ Brk(G) = Brk(E)
      /\ \A p \in DOMAIN M : \A a \in Words(p, M[p]) : Get(G, a) = Get(E, a)
  BY <1>1, <1>2, SysSettled
<1> QED BY <1>2, <1>3 DEF Intact

\* Intact over two steps that each leave one object out.
LEMMA IntactAlong ==
  ASSUME NEW H, NEW F, NEW G, NEW L, NEW M, NEW p, NEW q, Intact(H, F, L, p), Intact(F, G, M, q),
         \A x \in DOMAIN L : x # p => x # q /\ x \in DOMAIN M /\ M[x] = L[x]
  PROVE  Intact(H, G, L, p)
BY DEF Intact

\* A refused request.
LEMMA RefusedStep ==
  ASSUME NEW H, NEW B, NEW L, NEW T, NEW F, Refused(H, B, F, L, T), NEW G, Settled(F, L) = G
  PROVE  \E C : Sys(G, C, L, T) /\ Idle(H, G, B, C, L, L)
<1>1. Intact(H, F, L, 0)
  BY DEF Refused
<1>2. PICK C : Sys(F, C, L, T) /\ Readied(B, Brk(H), C, Brk(F))
  BY DEF Refused
<1>3. Sys(G, C, L, T) /\ Brk(G) = Brk(F) /\ \A p \in DOMAIN L : \A a \in Words(p, L[p]) : Get(G, a) = Get(F, a)
  BY <1>2, SysSettled
<1>4. Intact(H, G, L, 0)
  BY <1>1, <1>3 DEF Intact
<1> QED BY <1>2, <1>3, <1>4 DEF Idle

\* memset writes the words of the object.
LEMMA RefilledIs ==
  ASSUME NEW H, NEW p, NEW n, NEW v
  PROVE  \E ws : Refilled(H, p, n, v) = PutWords(H, ws) /\ DOMAIN ws = Words(p, n)
<1> DEFINE ws == Filled(p, n, v)
<1>1. Refilled(H, p, n, v) = PutWords(H, ws) /\ DOMAIN ws = Words(p, n)
  BY FilledFacts DEF Refilled
<1> HIDE DEF ws
<1> QED BY <1>1

\* malloc and calloc
LEMMA GiveStep ==
  ASSUME NEW H, NEW B, NEW L, NEW T, Sys(H, B, L, T), NEW n \in Requests, NEW v,
         NEW r \in MallocOutcomes(H, n), NEW M, (IF r.ptr = 0 THEN L ELSE Held(L, r.ptr, n)) = M,
         NEW G, Settled(IF r.ptr = 0 THEN r.heap ELSE Refilled(r.heap, r.ptr, n, v), M) = G
  PROVE  \E C, U : /\ Sys(G, C, M, U)
                   /\ \/ r.ptr = 0 /\ Idle(H, G, B, C, L, M)
                      \/ r.ptr # 0 /\ GivenAt(H, G, B, C, L, M, r.ptr, n)
<1> DEFINE q == r.ptr
           F == r.heap
<1>1. CASE q = 0 /\ Refused(H, B, F, L, T)
  <2>1. M = L /\ Settled(F, L) = G
    BY <1>1
  <2>2. \E C : Sys(G, C, L, T) /\ Idle(H, G, B, C, L, L)
    BY <1>1, <2>1, RefusedStep
  <2> QED BY <1>1, <2>1, <2>2
<1>2. ASSUME q # 0, q \notin DOMAIN L, q \in Int, q > 0, Intact(H, F, L, q),
             NEW C, NEW U, Sys(F, C, Held(L, q, n), U), Stepped(B, Brk(H), C, Brk(F), n, q)
      PROVE  Sys(G, C, M, U) /\ GivenAt(H, G, B, C, L, M, q, n)
  <2>1. Held(L, q, n) = M /\ Settled(Refilled(F, q, n, v), M) = G
    BY <1>2
  <2> HIDE DEF q, F
  <2>2. SameBut(L, M, q) /\ q \in DOMAIN M /\ M[q] = n
    BY <2>1, HeldFacts
  <2>3. PICK ws : Refilled(F, q, n, v) = PutWords(F, ws) /\ DOMAIN ws = Words(q, n)
    BY RefilledIs
  <2>4. Sys(F, C, M, U) /\ DOMAIN ws \subseteq Words(q, M[q]) /\ Settled(PutWords(F, ws), M) = G
    BY <1>2, <2>1, <2>2, <2>3
  <2>5. /\ Sys(G, C, M, U) /\ Brk(G) = Brk(F) /\ Intact(F, G, M, q)
    BY <2>2, <2>4, Finish
  <2>6. Intact(H, G, L, q)
    <3>1. \A x \in DOMAIN L : x # q => x # q /\ x \in DOMAIN M /\ M[x] = L[x]
      BY <2>2 DEF SameBut
    <3> QED BY <3>1, <1>2, <2>5, IntactAlong
  <2> QED BY <1>2, <2>1, <2>5, <2>6 DEF GivenAt
<1>3. CASE GaveBlock(H, B, F, q, L, T, n)
  <2>1. PICK C : Sys(F, C, Held(L, q, n), T) /\ Took(B, Brk(H), C, Brk(F), Need(n), q - 8)
    BY <1>3 DEF GaveBlock
  <2>2. q # 0 /\ q \notin DOMAIN L /\ q \in Int /\ q > 0 /\ Intact(H, F, L, q)
    BY <1>3 DEF GaveBlock
  <2>3. Stepped(B, Brk(H), C, Brk(F), n, q)
    BY <2>1 DEF Stepped
  <2> HIDE DEF q, F
  <2>4. Sys(G, C, M, T) /\ GivenAt(H, G, B, C, L, M, q, n)
    BY <1>2, <2>1, <2>2, <2>3
  <2> QED BY <2>2, <2>4 DEF q
<1>4. CASE GaveMapping(H, B, F, q, L, T, n)
  <2>1. PICK C, t : Sys(F, C, Held(L, q, n), Held(T, q, t)) /\ Readied(B, Brk(H), C, Brk(F))
    BY <1>4 DEF GaveMapping
  <2>2. q # 0 /\ q \notin DOMAIN L /\ q \in Int /\ q > 0 /\ Intact(H, F, L, q)
    BY <1>4 DEF GaveMapping
  <2>3. Stepped(B, Brk(H), C, Brk(F), n, q)
    BY <2>1 DEF Stepped
  <2> DEFINE U == Held(T, q, t)
  <2>5. Sys(F, C, Held(L, q, n), U)
    BY <2>1
  <2> HIDE DEF q, F, U
  <2>4. Sys(G, C, M, U) /\ GivenAt(H, G, B, C, L, M, q, n)
    BY <1>2, <2>2, <2>3, <2>5
  <2> QED BY <2>2, <2>4 DEF q
<1> QED BY <1>1, <1>3, <1>4, SysMalloc

\* free
LEMMA ReturnStep ==
  ASSUME NEW H, NEW B, NEW L, NEW T, Sys(H, B, L, T), NEW p \in DOMAIN L,
         NEW M, Without(L, p) = M, NEW G, Settled(FreedHeap(H, p), M) = G
  PROVE  \E C, U : Sys(G, C, M, U) /\ ReturnedAt(H, G, B, C, L, M, T, p)
<1> DEFINE F == FreedHeap(H, p)
<1>1. FreedHeap(H, p) = F /\ Settled(F, M) = G
  OBVIOUS
<1> HIDE DEF F
<1>2. SameBut(L, M, p) /\ p \notin DOMAIN M
  BY WithoutFacts
<1>3. Brk(F) = Brk(H) /\ Intact(H, F, L, p) /\ \E C, U : Sys(F, C, M, U) /\ Gone(B, C, T, p)
  BY <1>1, <1>2, SysFree
<1>4. PICK C, U : Sys(F, C, M, U) /\ Gone(B, C, T, p)
  BY <1>3
<1>5. Sys(G, C, M, U) /\ Brk(G) = Brk(F) /\ \A q \in DOMAIN M : \A a \in Words(q, M[q]) : Get(G, a) = Get(F, a)
  BY <1>1, <1>4, SysSettled
<1>6. Intact(H, G, L, p)
  BY <1>2, <1>3, <1>5 DEF Intact, SameBut
<1> QED BY <1>3, <1>4, <1>5, <1>6 DEF ReturnedAt

\* A grown object: what lies behind its old bytes is written.
LEMMA GrownIs ==
  ASSUME NEW F, NEW q, NEW old \in Nat, old % 8 = 0, NEW n \in Nat, n % 8 = 0, IsObject(q, n), n > old
  PROVE  \E ws : /\ Grown(F, q, old, n) = PutWords(F, ws) /\ DOMAIN ws \subseteq Words(q, n)
                 /\ \A w \in DOMAIN ws : q + old <= w
<1>1. PICK ws : Refilled(F, q + old, n - old, Junk) = PutWords(F, ws) /\ DOMAIN ws = Words(q + old, n - old)
  BY RefilledIs
<1>2. IsObject(q, n) /\ q \in Int /\ q % 16 = 0 /\ q % 8 = 0 /\ q > 0
  BY DEF IsObject
<1>3. ASSUME NEW w \in Words(q + old, n - old)
      PROVE  w \in Words(q, n) /\ q + old <= w
  <2>1. PICK i \in 0..((n - old) \div 8) - 1 : w = (q + old) + 8 * i
    BY DEF Words
  <2>2. i \in Int /\ 0 <= i /\ 8 * i < n - old
    OBVIOUS
  <2>3. w \in Int /\ q <= w /\ w < q + n /\ w % 8 = 0 /\ q + old <= w
    BY <1>2, <2>1, <2>2
  <2> QED BY <1>2, <2>3, ObjectWords
<1>4. Grown(F, q, old, n) = Refilled(F, q + old, n - old, Junk)
  BY DEF Grown
<1> QED BY <1>1, <1>3, <1>4

\* The end of a realloc that put the object of p at q.
LEMMA FinishGrown ==
  ASSUME NEW H, NEW F, NEW C, NEW M, NEW U, Sys(F, C, M, U), NEW p, NEW q \in DOMAIN M,
         NEW old, IsObject(p, old), NEW n, M[q] = n, Carried(H, F, p, old, q, n),
         NEW G, Settled(Grown(F, q, old, n), M) = G
  PROVE  Sys(G, C, M, U) /\ Brk(G) = Brk(F) /\ Intact(F, G, M, q) /\ Carried(H, G, p, old, q, n)
<1>0. /\ IsObject(q, n) /\ IsObject(p, old) /\ n \in Nat /\ n % 8 = 0 /\ old \in Nat /\ old % 8 = 0
      /\ p \in Int /\ q \in Int /\ p % 8 = 0 /\ q % 8 = 0
  <2>1. IsObject(q, n)
    BY SysFacts DEF Owners
  <2> QED BY <2>1 DEF IsObject
<1>1. Carried(H, F, p, old, q, n) /\ Settled(Grown(F, q, old, n), M) = G /\ M[q] = n
  OBVIOUS
<1>2. ASSUME NEW a \in Words(p, old), a < p + n
      PROVE  q + (a - p) \in Words(q, n) /\ q + (a - p) < q + old
  <2>1. a \in Int /\ p <= a /\ a < p + old /\ a % 8 = 0
    BY <1>0, ObjectWords
  <2> DEFINE w == q + (a - p)
  <2>2. w \in Int /\ q <= w /\ w < q + n /\ w % 8 = 0 /\ w < q + old
    BY <1>0, <1>2, <2>1
  <2> HIDE DEF w
  <2>3. w \in Words(q, n)
    BY <1>0, <2>2, ObjectWords
  <2> QED BY <2>2, <2>3 DEF w
<1>3. CASE n > old
  <2>1. PICK ws : /\ Grown(F, q, old, n) = PutWords(F, ws) /\ DOMAIN ws \subseteq Words(q, n)
                  /\ \A w \in DOMAIN ws : q + old <= w
    BY <1>0, <1>3, GrownIs
  <2>2. DOMAIN ws \subseteq Words(q, M[q]) /\ Settled(PutWords(F, ws), M) = G
    BY <1>1, <2>1
  <2>3. /\ Sys(G, C, M, U) /\ Brk(G) = Brk(F) /\ Intact(F, G, M, q)
        /\ \A a \in Words(q, M[q]) : a \notin DOMAIN ws => Get(G, a) = Get(F, a)
    BY <2>2, Finish
  <2>4. ASSUME NEW a \in Words(p, old), a < p + n
        PROVE  Get(G, q + (a - p)) = Get(H, a)
    <3>1. a \in Int
      BY <1>0, <2>4, ObjectWords
    <3>2. q + (a - p) \in Words(q, n) /\ q + (a - p) < q + old
      BY <1>2, <2>4
    <3>3. q + (a - p) \notin DOMAIN ws
      <4> DEFINE w == q + (a - p)
      <4>1. w < q + old /\ w \in Int /\ q + old \in Int
        BY <1>0, <3>1, <3>2
      <4> HIDE DEF w
      <4>2. w \notin DOMAIN ws
        BY <2>1, <4>1
      <4> QED BY <4>2 DEF w
    <3> QED BY <1>1, <2>3, <2>4, <3>2, <3>3 DEF Carried
  <2> QED BY <2>3, <2>4 DEF Carried
<1>4. CASE ~(n > old)
  <2>1. Settled(F, M) = G
    BY <1>1, <1>4 DEF Grown
  <2>2. /\ Sys(G, C, M, U) /\ Brk(G) = Brk(F)
        /\ \A x \in DOMAIN M : \A a \in Words(x, M[x]) : Get(G, a) = Get(F, a)
    BY <2>1, SysSettled
  <2>3. Intact(F, G, M, q)
    BY <2>2 DEF Intact
  <2>4. ASSUME NEW a \in Words(p, old), a < p + n
        PROVE  Get(G, q + (a - p)) = Get(H, a)
    BY <1>1, <1>2, <2>2, <2>4 DEF Carried
  <2> QED BY <2>2, <2>3, <2>4 DEF Carried
<1> QED BY <1>3, <1>4

\* realloc
LEMMA ReallocStep ==
  ASSUME NEW H, NEW B, NEW L, NEW T, Sys(H, B, L, T), NEW p \in DOMAIN L, NEW n \in Requests,
         NEW r \in ReallocOutcomes(H, p, n), NEW M, (IF r.ptr = 0 THEN L ELSE Swapped(L, p, r.ptr, n)) = M,
         NEW G, Settled(IF r.ptr = 0 THEN r.heap ELSE Grown(r.heap, r.ptr, L[p], n), M) = G
  PROVE  \E C, U : /\ Sys(G, C, M, U)
                   /\ \/ r.ptr = 0 /\ Idle(H, G, B, C, L, M)
                      \/ r.ptr # 0 /\ RelocatedAt(H, G, B, C, L, M, T, p, r.ptr, n)
                      \/ r.ptr # 0 /\ r.ptr = p /\ ResizedAt(H, G, B, C, L, M, T, p, n)
<1> DEFINE q == r.ptr
           F == r.heap
<1>1. CASE q = 0 /\ Refused(H, B, F, L, T)
  <2>1. M = L /\ Settled(F, L) = G
    BY <1>1
  <2>2. \E C : Sys(G, C, L, T) /\ Idle(H, G, B, C, L, L)
    BY <1>1, <2>1, RefusedStep
  <2> QED BY <1>1, <2>1, <2>2
<1>2. Owners(B, L, T) /\ IsObject(p, L[p]) /\ 0 \notin DOMAIN L
  <2>1. Owners(B, L, T)
    BY SysFacts
  <2> QED BY <2>1, NoNull DEF Owners
<1>3. CASE MovedTo(H, B, F, p, q, L, T, n)
  <2>1. q \notin DOMAIN L /\ q \in Int /\ q > 0 /\ Intact(H, F, L, p) /\ Carried(H, F, p, L[p], q, n)
    BY <1>3 DEF MovedTo
  <2>2. Swapped(L, p, q, n) = M /\ Settled(Grown(F, q, L[p], n), M) = G
    BY <2>1
  <2>3. PICK C, U : /\ Sys(F, C, Swapped(L, p, q, n), U)
                    /\ \E N : /\ Stepped(B, Brk(H), N, Brk(F), n, q)
                              /\ \/ p \in DOMAIN T /\ C = N
                                 \/ p \notin DOMAIN T /\ p - 8 \in Useds(B) /\ BP!Released(N, p - 8) = C
    BY <1>3 DEF MovedTo
  <2>4. q # 0
    BY <2>1
  <2> HIDE DEF q, F
  <2>5. q # p /\ q \in DOMAIN M /\ M[q] = n /\ \A x \in DOMAIN L : x # p => x # q /\ x \in DOMAIN M /\ M[x] = L[x]
    BY <2>1, <2>2 DEF Swapped
  <2>6. Sys(F, C, M, U) /\ Carried(H, F, p, L[p], q, n) /\ Settled(Grown(F, q, L[p], n), M) = G
    BY <2>1, <2>2, <2>3, <2>5
  <2>10. q \in DOMAIN M /\ IsObject(p, L[p]) /\ M[q] = n
    BY <1>2, <2>5
  <2>7. Sys(G, C, M, U) /\ Brk(G) = Brk(F) /\ Intact(F, G, M, q) /\ Carried(H, G, p, L[p], q, n)
    BY <2>6, <2>10, FinishGrown
  <2>8. Intact(H, G, L, p)
    BY <2>1, <2>5, <2>7, IntactAlong
  <2>9. RelocatedAt(H, G, B, C, L, M, T, p, q, n)
    BY <2>1, <2>2, <2>3, <2>5, <2>7, <2>8 DEF RelocatedAt
  <2> QED BY <2>4, <2>7, <2>9 DEF q
<1>4. CASE q = p /\ StayedAt(H, B, F, p, L, T, n)
  <2>1. q # 0 /\ Swapped(L, p, p, n) = M /\ Settled(Grown(F, p, L[p], n), M) = G
    BY <1>2, <1>4
  <2>2. /\ Intact(H, F, L, p) /\ Carried(H, F, p, L[p], p, n) /\ Brk(F) = Brk(H)
        /\ p \notin DOMAIN T /\ p - 8 \in Useds(B)
    BY <1>4 DEF StayedAt
  <2>3. PICK C : /\ Sys(F, C, Swapped(L, p, p, n), T)
                 /\ C = B \/ Shrunk(B, C, p - 8, Need(n)) \/ Absorbed(B, C, p - 8, Need(n))
    BY <1>4 DEF StayedAt
  <2>4. q = p
    BY <1>4
  <2> HIDE DEF q, F
  <2>5. p \in DOMAIN M /\ M[p] = n /\ \A x \in DOMAIN L : x # p => x # p /\ x \in DOMAIN M /\ M[x] = L[x]
    BY <2>1 DEF Swapped
  <2>6. Sys(F, C, M, T) /\ Carried(H, F, p, L[p], p, n) /\ Settled(Grown(F, p, L[p], n), M) = G
    <3>1. Sys(F, C, Swapped(L, p, p, n), T)
      BY <2>3
    <3>2. Sys(F, C, M, T)
      BY <2>1, <3>1, Zenon
    <3> QED BY <2>1, <2>2, <3>2
  <2>10. p \in DOMAIN M /\ IsObject(p, L[p]) /\ M[p] = n
    BY <1>2, <2>5
  <2>7. Sys(G, C, M, T) /\ Brk(G) = Brk(F) /\ Intact(F, G, M, p) /\ Carried(H, G, p, L[p], p, n)
    BY <2>6, <2>10, FinishGrown
  <2>8. Intact(H, G, L, p)
    BY <2>2, <2>5, <2>7, IntactAlong
  <2>9. ResizedAt(H, G, B, C, L, M, T, p, n)
    BY <2>1, <2>2, <2>3, <2>5, <2>7, <2>8 DEF ResizedAt
  <2> QED BY <2>1, <2>4, <2>7, <2>9 DEF q
<1> QED BY <1>1, <1>3, <1>4, SysRealloc

\* A caller's store.
LEMMA StoreStep ==
  ASSUME NEW H, NEW B, NEW L, NEW T, Sys(H, B, L, T), NEW p \in DOMAIN L, NEW v,
         NEW G, Refilled(H, p, L[p], v) = G
  PROVE  Sys(G, B, L, T) /\ WrittenAt(H, G, B, B, L, L, p)
<1>1. PICK ws : Refilled(H, p, L[p], v) = PutWords(H, ws) /\ DOMAIN ws = Words(p, L[p])
  BY RefilledIs
<1>2. PutWords(H, ws) = G /\ DOMAIN ws \subseteq Words(p, L[p])
  BY <1>1
<1>3. Sys(G, B, L, T) /\ Brk(G) = Brk(H) /\ Intact(H, G, L, p)
  BY <1>2, SysWrite
<1> QED BY <1>3 DEF WrittenAt

\* What a step of the specification does to blocks B that become C.
Turns(B, C, T) ==
  \/ held' = held /\ Idle(heap, heap', B, C, live, live')
  \/ held < MaxLive /\ held' = held + 1 /\ \E q, n : GivenAt(heap, heap', B, C, live, live', q, n)
  \/ \E p \in DOMAIN live :
       \/ held' = held - 1 /\ ReturnedAt(heap, heap', B, C, live, live', T, p)
       \/ held' = held /\ \E q, n : RelocatedAt(heap, heap', B, C, live, live', T, p, q, n)
       \/ held' = held /\ \E n : ResizedAt(heap, heap', B, C, live, live', T, p, n)
       \/ held' = held /\ WrittenAt(heap, heap', B, C, live, live', p)

\* malloc or calloc, as a step of the specification.
LEMMA Afresh ==
  ASSUME NEW B, NEW T, Sys(heap, B, live, T), held < MaxLive, NEW n \in Requests, NEW v,
         NEW r \in MallocOutcomes(heap, n), Handed(r.ptr, n),
         heap' = Settled(IF r.ptr = 0 THEN r.heap ELSE Refilled(r.heap, r.ptr, n, v), live')
  PROVE  \E C, U : Sys(heap', C, live', U) /\ Turns(B, C, T)
<1>1. (IF r.ptr = 0 THEN live ELSE Held(live, r.ptr, n)) = live'
  BY DEF Handed, Holding, Held
<1>2. Settled(IF r.ptr = 0 THEN r.heap ELSE Refilled(r.heap, r.ptr, n, v), live') = heap'
  OBVIOUS
<1>3. PICK C, U : /\ Sys(heap', C, live', U)
                  /\ \/ r.ptr = 0 /\ Idle(heap, heap', B, C, live, live')
                     \/ r.ptr # 0 /\ GivenAt(heap, heap', B, C, live, live', r.ptr, n)
  BY <1>1, <1>2, GiveStep
<1>4. CASE r.ptr = 0
  BY <1>3, <1>4 DEF Handed, Turns
<1>5. CASE r.ptr # 0
  BY <1>3, <1>5 DEF Handed, Turns
<1> QED BY <1>3, <1>4, <1>5

\* What callers can ask for.
LEMMA SizesAreRequests ==
  /\ Sizes \subseteq Requests
  /\ \A p \in Products : p[1] * p[2] \in Requests
BY DEF Requests

\* No request is so large that u64 arithmetic would change it.
LEMMA WordIs ==
  ASSUME NEW x \in Requests
  PROVE  Word(x) = x
<1>1. x \in Nat /\ WordRange \in Nat /\ x + PageSize + 32 <= WordRange /\ PageSize \in Nat
  BY RequestAssumption, HeapAssumption
<1>2. x % WordRange = x
  BY <1>1
<1> QED BY <1>2 DEF Word

\* A MallocCall.
LEMMA MallocTurns ==
  ASSUME NEW B, NEW T, Sys(heap, B, live, T), NEW n \in Sizes, MallocCall(n)
  PROVE  \E C, U : Sys(heap', C, live', U) /\ Turns(B, C, T)
<1>1. n \in Requests
  BY SizesAreRequests
<1>2. held < MaxLive
  BY DEF MallocCall
<1>3. PICK r \in MallocOutcomes(heap, n) :
        /\ Handed(r.ptr, n)
        /\ heap' = Settled(IF r.ptr = 0 THEN r.heap ELSE Refilled(r.heap, r.ptr, n, Junk), live')
  BY DEF MallocCall
<1> QED BY <1>1, <1>2, <1>3, Afresh

\* A CallocCall: the product does not wrap around.
LEMMA CallocTurns ==
  ASSUME NEW B, NEW T, Sys(heap, B, live, T), NEW p \in Products, CallocCall(p[1], p[2])
  PROVE  \E C, U : Sys(heap', C, live', U) /\ Turns(B, C, T)
<1> DEFINE n == p[1] * p[2]
           z == 0
<1>1. n \in Requests
  BY SizesAreRequests
<1>2. held < MaxLive /\ \E r \in MallocOutcomes(heap, Word(n)) :
        /\ Handed(r.ptr, n)
        /\ heap' = Settled(IF r.ptr = 0 THEN r.heap ELSE Refilled(r.heap, r.ptr, Word(n), z), live')
  BY DEF CallocCall
<1> HIDE DEF n, z
<1>3. Word(n) = n
  BY <1>1, WordIs
<1>4. PICK r \in MallocOutcomes(heap, n) :
        /\ Handed(r.ptr, n)
        /\ heap' = Settled(IF r.ptr = 0 THEN r.heap ELSE Refilled(r.heap, r.ptr, n, z), live')
  BY <1>2, <1>3
<1> QED BY <1>1, <1>2, <1>4, Afresh

\* A FreeCall.
LEMMA FreeTurns ==
  ASSUME NEW B, NEW T, Sys(heap, B, live, T), NEW p \in DOMAIN live, FreeCall(p)
  PROVE  \E C, U : Sys(heap', C, live', U) /\ Turns(B, C, T)
<1>1. Without(live, p) = live' /\ Settled(FreedHeap(heap, p), live') = heap' /\ held' = held - 1
  BY DEF FreeCall, Without
<1>2. PICK C, U : Sys(heap', C, live', U) /\ ReturnedAt(heap, heap', B, C, live, live', T, p)
  BY <1>1, ReturnStep
<1> QED BY <1>1, <1>2 DEF Turns

\* A ReallocCall.
LEMMA ReallocTurns ==
  ASSUME NEW B, NEW T, Sys(heap, B, live, T), NEW p \in DOMAIN live, NEW n \in Sizes, ReallocCall(p, n)
  PROVE  \E C, U : Sys(heap', C, live', U) /\ Turns(B, C, T)
<1>1. n \in Requests
  BY SizesAreRequests
<1>2. held' = held
  BY DEF ReallocCall
<1>3. PICK r \in ReallocOutcomes(heap, p, n) :
        /\ live' = IF r.ptr = 0 THEN live ELSE Holding(r.ptr, n, DOMAIN live \ {p})
        /\ heap' = Settled(IF r.ptr = 0 THEN r.heap ELSE Grown(r.heap, r.ptr, live[p], n), live')
  BY DEF ReallocCall
<1>4. /\ (IF r.ptr = 0 THEN live ELSE Swapped(live, p, r.ptr, n)) = live'
      /\ Settled(IF r.ptr = 0 THEN r.heap ELSE Grown(r.heap, r.ptr, live[p], n), live') = heap'
  BY <1>3 DEF Holding, Swapped
<1>5. PICK C, U : /\ Sys(heap', C, live', U)
                  /\ \/ r.ptr = 0 /\ Idle(heap, heap', B, C, live, live')
                     \/ r.ptr # 0 /\ RelocatedAt(heap, heap', B, C, live, live', T, p, r.ptr, n)
                     \/ r.ptr # 0 /\ r.ptr = p /\ ResizedAt(heap, heap', B, C, live, live', T, p, n)
  BY <1>1, <1>4, ReallocStep
<1> QED BY <1>2, <1>5 DEF Turns

\* A caller's store.
LEMMA StoreTurns ==
  ASSUME NEW B, NEW T, Sys(heap, B, live, T), NEW p \in DOMAIN live, NEW v, CallerStores(p, v)
  PROVE  \E C, U : Sys(heap', C, live', U) /\ Turns(B, C, T)
<1>1. Refilled(heap, p, live[p], v) = heap' /\ live' = live /\ held' = held
  BY DEF CallerStores
<1>2. Sys(heap', B, live, T) /\ WrittenAt(heap, heap', B, B, live, live, p)
  BY <1>1, StoreStep
<1>3. Sys(heap', B, live', T) /\ WrittenAt(heap, heap', B, B, live, live', p)
  BY <1>1, <1>2
<1> QED BY <1>1, <1>3 DEF Turns

\* Every step keeps Sys and is one of the six relations.
LEMMA EveryTurn ==
  ASSUME NEW B, NEW T, Sys(heap, B, live, T), HeapNext
  PROVE  \E C, U : Sys(heap', C, live', U) /\ Turns(B, C, T)
<1>1. CASE \E n \in Sizes : MallocCall(n)
  BY <1>1, MallocTurns
<1>2. CASE \E p \in Products : CallocCall(p[1], p[2])
  BY <1>2, CallocTurns
<1>3. CASE \E p \in DOMAIN live : FreeCall(p)
  BY <1>3, FreeTurns
<1>4. CASE \E p \in DOMAIN live : \E n \in Sizes : ReallocCall(p, n)
  BY <1>4, ReallocTurns
<1>5. CASE \E p \in DOMAIN live : \E v \in Stored : CallerStores(p, v)
  BY <1>5, StoreTurns
<1> QED BY <1>1, <1>2, <1>3, <1>4, <1>5 DEF HeapNext

-----------------------------------------------------------------------------
(* The inductive invariant. *)

\* The inductive invariant: the heap's words are some blocks at rest that the
\* callers own together with some mappings, and the callers are counted.
Counted == IsFiniteSet(DOMAIN live) /\ held = Cardinality(DOMAIN live) /\ held <= MaxLive
HeapInv == (\E B, T : Sys(heap, B, live, T)) /\ Counted

\* In the beginning there are no blocks and no owners.
LEMMA InitSys ==
  ASSUME HeapInit, NEW N, N = [h \in {} |-> [size |-> 0, used |-> FALSE]]
  PROVE  Sys(heap, N, live, live)
<1>1. DOMAIN live = {} /\ DOMAIN N = {} /\ IsFcn(N)
  BY DEF HeapInit, IsFcn
<1>2. IsHeap(heap) /\ heap.base = 0 /\ heap.free = 0 /\ heap.ready \in BOOLEAN /\ DOMAIN heap.mem = {}
  BY DEF HeapInit, IsHeap
<1>3. MapWords(live) = {} /\ KeptWords(live, live) = {}
  BY <1>1 DEF MapWords, KeptWords
<1>4. Outside({})
  BY DEF Outside
<1>5. Bare(heap, N, {}, heap, {})
  BY <1>1, <1>2, <1>4 DEF Bare
<1>6. Rest(heap, N, KeptWords(live, live), heap, MapWords(live))
  BY <1>3, <1>5 DEF Rest
<1>7. Owners(N, live, live)
  BY <1>1 DEF Owners, Useds
<1>8. Heads(heap, live)
  BY <1>1 DEF Heads
<1> QED BY <1>6, <1>7, <1>8 DEF Sys

\* In the beginning nobody holds anything.
LEMMA InitCounted ==
  ASSUME HeapInit
  PROVE  Counted
<1>1. DOMAIN live = {} /\ held = 0
  BY DEF HeapInit
<1>2. IsFiniteSet({}) /\ Cardinality({}) = 0
  BY FS_EmptySet
<1>3. 0 <= MaxLive
  BY HeapAssumption
<1> QED BY <1>1, <1>2, <1>3 DEF Counted

\* The callers stay counted.
LEMMA TurnsCount ==
  ASSUME NEW B, NEW C, NEW T, Counted, Turns(B, C, T)
  PROVE  Counted'
<1> DEFINE D == DOMAIN live
<1>1. IsFiniteSet(D) /\ held = Cardinality(D) /\ held <= MaxLive /\ held \in Nat /\ MaxLive \in Nat
  BY FS_CardinalityType, HeapAssumption DEF Counted
<1>2. ASSUME held' = held, DOMAIN live' = D
      PROVE  Counted'
  BY <1>1, <1>2 DEF Counted
<1>3. ASSUME NEW q, q \notin D, NEW n, live' = Held(live, q, n), held < MaxLive, held' = held + 1
      PROVE  Counted'
  <2>1. DOMAIN live' = D \cup {q}
    BY <1>3 DEF Held
  <2>2. IsFiniteSet(D \cup {q}) /\ Cardinality(D \cup {q}) = Cardinality(D) + 1
    BY <1>1, <1>3, FS_AddElement
  <2> QED BY <1>1, <1>3, <2>1, <2>2 DEF Counted
<1>4. ASSUME NEW p \in D, live' = Without(live, p), held' = held - 1
      PROVE  Counted'
  <2>1. DOMAIN live' = D \ {p}
    BY <1>4 DEF Without
  <2>2. IsFiniteSet(D \ {p}) /\ Cardinality(D \ {p}) = Cardinality(D) - 1
    BY <1>1, <1>4, FS_RemoveElement
  <2> QED BY <1>1, <1>4, <2>1, <2>2 DEF Counted
<1>5. ASSUME NEW p \in D, NEW q, q \notin D \/ q = p, NEW n, live' = Swapped(live, p, q, n), held' = held
      PROVE  Counted'
  <2>1. DOMAIN live' = (D \ {p}) \cup {q}
    BY <1>5 DEF Swapped
  <2>2. IsFiniteSet(D \ {p}) /\ Cardinality(D \ {p}) = Cardinality(D) - 1
    BY <1>1, <1>5, FS_RemoveElement
  <2>3. q \notin D \ {p}
    BY <1>5
  <2>4. /\ IsFiniteSet((D \ {p}) \cup {q})
        /\ Cardinality((D \ {p}) \cup {q}) = Cardinality(D \ {p}) + 1
    BY <2>2, <2>3, FS_AddElement
  <2> QED BY <1>1, <1>5, <2>1, <2>2, <2>4 DEF Counted
<1>6. CASE held' = held /\ Idle(heap, heap', B, C, live, live')
  BY <1>2, <1>6 DEF Idle
<1>7. CASE held < MaxLive /\ held' = held + 1 /\ \E q, n : GivenAt(heap, heap', B, C, live, live', q, n)
  BY <1>3, <1>7 DEF GivenAt
<1>8. ASSUME NEW p \in D, held' = held - 1, ReturnedAt(heap, heap', B, C, live, live', T, p)
      PROVE  Counted'
  BY <1>4, <1>8 DEF ReturnedAt
<1>9. ASSUME NEW p \in D, held' = held, NEW q, NEW n, RelocatedAt(heap, heap', B, C, live, live', T, p, q, n)
      PROVE  Counted'
  BY <1>5, <1>9 DEF RelocatedAt
<1>10. ASSUME NEW p \in D, held' = held, NEW n, ResizedAt(heap, heap', B, C, live, live', T, p, n)
       PROVE  Counted'
  BY <1>5, <1>10 DEF ResizedAt
<1>11. ASSUME NEW p \in D, held' = held, WrittenAt(heap, heap', B, C, live, live', p)
       PROVE  Counted'
  BY <1>2, <1>11 DEF WrittenAt
<1> QED BY <1>6, <1>7, <1>8, <1>9, <1>10, <1>11 DEF Turns

\* The invariant holds in the beginning,
LEMMA InitHeapInv ==
  ASSUME HeapInit
  PROVE  HeapInv
BY InitSys, InitCounted DEF HeapInv

\* and every step keeps it.
LEMMA StepHeapInv ==
  ASSUME HeapInv, [HeapNext]_heapVars
  PROVE  HeapInv'
<1>1. CASE HeapNext
  <2>1. PICK B, T : Sys(heap, B, live, T)
    BY DEF HeapInv
  <2>2. PICK C, U : Sys(heap', C, live', U) /\ Turns(B, C, T)
    BY <1>1, <2>1, EveryTurn
  <2>3. Counted'
    BY <2>2, TurnsCount DEF HeapInv
  <2> QED BY <2>2, <2>3 DEF HeapInv
<1>2. CASE UNCHANGED heapVars
  BY <1>2 DEF HeapInv, Counted, heapVars
<1> QED BY <1>1, <1>2

\* The inductive invariant holds in every state.
THEOREM HeapInvHolds == HeapSpec => []HeapInv
<1>1. HeapInit => HeapInv
  BY InitHeapInv
<1>2. HeapInv /\ [HeapNext]_heapVars => HeapInv'
  BY StepHeapInv
<1> QED BY <1>1, <1>2, PTL DEF HeapSpec

\* The free list of a heap at rest.
LEMMA ListIsExact ==
  ASSUME NEW H, NEW B, NEW K, NEW o, NEW D, Rest(H, B, K, o, D), NEW F, Frees(B) = F,
         NEW n, Cardinality(F) = n, NEW at, FlNodes(H) = at
  PROVE  /\ {at[i] : i \in 0..n - 1} = F /\ at[n] = 0
         /\ \A i \in 0..n - 1 : Get(H, at[i] + 16) = (IF i = 0 THEN 0 ELSE at[i - 1])
<1>1. CASE Bare(H, B, K, o, D)
  <2>1. F = {} /\ H.free = 0
    BY <1>1 DEF Bare, Frees
  <2>2. n = 0
    BY <2>1, FS_EmptySet
  <2>3. at[0] = H.free
    BY FlNodesStep
  <2>4. 0..n - 1 = {}
    BY <2>2
  <2> QED BY <2>1, <2>2, <2>3, <2>4
<1>2. CASE At(H, B, Frees(B), K, o, D)
  <2>1. Shape(B, H.commit - 8) /\ F \subseteq DOMAIN B /\ Linked(H, F) /\ H.commit - 8 <= Base + Reserve - 8
    <3>1. Shape(B, H.commit - 8) /\ F \subseteq DOMAIN B /\ Linked(H, F) /\ H.commit \in Int /\ H.commit <= Base + Reserve
      BY <1>2, AtFacts
    <3>2. H.commit - 8 <= Base + Reserve - 8
      BY <3>1, BaseFacts
    <3> QED BY <3>1, <3>2
  <2>2. PICK m, L : m \in Nat /\ L \in [1..m -> F] /\ Lists(L, m, F) /\ Chain(H, L, m)
    BY <2>1 DEF Linked
  <2>3. n = m
    <3>1. L \in Injection(1..m, F)
      BY <2>2 DEF Lists, Injection, IsInjective
    <3>2. L \in Surjection(1..m, F)
      BY <2>2 DEF Lists, Surjection
    <3>3. ExistsBijection(1..m, F)
      BY <3>1, <3>2 DEF ExistsBijection, Bijection
    <3>4. m \in Nat
      BY <2>2
    <3>5. Cardinality(F) = m
      BY <3>3, <3>4, FS_CountingElements
    <3> QED BY <3>5
  <2>4. at[n] = 0 /\ \A i \in 0..n - 1 : at[i] = L[i + 1]
    <3> DEFINE e == H.commit - 8
    <3>1. Shape(B, e) /\ e <= Base + Reserve - 8
      BY <2>1
    <3> HIDE DEF e
    <3> QED BY <2>1, <2>2, <2>3, <3>1, NodesOfList
  <2>5. \A i \in 1..n : /\ L[i] \in F /\ Get(H, L[i] + 16) = IF i = 1 THEN 0 ELSE L[i - 1]
    BY <2>2, <2>3 DEF Chain
  <2>6. {at[i] : i \in 0..n - 1} \subseteq F
    <3>1. \A i \in 0..n - 1 : i + 1 \in 1..n
      BY <2>2, <2>3
    <3> QED BY <2>4, <2>5, <3>1
  <2>7. F \subseteq {at[i] : i \in 0..n - 1}
    <3>1. ASSUME NEW x \in F PROVE \E i \in 0..n - 1 : at[i] = x
      <4>1. PICK j \in 1..n : L[j] = x
        BY <2>2, <2>3 DEF Lists
      <4>2. j - 1 \in 0..n - 1 /\ (j - 1) + 1 = j
        BY <2>2, <2>3
      <4> QED BY <2>4, <4>1, <4>2
    <3> QED BY <3>1
  <2>8. ASSUME NEW i \in 0..n - 1 PROVE Get(H, at[i] + 16) = (IF i = 0 THEN 0 ELSE at[i - 1])
    <3>1. i + 1 \in 1..n /\ (i + 1) - 1 = i /\ (i + 1 = 1 <=> i = 0) /\ (i # 0 => i - 1 \in 0..n - 1 /\ (i - 1) + 1 = i)
      BY <2>2, <2>3
    <3>2. at[i] = L[i + 1] /\ (i # 0 => at[i - 1] = L[i])
      BY <2>4, <3>1
    <3>3. Get(H, L[i + 1] + 16) = IF i + 1 = 1 THEN 0 ELSE L[(i + 1) - 1]
      BY <2>5, <3>1
    <3> QED BY <3>1, <3>2, <3>3
  <2> QED BY <2>4, <2>6, <2>7, <2>8
<1> QED BY <1>1, <1>2 DEF Rest

\* The free list is exact in every state of the invariant.
LEMMA InvListExact ==
  ASSUME HeapInv
  PROVE  FreeListIsExact
<1>1. PICK B, T : Sys(heap, B, live, T)
  BY DEF HeapInv
<1>2. Rest(heap, B, KeptWords(live, T), heap, MapWords(T))
  BY <1>1 DEF Sys
<1>3. BlocksOf(heap) = B
  BY <1>2, BlocksAre
<1> DEFINE F == Frees(B)
           n == Cardinality(F)
           at == FlNodes(heap)
<1>4. /\ {at[i] : i \in 0..n - 1} = F /\ at[n] = 0
      /\ \A i \in 0..n - 1 : Get(heap, at[i] + 16) = (IF i = 0 THEN 0 ELSE at[i - 1])
  <2>1. Frees(B) = F /\ Cardinality(F) = n /\ FlNodes(heap) = at
    OBVIOUS
  <2> HIDE DEF F, n, at
  <2> QED BY <1>2, <2>1, ListIsExact
<1>5. {h \in DOMAIN B : ~B[h].used} = F
  BY DEF Frees
<1> HIDE DEF F
<1>6. FreeListIsExact <=> LET m == Cardinality({h \in DOMAIN B : ~B[h].used})
                              at2 == FlNodes(heap)
                          IN  /\ {at2[i] : i \in 0..m - 1} = {h \in DOMAIN B : ~B[h].used}
                              /\ at2[m] = 0
                              /\ \A i \in 0..m - 1 :
                                   Get(heap, at2[i] + 16) = (IF i = 0 THEN 0 ELSE at2[i - 1])
  BY <1>3 DEF FreeListIsExact
<1> QED BY <1>4, <1>5, <1>6

\* The sentinels, the tags and the pages.
LEMMA InvTagsAgree ==
  ASSUME HeapInv
  PROVE  TagsAgree
<1>1. PICK B, T : Sys(heap, B, live, T)
  BY DEF HeapInv
<1> DEFINE K == KeptWords(live, T)
           D == MapWords(T)
<1>2. Rest(heap, B, K, heap, D) /\ Owners(B, live, T)
  BY <1>1 DEF Sys
<1> HIDE DEF K, D
<1>3. BlocksOf(heap) = B
  BY <1>2, BlocksAre
<1>4. /\ heap.base \in {0, Base} /\ heap.ready \in BOOLEAN /\ Base # 0
      /\ heap.base # 0 => At(heap, B, Frees(B), K, heap, D)
  BY <1>2, RestFacts
<1>5. heap.base # 0 => Grounds(heap) /\ Tagged(heap, B) /\ Shape(B, heap.commit - 8)
  BY <1>4, AtFacts
<1>6. heap.base # 0 => heap.commit % PageSize = 0 /\ heap.commit <= heap.reserve /\ Get(heap, heap.commit - 8) = 1
  BY <1>5 DEF Grounds
<1>7. \A p \in DOMAIN live : p % 16 = 0 /\ live[p] >= 0
  BY <1>2 DEF Owners, IsObject
<1>8. held \in 0..MaxLive
  BY FS_CardinalityType, HeapAssumption DEF HeapInv, Counted
<1>9. HeapTypeOK
  BY <1>4, <1>6, <1>7, <1>8 DEF HeapTypeOK
<1>10. ASSUME heap.base # 0, NEW h \in DOMAIN B
       PROVE  Get(heap, h) = Get(heap, h + B[h].size - 8)
  <2>1. h \in Int /\ B[h].size \in Nat /\ BP!End(B, h) = h + B[h].size
    BY <1>5, <1>10, BlockFacts
  <2>2. BP!End(B, h) - 8 = h + B[h].size - 8
    BY <2>1
  <2>3. Get(heap, h) = Get(heap, BP!End(B, h) - 8)
    BY <1>5, <1>10 DEF Tagged
  <2> QED BY <2>2, <2>3
<1>11. heap.base # 0 => AllocBit(heap, FirstBlock - 8) = 1
  BY <1>5, SentinelBits
<1> QED BY <1>3, <1>6, <1>9, <1>10, <1>11 DEF TagsAgree

\* Who owns what.
LEMMA InvOwnersMatch ==
  ASSUME HeapInv
  PROVE  OwnersMatch
<1>1. PICK B, T : Sys(heap, B, live, T)
  BY DEF HeapInv
<1> DEFINE K == KeptWords(live, T)
           D == MapWords(T)
           mapped == {p \in DOMAIN live : MmapBit(heap, p - 8) # 0}
           region == IF heap.base = 0 THEN {} ELSE Base..heap.commit - 8
           words(p) == {p - 16 + 8 * i : i \in 0..(Get(heap, p - 16) \div 8) - 1}
<1>2. Rest(heap, B, K, heap, D) /\ Owners(B, live, T)
  BY <1>1 DEF Sys
<1>3. BlocksOf(heap) = B
  <2> HIDE DEF K, D
  <2> QED BY <1>2, BlocksAre
<1>4. DOMAIN T \subseteq DOMAIN live /\ \A p \in DOMAIN live : p \in Int
  BY <1>2 DEF Owners, IsObject
<1>5. mapped = DOMAIN T
  <2>1. ASSUME NEW p \in DOMAIN live PROVE p \in DOMAIN T <=> MmapBit(heap, p - 8) # 0
    <3>1. /\ p \in DOMAIN T => MmapBit(heap, p - 8) = 1
          /\ p \notin DOMAIN T => MmapBit(heap, p - 8) = 0
      BY <1>1, KindOf
    <3> QED BY <3>1
  <2> QED BY <1>4, <2>1
<1>6. \A p \in DOMAIN T : words(p) = Words(p - 16, T[p])
  <2>1. ASSUME NEW p \in DOMAIN T PROVE Get(heap, p - 16) = T[p]
    BY <1>1, <2>1, <1>4, KindOf
  <2> QED BY <2>1 DEF Words
<1>7. UNION {words(p) : p \in mapped} = D
  BY <1>5, <1>6 DEF MapWords
<1>8. DOMAIN heap.mem = {a \in region : a % 8 = 0} \cup D
  <2> HIDE DEF K, D
  <2>1. CASE Bare(heap, B, K, heap, D)
    BY <2>1 DEF Bare
  <2>2. CASE At(heap, B, Frees(B), K, heap, D)
    <3>1. heap.base # 0
      <4>1. Grounds(heap)
        BY <2>2, AtFacts
      <4> QED BY <4>1, BaseFacts DEF Grounds
    <3> QED BY <2>2, <3>1 DEF At
  <2> QED BY <1>2, <2>1, <2>2 DEF Rest
<1>9. {h + 8 : h \in {b \in DOMAIN B : B[b].used}} = DOMAIN live \ mapped
  <2>1. ASSUME NEW p \in DOMAIN live, p \notin DOMAIN T
        PROVE  \E h \in Useds(B) : p = h + 8
    <3>1. p - 8 \in Useds(B) /\ (p - 8) + 8 = p
      BY <1>2, <1>4, <2>1 DEF Owners
    <3> QED BY <3>1
  <2>2. \A h \in Useds(B) : h + 8 \in DOMAIN live /\ h + 8 \notin DOMAIN T
    BY <1>2 DEF Owners
  <2>3. {b \in DOMAIN B : B[b].used} = Useds(B)
    BY DEF Useds
  <2> HIDE DEF mapped
  <2> QED BY <1>5, <2>1, <2>2, <2>3
<1>10. held = Cardinality(DOMAIN live)
  BY DEF HeapInv, Counted
<1> HIDE DEF D
<1>11. DOMAIN heap.mem = {a \in region : a % 8 = 0} \cup UNION {words(p) : p \in mapped}
  BY <1>7, <1>8
<1> QED BY <1>3, <1>9, <1>10, <1>11 DEF OwnersMatch

\* In every state, whatever the sizes of the region, the pages and the requests,
\* the free list, the tags and what callers hold agree.
THEOREM HeapSound == HeapSpec => []HeapIsSound
<1>1. HeapInv => HeapIsSound
  BY InvListExact, InvTagsAgree, InvOwnersMatch DEF HeapIsSound
<1> QED BY <1>1, HeapInvHolds, PTL

-----------------------------------------------------------------------------
(* The words implement the tiling. *)

\* A call's effect on the blocks B up to the epilogue e: they become C up to f.
BlockStep(B, e, C, f) ==
  \/ C = B /\ f = e
  \/ SetUp(B, e, C, f)
  \/ \E n \in Requests : \E h : Took(B, e, C, f, Need(n), h)
  \/ \E h \in Useds(B) : f = e /\ BP!Released(B, h) = C
  \/ \E n \in Requests : \E h \in Useds(B) : f = e /\ Shrunk(B, C, h, Need(n))
  \/ \E n \in Requests : \E h \in Useds(B) : f = e /\ Absorbed(B, C, h, Need(n))
  \/ \E n \in Requests : \E h \in Useds(B) :
       \E N, g : Took(B, e, N, f, Need(n), g) /\ BP!Released(N, h) = C

\* A used block is there only when the region is.
LEMMA NoSetUp ==
  ASSUME NEW H, NEW B, NEW L, NEW T, Sys(H, B, L, T), NEW h \in Useds(B), NEW C, NEW f
  PROVE  ~SetUp(B, Brk(H), C, f)
<1>1. Rest(H, B, KeptWords(L, T), H, MapWords(T)) /\ DOMAIN B # {}
  BY DEF Sys, Useds
<1>2. FirstBlock + 32 <= Brk(H) /\ Brk(H) \in Int
  BY <1>1, RestSettles, BrkIs
<1> QED BY <1>2, BaseFacts DEF SetUp

\* Every relation is a block step.
LEMMA TurnsBlockStep ==
  ASSUME NEW B, NEW C, NEW T, Sys(heap, B, live, T), Turns(B, C, T)
  PROVE  BlockStep(B, Brk(heap), C, Brk(heap'))
<1> DEFINE e == Brk(heap)
           f == Brk(heap')
<1>1. ASSUME NEW N, NEW n \in Requests, NEW q, Stepped(B, e, N, f, n, q)
      PROVE  BlockStep(B, e, N, f)
  BY <1>1 DEF Stepped, Readied, BlockStep
<1>2. CASE Idle(heap, heap', B, C, live, live')
  BY <1>2 DEF Idle, Readied, BlockStep
<1>3. CASE \E q, n : GivenAt(heap, heap', B, C, live, live', q, n)
  BY <1>1, <1>3 DEF GivenAt
<1>4. ASSUME NEW p, ReturnedAt(heap, heap', B, C, live, live', T, p)
      PROVE  BlockStep(B, e, C, f)
  BY <1>4 DEF ReturnedAt, Gone, BlockStep
<1>5. ASSUME NEW p, NEW q, NEW n, RelocatedAt(heap, heap', B, C, live, live', T, p, q, n)
      PROVE  BlockStep(B, e, C, f)
  <2>1. n \in Requests
    BY <1>5 DEF RelocatedAt
  <2>2. PICK N : /\ Stepped(B, e, N, f, n, q)
                 /\ \/ p \in DOMAIN T /\ C = N
                    \/ p \notin DOMAIN T /\ p - 8 \in Useds(B) /\ BP!Released(N, p - 8) = C
    BY <1>5 DEF RelocatedAt
  <2>3. CASE C = N
    BY <1>1, <2>1, <2>2, <2>3
  <2>4. ASSUME p - 8 \in Useds(B), BP!Released(N, p - 8) = C
        PROVE  BlockStep(B, e, C, f)
    <3>1. CASE Took(B, e, N, f, Need(n), q - 8)
      BY <2>1, <2>4, <3>1 DEF BlockStep
    <3>2. CASE N = B /\ f = e
      BY <2>4, <3>2 DEF BlockStep
    <3>3. ~SetUp(B, e, N, f)
      BY <2>4, NoSetUp
    <3> QED BY <2>2, <3>1, <3>2, <3>3 DEF Stepped, Readied
  <2> QED BY <2>2, <2>3, <2>4
<1>6. ASSUME NEW p, NEW n, ResizedAt(heap, heap', B, C, live, live', T, p, n)
      PROVE  BlockStep(B, e, C, f)
  BY <1>6 DEF ResizedAt, BlockStep
<1>7. ASSUME NEW p, WrittenAt(heap, heap', B, C, live, live', p)
      PROVE  BlockStep(B, e, C, f)
  BY <1>7 DEF WrittenAt, BlockStep
<1> QED BY <1>2, <1>3, <1>4, <1>5, <1>6, <1>7 DEF Turns

\* The two instances of BlockHeap have the same operators.
LEMMA SameOperators ==
  ASSUME NEW B, NEW h, NEW a, NEW b
  PROVE  /\ BP!End(B, h) = Tiling!End(B, h) /\ (BP!IsFree(B, h) <=> Tiling!IsFree(B, h))
         /\ (BP!Fits(B, h, a) <=> Tiling!Fits(B, h, a))
         /\ BP!Freed(B, a, b) = Tiling!Freed(B, a, b)
         /\ BP!Place(B, h, a) = Tiling!Place(B, h, a)
         /\ BP!Released(B, h) = Tiling!Released(B, h)
         /\ BP!Split(B, h, a) = Tiling!Split(B, h, a)
         /\ BP!Retile(B, h, b, BP!Placed(h, b, a)) = Tiling!Retile(B, h, b, Tiling!Placed(h, b, a))
<1>1. BP!End(B, h) = Tiling!End(B, h)
  BY DEF BP!End, Tiling!End
<1>2. BP!IsFree(B, h) <=> Tiling!IsFree(B, h)
  BY DEF BP!IsFree, Tiling!IsFree
<1>3. BP!Fits(B, h, a) <=> Tiling!Fits(B, h, a)
  BY <1>2 DEF BP!Fits, Tiling!Fits
<1>4. BP!Freed(B, a, b) = Tiling!Freed(B, a, b)
  BY DEF BP!Freed, Tiling!Freed, BP!Lower, Tiling!Lower, BP!Upper, Tiling!Upper, BP!IsFree, Tiling!IsFree,
         BP!End, Tiling!End, BP!Retile, Tiling!Retile, BP!One, Tiling!One
<1>5. BP!Place(B, h, a) = Tiling!Place(B, h, a)
  BY DEF BP!Place, Tiling!Place, BP!Placed, Tiling!Placed, BP!End, Tiling!End, BP!Retile, Tiling!Retile,
         BP!One, Tiling!One, BP!Two, Tiling!Two
<1>6. BP!Released(B, h) = Tiling!Released(B, h)
  BY DEF BP!Released, Tiling!Released,
         BP!Freed, Tiling!Freed, BP!Lower, Tiling!Lower, BP!Upper, Tiling!Upper, BP!IsFree, Tiling!IsFree,
         BP!End, Tiling!End, BP!Retile, Tiling!Retile, BP!One, Tiling!One
<1>7. BP!Split(B, h, a) = Tiling!Split(B, h, a)
  BY DEF BP!Split, Tiling!Split, BP!End, Tiling!End, BP!Retile, Tiling!Retile, BP!Two, Tiling!Two
<1>8. BP!Retile(B, h, b, BP!Placed(h, b, a)) = Tiling!Retile(B, h, b, Tiling!Placed(h, b, a))
  BY DEF BP!Retile, Tiling!Retile, BP!Placed, Tiling!Placed, BP!One, Tiling!One, BP!Two, Tiling!Two
<1> QED BY <1>1, <1>2, <1>3, <1>4, <1>5, <1>6, <1>7, <1>8

\* The heap before and after a step, seen as blocks.
Seen(B, e, C, f) ==
  /\ BlocksOf(heap) = B /\ (IF heap.base = 0 THEN FirstBlock ELSE heap.commit - 8) = e
  /\ BlocksOf(heap') = C /\ (IF heap'.base = 0 THEN FirstBlock ELSE heap'.commit - 8) = f
  /\ e \in Int

Wanted == {Need(n) : n \in Requests}

\* Taking a block is Alloc or GrowAlloc of the tiling.
LEMMA TookAllocs ==
  ASSUME NEW B, NEW e, NEW C, NEW f, Seen(B, e, C, f), NEW n \in Requests, NEW h, Took(B, e, C, f, Need(n), h)
  PROVE  Tiling!BlockNext
<1> DEFINE need == Need(n)
<1>0. need \in Wanted /\ Took(B, e, C, f, need, h)
  BY DEF Wanted
<1> HIDE DEF need
<1>1. CASE TookHere(B, e, C, f, need, h)
  <2>1. f = e /\ Tiling!Fits(B, h, need) /\ Tiling!Place(B, h, need) = C
    BY <1>1, SameOperators DEF TookHere
  <2>2. h \in DOMAIN B
    BY <2>1 DEF Tiling!Fits, Tiling!IsFree
  <2>3. Tiling!Alloc(need)
    BY <2>1, <2>2 DEF Tiling!Alloc, Seen
  <2> QED BY <1>0, <2>3 DEF Tiling!BlockNext, Wanted
<1>2. CASE TookGrown(B, e, C, f, need, h)
  <2>1. /\ \A g \in DOMAIN B : ~Tiling!Fits(B, g, need)
        /\ f \in Int /\ e + 32 <= f /\ f <= Base + Reserve - 8
    BY <1>2, SameOperators DEF TookGrown
  <2>2. PICK M : BP!Freed(B, e, f) = M /\ BP!Fits(M, h, need) /\ BP!Place(M, h, need) = C
    BY <1>2 DEF TookGrown
  <2>3. Tiling!Freed(B, e, f) = M /\ Tiling!Fits(M, h, need) /\ Tiling!Place(M, h, need) = C
    BY <2>2, SameOperators
  <2>4. h \in DOMAIN M
    BY <2>3 DEF Tiling!Fits, Tiling!IsFree
  <2>5. f \in e + 32 .. Base + Reserve - 8
    BY <2>1, BaseFacts DEF Seen
  <2>6. Tiling!NothingFits(need)
    BY <2>1 DEF Tiling!NothingFits, Seen
  <2>7. Tiling!Grown(B, f) = M
    BY <2>3 DEF Tiling!Grown, Seen
  <2>8. Tiling!GrowAlloc(need)
    BY <2>3, <2>4, <2>5, <2>6, <2>7 DEF Tiling!GrowAlloc, Seen
  <2> QED BY <1>0, <2>8 DEF Tiling!BlockNext, Wanted
<1> QED BY <1>0, <1>1, <1>2 DEF Took

\* Setting the region up is Setup.
LEMMA SetUpSets ==
  ASSUME NEW B, NEW e, NEW C, NEW f, Seen(B, e, C, f), SetUp(B, e, C, f)
  PROVE  Tiling!BlockNext
<1>1. e = FirstBlock /\ f \in Int /\ e + 32 <= f /\ f <= Base + Reserve - 8 /\ Tiling!Freed(B, e, f) = C
  BY SameOperators DEF SetUp
<1>2. f \in FirstBlock + 32 .. Base + Reserve - 8
  BY <1>1, BaseFacts
<1>3. Tiling!Grown(B, f) = C
  BY <1>1 DEF Tiling!Grown, Seen
<1>4. Tiling!Setup
  BY <1>1, <1>2, <1>3 DEF Tiling!Setup, Seen
<1> QED BY <1>4 DEF Tiling!BlockNext

\* Giving a block back is Release.
LEMMA FreesReleases ==
  ASSUME NEW B, NEW e, NEW C, NEW f, Seen(B, e, C, f), NEW h \in Useds(B), f = e, BP!Released(B, h) = C
  PROVE  Tiling!BlockNext
<1>1. Tiling!Released(B, h) = C /\ h \in DOMAIN B /\ B[h].used
  BY SameOperators DEF Useds
<1>2. Tiling!Release(h)
  BY <1>1 DEF Tiling!Release, Seen
<1>3. h \in DOMAIN BlocksOf(heap)
  BY <1>1 DEF Seen
<1> QED BY <1>2, <1>3 DEF Tiling!BlockNext

\* Cutting a block is Shrink.
LEMMA ShrinksBlock ==
  ASSUME NEW B, NEW e, NEW C, NEW f, Seen(B, e, C, f), NEW n \in Requests, NEW h \in Useds(B), f = e,
         Shrunk(B, C, h, Need(n))
  PROVE  Tiling!BlockNext
<1> DEFINE need == Need(n)
<1>0. need \in Wanted /\ Shrunk(B, C, h, need)
  BY DEF Wanted
<1> HIDE DEF need
<1>1. B[h].size - need >= 32 /\ h \in DOMAIN B /\ B[h].used
  BY <1>0 DEF Useds, Shrunk
<1>2. Tiling!Released(Tiling!Split(B, h, need), h + need) = C
  BY <1>0, SameOperators DEF Shrunk
<1>3. Tiling!Shrink(h, need)
  BY <1>1, <1>2 DEF Tiling!Shrink, Seen
<1>4. h \in DOMAIN BlocksOf(heap)
  BY <1>1 DEF Seen
<1> QED BY <1>0, <1>3, <1>4 DEF Tiling!BlockNext, Wanted

\* Absorbing the free block behind is Absorb.
LEMMA AbsorbsBlock ==
  ASSUME NEW B, NEW e, NEW C, NEW f, Seen(B, e, C, f), NEW n \in Requests, NEW h \in Useds(B), f = e,
         Absorbed(B, C, h, Need(n))
  PROVE  Tiling!BlockNext
<1> DEFINE need == Need(n)
           hi == Tiling!End(B, Tiling!End(B, h))
<1>0. need \in Wanted /\ Absorbed(B, C, h, need) /\ h \in DOMAIN B /\ B[h].used
  BY DEF Wanted, Useds
<1> HIDE DEF need
<1>1. /\ B[h].size < need /\ Tiling!IsFree(B, Tiling!End(B, h)) /\ hi - h >= need
      /\ Tiling!Retile(B, h, hi, Tiling!Placed(h, hi, need)) = C
  BY <1>0, SameOperators DEF Absorbed, Frees, Tiling!IsFree
<1>2. Tiling!Absorb(h, need)
  BY <1>0, <1>1 DEF Tiling!Absorb, Seen
<1>3. h \in DOMAIN BlocksOf(heap)
  BY <1>0 DEF Seen
<1> QED BY <1>0, <1>2, <1>3 DEF Tiling!BlockNext, Wanted

\* Taking a block and giving one back is Move.
LEMMA MovesBlock ==
  ASSUME NEW B, NEW e, NEW C, NEW f, Seen(B, e, C, f), NEW n \in Requests, NEW h \in Useds(B),
         NEW N, NEW g, Took(B, e, N, f, Need(n), g), BP!Released(N, h) = C
  PROVE  Tiling!BlockNext
<1> DEFINE need == Need(n)
<1>0. need \in Wanted /\ Took(B, e, N, f, need, g)
  BY DEF Wanted
<1> HIDE DEF need
<1>1. h \in DOMAIN B /\ B[h].used /\ Tiling!Released(N, h) = C
  BY SameOperators DEF Useds
<1>2. ASSUME TookHere(B, e, N, f, need, g) PROVE Tiling!Move(h, need)
  <2>1. f = e /\ Tiling!Fits(B, g, need) /\ Tiling!Place(B, g, need) = N
    BY <1>2, SameOperators DEF TookHere
  <2>2. g \in DOMAIN B
    BY <2>1 DEF Tiling!Fits, Tiling!IsFree
  <2>3. Tiling!Released(Tiling!Place(B, g, need), h) = C
    BY <1>1, <2>1
  <2> QED BY <1>1, <2>1, <2>2, <2>3 DEF Tiling!Move, Seen
<1>3. ASSUME TookGrown(B, e, N, f, need, g) PROVE Tiling!Move(h, need)
  <2>1. /\ \A x \in DOMAIN B : ~Tiling!Fits(B, x, need)
        /\ f \in Int /\ e + 32 <= f /\ f <= Base + Reserve - 8
    BY <1>3, SameOperators DEF TookGrown
  <2>2. PICK M : BP!Freed(B, e, f) = M /\ BP!Fits(M, g, need) /\ BP!Place(M, g, need) = N
    BY <1>3 DEF TookGrown
  <2>3. Tiling!Freed(B, e, f) = M /\ Tiling!Fits(M, g, need) /\ Tiling!Place(M, g, need) = N
    BY <2>2, SameOperators
  <2>4. g \in DOMAIN M
    BY <2>3 DEF Tiling!Fits, Tiling!IsFree
  <2>5. f \in e + 32 .. Base + Reserve - 8
    BY <2>1, BaseFacts DEF Seen
  <2>6. Tiling!NothingFits(need)
    BY <2>1 DEF Tiling!NothingFits, Seen
  <2>7. Tiling!Grown(B, f) = M
    BY <2>3 DEF Tiling!Grown, Seen
  <2>8. Tiling!Released(Tiling!Place(M, g, need), h) = C
    BY <1>1, <2>3
  <2> QED BY <1>1, <2>3, <2>4, <2>5, <2>6, <2>7, <2>8 DEF Tiling!Move, Seen
<1>4. Tiling!Move(h, need)
  BY <1>0, <1>2, <1>3 DEF Took
<1>5. h \in DOMAIN BlocksOf(heap)
  BY <1>1 DEF Seen
<1> QED BY <1>0, <1>4, <1>5 DEF Tiling!BlockNext, Wanted

\* Every step is a step of the tiling or changes no block.
LEMMA TilingStep ==
  ASSUME HeapInv, [HeapNext]_heapVars
  PROVE  [Tiling!BlockNext]_(Tiling!blockVars)
<1>1. CASE HeapNext
  <2>1. PICK B, T : Sys(heap, B, live, T)
    BY DEF HeapInv
  <2>2. PICK C, U : Sys(heap', C, live', U) /\ Turns(B, C, T)
    BY <1>1, <2>1, EveryTurn
  <2> DEFINE e == Brk(heap)
             f == Brk(heap')
  <2>3. BlockStep(B, e, C, f)
    BY <2>1, <2>2, TurnsBlockStep
  <2>4. Rest(heap, B, KeptWords(live, T), heap, MapWords(T)) /\ Rest(heap', C, KeptWords(live', U), heap', MapWords(U))
    BY <2>1, <2>2 DEF Sys
  <2>5. BlocksOf(heap) = B /\ BlocksOf(heap') = C /\ e \in Int
    BY <2>4, BlocksAre, BrkIs
  <2>6. Seen(B, e, C, f)
    BY <2>5 DEF Seen, Brk
  <2>7. CASE C = B /\ f = e
    BY <2>6, <2>7 DEF Tiling!blockVars, Seen
  <2> HIDE DEF e, f
  <2>8. (C = B /\ f = e) \/ Tiling!BlockNext
    BY <2>3, <2>6, TookAllocs, SetUpSets, FreesReleases, ShrinksBlock, AbsorbsBlock, MovesBlock DEF BlockStep
  <2> QED BY <2>7, <2>8
<1>2. CASE UNCHANGED heapVars
  BY <1>2 DEF Tiling!blockVars, heapVars
<1> QED BY <1>1, <1>2

\* The initial states are initial tilings.
LEMMA TilingInit ==
  ASSUME HeapInit
  PROVE  Tiling!BlockInit
<1> DEFINE N == [h \in {} |-> [size |-> 0, used |-> FALSE]]
<1>1. Sys(heap, N, live, live)
  BY InitSys
<1>2. BlocksOf(heap) = N
  <2>1. Rest(heap, N, KeptWords(live, live), heap, MapWords(live))
    BY <1>1 DEF Sys
  <2> HIDE DEF N
  <2> QED BY <2>1, BlocksAre
<1>3. heap.base = 0
  BY DEF HeapInit
<1> QED BY <1>2, <1>3 DEF Tiling!BlockInit

\* Word by word the allocator is the block tiling: each call is one of its moves.
THEOREM HeapImplementsBlocks == HeapSpec => BlocksRefine
<1>1. HeapInit => Tiling!BlockInit
  BY TilingInit
<1>2. HeapInv /\ [HeapNext]_heapVars => [Tiling!BlockNext]_(Tiling!blockVars)
  BY TilingStep
<1> QED BY <1>1, <1>2, HeapInvHolds, PTL DEF HeapSpec, BlocksRefine, Tiling!BlockSpec

-----------------------------------------------------------------------------
(* Callers get what they were promised. *)

\* What the n bytes from p on hold, as a caller sees it.
Contents(H, n, p) == [i \in 1..n \div 8 |-> H.mem[p + 8 * (i - 1)]]
ObjectsOf(H, L) == [p \in DOMAIN L |-> Contents(H, L[p], p)]

\* The length of a sequence given by its domain.
LEMMA LenIs ==
  ASSUME NEW n \in Nat, NEW s, DOMAIN s = 1..n, IsFcn(s)
  PROVE  Len(s) = n
<1> DEFINE S == {s[i] : i \in 1..n}
<1>1. s \in [1..n -> S]
  BY DEF IsFcn
<1> HIDE DEF S
<1>2. s \in Seq(S)
  BY <1>1
<1> QED BY <1>1, <1>2

\* An object has a word for every 8 bytes.
LEMMA ContentsFacts ==
  ASSUME NEW p, NEW n, IsObject(p, n), NEW H, NEW s, Contents(H, n, p) = s
  PROVE  /\ Len(s) = n \div 8 /\ 8 * Len(s) = n /\ n \div 8 \in Nat
         /\ \A i \in 1..n \div 8 : p + 8 * (i - 1) \in Words(p, n) /\ s[i] = Get(H, p + 8 * (i - 1))
<1>1. n \in Nat /\ n % 8 = 0
  BY DEF IsObject
<1> DEFINE m == n \div 8
<1>2. m \in Nat /\ 8 * m = n
  BY <1>1
<1>3. DOMAIN s = 1..m /\ IsFcn(s)
  BY DEF Contents, IsFcn
<1>4. \A i \in 1..m : s[i] = Get(H, p + 8 * (i - 1))
  BY DEF Contents, Get
<1>5. ASSUME NEW i \in 1..m PROVE p + 8 * (i - 1) \in Words(p, n)
  <2>1. i - 1 \in 0..m - 1
    BY <1>2
  <2> QED BY <2>1 DEF Words
<1> HIDE DEF m
<1>6. Len(s) = m
  BY <1>2, <1>3, LenIs
<1> QED BY <1>2, <1>4, <1>5, <1>6 DEF m

\* Objects whose words are the same are the same.
LEMMA ContentsSame ==
  ASSUME NEW H, NEW G, NEW p, NEW n, IsObject(p, n), \A a \in Words(p, n) : Get(G, a) = Get(H, a)
  PROVE  Contents(G, n, p) = Contents(H, n, p)
<1>1. ASSUME NEW i \in 1..n \div 8 PROVE G.mem[p + 8 * (i - 1)] = H.mem[p + 8 * (i - 1)]
  <2> DEFINE a == p + 8 * (i - 1)
  <2>1. a \in Words(p, n)
    BY ContentsFacts
  <2> HIDE DEF a
  <2>2. Get(G, a) = Get(H, a)
    BY <2>1
  <2> QED BY <2>2 DEF Get, a
<1> QED BY <1>1 DEF Contents

\* The common prefix of what realloc carried over is the same.
LEMMA ContentsCarried ==
  ASSUME NEW H, NEW G, NEW p, NEW old, IsObject(p, old), NEW q, NEW n, IsObject(q, n),
         Carried(H, G, p, old, q, n), NEW i \in 1..Len(Contents(H, old, p)), i <= Len(Contents(G, n, q))
  PROVE  Contents(G, n, q)[i] = Contents(H, old, p)[i]
<1> DEFINE s == Contents(H, old, p)
           t == Contents(G, n, q)
           a == p + 8 * (i - 1)
<1>1. Len(s) = old \div 8 /\ Len(t) = n \div 8 /\ n \div 8 \in Nat /\ old \div 8 \in Nat /\ 8 * (n \div 8) = n
  BY ContentsFacts
<1>2. p \in Int /\ q \in Int /\ i \in Int /\ n \in Nat
  BY <1>1 DEF IsObject
<1>3. i \in 1..old \div 8 /\ i \in 1..n \div 8
  BY <1>1
<1>4. a \in Words(p, old) /\ s[i] = Get(H, a) /\ t[i] = Get(G, q + 8 * (i - 1))
  BY <1>3, ContentsFacts
<1>5. a < p + n /\ q + 8 * (i - 1) = q + (a - p)
  BY <1>1, <1>2, <1>3
<1> HIDE DEF a, s, t
<1>6. Get(G, q + (a - p)) = Get(H, a)
  BY <1>4, <1>5 DEF Carried
<1> QED BY <1>4, <1>5, <1>6 DEF s, t

\* The objects of the callers.
LEMMA ObjectsFacts ==
  ASSUME NEW H, NEW B, NEW L, NEW T, Sys(H, B, L, T), NEW O, ObjectsOf(H, L) = O
  PROVE  /\ DOMAIN O = DOMAIN L /\ IsFcn(O)
         /\ \A p \in DOMAIN L : /\ O[p] = Contents(H, L[p], p) /\ IsObject(p, L[p])
                                /\ 8 * Len(O[p]) = L[p] /\ Promise!Bytes(O[p]) = L[p]
                                /\ Promise!Apart(O, p)
<1>1. DOMAIN O = DOMAIN L /\ IsFcn(O) /\ \A p \in DOMAIN L : O[p] = Contents(H, L[p], p)
  BY DEF ObjectsOf, IsFcn
<1>2. Owners(B, L, T) /\ ((Shape(B, H.commit - 8) /\ H.commit - 8 <= Base + Reserve - 8) \/ DOMAIN B = {})
  BY SysFacts
<1>3. \A p \in DOMAIN L : IsObject(p, L[p])
  BY <1>2 DEF Owners
<1>4. ASSUME NEW p \in DOMAIN L
      PROVE  8 * Len(O[p]) = L[p] /\ Promise!Bytes(O[p]) = L[p]
  <2>1. 8 * Len(O[p]) = L[p]
    <3> DEFINE s == O[p]
               n == L[p]
    <3>1. Contents(H, n, p) = s /\ IsObject(p, n)
      BY <1>1, <1>3
    <3> HIDE DEF s, n
    <3>2. 8 * Len(s) = n
      BY <3>1, ContentsFacts
    <3> QED BY <3>2 DEF s, n
  <2> QED BY <2>1 DEF Promise!Bytes
<1>5. ASSUME NEW p \in DOMAIN L, NEW q \in DOMAIN L, p # q
      PROVE  p + L[p] <= q \/ q + L[q] <= p
  <2> DEFINE e == H.commit - 8
  <2>1. (Shape(B, e) /\ e <= Base + Reserve - 8) \/ DOMAIN B = {}
    BY <1>2
  <2> HIDE DEF e
  <2> QED BY <1>2, <1>5, <2>1, ObjectsApart
<1>6. ASSUME NEW p \in DOMAIN L PROVE Promise!Apart(O, p)
  <2>1. p # 0 /\ p % 16 = 0
    BY <1>3 DEF IsObject
  <2> QED BY <1>1, <1>4, <1>5, <2>1 DEF Promise!Apart
<1> QED BY <1>1, <1>3, <1>4, <1>6

\* An intact object stays what it was.
LEMMA Unmoved ==
  ASSUME NEW H, NEW B, NEW L, NEW T, Sys(H, B, L, T), NEW G, NEW C, NEW M, NEW U, Sys(G, C, M, U),
         NEW x, Intact(H, G, L, x), NEW q \in DOMAIN L, q # x, q \in DOMAIN M, M[q] = L[q]
  PROVE  ObjectsOf(G, M)[q] = ObjectsOf(H, L)[q]
<1>1. ObjectsOf(G, M)[q] = Contents(G, L[q], q) /\ ObjectsOf(H, L)[q] = Contents(H, L[q], q)
  BY DEF ObjectsOf
<1>2. IsObject(q, L[q])
  BY ObjectsFacts
<1>3. \A a \in Words(q, L[q]) : Get(G, a) = Get(H, a)
  BY DEF Intact
<1> QED BY <1>1, <1>2, <1>3, ContentsSame

\* The objects before and after a step.
Held2(O, P) == Objects = O /\ Objects' = P

\* A step between sound heaps that changes nothing outside of x and y.
Passes(H, G, L, M, O, P) ==
  /\ \E B, T : Sys(H, B, L, T)
  /\ \E C, U : Sys(G, C, M, U)
  /\ ObjectsOf(H, L) = O /\ ObjectsOf(G, M) = P

\* The objects on both sides of such a step.
LEMMA PassFacts ==
  ASSUME NEW H, NEW G, NEW L, NEW M, NEW O, NEW P, Passes(H, G, L, M, O, P)
  PROVE  /\ DOMAIN O = DOMAIN L /\ DOMAIN P = DOMAIN M /\ IsFcn(O) /\ IsFcn(P) /\ 0 \notin DOMAIN L
         /\ \A p \in DOMAIN L : /\ O[p] = Contents(H, L[p], p) /\ IsObject(p, L[p])
                                /\ 8 * Len(O[p]) = L[p]
         /\ \A p \in DOMAIN M : /\ P[p] = Contents(G, M[p], p) /\ IsObject(p, M[p])
                                /\ 8 * Len(P[p]) = M[p] /\ Promise!Apart(P, p)
<1>1. PICK B, T : Sys(H, B, L, T)
  BY DEF Passes
<1>2. PICK C, U : Sys(G, C, M, U)
  BY DEF Passes
<1>3. ObjectsOf(H, L) = O /\ ObjectsOf(G, M) = P
  BY DEF Passes
<1>4. 0 \notin DOMAIN L
  BY <1>1, NoNull DEF Sys
<1> QED BY <1>1, <1>2, <1>3, <1>4, ObjectsFacts

\* Objects other than the one concerned stay.
LEMMA PassKeeps ==
  ASSUME NEW H, NEW G, NEW L, NEW M, NEW O, NEW P, Passes(H, G, L, M, O, P), NEW x, Intact(H, G, L, x),
         NEW q \in DOMAIN L, q # x, q \in DOMAIN M, M[q] = L[q]
  PROVE  P[q] = O[q]
BY Unmoved DEF Passes

\* A step that changes no object.
LEMMA IdlePass ==
  ASSUME NEW H, NEW G, NEW L, NEW M, NEW O, NEW P, Passes(H, G, L, M, O, P), M = L, Intact(H, G, L, 0)
  PROVE  P = O
<1>1. DOMAIN P = DOMAIN O /\ IsFcn(O) /\ IsFcn(P) /\ DOMAIN O = DOMAIN L /\ 0 \notin DOMAIN L
  BY PassFacts
<1>2. \A q \in DOMAIN L : P[q] = O[q]
  BY <1>1, PassKeeps
<1> QED BY <1>1, <1>2 DEF IsFcn

\* A new object is Allocate.
LEMMA GivePass ==
  ASSUME NEW L, NEW M, NEW O, NEW P, Held2(O, P), Passes(heap, heap', L, M, O, P), NEW q, q \notin DOMAIN L,
         NEW n, M = Held(L, q, n), Intact(heap, heap', L, q)
  PROVE  Promise!MallocNext
<1>1. DOMAIN O = DOMAIN L /\ DOMAIN P = DOMAIN M
  BY PassFacts
<1>2. DOMAIN M = DOMAIN L \cup {q} /\ \A x \in DOMAIN L : x # q /\ x \in DOMAIN M /\ M[x] = L[x]
  BY DEF Held
<1>3. Promise!Apart(P, q)
  BY <1>2, PassFacts
<1>4. \A x \in DOMAIN L : P[x] = O[x]
  BY <1>2, PassKeeps
<1>5. Promise!SameExcept({})
  BY <1>1, <1>4 DEF Promise!SameExcept, Held2
<1>6. Promise!Allocate(q)
  BY <1>1, <1>2, <1>3, <1>5 DEF Promise!Allocate, Held2
<1>7. q \in DOMAIN Objects'
  BY <1>1, <1>2 DEF Held2
<1> QED BY <1>6, <1>7 DEF Promise!MallocNext

\* An object that is gone is GiveBack.
LEMMA ReturnPass ==
  ASSUME NEW L, NEW M, NEW O, NEW P, Held2(O, P), Passes(heap, heap', L, M, O, P), NEW p \in DOMAIN L,
         M = Without(L, p), Intact(heap, heap', L, p)
  PROVE  Promise!MallocNext
<1>1. DOMAIN O = DOMAIN L /\ DOMAIN P = DOMAIN M
  BY PassFacts
<1>2. DOMAIN M = DOMAIN L \ {p} /\ \A x \in DOMAIN M : x \in DOMAIN L /\ x # p /\ M[x] = L[x]
  BY DEF Without
<1>3. \A x \in DOMAIN M : P[x] = O[x]
  BY <1>2, PassKeeps
<1>4. Promise!SameExcept({})
  BY <1>1, <1>3 DEF Promise!SameExcept, Held2
<1>5. Promise!GiveBack(p) /\ p \in DOMAIN Objects
  BY <1>1, <1>2, <1>4 DEF Promise!GiveBack, Held2
<1> QED BY <1>5 DEF Promise!MallocNext

\* A moved or resized object is Resize.
LEMMA ResizePass ==
  ASSUME NEW L, NEW M, NEW O, NEW P, Held2(O, P), Passes(heap, heap', L, M, O, P), NEW p \in DOMAIN L,
         NEW q, q \notin DOMAIN L \/ q = p, NEW n, M = Swapped(L, p, q, n),
         Intact(heap, heap', L, p), Carried(heap, heap', p, L[p], q, n)
  PROVE  Promise!MallocNext
<1>1. DOMAIN O = DOMAIN L /\ DOMAIN P = DOMAIN M
  BY PassFacts
<1>2. /\ DOMAIN M = (DOMAIN L \ {p}) \cup {q} /\ M[q] = n
      /\ \A x \in DOMAIN M : x # q => x \in DOMAIN L /\ x # p /\ M[x] = L[x]
  BY DEF Swapped
<1>3. \A x \in DOMAIN M : x # q => P[x] = O[x]
  BY <1>2, PassKeeps
<1>4. Promise!SameExcept({p, q})
  BY <1>1, <1>3 DEF Promise!SameExcept, Held2
<1>5. q \in DOMAIN M
  BY <1>2
<1>6. /\ IsObject(p, L[p]) /\ O[p] = Contents(heap, L[p], p)
      /\ IsObject(q, n) /\ P[q] = Contents(heap', n, q) /\ Promise!Apart(P, q)
  BY <1>2, <1>5, PassFacts
<1>7. ASSUME NEW i \in 1..Len(O[p]), i <= Len(P[q])
      PROVE  P[q][i] = O[p][i]
  BY <1>6, <1>7, ContentsCarried
<1>8. Promise!Resize(p, q)
  BY <1>1, <1>2, <1>4, <1>6, <1>7 DEF Promise!Resize, Held2
<1>9. p \in DOMAIN Objects /\ q \in DOMAIN Objects'
  BY <1>1, <1>5 DEF Held2
<1> QED BY <1>8, <1>9 DEF Promise!MallocNext

\* A caller's store is Store.
LEMMA StorePass ==
  ASSUME NEW L, NEW M, NEW O, NEW P, Held2(O, P), Passes(heap, heap', L, M, O, P), NEW p \in DOMAIN L,
         M = L, Intact(heap, heap', L, p)
  PROVE  Promise!MallocNext
<1>1. DOMAIN O = DOMAIN L /\ DOMAIN P = DOMAIN L
  BY PassFacts
<1>2. \A x \in DOMAIN L : x # p => P[x] = O[x]
  BY PassKeeps
<1>3. Promise!SameExcept({p})
  BY <1>1, <1>2 DEF Promise!SameExcept, Held2
<1>4. Len(P[p]) = Len(O[p])
  <2>1. 8 * Len(P[p]) = L[p] /\ 8 * Len(O[p]) = L[p]
    BY PassFacts
  <2>2. Len(P[p]) = L[p] \div 8 /\ Len(O[p]) = L[p] \div 8
    <3> DEFINE s == O[p]
               t == P[p]
               n == L[p]
    <3>1. IsObject(p, n) /\ Contents(heap, n, p) = s /\ Contents(heap', n, p) = t
      BY PassFacts
    <3> HIDE DEF s, t, n
    <3>2. Len(s) = n \div 8 /\ Len(t) = n \div 8
      BY <3>1, ContentsFacts
    <3> QED BY <3>2 DEF s, t, n
  <2> QED BY <2>2
<1>5. Promise!Store(p) /\ p \in DOMAIN Objects
  BY <1>1, <1>3, <1>4 DEF Promise!Store, Held2
<1> QED BY <1>5 DEF Promise!MallocNext

\* Every step is one that the promise allows.
LEMMA PromiseStep ==
  ASSUME HeapInv, [HeapNext]_heapVars
  PROVE  [Promise!MallocNext]_Objects
<1>1. CASE HeapNext
  <2>1. PICK B, T : Sys(heap, B, live, T)
    BY DEF HeapInv
  <2>2. PICK C, U : Sys(heap', C, live', U) /\ Turns(B, C, T)
    BY <1>1, <2>1, EveryTurn
  <2> DEFINE L == live
             M == live'
             O == ObjectsOf(heap, live)
             P == ObjectsOf(heap', live')
  <2>3. Held2(O, P)
    BY DEF Held2, Objects, ObjectsOf, Contents
  <2>4. Passes(heap, heap', L, M, O, P)
    BY <2>1, <2>2 DEF Passes
  <2> HIDE DEF O, P
  <2>5. CASE Idle(heap, heap', B, C, L, M)
    <3>1. P = O
      BY <2>4, <2>5, IdlePass DEF Idle
    <3> QED BY <2>3, <3>1 DEF Held2
  <2>6. ASSUME NEW q, NEW n, GivenAt(heap, heap', B, C, L, M, q, n)
        PROVE  Promise!MallocNext
    BY <2>3, <2>4, <2>6, GivePass DEF GivenAt
  <2>7. ASSUME NEW p \in DOMAIN L, ReturnedAt(heap, heap', B, C, L, M, T, p)
        PROVE  Promise!MallocNext
    BY <2>3, <2>4, <2>7, ReturnPass DEF ReturnedAt
  <2>8. ASSUME NEW p \in DOMAIN L, NEW q, NEW n, RelocatedAt(heap, heap', B, C, L, M, T, p, q, n)
        PROVE  Promise!MallocNext
    BY <2>3, <2>4, <2>8, ResizePass DEF RelocatedAt
  <2>9. ASSUME NEW p \in DOMAIN L, NEW n, ResizedAt(heap, heap', B, C, L, M, T, p, n)
        PROVE  Promise!MallocNext
    BY <2>3, <2>4, <2>9, ResizePass DEF ResizedAt
  <2>10. ASSUME NEW p \in DOMAIN L, WrittenAt(heap, heap', B, C, L, M, p)
         PROVE  Promise!MallocNext
    BY <2>3, <2>4, <2>10, StorePass DEF WrittenAt
  <2> QED BY <2>2, <2>5, <2>6, <2>7, <2>8, <2>9, <2>10 DEF Turns
<1>2. CASE UNCHANGED heapVars
  BY <1>2 DEF Objects, heapVars
<1> QED BY <1>1, <1>2

\* In the beginning there are no objects.
LEMMA PromiseInit ==
  ASSUME HeapInit
  PROVE  Promise!MallocInit
BY DEF HeapInit, Objects, Promise!MallocInit

\* Callers get what malloc, calloc, realloc and free promise.
THEOREM HeapKeepsPromise == HeapSpec => MallocPromise
<1>1. HeapInit => Promise!MallocInit
  BY PromiseInit
<1>2. HeapInv /\ [HeapNext]_heapVars => [Promise!MallocNext]_Objects
  BY PromiseStep
<1> QED BY <1>1, <1>2, HeapInvHolds, PTL DEF HeapSpec, MallocPromise, Promise!MallocSpec
=============================================================================
