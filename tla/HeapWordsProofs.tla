--------------------------- MODULE HeapWordsProofs ---------------------------
(***************************************************************************)
(* What the code of std/mem does to memory, word by word: for every region, *)
(* page size and request, each operation of Heap (the free list, the tags,  *)
(* coalescing, placing, growing, setting up) is the block operation of      *)
(* BlockHeap that its name says.                                            *)
(*                                                                          *)
(* At(H, B, X, K, o, D) carries it: the tags of H describe the blocks B,    *)
(* the free list holds the blocks X, the words K still hold what they hold  *)
(* in o, and besides the region the words D are mapped.  K never reaches    *)
(* into a tag, a link or a free block, which is why what callers hold       *)
(* survives.  Rest is At between calls, or a region not yet set up.         *)
(***************************************************************************)
EXTENDS Heap, FiniteSetTheorems, WellFoundedInduction, TLAPS
\* What is proved of the tiling, about the blocks that the tags describe.
BP == INSTANCE BlockHeapProofs WITH
  First <- FirstBlock, Limit <- Base + Reserve - 8, MinBlock <- 32,
  Needs <- {Need(n) : n \in Requests},
  blocks <- BlocksOf(heap),
  brk <- IF heap.base = 0 THEN FirstBlock ELSE heap.commit - 8

-----------------------------------------------------------------------------
(* Numbers. *)

\* A set of numbers has a least one.
LEMMA LeastNumber ==
  ASSUME NEW N, N \subseteq Nat, N # {}
  PROVE  \E n \in N : \A m \in N : n <= m
<1> DEFINE Less == OpToRel(<, Nat)
<1>1. IsWellFoundedOn(Less, Nat)
  BY NatLessThanWellFounded DEF OpToRel
<1> HIDE DEF Less
<1>2. PICK n \in N : \A m \in N : <<m, n>> \notin Less
  BY <1>1, WFMin
<1>3. ASSUME NEW m \in N PROVE ~(m < n)
  <2>1. m \in Nat /\ n \in Nat
    OBVIOUS
  <2>2. m < n => <<m, n>> \in Less
    BY <2>1 DEF Less, OpToRel
  <2> QED BY <1>2, <2>2
<1> QED BY <1>3

\* A tag holds a size and a use.
LEMMA TagParts ==
  ASSUME NEW s \in Nat, s % 16 = 0, NEW b \in {0, 1}
  PROVE  /\ ((s + b) \div 16) * 16 = s /\ (s + b) % 2 = b /\ ((s + b) \div 2) % 2 = 0
OBVIOUS

\* x is a multiple of p when its remainder is 0.
LEMMA Multiple ==
  ASSUME NEW p \in Nat \ {0}, NEW x \in Int
  PROVE  x % p = 0 <=> \E k \in Int : x = p * k
<1>1. ASSUME x % p = 0 PROVE \E k \in Int : x = p * k
  <2>1. x = p * (x \div p) + (x % p) /\ x \div p \in Int
    OBVIOUS
  <2>2. x = p * (x \div p)
    BY <2>1, <1>1
  <2> DEFINE q == x \div p
  <2>3. q \in Int /\ x = p * q
    BY <2>1, <2>2
  <2> HIDE DEF q
  <2> QED BY <2>3
<1>2. ASSUME NEW k \in Int, x = p * k PROVE x % p = 0
  <2>1. x = p * (x \div p) + (x % p) /\ x \div p \in Int /\ x % p \in 0..p - 1
    OBVIOUS
  <2> DEFINE q == x \div p
             r == x % p
  <2>2. q \in Int /\ r \in Int /\ 0 <= r /\ r < p /\ p * k = p * q + r
    BY <2>1, <1>2
  <2> HIDE DEF q, r
  <2>3. p * (k - q) = r
    BY <2>2
  <2>4. k - q < 1
    <3>1. SUFFICES ASSUME k - q >= 1 PROVE FALSE
      BY <2>2
    <3>2. p * (k - q) >= p
      BY <3>1, <2>2
    <3> QED BY <3>2, <2>2, <2>3
  <2>5. k - q > -1
    <3>1. SUFFICES ASSUME k - q <= -1 PROVE FALSE
      BY <2>2
    <3>2. p * (k - q) <= -p
      BY <3>1, <2>2
    <3> QED BY <3>2, <2>2, <2>3
  <2>6. k = q
    BY <2>2, <2>4, <2>5
  <2>7. r = 0
    BY <2>2, <2>6
  <2> QED BY <2>7 DEF r
<1> QED BY <1>1, <1>2

\* Sums and differences of multiples of p are multiples of p.
LEMMA MultipleSum ==
  ASSUME NEW p \in Nat \ {0}, NEW x \in Int, NEW y \in Int, x % p = 0, y % p = 0
  PROVE  (x + y) % p = 0 /\ (x - y) % p = 0
<1>1. PICK k \in Int, l \in Int : x = p * k /\ y = p * l
  BY Multiple
<1>2. x + y = p * (k + l) /\ x - y = p * (k - l)
  BY <1>1
<1>3. k + l \in Int /\ k - l \in Int /\ x + y \in Int /\ x - y \in Int
  OBVIOUS
<1> QED BY <1>2, <1>3, Multiple

\* Whole pages are whole multiples of 16.
LEMMA PagesAreAligned ==
  ASSUME NEW x \in Int, x % PageSize = 0
  PROVE  x % 16 = 0
<1>1. PageSize \in Nat \ {0} /\ PageSize % 16 = 0
  BY HeapAssumption
<1>2. PICK k \in Int, l \in Int : x = PageSize * k /\ PageSize = 16 * l
  BY <1>1, Multiple
<1>3. x = 16 * (l * k) /\ l * k \in Int
  BY <1>2
<1> QED BY <1>3, Multiple

\* roundpage, when nothing wraps around
LEMMA RoundPageFacts ==
  ASSUME NEW x \in Nat, x > 0, x + PageSize <= WordRange
  PROVE  /\ RoundPage(x) \in Nat /\ RoundPage(x) >= x
         /\ RoundPage(x) % PageSize = 0 /\ RoundPage(x) % 16 = 0
<1> DEFINE P == PageSize
           y == x + P - 1
           q == y \div P
<1>1. P \in Nat /\ P > 0 /\ WordRange \in Nat
  BY HeapAssumption, RequestAssumption
<1>2. y \in Nat /\ y < WordRange
  BY <1>1
<1>3. Word(y) = y
  BY <1>1, <1>2 DEF Word
<1>4. y = P * q + (y % P) /\ q \in Int /\ y % P \in 0..P - 1
  BY <1>1, <1>2
<1>5. RoundPage(x) = q * P
  BY <1>3 DEF RoundPage
<1> DEFINE r == y % P
<1>6. q \in Int /\ r \in Int /\ r <= P - 1 /\ y = P * q + r
  BY <1>4, <1>1
<1> HIDE DEF q, r
<1>7. q * P \in Int /\ q * P = P * q /\ P * q >= x
  BY <1>6, <1>1
<1>8. RoundPage(x) % PageSize = 0
  <2>1. RoundPage(x) \in Int /\ \E k \in Int : RoundPage(x) = PageSize * k
    BY <1>5, <1>6, <1>7
  <2> QED BY <2>1, <1>1, Multiple
<1> QED BY <1>5, <1>7, <1>8, PagesAreAligned

\* heap_round16, and the size of a block for a request
LEMMA NeedFacts ==
  ASSUME NEW n \in Requests, NEW r, r = n \/ (n = 0 /\ r = 1)
  PROVE  /\ Need(r) \in Nat /\ Need(r) >= 32 /\ Need(r) % 16 = 0
         /\ Need(r) >= n + 16 /\ Need(r) + PageSize <= WordRange /\ Need(r) = Need(n)
<1>1. n \in Nat /\ n + PageSize + 32 <= WordRange /\ PageSize \in Nat /\ WordRange \in Nat /\ n % 8 = 0
      /\ PageSize > 0 /\ PageSize % 16 = 0
  BY HeapAssumption, RequestAssumption
<1>2. Word(n + 15) = n + 15 /\ Word(r + 15) = r + 15
  BY <1>1 DEF Word
<1>3. PageSize >= 16
  BY <1>1
<1>4. Round16(n) = ((n + 15) \div 16) * 16 /\ Round16(r) = ((r + 15) \div 16) * 16
  BY <1>2 DEF Round16
<1>5. r \in Nat
  BY <1>1
<1> QED BY <1>1, <1>3, <1>4, <1>5 DEF Need

\* The region and the block sizes are what BlockHeap assumes of them.
LEMMA RegionOK == BP!RegionAssumption
<1>1. Base \in Nat /\ Reserve \in Nat /\ Reserve >= 64
  BY HeapAssumption
<1>2. \A n \in Requests : Need(n) \in Nat /\ Need(n) >= 32
  BY NeedFacts
<1> QED BY <1>1, <1>2 DEF BP!RegionAssumption, FirstBlock

-----------------------------------------------------------------------------
(* Words in memory. *)

IsHeap(H) ==
  /\ H = [mem |-> H.mem, base |-> H.base, commit |-> H.commit, reserve |-> H.reserve,
          free |-> H.free, ready |-> H.ready]
  /\ H.mem = [a \in DOMAIN H.mem |-> H.mem[a]]

SameFields(H, G) ==
  G.base = H.base /\ G.commit = H.commit /\ G.reserve = H.reserve /\ G.ready = H.ready

\* G is H after writes to words of S, which are all mapped.
Wrote(H, G, S) ==
  /\ IsHeap(G) /\ SameFields(H, G)
  /\ DOMAIN G.mem = DOMAIN H.mem
  /\ \A a \in DOMAIN H.mem : a \notin S => Get(G, a) = Get(H, a)

\* Two writes, one after the other.
LEMMA WroteTwice ==
  ASSUME NEW H, NEW G, NEW K, NEW S, NEW T, NEW U, Wrote(H, G, S), Wrote(G, K, T),
         S \subseteq U, T \subseteq U
  PROVE  Wrote(H, K, U)
BY DEF Wrote, SameFields

\* What PutWords leaves and what it writes.
LEMMA PutWordsFacts ==
  ASSUME NEW H, IsHeap(H), NEW ws
  PROVE  LET G == PutWords(H, ws) IN
         /\ IsHeap(G) /\ SameFields(H, G) /\ G.free = H.free
         /\ DOMAIN G.mem = DOMAIN H.mem \cup DOMAIN ws
         /\ \A a \in DOMAIN ws : Get(G, a) = ws[a]
         /\ \A a \in DOMAIN H.mem : a \notin DOMAIN ws => Get(G, a) = Get(H, a)
BY DEF IsHeap, PutWords, SameFields, Get

\* Put writes one word.
LEMMA PutFacts ==
  ASSUME NEW H, IsHeap(H), NEW a \in DOMAIN H.mem, NEW v
  PROVE  /\ Wrote(H, Put(H, a, v), {a})
         /\ Put(H, a, v).free = H.free
         /\ Get(Put(H, a, v), a) = v
<1> DEFINE ws == [w \in {a} |-> v]
<1>1. DOMAIN ws = {a} /\ ws[a] = v
  OBVIOUS
<1> HIDE DEF ws
<1>2. Put(H, a, v) = PutWords(H, ws)
  BY DEF Put, ws
<1>3. LET G == PutWords(H, ws) IN
      /\ IsHeap(G) /\ SameFields(H, G) /\ G.free = H.free
      /\ DOMAIN G.mem = DOMAIN H.mem \cup {a}
      /\ Get(G, a) = v
      /\ \A x \in DOMAIN H.mem : x \notin {a} => Get(G, x) = Get(H, x)
  BY <1>1, PutWordsFacts
<1>4. DOMAIN H.mem \cup {a} = DOMAIN H.mem
  OBVIOUS
<1> QED BY <1>2, <1>3, <1>4 DEF Wrote

Pair(a, b) == {a, b}

\* heap_set_block
LEMMA SetBlockFacts ==
  ASSUME NEW H, IsHeap(H), NEW h, NEW size, NEW alloc, NEW f, f = h + size - 8,
         NEW v, v = size + alloc, h \in DOMAIN H.mem, f \in DOMAIN H.mem,
         NEW G, G = SetBlock(H, h, size, alloc)
  PROVE  Wrote(H, G, Pair(h, f)) /\ G.free = H.free /\ Get(G, h) = v /\ Get(G, f) = v
<1> DEFINE G1 == Put(H, h, v)
           G2 == Put(G1, f, v)
<1>1. Wrote(H, G1, {h}) /\ G1.free = H.free /\ Get(G1, h) = v
  BY PutFacts
<1>2. IsHeap(G1) /\ f \in DOMAIN G1.mem /\ h \in DOMAIN G1.mem
  BY <1>1 DEF Wrote
<1> HIDE DEF G1
<1>3. /\ Wrote(G1, G2, {f}) /\ G2.free = G1.free
      /\ Get(G2, f) = v
  BY <1>2, PutFacts
<1>4. Wrote(H, G2, Pair(h, f))
  BY <1>1, <1>3, WroteTwice DEF Pair
<1> HIDE DEF G2
<1>5. Get(G2, h) = v
  BY <1>1, <1>2, <1>3 DEF Wrote
<1>6. G2 = G
  BY DEF SetBlock, G1, G2
<1> QED BY <1>1, <1>3, <1>4, <1>5, <1>6

-----------------------------------------------------------------------------
(* The region: tags and sentinels. *)

Frees(B) == {h \in DOMAIN B : ~B[h].used}
Aligned(B) == \A h \in DOMAIN B : h % 16 = 8 /\ B[h].size % 16 = 0

\* B tiles the region up to e, as blocks the code can handle.
Shape(B, e) ==
  /\ e \in Int /\ e % 16 = 8
  /\ BP!Tiles(B, FirstBlock, e) /\ BP!HoldsLinks(B) /\ Aligned(B)
  /\ B = [h \in DOMAIN B |-> B[h]]

Tag(b) == b.size + (IF b.used THEN 1 ELSE 0)

Tagged(H, B) ==
  \A h \in DOMAIN B : Get(H, h) = Tag(B[h]) /\ Get(H, BP!End(B, h) - 8) = Tag(B[h])

\* The region is set up; its words are mapped; the sentinels are in place.
Grounds(H) ==
  /\ IsHeap(H) /\ H.base = Base /\ H.ready = TRUE /\ H.reserve = Base + Reserve
  /\ H.commit \in Int /\ H.commit % PageSize = 0
  /\ Base + Chunk <= H.commit /\ H.commit <= Base + Reserve
  /\ \A a \in Base .. H.commit - 8 : a % 8 = 0 => a \in DOMAIN H.mem
  /\ Get(H, Base + 16) = 17 /\ Get(H, H.commit - 8) = 1

\* The region and its first block are aligned.
LEMMA BaseFacts ==
  /\ Base \in Nat /\ Base > 0 /\ Base % 16 = 0 /\ Reserve \in Nat /\ Reserve % 16 = 0
  /\ Chunk \in Nat /\ Chunk >= 64 /\ Chunk <= Reserve /\ Chunk % 16 = 0
  /\ PageSize \in Nat /\ PageSize >= 16
  /\ FirstBlock = Base + 24 /\ FirstBlock \in Nat /\ FirstBlock % 16 = 8
<1>1. Base \in Nat /\ Reserve \in Nat /\ Chunk \in Nat /\ PageSize \in Nat
  BY HeapAssumption
<1>2. Base % 16 = 0 /\ Reserve % 16 = 0 /\ Chunk % 16 = 0
  BY <1>1, HeapAssumption, PagesAreAligned
<1> QED BY <1>1, <1>2, HeapAssumption DEF FirstBlock

\* A page boundary, and the epilogue in front of it.
LEMMA CommitFacts ==
  ASSUME NEW c \in Int, c % PageSize = 0
  PROVE  c % 16 = 0 /\ (c - 8) % 16 = 8 /\ (c - 8) % 8 = 0
<1>1. c % 16 = 0
  BY PagesAreAligned
<1> QED BY <1>1

\* Where a block is and how it lies to another one.
LEMMA BlockFacts ==
  ASSUME NEW B, NEW e, Shape(B, e), NEW h \in DOMAIN B
  PROVE  /\ h \in Int /\ h % 16 = 8 /\ FirstBlock <= h
         /\ B[h].size \in Nat /\ B[h].size % 16 = 0 /\ B[h].size >= 32 /\ B[h].used \in BOOLEAN
         /\ B[h] = [size |-> B[h].size, used |-> B[h].used]
         /\ BP!End(B, h) = h + B[h].size /\ BP!End(B, h) \in Int
         /\ BP!End(B, h) % 16 = 8 /\ h + 32 <= BP!End(B, h) /\ BP!End(B, h) <= e
         /\ BP!End(B, h) = e \/ BP!End(B, h) \in DOMAIN B
<1>1. /\ h \in Int /\ B[h] \in [size : Nat \ {0}, used : BOOLEAN]
      /\ FirstBlock <= h /\ BP!End(B, h) <= e
      /\ BP!End(B, h) = e \/ BP!End(B, h) \in DOMAIN B
  BY DEF Shape, BP!Tiles
<1>2. h % 16 = 8 /\ B[h].size % 16 = 0 /\ B[h].size >= 32
  BY DEF Shape, Aligned, BP!HoldsLinks
<1>3. BP!End(B, h) = h + B[h].size
  BY DEF BP!End
<1>4. B[h] = [size |-> B[h].size, used |-> B[h].used] /\ B[h].size \in Nat /\ B[h].used \in BOOLEAN
  BY <1>1
<1> QED BY <1>1, <1>2, <1>3, <1>4

\* Two blocks do not overlap.
LEMMA BlocksApart ==
  ASSUME NEW B, NEW e, Shape(B, e), NEW g \in DOMAIN B, NEW h \in DOMAIN B, g # h
  PROVE  BP!End(B, g) <= h \/ BP!End(B, h) <= g
<1>1. g \in Int /\ h \in Int
  BY BlockFacts
<1>2. g < h => BP!End(B, g) <= h
  BY DEF Shape, BP!Tiles
<1>3. h < g => BP!End(B, h) <= g
  BY DEF Shape, BP!Tiles
<1> QED BY <1>1, <1>2, <1>3

\* The words of a block are mapped.
LEMMA BlockWords ==
  ASSUME NEW H, NEW B, Grounds(H), Shape(B, H.commit - 8), NEW h \in DOMAIN B,
         NEW a \in Int, a % 8 = 0, h <= a, a < BP!End(B, h)
  PROVE  a \in DOMAIN H.mem
<1>1. BP!End(B, h) <= H.commit - 8 /\ h >= FirstBlock /\ h \in Int /\ BP!End(B, h) \in Int
  BY BlockFacts
<1>2. a \in Base .. H.commit - 8
  BY <1>1, BaseFacts DEF Grounds
<1> QED BY <1>2 DEF Grounds

\* The words in which the free list is threaded through the free blocks.
LinkWords(X) == {h + 8 : h \in X} \cup {h + 16 : h \in X}

\* No link lies where a tag or a sentinel lies.
LEMMA LinksAreNoTags ==
  ASSUME NEW B, NEW e, Shape(B, e), NEW X, X \subseteq DOMAIN B, NEW g \in DOMAIN B
  PROVE  /\ g \notin LinkWords(X) /\ BP!End(B, g) - 8 \notin LinkWords(X)
         /\ Base + 16 \notin LinkWords(X) /\ e \notin LinkWords(X)
<1>1. ASSUME NEW h \in X, NEW w \in {h + 8, h + 16}
      PROVE  w # g /\ w # BP!End(B, g) - 8 /\ w # Base + 16 /\ w # e
  <2>1. /\ h \in Int /\ h >= FirstBlock /\ h + 32 <= BP!End(B, h) /\ BP!End(B, h) <= e
        /\ BP!End(B, h) \in Int /\ e \in Int
    BY BlockFacts DEF Shape
  <2>2. g \in Int /\ BP!End(B, g) \in Int /\ g + 32 <= BP!End(B, g)
    BY BlockFacts
  <2>3. g = h \/ BP!End(B, g) <= h \/ BP!End(B, h) <= g
    BY BlocksApart
  <2> QED BY <2>1, <2>2, <2>3, BaseFacts
<1> QED BY <1>1 DEF LinkWords

\* Tags and links of a block are mapped memory.
LEMMA LinksAreMapped ==
  ASSUME NEW H, NEW B, Grounds(H), Shape(B, H.commit - 8), NEW h \in DOMAIN B
  PROVE  /\ h \in DOMAIN H.mem /\ h + 8 \in DOMAIN H.mem /\ h + 16 \in DOMAIN H.mem
         /\ BP!End(B, h) - 8 \in DOMAIN H.mem
<1>1. h \in Int /\ h % 16 = 8 /\ BP!End(B, h) \in Int /\ h + 32 <= BP!End(B, h) /\ BP!End(B, h) % 16 = 8
  BY BlockFacts
<1>2. \A a \in Int : a % 8 = 0 /\ h <= a /\ a < BP!End(B, h) => a \in DOMAIN H.mem
  BY BlockWords
<1> QED BY <1>1, <1>2

\* Writes to link words leave tags and sentinels alone.
LEMMA LinkWritesKeepTags ==
  ASSUME NEW H, NEW G, NEW B, NEW X, X \subseteq DOMAIN B,
         Grounds(H), Shape(B, H.commit - 8), Tagged(H, B), Wrote(H, G, LinkWords(X))
  PROVE  Grounds(G) /\ Shape(B, G.commit - 8) /\ Tagged(G, B)
<1>1. \A g \in DOMAIN B :
        /\ g \notin LinkWords(X) /\ BP!End(B, g) - 8 \notin LinkWords(X)
        /\ Base + 16 \notin LinkWords(X) /\ H.commit - 8 \notin LinkWords(X)
  BY LinksAreNoTags
<1>2. \A g \in DOMAIN B : g \in DOMAIN H.mem /\ BP!End(B, g) - 8 \in DOMAIN H.mem
  BY LinksAreMapped
<1>3. Tagged(G, B)
  BY <1>1, <1>2 DEF Tagged, Wrote
<1>4. /\ Base + 16 \in Base .. H.commit - 8 /\ (Base + 16) % 8 = 0
      /\ H.commit - 8 \in Base .. H.commit - 8 /\ (H.commit - 8) % 8 = 0
  BY BaseFacts, CommitFacts DEF Grounds
<1>5. Base + 16 \in DOMAIN H.mem /\ H.commit - 8 \in DOMAIN H.mem
  BY <1>4 DEF Grounds
<1>6. FirstBlock # H.commit - 8
  BY BaseFacts DEF Grounds
<1>7. FirstBlock \in DOMAIN B
  BY <1>6 DEF Shape, BP!Tiles
<1>8. Get(G, Base + 16) = Get(H, Base + 16) /\ Get(G, H.commit - 8) = Get(H, H.commit - 8)
  BY <1>1, <1>5, <1>7 DEF Wrote
<1>9. Grounds(G)
  BY <1>8 DEF Grounds, Wrote, SameFields
<1> QED BY <1>3, <1>9 DEF Wrote, SameFields

-----------------------------------------------------------------------------
(* The free list. *)

\* The list runs through L[1], L[2], ..., L[n] and ends, and so it does backwards.
Chain(H, L, n) ==
  /\ H.free = IF n = 0 THEN 0 ELSE L[1]
  /\ \A i \in 1..n :
       /\ Get(H, L[i] + 8) = IF i = n THEN 0 ELSE L[i + 1]
       /\ Get(H, L[i] + 16) = IF i = 1 THEN 0 ELSE L[i - 1]

Lists(L, n, X) ==
  /\ n \in Nat /\ L \in [1..n -> X]
  /\ \A i, j \in 1..n : L[i] = L[j] => i = j
  /\ \A x \in X : \E i \in 1..n : L[i] = x

\* The free list holds the blocks in X.
Linked(H, X) == \E n \in Nat : \E L \in [1..n -> X] : Lists(L, n, X) /\ Chain(H, L, n)

\* The heap as its tags describe it: tiled by B, of whose free blocks those in X
\* are on the list.
Region(H, B, X) ==
  /\ Grounds(H) /\ Shape(B, H.commit - 8) /\ Tagged(H, B)
  /\ X \subseteq Frees(B) /\ Linked(H, X)

\* Two blocks' link words are two words each.
LEMMA LinksApart ==
  ASSUME NEW B, NEW e, Shape(B, e), NEW g \in DOMAIN B, NEW h \in DOMAIN B
  PROVE  /\ g + 8 # h + 16 /\ h + 8 # g + 16
         /\ g # h => g + 8 # h + 8 /\ g + 16 # h + 16
<1>1. g \in Int /\ h \in Int /\ g % 16 = 8 /\ h % 16 = 8
  BY BlockFacts
<1> QED BY <1>1

\* heap_fl_insert
LEMMA InsertChains ==
  ASSUME NEW H, NEW B, NEW X, Region(H, B, X), NEW h \in DOMAIN B, h \notin X
  PROVE  /\ Wrote(H, FlInsert(H, h), LinkWords(X \cup {h}))
         /\ Linked(FlInsert(H, h), X \cup {h})
<1> DEFINE old == H.free
           G0 == Put(H, h + 8, old)
           G1 == Put(G0, h + 16, 0)
           G2 == IF old # 0 THEN Put(G1, old + 16, h) ELSE G1
           G  == [G2 EXCEPT !.free = h]
           Y  == X \cup {h}
           e  == H.commit - 8
<1>1. PICK n \in Nat : \E L \in [1..n -> X] : Lists(L, n, X) /\ Chain(H, L, n)
  BY DEF Region, Linked
<1>2. PICK L \in [1..n -> X] : Lists(L, n, X) /\ Chain(H, L, n)
  BY <1>1
<1>3. Shape(B, e) /\ Grounds(H) /\ IsHeap(H) /\ Y \subseteq DOMAIN B
  BY DEF Region, Grounds, Frees
<1> HIDE DEF e
<1>4. \A x \in Y : x + 8 \in DOMAIN H.mem /\ x + 16 \in DOMAIN H.mem /\ x # 0 /\ x \in Int
  <2>1. ASSUME NEW x \in Y
        PROVE  x + 8 \in DOMAIN H.mem /\ x + 16 \in DOMAIN H.mem /\ x # 0 /\ x \in Int
    <3>1. x \in DOMAIN B /\ Shape(B, H.commit - 8)
      BY <1>3 DEF e
    <3>2. x \in Int /\ FirstBlock <= x
      BY <3>1, BlockFacts
    <3>3. x + 8 \in DOMAIN H.mem /\ x + 16 \in DOMAIN H.mem
      BY <3>1, <1>3, LinksAreMapped
    <3> QED BY <3>2, <3>3, BaseFacts
  <2> QED BY <2>1
<1>5. \A x, y \in Y : x + 8 # y + 16 /\ (x # y => x + 8 # y + 8 /\ x + 16 # y + 16)
  BY <1>3, LinksApart
<1>6. IF n = 0 THEN old = 0 ELSE old = L[1] /\ L[1] \in X /\ L[1] # 0
  <2>1. n # 0 => 1 \in 1..n
    OBVIOUS
  <2> QED BY <1>2, <1>4, <2>1 DEF Chain
<1>7. Wrote(H, G0, {h + 8}) /\ Get(G0, h + 8) = old
  BY <1>3, <1>4, PutFacts
<1> HIDE DEF G0
<1>8. Wrote(G0, G1, {h + 16}) /\ Get(G1, h + 16) = 0
  <2>1. IsHeap(G0) /\ h + 16 \in DOMAIN G0.mem
    BY <1>4, <1>7 DEF Wrote
  <2> QED BY <2>1, PutFacts
<1>9. Wrote(H, G1, {h + 8, h + 16}) /\ Get(G1, h + 8) = old /\ Get(G1, h + 16) = 0
  <2>1. Wrote(H, G1, {h + 8, h + 16})
    BY <1>7, <1>8, WroteTwice
  <2>2. Get(G1, h + 8) = Get(G0, h + 8)
    BY <1>4, <1>5, <1>7, <1>8 DEF Wrote
  <2> QED BY <2>1, <2>2, <1>7, <1>8
<1> HIDE DEF G1
<1>10. /\ Wrote(G1, G2, IF n = 0 THEN {} ELSE {L[1] + 16})
       /\ n # 0 => Get(G2, L[1] + 16) = h
  <2>1. CASE n = 0
    <3>1. G2 = G1
      BY <2>1, <1>6
    <3> QED BY <3>1, <2>1, <1>9 DEF Wrote, SameFields
  <2>2. CASE n # 0
    <3>1. G2 = Put(G1, L[1] + 16, h)
      BY <2>2, <1>6
    <3>2. IsHeap(G1) /\ L[1] + 16 \in DOMAIN G1.mem
      BY <2>2, <1>6, <1>4, <1>9 DEF Wrote
    <3> HIDE DEF G
    <3>4. Wrote(G1, G2, {L[1] + 16}) /\ Get(G2, L[1] + 16) = h
      BY <3>1, <3>2, PutFacts, SMTT(30)
    <3> QED BY <3>4, <2>2
  <2> QED BY <2>1, <2>2
<1> HIDE DEF G2
<1>11. Wrote(H, G2, LinkWords(Y))
  <2>1. h + 8 \in LinkWords(Y) /\ h + 16 \in LinkWords(Y)
    BY DEF LinkWords
  <2>2. n # 0 => L[1] + 16 \in LinkWords(Y)
    BY <1>6 DEF LinkWords
  <2> QED BY <1>9, <1>10, <2>1, <2>2, WroteTwice
<1>12. /\ IsHeap(G) /\ DOMAIN G.mem = DOMAIN G2.mem /\ SameFields(G2, G) /\ G.free = h
       /\ \A a : Get(G, a) = Get(G2, a)
  BY <1>11 DEF Wrote, IsHeap, SameFields, Get
<1>13. Wrote(H, G, LinkWords(Y))
  BY <1>11, <1>12 DEF Wrote, SameFields
<1>14. /\ Get(G, h + 8) = old /\ Get(G, h + 16) = 0
       /\ \A x \in X : Get(G, x + 8) = Get(H, x + 8)
       /\ \A x \in X : Get(G, x + 16) = IF n # 0 /\ x = L[1] THEN h ELSE Get(H, x + 16)
  <2>1. h + 8 \in DOMAIN G1.mem /\ h + 16 \in DOMAIN G1.mem
    BY <1>4, <1>9 DEF Wrote
  <2>2. n # 0 => h + 8 # L[1] + 16 /\ h + 16 # L[1] + 16
    BY <1>5, <1>6
  <2>3. Get(G2, h + 8) = old /\ Get(G2, h + 16) = 0
    BY <1>9, <1>10, <2>1, <2>2 DEF Wrote
  <2>4. ASSUME NEW x \in X
        PROVE  /\ Get(G2, x + 8) = Get(H, x + 8)
               /\ Get(G2, x + 16) = IF n # 0 /\ x = L[1] THEN h ELSE Get(H, x + 16)
    <3>1. x \in Y /\ h \in Y /\ x # h
      OBVIOUS
    <3>2. x + 8 \notin {h + 8, h + 16} /\ x + 16 \notin {h + 8, h + 16}
      BY <3>1, <1>5
    <3>3. x + 8 \in DOMAIN H.mem /\ x + 16 \in DOMAIN H.mem
      BY <3>1, <1>4
    <3>4. Get(G1, x + 8) = Get(H, x + 8) /\ Get(G1, x + 16) = Get(H, x + 16)
      BY <3>2, <3>3, <1>9 DEF Wrote
    <3>5. x + 8 \in DOMAIN G1.mem /\ x + 16 \in DOMAIN G1.mem
      BY <3>3, <1>9 DEF Wrote
    <3>6. n # 0 => x + 8 # L[1] + 16 /\ (x # L[1] => x + 16 # L[1] + 16)
      BY <1>5, <1>6
    <3> QED BY <3>4, <3>5, <3>6, <1>10 DEF Wrote
  <2> QED BY <2>3, <2>4, <1>12
<1> HIDE DEF G
<1>15. Linked(G, Y)
  <2> DEFINE M == [i \in 1..n + 1 |-> IF i = 1 THEN h ELSE L[i - 1]]
  <2>1. n + 1 \in Nat
    OBVIOUS
  <2>2. M \in [1..n + 1 -> Y]
    <3>1. ASSUME NEW i \in 1..n + 1, i # 1 PROVE i - 1 \in 1..n
      BY <3>1
    <3> QED BY <3>1, <1>2
  <2>3. M[1] = h /\ \A i \in 1..n : M[i + 1] = L[i]
    OBVIOUS
  <2>4. \A i \in 1..n + 1 : i = 1 \/ (i - 1 \in 1..n /\ M[i] = L[i - 1])
    OBVIOUS
  <2>5. DOMAIN M = 1..n + 1
    OBVIOUS
  <2> HIDE DEF M
  <2>6. Lists(M, n + 1, Y)
    <3>1. \A i \in 1..n : L[i] # h /\ L[i] \in X
      BY <1>2
    <3>2. \A i, j \in 1..n + 1 : M[i] = M[j] => i = j
      <4>1. SUFFICES ASSUME NEW i \in 1..n + 1, NEW j \in 1..n + 1, M[i] = M[j] PROVE i = j
        OBVIOUS
      <4>2. CASE i = 1
        BY <4>1, <4>2, <2>3, <2>4, <3>1
      <4>3. CASE j = 1
        BY <4>1, <4>3, <2>3, <2>4, <3>1
      <4>4. CASE i # 1 /\ j # 1
        <5>1. i - 1 \in 1..n /\ j - 1 \in 1..n /\ L[i - 1] = L[j - 1]
          BY <4>1, <4>4, <2>4
        <5>2. i - 1 = j - 1
          BY <5>1, <1>2 DEF Lists
        <5> QED BY <5>2
      <4> QED BY <4>2, <4>3, <4>4
    <3>3. \A x \in Y : \E i \in 1..n + 1 : M[i] = x
      <4>1. ASSUME NEW x \in X PROVE \E i \in 1..n + 1 : M[i] = x
        <5>1. PICK i \in 1..n : L[i] = x
          BY <1>2 DEF Lists
        <5>2. i + 1 \in 1..n + 1 /\ M[i + 1] = x
          BY <5>1, <2>3
        <5> QED BY <5>2
      <4>2. 1 \in 1..n + 1
        OBVIOUS
      <4> QED BY <4>1, <4>2, <2>3
    <3> QED BY <2>1, <2>2, <3>2, <3>3 DEF Lists
  <2>7. Chain(G, M, n + 1)
    <3>1. G.free = M[1]
      BY <1>12, <2>3
    <3>2. ASSUME NEW i \in 1..n + 1
          PROVE  /\ Get(G, M[i] + 8) = IF i = n + 1 THEN 0 ELSE M[i + 1]
                 /\ Get(G, M[i] + 16) = IF i = 1 THEN 0 ELSE M[i - 1]
      <4>1. CASE i = 1
        <5>1. n # 0 => M[2] = L[1]
          <6>1. n # 0 => 1 \in 1..n
            OBVIOUS
          <6> QED BY <6>1, <2>3
        <5> QED BY <4>1, <5>1, <1>6, <1>14, <2>3
      <4>2. CASE i # 1
        <5> DEFINE j == i - 1
        <5>1. j \in 1..n /\ M[i] = L[j] /\ n # 0 /\ i = j + 1
          BY <4>2, <2>4
        <5> HIDE DEF j
        <5>2. L[j] \in X
          BY <5>1, <1>2
        <5>3. Get(H, L[j] + 8) = (IF j = n THEN 0 ELSE L[j + 1])
              /\ Get(H, L[j] + 16) = (IF j = 1 THEN 0 ELSE L[j - 1])
          BY <5>1, <1>2 DEF Chain
        <5>4. j # n => M[i + 1] = L[j + 1]
          <6>1. j # n => j + 1 \in 1..n
            BY <5>1
          <6> QED BY <6>1, <5>1, <2>3
        <5>5. j # 1 => M[i - 1] = L[j - 1] /\ L[j] # L[1]
          <6>1. j # 1 => j - 1 \in 1..n /\ 1 \in 1..n /\ i - 1 = (j - 1) + 1
            BY <5>1
          <6> QED BY <6>1, <5>1, <2>3, <1>2 DEF Lists
        <5>6. j = 1 => M[i - 1] = h
          BY <5>1, <2>3
        <5>7. i = n + 1 <=> j = n
          BY <5>1
        <5> QED BY <4>2, <5>1, <5>2, <5>3, <5>4, <5>5, <5>6, <5>7, <1>14
      <4> QED BY <4>1, <4>2
    <3>3. n + 1 # 0
      OBVIOUS
    <3> QED BY <3>1, <3>2, <3>3 DEF Chain
  <2> QED BY <2>1, <2>2, <2>6, <2>7 DEF Linked
<1>16. FlInsert(H, h) = G
  BY DEF FlInsert, G, G2, G1, G0
<1> QED BY <1>13, <1>15, <1>16

\* heap_fl_remove
LEMMA RemoveChains ==
  ASSUME NEW H, NEW B, NEW X, Region(H, B, X), NEW h \in X
  PROVE  /\ Wrote(H, FlRemove(H, h), LinkWords(X))
         /\ Linked(FlRemove(H, h), X \ {h})
<1> DEFINE nx == Get(H, h + 8)
           pv == Get(H, h + 16)
           G1 == IF pv # 0 THEN Put(H, pv + 8, nx) ELSE [H EXCEPT !.free = nx]
           G  == IF nx # 0 THEN Put(G1, nx + 16, pv) ELSE G1
           Y  == X \ {h}
           e  == H.commit - 8
<1>1. PICK n \in Nat : \E L \in [1..n -> X] : Lists(L, n, X) /\ Chain(H, L, n)
  BY DEF Region, Linked
<1>2. PICK L \in [1..n -> X] : Lists(L, n, X) /\ Chain(H, L, n)
  BY <1>1
<1>3. Shape(B, e) /\ Grounds(H) /\ IsHeap(H) /\ X \subseteq DOMAIN B
  BY DEF Region, Grounds, Frees
<1> HIDE DEF e
<1>4. \A x \in X : x + 8 \in DOMAIN H.mem /\ x + 16 \in DOMAIN H.mem /\ x # 0 /\ x \in Int
  <2>1. ASSUME NEW x \in X
        PROVE  x + 8 \in DOMAIN H.mem /\ x + 16 \in DOMAIN H.mem /\ x # 0 /\ x \in Int
    <3>1. x \in DOMAIN B /\ Shape(B, H.commit - 8)
      BY <1>3 DEF e
    <3>2. x \in Int /\ FirstBlock <= x
      BY <3>1, BlockFacts
    <3>3. x + 8 \in DOMAIN H.mem /\ x + 16 \in DOMAIN H.mem
      BY <3>1, <1>3, LinksAreMapped
    <3> QED BY <3>2, <3>3, BaseFacts
  <2> QED BY <2>1
<1>5. \A x, y \in X : x + 8 # y + 16 /\ (x # y => x + 8 # y + 8 /\ x + 16 # y + 16)
  BY <1>3, LinksApart
<1>6. PICK k \in 1..n : L[k] = h
  BY <1>2 DEF Lists
<1>7. /\ k \in Int /\ 1 <= k /\ k <= n
      /\ nx = IF k = n THEN 0 ELSE L[k + 1]
      /\ pv = IF k = 1 THEN 0 ELSE L[k - 1]
  BY <1>2, <1>6 DEF Chain
<1>8. /\ k # n => k + 1 \in 1..n /\ L[k + 1] \in X /\ nx = L[k + 1] /\ nx # 0
      /\ k = n => nx = 0
      /\ k # 1 => k - 1 \in 1..n /\ L[k - 1] \in X /\ pv = L[k - 1] /\ pv # 0
      /\ k = 1 => pv = 0
  <2>1. k # n => k + 1 \in 1..n
    BY <1>7
  <2>2. k # 1 => k - 1 \in 1..n
    BY <1>7
  <2> QED BY <2>1, <2>2, <1>4, <1>7, <1>2
<1> HIDE DEF nx, pv
<1>9. /\ Wrote(H, G1, IF k = 1 THEN {} ELSE {pv + 8})
      /\ G1.free = (IF k = 1 THEN nx ELSE H.free)
      /\ k # 1 => Get(G1, pv + 8) = nx
  <2>1. CASE k = 1
    <3>1. G1 = [H EXCEPT !.free = nx]
      BY <2>1, <1>8
    <3> HIDE DEF G1, G
    <3>2. G1.free = nx /\ IsHeap(G1) /\ G1.mem = H.mem /\ SameFields(H, G1)
      BY <3>1, <1>3 DEF IsHeap, SameFields
    <3>3. \A a : Get(G1, a) = Get(H, a)
      BY <3>2 DEF Get
    <3> QED BY <3>2, <3>3, <2>1 DEF Wrote
  <2>2. CASE k # 1
    <3>1. G1 = Put(H, pv + 8, nx) /\ pv + 8 \in DOMAIN H.mem /\ IsHeap(H)
      BY <2>2, <1>8, <1>4, <1>3
    <3> HIDE DEF G1, G
    <3> QED BY <3>1, <2>2, PutFacts
  <2> QED BY <2>1, <2>2
<1> HIDE DEF G1
<1>10. /\ Wrote(G1, G, IF k = n THEN {} ELSE {nx + 16})
       /\ G.free = G1.free
       /\ k # n => Get(G, nx + 16) = pv
  <2>1. CASE k = n
    <3>1. G = G1
      BY <2>1, <1>8
    <3> QED BY <3>1, <2>1, <1>9 DEF Wrote, SameFields
  <2>2. CASE k # n
    <3>1. G = Put(G1, nx + 16, pv) /\ nx + 16 \in DOMAIN G1.mem /\ IsHeap(G1)
      BY <2>2, <1>8, <1>4, <1>9 DEF Wrote
    <3> HIDE DEF G
    <3> QED BY <3>1, <2>2, PutFacts
  <2> QED BY <2>1, <2>2
<1>11. G = FlRemove(H, h)
  BY DEF G, G1, nx, pv, FlRemove
<1> HIDE DEF G
<1>12. Wrote(H, G, LinkWords(X))
  <2>1. (k # n => nx + 16 \in LinkWords(X)) /\ (k # 1 => pv + 8 \in LinkWords(X))
    BY <1>8 DEF LinkWords
  <2> QED BY <1>9, <1>10, <2>1, WroteTwice
<1>13. ASSUME NEW x \in X
       PROVE  /\ Get(G, x + 8) = IF k # 1 /\ x = pv THEN nx ELSE Get(H, x + 8)
              /\ Get(G, x + 16) = IF k # n /\ x = nx THEN pv ELSE Get(H, x + 16)
  <2>1. x + 8 \in DOMAIN H.mem /\ x + 16 \in DOMAIN H.mem
    BY <1>4
  <2>2. x + 8 \in DOMAIN G1.mem /\ x + 16 \in DOMAIN G1.mem
    BY <2>1, <1>9 DEF Wrote
  <2>3. /\ k # 1 => x + 16 # pv + 8 /\ (x # pv => x + 8 # pv + 8)
        /\ k # n => x + 8 # nx + 16 /\ (x # nx => x + 16 # nx + 16)
    BY <1>8, <1>5
  <2>4. /\ Get(G1, x + 8) = IF k # 1 /\ x = pv THEN nx ELSE Get(H, x + 8)
        /\ Get(G1, x + 16) = Get(H, x + 16)
    BY <2>1, <2>3, <1>9 DEF Wrote
  <2>5. Get(G, x + 8) = Get(G1, x + 8)
    BY <2>2, <2>3, <1>10 DEF Wrote
  <2>6. Get(G, x + 16) = IF k # n /\ x = nx THEN pv ELSE Get(G1, x + 16)
    BY <2>2, <2>3, <1>10 DEF Wrote
  <2> QED BY <2>4, <2>5, <2>6
<1>14. Linked(G, Y)
  <2> DEFINE N == n - 1
             M == [i \in 1..N |-> IF i < k THEN L[i] ELSE L[i + 1]]
  <2>1. N \in Nat /\ n = N + 1 /\ n \in Nat
    BY <1>7
  <2> HIDE DEF N
  <2>2. ASSUME NEW i \in 1..N
        PROVE  /\ i \in 1..n /\ i + 1 \in 1..n /\ i \in Int
               /\ M[i] = IF i < k THEN L[i] ELSE L[i + 1]
               /\ M[i] \in X /\ M[i] # h
    <3>1. i \in 1..n /\ i + 1 \in 1..n /\ i \in Int
      BY <2>1
    <3>2. M[i] = IF i < k THEN L[i] ELSE L[i + 1]
      OBVIOUS
    <3>3. L[i] \in X /\ L[i + 1] \in X
      BY <3>1, <1>2
    <3>4. (i < k => L[i] # L[k]) /\ (~(i < k) => L[i + 1] # L[k])
      BY <3>1, <1>2, <1>7 DEF Lists
    <3> QED BY <3>1, <3>2, <3>3, <3>4, <1>6
  <2>3. M \in [1..N -> Y]
    BY <2>2
  <2> HIDE DEF M
  <2>4. \A i, j \in 1..N : M[i] = M[j] => i = j
    <3>1. SUFFICES ASSUME NEW i \in 1..N, NEW j \in 1..N, M[i] = M[j] PROVE i = j
      OBVIOUS
    <3> DEFINE a == IF i < k THEN i ELSE i + 1
               b == IF j < k THEN j ELSE j + 1
    <3>2. a \in 1..n /\ b \in 1..n /\ L[a] = L[b]
      BY <2>2, <3>1
    <3>3. a = b
      BY <3>2, <1>2 DEF Lists
    <3>4. i \in Int /\ j \in Int /\ k \in Int
      BY <2>2, <1>7
    <3> QED BY <3>3, <3>4
  <2>5. \A x \in Y : \E i \in 1..N : M[i] = x
    <3>1. SUFFICES ASSUME NEW x \in Y PROVE \E i \in 1..N : M[i] = x
      OBVIOUS
    <3>2. PICK j \in 1..n : L[j] = x
      BY <1>2 DEF Lists
    <3>3. j # k /\ j \in Int /\ 1 <= j /\ j <= n
      BY <3>2, <1>6, <1>7
    <3>4. CASE j < k
      <4>1. j \in 1..N
        BY <3>3, <3>4, <1>7, <2>1
      <4> QED BY <4>1, <2>2, <3>2, <3>4
    <3>5. CASE j > k
      <4> DEFINE i == j - 1
      <4>1. i \in 1..N /\ ~(i < k) /\ i + 1 = j
        BY <3>3, <3>5, <1>7, <2>1
      <4> HIDE DEF i
      <4> QED BY <4>1, <2>2, <3>2
    <3> QED BY <3>3, <3>4, <3>5, <1>7
  <2>6. Chain(G, M, N)
    <3>1. G.free = IF N = 0 THEN 0 ELSE M[1]
      <4>1. N # 0 => 1 \in 1..N
        BY <2>1
      <4>2. N # 0 => M[1] = IF 1 < k THEN L[1] ELSE L[2]
        BY <4>1, <2>2
      <4>3. H.free = L[1]
        BY <2>1, <1>2 DEF Chain
      <4>4. CASE k = 1
        <5>1. N = 0 <=> k = n
          BY <4>4, <2>1
        <5> QED BY <4>4, <5>1, <4>2, <1>9, <1>10, <1>8
      <4>5. CASE k # 1
        <5>1. N # 0 /\ 1 < k
          BY <4>5, <2>1, <1>7
        <5> QED BY <4>5, <5>1, <4>2, <4>3, <1>9, <1>10
      <4> QED BY <4>4, <4>5
    <3>2. ASSUME NEW i \in 1..N
          PROVE  /\ Get(G, M[i] + 8) = IF i = N THEN 0 ELSE M[i + 1]
                 /\ Get(G, M[i] + 16) = IF i = 1 THEN 0 ELSE M[i - 1]
      <4> DEFINE a == IF i < k THEN i ELSE i + 1
      <4>1. i \in Int /\ 1 <= i /\ i <= N /\ k \in Int /\ 1 <= k /\ k <= N + 1
        BY <1>7, <2>1
      <4>2. a \in 1..n /\ a \in Int /\ M[i] = L[a] /\ L[a] \in X
        BY <2>2
      <4>3. /\ Get(H, L[a] + 8) = IF a = n THEN 0 ELSE L[a + 1]
            /\ Get(H, L[a] + 16) = IF a = 1 THEN 0 ELSE L[a - 1]
        BY <4>2, <1>2 DEF Chain
      <4>4. i # N => i + 1 \in 1..N /\ M[i + 1] = IF i + 1 < k THEN L[i + 1] ELSE L[i + 2]
        <5>1. i # N => i + 1 \in 1..N
          BY <4>1, <2>1
        <5>2. i + 1 + 1 = i + 2
          BY <4>1
        <5> QED BY <5>1, <5>2, <2>2
      <4>5. i # 1 => i - 1 \in 1..N /\ M[i - 1] = IF i - 1 < k THEN L[i - 1] ELSE L[i]
        <5>1. i # 1 => i - 1 \in 1..N
          BY <4>1, <2>1
        <5>2. i - 1 + 1 = i
          BY <4>1
        <5> QED BY <5>1, <5>2, <2>2
      <4>6. k # 1 => (L[a] = pv <=> a = k - 1)
        BY <4>2, <1>8, <1>2 DEF Lists
      <4>7. k # n => (L[a] = nx <=> a = k + 1)
        BY <4>2, <1>8, <1>2 DEF Lists
      <4>8. a = IF i < k THEN i ELSE i + 1
        OBVIOUS
      <4> HIDE DEF a
      <4>9. /\ Get(G, L[a] + 8) = IF k # 1 /\ a = k - 1 THEN nx ELSE Get(H, L[a] + 8)
            /\ Get(G, L[a] + 16) = IF k # n /\ a = k + 1 THEN pv ELSE Get(H, L[a] + 16)
        BY <4>2, <4>6, <4>7, <1>13
      <4>10. Get(G, M[i] + 8) = IF i = N THEN 0 ELSE M[i + 1]
        <5>1. CASE a = k - 1
          <6>1. i = k - 1 /\ k # 1 /\ (i = N <=> k = n) /\ ~(i + 1 < k) /\ i + 2 = k + 1
            BY <5>1, <4>1, <4>8, <2>1
          <6> QED BY <5>1, <6>1, <4>2, <4>4, <4>9, <1>8
        <5>2. CASE a # k - 1 /\ i < k
          <6>1. a = i /\ i + 1 < k /\ a # n /\ i # N /\ a + 1 = i + 1
            BY <5>2, <4>1, <4>8, <2>1
          <6> QED BY <5>2, <6>1, <4>2, <4>3, <4>4, <4>9
        <5>3. CASE ~(i < k)
          <6>1. a = i + 1 /\ ~(i + 1 < k) /\ (a = n <=> i = N) /\ a # k - 1 /\ a + 1 = i + 2
            BY <5>3, <4>1, <4>8, <2>1
          <6> QED BY <5>3, <6>1, <4>2, <4>3, <4>4, <4>9
        <5> QED BY <5>1, <5>2, <5>3
      <4>11. Get(G, M[i] + 16) = IF i = 1 THEN 0 ELSE M[i - 1]
        <5>1. CASE a = k + 1
          <6>1. i = k /\ k # n /\ (i = 1 <=> k = 1) /\ i - 1 < k /\ i - 1 = k - 1
            BY <5>1, <4>1, <4>8, <2>1
          <6> QED BY <5>1, <6>1, <4>2, <4>5, <4>9, <1>8
        <5>2. CASE i < k
          <6>1. a = i /\ i - 1 < k /\ a # k + 1 /\ a - 1 = i - 1
            BY <5>2, <4>1, <4>8, <2>1
          <6> QED BY <5>2, <6>1, <4>2, <4>3, <4>5, <4>9
        <5>3. CASE a # k + 1 /\ ~(i < k)
          <6>1. a = i + 1 /\ ~(i - 1 < k) /\ i # 1 /\ a # 1 /\ a - 1 = i
            BY <5>3, <4>1, <4>8, <2>1
          <6> QED BY <5>3, <6>1, <4>2, <4>3, <4>5, <4>9
        <5> QED BY <5>1, <5>2, <5>3
      <4> QED BY <4>10, <4>11
    <3> QED BY <3>1, <3>2 DEF Chain
  <2> QED BY <2>1, <2>3, <2>4, <2>5, <2>6 DEF Linked, Lists
<1> QED BY <1>11, <1>12, <1>14

\* a lies inside a block that is not on the list.
Inside(B, X, a) == \E h \in DOMAIN B \ X : h + 8 <= a /\ a < BP!End(B, h) - 8

\* The words in K are what they are in o; they lie inside blocks or outside the
\* region.
Kept(H, B, X, K, o, D) ==
  \A a \in K : /\ a \in DOMAIN H.mem /\ Get(H, a) = Get(o, a)
               /\ a \in D \/ Inside(B, X, a)

Outside(D) == \A a \in D : a \in Int /\ (a < Base \/ Base + Reserve <= a)

\* The heap in the middle of a call: tiled by B, with X on the free list, the words
\* D mapped outside the region, and the words in K still as they are in o.
At(H, B, X, K, o, D) ==
  /\ Region(H, B, X) /\ Outside(D)
  /\ DOMAIN H.mem = {a \in Base .. H.commit - 8 : a % 8 = 0} \cup D
  /\ Kept(H, B, X, K, o, D)

\* No word in K belongs to the block h.
Clear(B, h, K) == \A a \in K : ~(h <= a /\ a < BP!End(B, h))

\* What At says of the region and its ends.
LEMMA AtFacts ==
  ASSUME NEW H, NEW B, NEW X, NEW K, NEW o, NEW D, At(H, B, X, K, o, D)
  PROVE  /\ Grounds(H) /\ IsHeap(H) /\ Shape(B, H.commit - 8) /\ Tagged(H, B)
         /\ X \subseteq DOMAIN B /\ X \subseteq Frees(B) /\ Linked(H, X) /\ Region(H, B, X)
         /\ H.commit \in Int /\ FirstBlock + 32 <= H.commit - 8 /\ H.commit <= Base + Reserve
         /\ H.commit % 16 = 0 /\ (H.commit - 8) % 16 = 8
         /\ \A a \in DOMAIN H.mem : a \in Int
         /\ \A a \in D : a \in Int /\ (a < FirstBlock \/ H.commit <= a)
<1>1. Region(H, B, X) /\ Grounds(H)
  BY DEF At, Region
<1>2. H.commit \in Int /\ H.commit % 16 = 0 /\ (H.commit - 8) % 16 = 8
  BY <1>1, CommitFacts DEF Grounds
<1>3. FirstBlock + 32 <= H.commit - 8 /\ H.commit <= Base + Reserve
  BY <1>1, <1>2, BaseFacts DEF Grounds
<1>4. \A a \in D : a \in Int /\ (a < FirstBlock \/ H.commit <= a)
  BY <1>2, <1>3, BaseFacts DEF At, Outside
<1>5. \A a \in DOMAIN H.mem : a \in Int
  BY <1>4 DEF At
<1> QED BY <1>1, <1>2, <1>3, <1>4, <1>5 DEF Region, Frees, Grounds

\* Writing links of listed blocks leaves everything else as it is.
LEMMA LinkWritesKeep ==
  ASSUME NEW H, NEW B, NEW X, NEW K, NEW o, NEW D, At(H, B, X, K, o, D),
         NEW G, NEW Z, Z \subseteq DOMAIN B, Wrote(H, G, LinkWords(Z)),
         NEW Y, Y \subseteq Z, Y \subseteq Frees(B), Linked(G, Y),
         \A a \in K : a \in D \/ Inside(B, Z, a)
  PROVE  At(G, B, Y, K, o, D)
<1> DEFINE e == H.commit - 8
<1>1. /\ Grounds(H) /\ Shape(B, e) /\ Tagged(H, B) /\ H.commit \in Int
      /\ \A a \in D : a \in Int /\ (a < FirstBlock \/ H.commit <= a)
      /\ \A a \in DOMAIN H.mem : a \in Int
  BY AtFacts
<1>2. Region(G, B, Y)
  BY <1>1, LinkWritesKeepTags DEF Region
<1>3. DOMAIN G.mem = DOMAIN H.mem /\ G.commit = H.commit
  BY DEF Wrote, SameFields
<1> HIDE DEF e
<1>6. \A a \in K : a \in Int
  BY <1>1 DEF At, Kept
<1>4. ASSUME NEW a \in K
      PROVE  a \notin LinkWords(Z) /\ (a \in D \/ Inside(B, Y, a))
  <2>1. ASSUME NEW z \in Z, NEW w \in {z + 8, z + 16} PROVE a # w
    <3>1. /\ z \in Int /\ z >= FirstBlock /\ z + 32 <= BP!End(B, z) /\ BP!End(B, z) <= e
          /\ BP!End(B, z) \in Int /\ e \in Int
      BY <1>1, BlockFacts DEF Shape
    <3>2. CASE a \in D
      BY <3>1, <3>2, <1>1, BaseFacts DEF e
    <3>3. CASE Inside(B, Z, a)
      <4>1. PICK g \in DOMAIN B \ Z : g + 8 <= a /\ a < BP!End(B, g) - 8
        BY <3>3 DEF Inside
      <4>2. g # z /\ g \in Int /\ BP!End(B, g) \in Int /\ a \in Int
        <5>1. g # z /\ g \in DOMAIN B /\ a \in Int
          BY <1>6
        <5> QED BY <5>1, <1>1, BlockFacts
      <4>3. BP!End(B, g) <= z \/ BP!End(B, z) <= g
        BY <1>1, <4>2, BlocksApart
      <4> QED BY <3>1, <4>1, <4>2, <4>3
    <3> QED BY <3>2, <3>3
  <2>2. Inside(B, Z, a) => Inside(B, Y, a)
    BY DEF Inside
  <2> QED BY <2>1, <2>2 DEF LinkWords
<1>5. Kept(G, B, Y, K, o, D)
  BY <1>4 DEF Kept, At, Wrote
<1> QED BY <1>2, <1>3, <1>5 DEF At

\* heap_fl_insert and heap_fl_remove, seen from the tags
LEMMA InsertAt ==
  ASSUME NEW H, NEW B, NEW X, NEW K, NEW o, NEW D, At(H, B, X, K, o, D),
         NEW h, h \in Frees(B), h \notin X, Clear(B, h, K)
  PROVE  At(FlInsert(H, h), B, X \cup {h}, K, o, D)
<1>1. Region(H, B, X) /\ h \in DOMAIN B /\ X \cup {h} \subseteq Frees(B) /\ X \cup {h} \subseteq DOMAIN B
  BY AtFacts DEF Frees
<1>2. Wrote(H, FlInsert(H, h), LinkWords(X \cup {h})) /\ Linked(FlInsert(H, h), X \cup {h})
  BY <1>1, InsertChains
<1>3. ASSUME NEW a \in K PROVE a \in D \/ Inside(B, X \cup {h}, a)
  <2>1. SUFFICES ASSUME a \notin D PROVE Inside(B, X \cup {h}, a)
    OBVIOUS
  <2>2. PICK g \in DOMAIN B \ X : g + 8 <= a /\ a < BP!End(B, g) - 8
    BY <2>1 DEF At, Kept, Inside
  <2>3. g \in Int /\ BP!End(B, g) \in Int /\ a \in Int
    <3>1. Shape(B, H.commit - 8) /\ \A w \in DOMAIN H.mem : w \in Int
      BY AtFacts
    <3>2. a \in DOMAIN H.mem
      BY DEF At, Kept
    <3> QED BY <3>1, <3>2, BlockFacts
  <2>4. g # h
    BY <2>2, <2>3 DEF Clear
  <2> QED BY <2>2, <2>4 DEF Inside
<1> QED BY <1>1, <1>2, <1>3, LinkWritesKeep

\* heap_fl_remove takes one block off the list; it holds nothing that is kept.
LEMMA RemoveAt ==
  ASSUME NEW H, NEW B, NEW X, NEW K, NEW o, NEW D, At(H, B, X, K, o, D), NEW h, h \in X
  PROVE  At(FlRemove(H, h), B, X \ {h}, K, o, D) /\ Clear(B, h, K)
<1>1. Region(H, B, X) /\ X \subseteq Frees(B) /\ X \subseteq DOMAIN B /\ Shape(B, H.commit - 8)
  BY AtFacts
<1>2. Wrote(H, FlRemove(H, h), LinkWords(X)) /\ Linked(FlRemove(H, h), X \ {h})
  BY <1>1, RemoveChains
<1>3. \A a \in K : a \in D \/ Inside(B, X, a)
  BY DEF At, Kept
<1>4. At(FlRemove(H, h), B, X \ {h}, K, o, D)
  <2>1. X \ {h} \subseteq X /\ X \ {h} \subseteq Frees(B)
    BY <1>1
  <2> QED BY <1>1, <1>2, <1>3, <2>1, LinkWritesKeep
<1>5. ASSUME NEW a \in K PROVE ~(h <= a /\ a < BP!End(B, h))
  <2>1. a \in Int /\ h \in DOMAIN B
    <3>1. \A w \in DOMAIN H.mem : w \in Int
      BY AtFacts
    <3>2. a \in DOMAIN H.mem
      BY DEF At, Kept
    <3> QED BY <3>1, <3>2, <1>1
  <2>2. h \in Int /\ BP!End(B, h) \in Int /\ FirstBlock <= h /\ BP!End(B, h) <= H.commit - 8
    BY <2>1, <1>1, BlockFacts
  <2>3. CASE a \in D
    <3>1. H.commit \in Int /\ (a < FirstBlock \/ H.commit <= a)
      BY <2>3, AtFacts
    <3> QED BY <2>1, <2>2, <3>1, BaseFacts
  <2>4. CASE Inside(B, X, a)
    <3>1. PICK g \in DOMAIN B \ X : g + 8 <= a /\ a < BP!End(B, g) - 8
      BY <2>4 DEF Inside
    <3>2. g # h /\ g \in Int /\ BP!End(B, g) \in Int
      BY <1>1, BlockFacts
    <3>3. BP!End(B, g) <= h \/ BP!End(B, h) <= g
      BY <1>1, <2>1, <3>2, BlocksApart
    <3> QED BY <2>1, <2>2, <3>1, <3>2, <3>3
  <2> QED BY <2>3, <2>4, <1>3
<1> QED BY <1>4, <1>5 DEF Clear

-----------------------------------------------------------------------------
(* Blocks take the place of blocks. *)

Within(T, lo, hi) == \A h \in DOMAIN T : h \in Int /\ lo <= h /\ h < hi
IsFcn(f) == f = [x \in DOMAIN f |-> f[x]]

Retiles(R, B, lo, hi, T) ==
  /\ \A h : h \in DOMAIN R <=> (h \in DOMAIN B /\ (h < lo \/ hi <= h)) \/ h \in DOMAIN T
  /\ \A h \in DOMAIN T : R[h] = T[h] /\ BP!End(R, h) = BP!End(T, h)
  /\ \A h \in DOMAIN B : h < lo \/ hi <= h => R[h] = B[h] /\ BP!End(R, h) = BP!End(B, h)
  /\ IsFcn(R)

\* What stands where after T took the place of the blocks of B in [lo, hi).
LEMMA RetileParts ==
  ASSUME NEW B, NEW T, NEW lo \in Int, NEW hi \in Int, Within(T, lo, hi),
         NEW R, R = BP!Retile(B, lo, hi, T)
  PROVE  Retiles(R, B, lo, hi, T)
BY DEF BP!Retile, BP!End, Within, IsFcn, Retiles

\* New tags for the boundaries between lo and hi put the blocks T there.
LEMMA RetiledAt ==
  ASSUME NEW H, NEW B, NEW X, NEW K, NEW o, NEW D, At(H, B, X, K, o, D),
         NEW T, NEW lo \in Int, NEW hi \in Int, lo < hi,
         lo \in DOMAIN B, hi \in DOMAIN B \/ hi = H.commit - 8,
         BP!Tiles(T, lo, hi), BP!HoldsLinks(T), Aligned(T),
         NEW G, NEW S, Wrote(H, G, S), G.free = H.free,
         \A w \in S : w \in Int /\ lo <= w /\ w < hi,
         Tagged(G, T),
         \A x \in X : x < lo \/ hi <= x,
         \A a \in K : lo <= a /\ a < hi => a \notin S /\ Inside(T, {}, a)
  PROVE  At(G, BP!Retile(B, lo, hi, T), X, K, o, D)
<1> DEFINE R == BP!Retile(B, lo, hi, T)
           e == H.commit - 8
           Old == {y \in DOMAIN B : y < lo \/ hi <= y}
<1>1. /\ Grounds(H) /\ Shape(B, e) /\ Tagged(H, B) /\ Linked(H, X) /\ e \in Int /\ H.commit = e + 8
      /\ X \subseteq DOMAIN B /\ X \subseteq Frees(B) /\ e \in Int /\ e % 16 = 8 /\ FirstBlock + 32 <= e
      /\ \A a \in DOMAIN H.mem : a \in Int
      /\ \A a \in D : a \in Int /\ (a < FirstBlock \/ H.commit <= a)
  BY AtFacts
<1>2. DOMAIN G.mem = DOMAIN H.mem /\ G.commit = H.commit /\ IsHeap(G) /\ SameFields(H, G)
      /\ \A a \in DOMAIN H.mem : a \notin S => Get(G, a) = Get(H, a)
  BY DEF Wrote, SameFields
<1>3. hi \in DOMAIN B \/ hi = e
  OBVIOUS
<1> HIDE DEF e
<1>4. FirstBlock <= lo /\ hi <= e /\ FirstBlock \in Int
  <2>1. hi \in DOMAIN B => hi <= e
    <3>1. SUFFICES ASSUME hi \in DOMAIN B PROVE hi <= e
      OBVIOUS
    <3>2. hi + 32 <= BP!End(B, hi) /\ BP!End(B, hi) <= e /\ BP!End(B, hi) \in Int
      BY <3>1, <1>1, BlockFacts
    <3> QED BY <3>2, <1>1
  <2>2. FirstBlock <= lo
    BY <1>1, BlockFacts
  <2> QED BY <2>1, <2>2, <1>1, <1>3, BaseFacts
<1>5. \A h \in DOMAIN T : h \in Int /\ lo <= h /\ h < hi /\ BP!End(T, h) <= hi
      /\ T[h].size \in Nat /\ T[h].size >= 32 /\ BP!End(T, h) = h + T[h].size
  BY DEF BP!Tiles, BP!HoldsLinks, BP!End
<1>6. /\ DOMAIN R = Old \cup DOMAIN T
      /\ \A h \in DOMAIN T : R[h] = T[h] /\ BP!End(R, h) = BP!End(T, h)
      /\ \A h \in Old : R[h] = B[h] /\ BP!End(R, h) = BP!End(B, h)
      /\ R = [h \in DOMAIN R |-> R[h]]
  <2>1. Within(T, lo, hi)
    BY <1>5 DEF Within
  <2> HIDE DEF R
  <2>2. \A h \in Old : h \in DOMAIN B /\ (h < lo \/ hi <= h)
    OBVIOUS
  <2>3. /\ \A h : h \in DOMAIN R <=> (h \in DOMAIN B /\ (h < lo \/ hi <= h)) \/ h \in DOMAIN T
        /\ \A h \in DOMAIN T : R[h] = T[h] /\ BP!End(R, h) = BP!End(T, h)
        /\ \A h \in DOMAIN B : h < lo \/ hi <= h => R[h] = B[h] /\ BP!End(R, h) = BP!End(B, h)
        /\ IsFcn(R)
    <3>1. R = BP!Retile(B, lo, hi, T)
      BY DEF R
    <3> HIDE DEF R
    <3>2. Retiles(R, B, lo, hi, T)
      BY <2>1, <3>1, RetileParts
    <3> QED BY <3>2 DEF Retiles
  <2> HIDE DEF R
  <2>4. DOMAIN R = Old \cup DOMAIN T
    BY <2>3
  <2>5. R = [h \in DOMAIN R |-> R[h]]
    BY <2>3 DEF IsFcn
  <2> HIDE DEF Old
  <2> QED BY <2>2, <2>3, <2>4, <2>5
<1>7. BP!Tiles(R, FirstBlock, e)
  <2>1. e = IF hi >= e THEN hi ELSE e
    BY <1>4, <1>1
  <2>2. BP!Tiles(B, FirstBlock, e) /\ (hi \in DOMAIN B \/ hi >= e)
    BY <1>1, <1>3 DEF Shape
  <2> QED BY <2>1, <2>2, <1>4, <1>1, BP!RetileTiles, RegionOK
<1> HIDE DEF R
<1>8. Shape(R, e)
  <2>1. BP!HoldsLinks(R)
    BY <1>6, <1>1 DEF BP!HoldsLinks, Shape
  <2>2. Aligned(R)
    BY <1>6, <1>1 DEF Aligned, Shape
  <2> QED BY <2>1, <2>2, <1>1, <1>6, <1>7 DEF Shape
<1>9. ASSUME NEW h \in Old
      PROVE  /\ h \in Int /\ BP!End(B, h) \in Int /\ h + 32 <= BP!End(B, h)
             /\ BP!End(B, h) <= lo \/ hi <= h
  <2>1. h \in DOMAIN B
    OBVIOUS
  <2>2. h \in Int /\ BP!End(B, h) \in Int /\ h + 32 <= BP!End(B, h)
    BY <2>1, <1>1, BlockFacts
  <2>3. h < lo => BP!End(B, h) <= lo
    <3>1. SUFFICES ASSUME h < lo PROVE BP!End(B, h) <= lo
      OBVIOUS
    <3>2. lo + 32 <= BP!End(B, lo) /\ BP!End(B, lo) \in Int
      BY <1>1, BlockFacts
    <3>3. BP!End(B, h) <= lo \/ BP!End(B, lo) <= h
      BY <3>1, <2>1, <2>2, <1>1, BlocksApart
    <3> QED BY <3>1, <3>2, <3>3, <2>2
  <2> QED BY <2>1, <2>2, <2>3
<1>10. Tagged(G, R)
  <2>1. ASSUME NEW h \in Old
        PROVE  Get(G, h) = Tag(R[h]) /\ Get(G, BP!End(R, h) - 8) = Tag(R[h])
    <3>1. h \in DOMAIN B /\ h \in DOMAIN H.mem /\ BP!End(B, h) - 8 \in DOMAIN H.mem
      BY <1>1, LinksAreMapped DEF e
    <3>2. h \notin S /\ BP!End(B, h) - 8 \notin S
      BY <1>9
    <3>3. Get(H, h) = Tag(B[h]) /\ Get(H, BP!End(B, h) - 8) = Tag(B[h])
      BY <3>1, <1>1 DEF Tagged
    <3>4. R[h] = B[h] /\ BP!End(R, h) = BP!End(B, h)
      BY <1>6
    <3> QED BY <3>1, <3>2, <3>3, <3>4, <1>2
  <2>2. \A h \in DOMAIN T : Get(G, h) = Tag(R[h]) /\ Get(G, BP!End(R, h) - 8) = Tag(R[h])
    BY <1>6 DEF Tagged
  <2> HIDE DEF Old
  <2> QED BY <2>1, <2>2, <1>6 DEF Tagged
<1>11. Grounds(G)
  <2>1. /\ Base + 16 \in Base .. H.commit - 8 /\ (Base + 16) % 8 = 0
        /\ H.commit - 8 \in Base .. H.commit - 8 /\ (H.commit - 8) % 8 = 0
    <3>1. Base \in Int /\ e \in Int /\ e % 8 = 0 /\ (Base + 16) % 8 = 0 /\ Base + 16 <= e
      BY <1>1, BaseFacts
    <3>2. H.commit - 8 = e
      BY <1>1
    <3> QED BY <3>1, <3>2
  <2>2. Base + 16 \in DOMAIN H.mem /\ H.commit - 8 \in DOMAIN H.mem
    BY <2>1, <1>1 DEF Grounds
  <2>3. Base + 16 < lo /\ hi <= H.commit - 8
    BY <1>1, <1>4, BaseFacts
  <2>4. Base + 16 \notin S /\ H.commit - 8 \notin S
    BY <2>3, <1>1, BaseFacts
  <2>5. Get(G, Base + 16) = Get(H, Base + 16) /\ Get(G, H.commit - 8) = Get(H, H.commit - 8)
    BY <2>2, <2>4, <1>2
  <2> QED BY <2>5, <1>1, <1>2 DEF Grounds, SameFields
<1>12. \A x \in X : x \in Old
  BY <1>1
<1>13. X \subseteq Frees(R)
  BY <1>1, <1>6, <1>12 DEF Frees
<1>14. Linked(G, X)
  <2>1. ASSUME NEW x \in X
        PROVE  Get(G, x + 8) = Get(H, x + 8) /\ Get(G, x + 16) = Get(H, x + 16)
    <3>1. x \in Old /\ x \in DOMAIN B /\ x + 8 \in DOMAIN H.mem /\ x + 16 \in DOMAIN H.mem
      BY <1>1, <1>12, LinksAreMapped DEF e
    <3>2. x + 8 \notin S /\ x + 16 \notin S
      BY <1>9, <3>1
    <3> QED BY <3>1, <3>2, <1>2
  <2>2. PICK n \in Nat : \E L \in [1..n -> X] : Lists(L, n, X) /\ Chain(H, L, n)
    BY <1>1 DEF Linked
  <2>3. PICK L \in [1..n -> X] : Lists(L, n, X) /\ Chain(H, L, n)
    BY <2>2
  <2>4. \A i \in 1..n : Get(G, L[i] + 8) = Get(H, L[i] + 8) /\ Get(G, L[i] + 16) = Get(H, L[i] + 16)
    BY <2>1
  <2>5. Chain(G, L, n)
    BY <2>3, <2>4 DEF Chain
  <2> QED BY <2>3, <2>5 DEF Linked
<1>15. Kept(G, R, X, K, o, D)
  <2>1. ASSUME NEW a \in K
        PROVE  /\ a \in DOMAIN G.mem /\ Get(G, a) = Get(o, a)
               /\ a \in D \/ Inside(R, X, a)
    <3>1. a \in DOMAIN H.mem /\ Get(H, a) = Get(o, a) /\ (a \in D \/ Inside(B, X, a))
      BY DEF At, Kept
    <3>2. a \in Int
      BY <3>1, <1>1
    <3>3. CASE a \in D
      <4>1. a \notin S
        BY <3>3, <1>1, <1>4
      <4> QED BY <3>1, <3>3, <4>1, <1>2
    <3>4. CASE Inside(B, X, a)
      <4>1. PICK g \in DOMAIN B \ X : g + 8 <= a /\ a < BP!End(B, g) - 8
        BY <3>4 DEF Inside
      <4>2. CASE g \in Old
        <5>1. a \notin S
          BY <4>1, <4>2, <3>2, <1>9
        <5>2. g \in DOMAIN R \ X /\ BP!End(R, g) = BP!End(B, g)
          BY <4>1, <4>2, <1>6
        <5> QED BY <3>1, <4>1, <5>1, <5>2, <1>2 DEF Inside
      <4>3. CASE g \notin Old
        <5>1. g \in Int /\ lo <= g /\ g < hi /\ BP!End(B, g) \in Int
          BY <4>1, <4>3, <1>1, BlockFacts
        <5>2. BP!End(B, g) <= hi
          <6>1. CASE hi = e
            BY <6>1, <1>1, BlockFacts
          <6>2. CASE hi \in DOMAIN B
            <7>1. hi + 32 <= BP!End(B, hi) /\ BP!End(B, hi) \in Int
              BY <6>2, <1>1, BlockFacts
            <7>2. BP!End(B, g) <= hi \/ BP!End(B, hi) <= g
              BY <5>1, <6>2, <1>1, BlocksApart
            <7> QED BY <7>1, <7>2, <5>1
          <6> QED BY <6>1, <6>2, <1>3
        <5>3. a \notin S /\ Inside(T, {}, a)
          BY <4>1, <5>1, <5>2, <3>2
        <5>4. PICK t \in DOMAIN T : t + 8 <= a /\ a < BP!End(T, t) - 8
          BY <5>3 DEF Inside
        <5>5. t \in DOMAIN R \ X /\ BP!End(R, t) = BP!End(T, t)
          BY <5>4, <1>5, <1>6
        <5> QED BY <3>1, <5>3, <5>4, <5>5, <1>2 DEF Inside
      <4> QED BY <4>2, <4>3
    <3> QED BY <3>1, <3>3, <3>4
  <2> QED BY <2>1 DEF Kept
<1>16. G.commit - 8 = e
  BY <1>2, <1>1
<1> QED BY <1>1, <1>2, <1>8, <1>10, <1>11, <1>13, <1>14, <1>15, <1>16 DEF At, Region, R

Bit(used) == IF used THEN 1 ELSE 0

\* T is one block from lo to hi, or two that meet at mid.
IsOne(T, lo, hi, used) ==
  /\ \A h : h \in DOMAIN T <=> h = lo
  /\ BP!End(T, lo) = hi /\ T[lo].size = hi - lo /\ T[lo].used = used
  /\ Tag(T[lo]) = (hi - lo) + Bit(used)
  /\ BP!Tiles(T, lo, hi) /\ BP!HoldsLinks(T) /\ Aligned(T) /\ IsFcn(T)

IsTwo(T, lo, mid, hi, used) ==
  /\ \A h : h \in DOMAIN T <=> h = lo \/ h = mid
  /\ BP!End(T, lo) = mid /\ T[lo].size = mid - lo /\ T[lo].used = TRUE
  /\ BP!End(T, mid) = hi /\ T[mid].size = hi - mid /\ T[mid].used = used
  /\ Tag(T[lo]) = (mid - lo) + 1 /\ Tag(T[mid]) = (hi - mid) + Bit(used)
  /\ BP!Tiles(T, lo, hi) /\ BP!HoldsLinks(T) /\ Aligned(T) /\ IsFcn(T)

\* One block from lo to hi.
LEMMA OneParts ==
  ASSUME NEW lo \in Int, NEW hi \in Int, lo + 32 <= hi, lo % 16 = 8, hi % 16 = 8,
         NEW used \in BOOLEAN, NEW T, T = BP!One(lo, hi, used)
  PROVE  IsOne(T, lo, hi, used)
<1>1. /\ DOMAIN T = {lo} /\ T[lo] = [size |-> hi - lo, used |-> used]
      /\ IsFcn(T)
  BY DEF BP!One, IsFcn
<1>2. T[lo].size = hi - lo /\ T[lo].used = used /\ BP!End(T, lo) = hi
  BY <1>1 DEF BP!End
<1>3. BP!Tiles(T, lo, hi)
  BY <1>1, <1>2 DEF BP!Tiles
<1>4. BP!HoldsLinks(T)
  BY <1>1, <1>2 DEF BP!HoldsLinks
<1>5. (hi - lo) % 16 = 0
  OBVIOUS
<1>6. Aligned(T)
  BY <1>1, <1>2, <1>5 DEF Aligned
<1>7. Tag(T[lo]) = (hi - lo) + Bit(used)
  BY <1>2 DEF Tag, Bit
<1> QED BY <1>1, <1>2, <1>3, <1>4, <1>6, <1>7 DEF IsOne

\* Two blocks from lo over mid to hi.
LEMMA TwoParts ==
  ASSUME NEW lo \in Int, NEW mid \in Int, NEW hi \in Int, lo + 32 <= mid, mid + 32 <= hi,
         lo % 16 = 8, mid % 16 = 8, hi % 16 = 8,
         NEW used \in BOOLEAN, NEW T, T = BP!Two(lo, mid, hi, used)
  PROVE  IsTwo(T, lo, mid, hi, used)
<1>1. /\ DOMAIN T = {lo, mid} /\ T[lo] = [size |-> mid - lo, used |-> TRUE]
      /\ T[mid] = [size |-> hi - mid, used |-> used] /\ IsFcn(T)
  BY DEF BP!Two, IsFcn
<1>2. /\ T[lo].size = mid - lo /\ T[lo].used = TRUE /\ BP!End(T, lo) = mid
      /\ T[mid].size = hi - mid /\ T[mid].used = used /\ BP!End(T, mid) = hi
  BY <1>1 DEF BP!End
<1>3. BP!Tiles(T, lo, hi)
  <2>1. lo < mid /\ mid < hi
    OBVIOUS
  <2> QED BY <1>1, <1>2, <2>1, BP!TwoTile, RegionOK
<1>4. BP!HoldsLinks(T)
  BY <1>1, <1>2 DEF BP!HoldsLinks
<1>5. (hi - mid) % 16 = 0 /\ (mid - lo) % 16 = 0
  OBVIOUS
<1>6. Aligned(T)
  BY <1>1, <1>2, <1>5 DEF Aligned
<1>7. Tag(T[lo]) = (mid - lo) + 1 /\ Tag(T[mid]) = (hi - mid) + Bit(used)
  BY <1>2 DEF Tag, Bit
<1> QED BY <1>1, <1>2, <1>3, <1>4, <1>6, <1>7 DEF IsTwo

\* Two boundaries of a tiling are a block apart at least.
LEMMA BoundariesApart ==
  ASSUME NEW B, NEW e, Shape(B, e), NEW lo \in DOMAIN B, NEW hi \in Int, lo < hi,
         hi \in DOMAIN B \/ hi = e
  PROVE  /\ lo \in Int /\ lo % 16 = 8 /\ hi % 16 = 8 /\ lo + 32 <= hi /\ BP!End(B, lo) <= hi
         /\ FirstBlock <= lo /\ hi <= e
<1>1. lo \in Int /\ lo % 16 = 8 /\ lo + 32 <= BP!End(B, lo) /\ BP!End(B, lo) <= e
      /\ BP!End(B, lo) \in Int /\ FirstBlock <= lo
  BY BlockFacts
<1>2. CASE hi = e
  BY <1>1, <1>2 DEF Shape
<1>3. CASE hi \in DOMAIN B
  <2>1. hi % 16 = 8 /\ hi + 32 <= BP!End(B, hi) /\ BP!End(B, hi) \in Int /\ BP!End(B, hi) <= e /\ e \in Int
    BY <1>3, BlockFacts DEF Shape
  <2>2. BP!End(B, lo) <= hi
    <3>1. BP!End(B, lo) <= hi \/ BP!End(B, hi) <= lo
      BY <1>3, BlocksApart
    <3> QED BY <3>1, <2>1, <1>1
  <2> QED BY <1>1, <2>1, <2>2
<1> QED BY <1>2, <1>3

\* The words at which a block can start and end are mapped.
LEMMA BoundaryWords ==
  ASSUME NEW H, NEW B, NEW X, NEW K, NEW o, NEW D, At(H, B, X, K, o, D),
         NEW a \in Int, a % 8 = 0, FirstBlock <= a, a <= H.commit - 8
  PROVE  a \in DOMAIN H.mem
<1>1. Grounds(H) /\ H.commit \in Int
  BY AtFacts
<1>2. a \in Base .. H.commit - 8
  BY <1>1, BaseFacts
<1> QED BY <1>1, <1>2 DEF Grounds

\* heap_set_block makes one block of what lies between two boundaries.
LEMMA SetOneAt ==
  ASSUME NEW H, NEW B, NEW X, NEW K, NEW o, NEW D, At(H, B, X, K, o, D),
         NEW lo \in Int, lo \in DOMAIN B, NEW hi \in Int, lo < hi,
         hi \in DOMAIN B \/ hi = H.commit - 8,
         NEW used \in BOOLEAN, NEW size, size = hi - lo, NEW alloc, alloc = Bit(used),
         \A x \in X : x < lo \/ hi <= x,
         \A a \in K : lo <= a /\ a < hi => lo + 8 <= a /\ a < hi - 8,
         NEW T, T = BP!One(lo, hi, used)
  PROVE  At(SetBlock(H, lo, size, alloc), BP!Retile(B, lo, hi, T), X, K, o, D)
<1> DEFINE G == SetBlock(H, lo, size, alloc)
           S == Pair(lo, hi - 8)
<1>1. Shape(B, H.commit - 8) /\ IsHeap(H) /\ H.commit \in Int
  BY AtFacts
<1>2. lo \in Int /\ lo % 16 = 8 /\ hi % 16 = 8 /\ lo + 32 <= hi /\ FirstBlock <= lo /\ hi <= H.commit - 8
  BY <1>1, BoundariesApart
<1>3. lo + size - 8 = hi - 8 /\ (hi - 8) % 8 = 0 /\ lo % 8 = 0 /\ size + alloc = (hi - lo) + Bit(used)
  BY <1>2
<1>4. lo \in DOMAIN H.mem /\ hi - 8 \in DOMAIN H.mem
  BY <1>1, <1>2, <1>3, BaseFacts, BoundaryWords
<1>5. /\ Wrote(H, G, S) /\ G.free = H.free
      /\ Get(G, lo) = (hi - lo) + Bit(used) /\ Get(G, hi - 8) = (hi - lo) + Bit(used)
  BY <1>1, <1>3, <1>4, SetBlockFacts
<1> HIDE DEF G
<1>6. /\ \A h : h \in DOMAIN T <=> h = lo
      /\ BP!End(T, lo) = hi /\ Tag(T[lo]) = (hi - lo) + Bit(used)
      /\ BP!Tiles(T, lo, hi) /\ BP!HoldsLinks(T) /\ Aligned(T) /\ IsFcn(T)
  <2>1. IsOne(T, lo, hi, used)
    BY <1>2, OneParts
  <2> QED BY <2>1 DEF IsOne
<1>7. Tagged(G, T)
  BY <1>3, <1>5, <1>6 DEF Tagged
<1>8. \A w \in S : w \in Int /\ lo <= w /\ w < hi
  BY <1>2, <1>3 DEF Pair
<1>9. ASSUME NEW a \in K, lo <= a, a < hi PROVE a \notin S /\ Inside(T, {}, a)
  <2>1. lo + 8 <= a /\ a < hi - 8 /\ a \in Int
    <3>1. a \in DOMAIN H.mem /\ \A w \in DOMAIN H.mem : w \in Int
      BY AtFacts DEF At, Kept
    <3> QED BY <3>1, <1>9
  <2> QED BY <2>1, <1>2, <1>3, <1>6 DEF Inside, Pair
<1>10. T = [h \in DOMAIN T |-> T[h]]
  BY <1>6 DEF IsFcn
<1>11. lo < hi /\ lo \in Int
  BY <1>2
<1> HIDE DEF S
<1> QED BY <1>5, <1>6, <1>7, <1>8, <1>9, <1>11, RetiledAt DEF G

\* Two of them make two blocks of it.
LEMMA SetTwoAt ==
  ASSUME NEW H, NEW B, NEW X, NEW K, NEW o, NEW D, At(H, B, X, K, o, D),
         NEW lo \in Int, lo \in DOMAIN B, NEW hi \in Int, lo < hi,
         hi \in DOMAIN B \/ hi = H.commit - 8,
         NEW mid \in Int, mid % 16 = 8, lo + 32 <= mid, mid + 32 <= hi,
         NEW used \in BOOLEAN, NEW s, s = mid - lo, NEW t, t = hi - mid,
         NEW alloc, alloc = Bit(used),
         \A x \in X : x < lo \/ hi <= x,
         \A a \in K : lo <= a /\ a < hi => lo + 8 <= a /\ a < mid - 8,
         NEW T, T = BP!Two(lo, mid, hi, used)
  PROVE  At(SetBlock(SetBlock(H, lo, s, 1), mid, t, alloc), BP!Retile(B, lo, hi, T), X, K, o, D)
<1> DEFINE G1 == SetBlock(H, lo, s, 1)
           G == SetBlock(G1, mid, t, alloc)
           S1 == Pair(lo, mid - 8)
           S2 == Pair(mid, hi - 8)
           S == S1 \cup S2
<1>1. Shape(B, H.commit - 8) /\ IsHeap(H) /\ H.commit \in Int
  BY AtFacts
<1>2. lo \in Int /\ lo % 16 = 8 /\ hi % 16 = 8 /\ FirstBlock <= lo /\ hi <= H.commit - 8
  BY <1>1, BoundariesApart
<1>3. /\ lo + s - 8 = mid - 8 /\ mid + t - 8 = hi - 8
      /\ (hi - 8) % 8 = 0 /\ lo % 8 = 0 /\ mid % 8 = 0 /\ (mid - 8) % 8 = 0
      /\ s + 1 = (mid - lo) + 1 /\ t + alloc = (hi - mid) + Bit(used)
  BY <1>2
<1>4. lo \in DOMAIN H.mem /\ hi - 8 \in DOMAIN H.mem /\ mid \in DOMAIN H.mem /\ mid - 8 \in DOMAIN H.mem
  BY <1>1, <1>2, <1>3, BaseFacts, BoundaryWords
<1>5. /\ Wrote(H, G1, S1) /\ G1.free = H.free
      /\ Get(G1, lo) = s + 1 /\ Get(G1, mid - 8) = s + 1
  BY <1>1, <1>3, <1>4, SetBlockFacts
<1>6. IsHeap(G1) /\ DOMAIN G1.mem = DOMAIN H.mem
  BY <1>5 DEF Wrote
<1> HIDE DEF G1
<1>7. /\ Wrote(G1, G, S2) /\ G.free = G1.free
      /\ Get(G, mid) = t + alloc /\ Get(G, hi - 8) = t + alloc
  BY <1>3, <1>4, <1>6, SetBlockFacts
<1> HIDE DEF G
<1>8. lo \notin S2 /\ mid - 8 \notin S2
  BY <1>2, <1>3 DEF Pair
<1>9. Get(G, lo) = s + 1 /\ Get(G, mid - 8) = s + 1
  BY <1>3, <1>4, <1>5, <1>6, <1>7, <1>8 DEF Wrote
<1>10. Wrote(H, G, S)
  <2>1. S1 \subseteq S /\ S2 \subseteq S
    OBVIOUS
  <2> HIDE DEF S, S1, S2
  <2> QED BY <2>1, <1>5, <1>7, WroteTwice
<1>11. /\ \A h : h \in DOMAIN T <=> h = lo \/ h = mid
       /\ BP!End(T, lo) = mid /\ BP!End(T, mid) = hi
       /\ Tag(T[lo]) = (mid - lo) + 1 /\ Tag(T[mid]) = (hi - mid) + Bit(used)
       /\ BP!Tiles(T, lo, hi) /\ BP!HoldsLinks(T) /\ Aligned(T) /\ IsFcn(T)
  <2>1. IsTwo(T, lo, mid, hi, used)
    BY <1>2, TwoParts
  <2> QED BY <2>1 DEF IsTwo
<1>12. Tagged(G, T)
  BY <1>3, <1>7, <1>9, <1>11 DEF Tagged
<1>13. \A w \in S : w \in Int /\ lo <= w /\ w < hi
  BY <1>2, <1>3 DEF Pair
<1>14. ASSUME NEW a \in K, lo <= a, a < hi PROVE a \notin S /\ Inside(T, {}, a)
  <2>1. lo + 8 <= a /\ a < mid - 8 /\ a \in Int
    <3>1. a \in DOMAIN H.mem /\ \A w \in DOMAIN H.mem : w \in Int
      BY AtFacts DEF At, Kept
    <3> QED BY <3>1, <1>14
  <2> QED BY <2>1, <1>2, <1>3, <1>11 DEF Inside, Pair
<1>15. T = [h \in DOMAIN T |-> T[h]]
  BY <1>11 DEF IsFcn
<1>16. lo < hi /\ lo \in Int /\ G.free = H.free
  BY <1>2, <1>5, <1>7
<1> HIDE DEF S
<1>17. At(G, BP!Retile(B, lo, hi, T), X, K, o, D)
  BY <1>10, <1>11, <1>12, <1>13, <1>14, <1>16, RetiledAt
<1> QED BY <1>17 DEF G, G1

\* Two tilings are the same when they have the same blocks.
LEMMA SameBlocks ==
  ASSUME NEW B, NEW C, IsFcn(B), IsFcn(C), \A h : h \in DOMAIN B <=> h \in DOMAIN C,
         \A h \in DOMAIN B : B[h] = C[h]
  PROVE  B = C
<1>1. DOMAIN B = DOMAIN C
  OBVIOUS
<1>2. [h \in DOMAIN B |-> B[h]] = [h \in DOMAIN C |-> C[h]]
  BY <1>1
<1> QED BY <1>2 DEF IsFcn

\* What is retiled once more, over a wider range, is retiled as if for the first time.
LEMMA RetileTwice ==
  ASSUME NEW B, NEW lo1 \in Int, NEW hi1 \in Int, NEW lo \in Int, NEW hi \in Int,
         lo <= lo1, hi1 <= hi, NEW T1, NEW T, Within(T1, lo1, hi1), Within(T, lo, hi),
         \A h \in DOMAIN B : h \in Int
  PROVE  BP!Retile(BP!Retile(B, lo1, hi1, T1), lo, hi, T) = BP!Retile(B, lo, hi, T)
<1> DEFINE R1 == BP!Retile(B, lo1, hi1, T1)
           R2 == BP!Retile(R1, lo, hi, T)
           R  == BP!Retile(B, lo, hi, T)
<1>1. R1 = BP!Retile(B, lo1, hi1, T1) /\ R2 = BP!Retile(R1, lo, hi, T) /\ R = BP!Retile(B, lo, hi, T)
  OBVIOUS
<1> HIDE DEF R1, R2, R
<1>2. /\ \A h : h \in DOMAIN R1 <=> (h \in DOMAIN B /\ (h < lo1 \/ hi1 <= h)) \/ h \in DOMAIN T1
      /\ \A h \in DOMAIN B : h < lo1 \/ hi1 <= h => R1[h] = B[h]
  <2>1. Retiles(R1, B, lo1, hi1, T1)
    BY <1>1, RetileParts
  <2> QED BY <2>1 DEF Retiles
<1>3. /\ \A h : h \in DOMAIN R2 <=> (h \in DOMAIN R1 /\ (h < lo \/ hi <= h)) \/ h \in DOMAIN T
      /\ \A h \in DOMAIN R1 : h < lo \/ hi <= h => R2[h] = R1[h]
      /\ \A h \in DOMAIN T : R2[h] = T[h]
      /\ IsFcn(R2)
  <2>1. Retiles(R2, R1, lo, hi, T)
    BY <1>1, RetileParts
  <2> QED BY <2>1 DEF Retiles
<1>4. /\ \A h : h \in DOMAIN R <=> (h \in DOMAIN B /\ (h < lo \/ hi <= h)) \/ h \in DOMAIN T
      /\ \A h \in DOMAIN B : h < lo \/ hi <= h => R[h] = B[h]
      /\ \A h \in DOMAIN T : R[h] = T[h]
      /\ IsFcn(R)
  <2>1. Retiles(R, B, lo, hi, T)
    BY <1>1, RetileParts
  <2> QED BY <2>1 DEF Retiles
<1>5. ASSUME NEW h PROVE h \in DOMAIN R1 /\ (h < lo \/ hi <= h) <=> h \in DOMAIN B /\ (h < lo \/ hi <= h)
  BY <1>2 DEF Within
<1>6. ASSUME NEW h \in DOMAIN B, h < lo \/ hi <= h PROVE h \in DOMAIN R1 /\ R1[h] = B[h]
  BY <1>2, <1>6
<1>7. \A h : h \in DOMAIN R2 <=> h \in DOMAIN R
  BY <1>3, <1>4, <1>5
<1>8. \A h \in DOMAIN R2 : R2[h] = R[h]
  <2>1. SUFFICES ASSUME NEW h \in DOMAIN R2 PROVE R2[h] = R[h]
    OBVIOUS
  <2>2. CASE h \in DOMAIN T
    BY <2>2, <1>3, <1>4
  <2>3. CASE h \notin DOMAIN T
    <3>1. h \in DOMAIN R1 /\ h \in DOMAIN B /\ (h < lo \/ hi <= h)
      BY <2>3, <1>3, <1>5
    <3> QED BY <3>1, <1>3, <1>4, <1>6
  <2> QED BY <2>2, <2>3
<1> QED BY <1>1, <1>3, <1>4, <1>7, <1>8, SameBlocks

\* A block put where it is changes nothing.
LEMMA RetileSame ==
  ASSUME NEW B, NEW e, Shape(B, e), NEW h \in DOMAIN B, NEW hi, hi = BP!End(B, h),
         NEW used, used = B[h].used, NEW T, T = BP!One(h, hi, used)
  PROVE  BP!Retile(B, h, hi, T) = B
<1> DEFINE R == BP!Retile(B, h, hi, T)
<1>1. /\ h \in Int /\ hi \in Int /\ h % 16 = 8 /\ hi % 16 = 8 /\ h + 32 <= hi /\ used \in BOOLEAN
      /\ B[h] = [size |-> B[h].size, used |-> used] /\ hi = h + B[h].size /\ B[h].size \in Int
  BY BlockFacts
<1>2. /\ \A x : x \in DOMAIN T <=> x = h
      /\ T[h] = B[h]
  <2>1. hi - h = B[h].size
    BY <1>1
  <2> QED BY <2>1, <1>1 DEF BP!One
<1>3. Within(T, h, hi)
  BY <1>1, <1>2 DEF Within
<1>4. R = BP!Retile(B, h, hi, T)
  OBVIOUS
<1> HIDE DEF R
<1>5. /\ \A x : x \in DOMAIN R <=> (x \in DOMAIN B /\ (x < h \/ hi <= x)) \/ x \in DOMAIN T
      /\ \A x \in DOMAIN T : R[x] = T[x]
      /\ \A x \in DOMAIN B : x < h \/ hi <= x => R[x] = B[x]
      /\ IsFcn(R)
  <2>1. Retiles(R, B, h, hi, T)
    BY <1>1, <1>3, <1>4, RetileParts
  <2> QED BY <2>1 DEF Retiles
<1>6. ASSUME NEW x \in DOMAIN B, x # h PROVE x < h \/ hi <= x
  <2>1. x \in Int /\ BP!End(B, x) \in Int /\ x + 32 <= BP!End(B, x)
    BY BlockFacts
  <2>2. BP!End(B, x) <= h \/ BP!End(B, h) <= x
    BY <1>6, BlocksApart
  <2> QED BY <2>1, <2>2, <1>1
<1>7. \A x : x \in DOMAIN R <=> x \in DOMAIN B
  BY <1>2, <1>5, <1>6
<1>8. \A x \in DOMAIN R : R[x] = B[x]
  BY <1>2, <1>5, <1>6
<1>9. IsFcn(B)
  BY DEF Shape, IsFcn
<1> QED BY <1>4, <1>5, <1>7, <1>8, <1>9, SameBlocks

\* The free block that ends at lo is where the merge begins,
LEMMA LowerIs ==
  ASSUME NEW B, NEW lo, NEW g \in DOMAIN B, BP!IsFree(B, g), BP!End(B, g) = lo,
         \A x \in DOMAIN B : BP!IsFree(B, x) /\ BP!End(B, x) = lo => x = g
  PROVE  BP!Lower(B, lo) = g
BY DEF BP!Lower

\* and without one it begins at lo.
LEMMA LowerNone ==
  ASSUME NEW B, NEW lo, \A x \in DOMAIN B : ~(BP!IsFree(B, x) /\ BP!End(B, x) = lo)
  PROVE  BP!Lower(B, lo) = lo
BY DEF BP!Lower

\* Only one block ends at a boundary.
LEMMA OneEnds ==
  ASSUME NEW B, NEW e, Shape(B, e), NEW g \in DOMAIN B, NEW x \in DOMAIN B,
         BP!End(B, g) = BP!End(B, x)
  PROVE  g = x
<1>1. /\ g \in Int /\ BP!End(B, g) \in Int /\ g + 32 <= BP!End(B, g)
      /\ x \in Int /\ BP!End(B, x) \in Int /\ x + 32 <= BP!End(B, x)
  BY BlockFacts
<1>2. g # x => BP!End(B, g) <= x \/ BP!End(B, x) <= g
  BY BlocksApart
<1> QED BY <1>1, <1>2

\* Where the merge to the left begins.
LEMMA LowerFacts ==
  ASSUME NEW B, NEW e, Shape(B, e), NEW lo \in Int, NEW l, l = BP!Lower(B, lo)
  PROVE  /\ l \in Int /\ l <= lo
         /\ \/ l = lo /\ \A x \in DOMAIN B : ~(BP!IsFree(B, x) /\ BP!End(B, x) = lo)
            \/ l \in DOMAIN B /\ BP!IsFree(B, l) /\ BP!End(B, l) = lo /\ l + 32 <= lo
<1>1. CASE \E g \in DOMAIN B : BP!IsFree(B, g) /\ BP!End(B, g) = lo
  <2>1. PICK g \in DOMAIN B : BP!IsFree(B, g) /\ BP!End(B, g) = lo
    BY <1>1
  <2>2. l = g
    BY <2>1, LowerIs, OneEnds
  <2>3. g \in Int /\ g + 32 <= BP!End(B, g)
    BY BlockFacts
  <2> QED BY <2>1, <2>2, <2>3
<1>2. CASE ~\E g \in DOMAIN B : BP!IsFree(B, g) /\ BP!End(B, g) = lo
  BY <1>2, LowerNone
<1> QED BY <1>1, <1>2

\* Where the merge to the right ends.
LEMMA UpperFacts ==
  ASSUME NEW B, NEW e, Shape(B, e), NEW hi \in Int, NEW u, u = BP!Upper(B, hi)
  PROVE  /\ u \in Int /\ hi <= u
         /\ hi \in DOMAIN B => u <= e
         /\ u = IF BP!IsFree(B, hi) THEN BP!End(B, hi) ELSE hi
         /\ u = hi \/ u = e \/ u \in DOMAIN B
<1>1. CASE BP!IsFree(B, hi)
  <2>1. hi \in DOMAIN B /\ u = BP!End(B, hi)
    BY <1>1 DEF BP!IsFree, BP!Upper
  <2>2. BP!End(B, hi) \in Int /\ hi + 32 <= BP!End(B, hi) /\ BP!End(B, hi) <= e
        /\ (BP!End(B, hi) = e \/ BP!End(B, hi) \in DOMAIN B)
    BY <2>1, BlockFacts
  <2> QED BY <1>1, <2>1, <2>2
<1>2. CASE ~BP!IsFree(B, hi)
  <2>1. u = hi
    BY <1>2 DEF BP!Upper
  <2>2. hi \in DOMAIN B => hi <= e
    <3>1. SUFFICES ASSUME hi \in DOMAIN B PROVE hi <= e
      OBVIOUS
    <3>2. BP!End(B, hi) \in Int /\ hi + 32 <= BP!End(B, hi) /\ BP!End(B, hi) <= e /\ e \in Int
      BY <3>1, BlockFacts DEF Shape
    <3> QED BY <3>2
  <2> QED BY <1>2, <2>1, <2>2
<1> QED BY <1>1, <1>2

\* What one free block [lo, hi) merges with is what lay around that range before.
LEMMA FreedBounds ==
  ASSUME NEW B, NEW e, NEW lo \in Int, NEW hi \in Int, NEW T, NEW R, Shape(B, e),
         lo + 32 <= hi, \A x : x \in DOMAIN T <=> x = lo, BP!End(T, lo) = hi,
         Retiles(R, B, lo, hi, T)
  PROVE  BP!Lower(R, lo) = BP!Lower(B, lo) /\ BP!Upper(R, hi) = BP!Upper(B, hi)
<1>1. (\A x : x \in DOMAIN T <=> x = lo) /\ BP!End(T, lo) = hi
  OBVIOUS
<1>2. /\ \A h : h \in DOMAIN R <=> (h \in DOMAIN B /\ (h < lo \/ hi <= h)) \/ h = lo
      /\ \A h \in DOMAIN B : h < lo \/ hi <= h => R[h] = B[h] /\ BP!End(R, h) = BP!End(B, h)
  BY <1>1 DEF Retiles
<1>3. BP!End(R, lo) = hi
  <2>1. lo \in DOMAIN T
    BY <1>1
  <2> QED BY <2>1, <1>1 DEF Retiles
<1>4. \A h \in DOMAIN B : h \in Int /\ BP!End(B, h) \in Int /\ h + 32 <= BP!End(B, h)
  BY BlockFacts
<1>5. BP!Lower(R, lo) = BP!Lower(B, lo)
  <2>1. ASSUME NEW x \in DOMAIN R, BP!IsFree(R, x), BP!End(R, x) = lo
        PROVE  x \in DOMAIN B /\ BP!IsFree(B, x) /\ BP!End(B, x) = lo
    <3>1. x # lo
      <4>1. hi # lo
        OBVIOUS
      <4> QED BY <4>1, <1>3, <2>1
    <3>2. x \in DOMAIN B /\ (x < lo \/ hi <= x)
      BY <3>1, <1>2
    <3> QED BY <2>1, <3>2, <1>2 DEF BP!IsFree
  <2>2. ASSUME NEW x \in DOMAIN B, BP!IsFree(B, x), BP!End(B, x) = lo
        PROVE  x \in DOMAIN R /\ BP!IsFree(R, x) /\ BP!End(R, x) = lo
    <3>1. x < lo
      BY <2>2, <1>4
    <3> QED BY <2>2, <3>1, <1>2 DEF BP!IsFree
  <2>3. CASE \E g \in DOMAIN B : BP!IsFree(B, g) /\ BP!End(B, g) = lo
    <3>1. PICK g \in DOMAIN B : BP!IsFree(B, g) /\ BP!End(B, g) = lo
      BY <2>3
    <3>2. \A x \in DOMAIN B : BP!IsFree(B, x) /\ BP!End(B, x) = lo => x = g
      BY <3>1, OneEnds
    <3>3. \A x \in DOMAIN R : BP!IsFree(R, x) /\ BP!End(R, x) = lo => x = g
      BY <3>2, <2>1
    <3>4. BP!Lower(B, lo) = g
      BY <3>1, <3>2, LowerIs
    <3>5. g \in DOMAIN R /\ BP!IsFree(R, g) /\ BP!End(R, g) = lo
      BY <3>1, <2>2
    <3>6. BP!Lower(R, lo) = g
      BY <3>3, <3>5, LowerIs
    <3> QED BY <3>4, <3>6
  <2>4. CASE ~\E g \in DOMAIN B : BP!IsFree(B, g) /\ BP!End(B, g) = lo
    <3>1. BP!Lower(B, lo) = lo
      BY <2>4, LowerNone
    <3>2. BP!Lower(R, lo) = lo
      BY <2>1, <2>4, LowerNone
    <3> QED BY <3>1, <3>2
  <2> QED BY <2>3, <2>4
<1>6. BP!Upper(R, hi) = BP!Upper(B, hi)
  <2>1. hi # lo /\ hi <= hi
    OBVIOUS
  <2>2. hi \in DOMAIN R <=> hi \in DOMAIN B
    BY <2>1, <1>2
  <2>3. hi \in DOMAIN B => R[hi] = B[hi] /\ BP!End(R, hi) = BP!End(B, hi)
    BY <2>1, <1>2
  <2> QED BY <2>2, <2>3 DEF BP!Upper, BP!IsFree
<1> QED BY <1>5, <1>6

\* Where a range is made one free block first, merging it has the same outcome.
LEMMA FreedAgain ==
  ASSUME NEW B, NEW e, Shape(B, e), NEW lo \in Int, NEW hi \in Int, lo + 32 <= hi,
         lo % 16 = 8, hi % 16 = 8
  PROVE  BP!Freed(BP!Retile(B, lo, hi, BP!One(lo, hi, FALSE)), lo, hi) = BP!Freed(B, lo, hi)
<1> DEFINE T == BP!One(lo, hi, FALSE)
           R == BP!Retile(B, lo, hi, T)
           l == BP!Lower(B, lo)
           u == BP!Upper(B, hi)
           V == BP!One(l, u, FALSE)
<1>1. T = BP!One(lo, hi, FALSE) /\ R = BP!Retile(B, lo, hi, T)
  OBVIOUS
<1> HIDE DEF T, R
<1>2. (\A x : x \in DOMAIN T <=> x = lo) /\ BP!End(T, lo) = hi
  <2>1. lo + (hi - lo) = hi
    OBVIOUS
  <2> QED BY <2>1, <1>1 DEF BP!One, BP!End
<1>3. Within(T, lo, hi)
  <2>1. lo <= lo /\ lo < hi
    OBVIOUS
  <2> QED BY <2>1, <1>2 DEF Within
<1>4. Retiles(R, B, lo, hi, T)
  BY <1>1, <1>3, RetileParts
<1>5. BP!Lower(R, lo) = l /\ BP!Upper(R, hi) = u
  BY <1>2, <1>4, FreedBounds
<1>6. l \in Int /\ l <= lo /\ u \in Int /\ hi <= u
  BY LowerFacts, UpperFacts
<1> HIDE DEF l, u
<1>7. Within(V, l, u)
  BY <1>6 DEF BP!One, Within
<1> HIDE DEF V
<1>8. \A h \in DOMAIN B : h \in Int
  BY BlockFacts
<1>9. BP!Retile(R, l, u, V) = BP!Retile(B, l, u, V)
  <2>1. BP!Retile(BP!Retile(B, lo, hi, T), l, u, V) = BP!Retile(B, l, u, V)
    BY <1>3, <1>6, <1>7, <1>8, RetileTwice, SMTT(30)
  <2> QED BY <2>1, <1>1
<1>10. BP!Freed(R, lo, hi) = BP!Retile(R, l, u, V)
  BY <1>5 DEF BP!Freed, V
<1>11. BP!Freed(B, lo, hi) = BP!Retile(B, l, u, V)
  BY DEF BP!Freed, V, l, u
<1> QED BY <1>1, <1>9, <1>10, <1>11 DEF T, R

-----------------------------------------------------------------------------
(* heap_coalesce *)

FreeOne(lo, hi) == BP!One(lo, hi, FALSE)
UsedOne(lo, hi) == BP!One(lo, hi, TRUE)

\* What the tags of a block say at its two ends.
LEMMA BlockBits ==
  ASSUME NEW H, NEW B, NEW e, NEW h \in DOMAIN B, NEW f, Shape(B, e), Tagged(H, B),
         f = BP!End(B, h) - 8
  PROVE  /\ BSize(H, h) = B[h].size /\ AllocBit(H, h) = Bit(B[h].used) /\ MmapBit(H, h) = 0
         /\ BSize(H, f) = B[h].size /\ AllocBit(H, f) = Bit(B[h].used)
<1>1. B[h].size \in Nat /\ B[h].size % 16 = 0 /\ B[h].used \in BOOLEAN
  BY BlockFacts
<1>2. Get(H, h) = B[h].size + Bit(B[h].used) /\ Get(H, f) = B[h].size + Bit(B[h].used)
  BY DEF Tagged, Tag, Bit
<1> DEFINE s == B[h].size
           b == Bit(B[h].used)
<1>3. s \in Nat /\ s % 16 = 0 /\ b \in {0, 1}
  BY <1>1 DEF Bit
<1>4. Get(H, h) = s + b /\ Get(H, f) = s + b
  BY <1>2
<1> HIDE DEF s, b
<1>5. ((s + b) \div 16) * 16 = s /\ (s + b) % 2 = b /\ ((s + b) \div 2) % 2 = 0
  BY <1>3, TagParts
<1>6. BSize(H, h) = s /\ AllocBit(H, h) = b /\ MmapBit(H, h) = 0 /\ BSize(H, f) = s /\ AllocBit(H, f) = b
  BY <1>4, <1>5 DEF BSize, AllocBit, MmapBit
<1> QED BY <1>6 DEF s, b

\* The allocated bit.
LEMMA BitIsUsed ==
  ASSUME NEW used \in BOOLEAN
  PROVE  (Bit(used) = 0 <=> ~used) /\ (Bit(used) = 1 <=> used)
BY DEF Bit

\* The sentinels stop the merges.
LEMMA SentinelBits ==
  ASSUME NEW H, Grounds(H)
  PROVE  /\ AllocBit(H, H.commit - 8) = 1 /\ AllocBit(H, FirstBlock - 8) = 1
         /\ BSize(H, H.commit - 8) = 0
<1>1. FirstBlock - 8 = Base + 16
  BY BaseFacts
<1>2. Get(H, Base + 16) = 17 /\ Get(H, H.commit - 8) = 1
  BY DEF Grounds
<1>3. 1 % 2 = 1 /\ 17 % 2 = 1 /\ (1 \div 16) * 16 = 0
  OBVIOUS
<1> QED BY <1>1, <1>2, <1>3 DEF AllocBit, BSize

\* Every boundary but the first is the end of a block.
LEMMA SomeEnds ==
  ASSUME NEW B, NEW e, NEW h, Shape(B, e), h \in DOMAIN B \/ h = e, FirstBlock # e
  PROVE  h = FirstBlock \/ \E g \in DOMAIN B : BP!End(B, g) = h
<1>1. SUFFICES ASSUME h # FirstBlock PROVE \E g \in DOMAIN B : BP!End(B, g) = h
  OBVIOUS
<1>2. FirstBlock \in DOMAIN B /\ e \in Int /\ FirstBlock \in Int
  BY BaseFacts DEF Shape, BP!Tiles
<1>3. \A g \in DOMAIN B : /\ g \in Int /\ FirstBlock <= g /\ BP!End(B, g) \in Int
                          /\ g + 32 <= BP!End(B, g) /\ BP!End(B, g) <= e
                          /\ (BP!End(B, g) = e \/ BP!End(B, g) \in DOMAIN B)
  BY BlockFacts
<1>4. h \in Int /\ FirstBlock < h /\ h <= e
  <2>1. FirstBlock + 32 <= e
    BY <1>2, <1>3
  <2> QED BY <1>1, <1>2, <1>3, <2>1
<1> DEFINE N == {n \in Nat : \E g \in DOMAIN B : g < h /\ n = h - g}
<1>5. h - FirstBlock \in N
  BY <1>2, <1>4
<1>6. N \subseteq Nat /\ N # {}
  BY <1>5
<1>7. PICK n \in N : \A m \in N : n <= m
  <2> HIDE DEF N
  <2> QED BY <1>6, LeastNumber
<1>8. PICK g \in DOMAIN B : g < h /\ n = h - g
  BY <1>7
<1>9. BP!End(B, g) <= h
  <2>1. CASE h = e
    BY <2>1, <1>3
  <2>2. CASE h \in DOMAIN B
    <3>1. BP!End(B, g) <= h \/ BP!End(B, h) <= g
      BY <2>2, <1>8, <1>4, BlocksApart
    <3> QED BY <3>1, <2>2, <1>8, <1>3
  <2> QED BY <2>1, <2>2
<1>10. ~(BP!End(B, g) < h)
  <2>1. SUFFICES ASSUME BP!End(B, g) < h PROVE FALSE
    OBVIOUS
  <2> DEFINE x == BP!End(B, g)
  <2>2. x \in DOMAIN B /\ x \in Int /\ g < x /\ x < h /\ g \in Int
    BY <2>1, <1>3, <1>4
  <2> HIDE DEF x
  <2>3. h - x \in Nat /\ h - x < n
    BY <2>2, <1>4, <1>8
  <2>4. h - x \in N
    BY <2>2, <2>3
  <2>5. n <= h - x /\ n \in Nat
    <3> HIDE DEF N
    <3> QED BY <2>4, <1>6, <1>7
  <2> QED BY <2>3, <2>5
<1>11. BP!End(B, g) = h
  <2>1. BP!End(B, g) \in Int
    BY <1>3
  <2> QED BY <2>1, <1>4, <1>9, <1>10
<1> QED BY <1>11

\* No word in K lies in [lo, hi).
NoneIn(K, lo, hi) == \A a \in K : ~(lo <= a /\ a < hi)

\* X are the free blocks beside [lo, hi); all but h.
Beside(X, B, lo, hi) == \A x : x \in X <=> x \in Frees(B) /\ (x < lo \/ hi <= x)
AllBut(X, B, h) == \A x : x \in X <=> x \in Frees(B) /\ x # h

\* The words of K in [lo, hi) are inside a block that ends at mid.
Fitting(K, lo, mid, hi) == \A a \in K : lo <= a /\ a < hi => lo + 8 <= a /\ a < mid - 8

\* A range of boundaries becomes one free block, off the list.
LEMMA MakeOneFreeAt ==
  ASSUME NEW H, NEW B, NEW X, NEW K, NEW o, NEW D, NEW lo \in Int, NEW hi \in Int, NEW size, NEW R,
         At(H, B, X, K, o, D), lo \in DOMAIN B, lo < hi,
         hi \in DOMAIN B \/ hi = H.commit - 8, hi - lo = size,
         Beside(X, B, lo, hi), Fitting(K, lo, hi, hi),
         BP!Retile(B, lo, hi, FreeOne(lo, hi)) = R
  PROVE  /\ At(SetBlock(H, lo, size, 0), R, X, K, o, D)
         /\ AllBut(X, R, lo)
         /\ lo \in Frees(R) /\ BP!End(R, lo) = hi
<1> DEFINE no == FALSE
           T == FreeOne(lo, hi)
<1>1. no \in BOOLEAN /\ Bit(no) = 0
  BY DEF Bit
<1>2. T = BP!One(lo, hi, no)
  BY Zenon DEF FreeOne
<1>3. /\ \A x : x \in DOMAIN T <=> x = lo
      /\ T[lo].used = FALSE /\ BP!End(T, lo) = hi
  <2>1. lo + (hi - lo) = hi
    OBVIOUS
  <2> QED BY <2>1 DEF FreeOne, BP!One, BP!End
<1> HIDE DEF T
<1>4. At(SetBlock(H, lo, size, 0), BP!Retile(B, lo, hi, T), X, K, o, D)
  <2>1. /\ \A x \in X : x < lo \/ hi <= x
        /\ \A a \in K : lo <= a /\ a < hi => lo + 8 <= a /\ a < hi - 8
    BY DEF Beside, Fitting
  <2> HIDE DEF no
  <2> QED BY <1>1, <1>2, <2>1, SetOneAt
<1>5. Shape(B, H.commit - 8)
  BY AtFacts
<1>6. \A x \in DOMAIN B : x \in Int
  BY <1>5, BlockFacts
<1>7. Within(T, lo, hi)
  <2>1. lo <= lo
    OBVIOUS
  <2> QED BY <2>1, <1>3 DEF Within
<1>8. R = BP!Retile(B, lo, hi, T)
  BY DEF T
<1> HIDE DEF no
<1>9. /\ \A h : h \in DOMAIN R <=> (h \in DOMAIN B /\ (h < lo \/ hi <= h)) \/ h \in DOMAIN T
      /\ \A h \in DOMAIN T : R[h] = T[h] /\ BP!End(R, h) = BP!End(T, h)
      /\ \A h \in DOMAIN B : h < lo \/ hi <= h => R[h] = B[h] /\ BP!End(R, h) = BP!End(B, h)
  <2>1. Retiles(R, B, lo, hi, T)
    BY <1>7, <1>8, RetileParts
  <2> QED BY <2>1 DEF Retiles
<1>10. lo \in DOMAIN R /\ R[lo].used = FALSE /\ BP!End(R, lo) = hi
  <2>1. lo \in DOMAIN T
    BY <1>3
  <2> QED BY <2>1, <1>3, <1>9
<1>11. lo \in Frees(R)
  BY <1>10 DEF Frees
<1>12. ASSUME NEW x PROVE x \in X <=> x \in Frees(R) /\ x # lo
  <2>1. x \in DOMAIN R /\ x # lo <=> x \in DOMAIN B /\ (x < lo \/ hi <= x)
    <3>1. x \in DOMAIN B /\ (x < lo \/ hi <= x) => x # lo
      OBVIOUS
    <3> QED BY <3>1, <1>3, <1>9
  <2>2. x \in DOMAIN B /\ (x < lo \/ hi <= x) => R[x] = B[x]
    BY <1>9
  <2> QED BY <2>1, <2>2 DEF Frees, Beside
<1>14. AllBut(X, R, lo)
  BY <1>12 DEF AllBut
<1> QED BY <1>4, <1>8, <1>10, <1>11, <1>14

\* SetBlock makes [lo, hi), where nothing is kept, one free block off the list.
LEMMA MakeFreeAt ==
  ASSUME NEW H, NEW B, NEW X, NEW K, NEW o, NEW D, NEW lo \in Int, NEW hi \in Int, NEW size, NEW R,
         At(H, B, X, K, o, D), lo \in DOMAIN B, lo < hi,
         hi \in DOMAIN B \/ hi = H.commit - 8, hi - lo = size,
         Beside(X, B, lo, hi), NoneIn(K, lo, hi),
         BP!Retile(B, lo, hi, FreeOne(lo, hi)) = R
  PROVE  /\ At(SetBlock(H, lo, size, 0), R, X, K, o, D)
         /\ AllBut(X, R, lo)
         /\ lo \in Frees(R) /\ BP!End(R, lo) = hi /\ Clear(R, lo, K)
<1>1. Fitting(K, lo, hi, hi)
  BY DEF NoneIn, Fitting
<1>2. /\ At(SetBlock(H, lo, size, 0), R, X, K, o, D)
      /\ AllBut(X, R, lo)
      /\ lo \in Frees(R) /\ BP!End(R, lo) = hi
  BY <1>1, MakeOneFreeAt
<1>3. Clear(R, lo, K)
  BY <1>2 DEF Clear, NoneIn
<1> QED BY <1>2, <1>3

\* The forward half of heap_coalesce.
LEMMA ForwardAt ==
  ASSUME NEW H, NEW B, NEW X, NEW K, NEW o, NEW D, NEW h, NEW nxt, NEW u, NEW R,
         At(H, B, X, K, o, D), h \in Frees(B), Clear(B, h, K),
         AllBut(X, B, h),
         BP!End(B, h) = nxt, BP!Upper(B, nxt) = u, BP!Retile(B, h, u, FreeOne(h, u)) = R
  PROVE  LET size == u - h
             G == IF AllocBit(H, nxt) = 0 THEN SetBlock(FlRemove(H, nxt), h, size, 0) ELSE H
         IN  /\ AllocBit(H, nxt) = 0 => size = BSize(H, h) + BSize(H, nxt)
             /\ AllocBit(H, nxt) # 0 => size = BSize(H, h)
             /\ At(G, R, X \ {nxt}, K, o, D)
             /\ AllBut(X \ {nxt}, R, h)
             /\ h \in Frees(R) /\ BP!End(R, h) = u /\ Clear(R, h, K)
<1> DEFINE size == u - h
           G0 == FlRemove(H, nxt)
           Y == X \ {nxt}
<1>1. /\ Shape(B, H.commit - 8) /\ Tagged(H, B) /\ Grounds(H) /\ H.commit \in Int
  BY AtFacts
<1>2. h \in DOMAIN B /\ ~B[h].used
  BY DEF Frees
<1>3. /\ h \in Int /\ B[h].size \in Int /\ nxt = h + B[h].size /\ nxt \in Int /\ h + 32 <= nxt
      /\ nxt = H.commit - 8 \/ nxt \in DOMAIN B
  BY <1>1, <1>2, BlockFacts
<1>7. \A g \in DOMAIN B : BSize(H, g) = B[g].size /\ AllocBit(H, g) = Bit(B[g].used)
  BY <1>1, BlockBits
<1>8. \A g \in DOMAIN B : B[g].used \in BOOLEAN
  BY <1>1, BlockFacts
<1>4. BSize(H, h) = nxt - h
  <2>1. BSize(H, h) = B[h].size
    BY <1>2, <1>7
  <2> QED BY <2>1, <1>3
<1>5. CASE BP!IsFree(B, nxt)
  <2>1. nxt \in DOMAIN B /\ ~B[nxt].used /\ nxt \in Frees(B) /\ nxt \in X
    BY <1>5, <1>3 DEF BP!IsFree, Frees, AllBut
  <2>2. u = BP!End(B, nxt)
    BY <1>5 DEF BP!Upper
  <2>3. /\ u \in Int /\ nxt + 32 <= u /\ u = nxt + B[nxt].size /\ B[nxt].size \in Int
        /\ u \in DOMAIN B \/ u = H.commit - 8
    BY <1>1, <2>1, <2>2, BlockFacts
  <2>4. AllocBit(H, nxt) = 0 /\ BSize(H, nxt) = u - nxt
    <3>1. AllocBit(H, nxt) = Bit(B[nxt].used) /\ B[nxt].used \in BOOLEAN
      BY <1>7, <1>8, <2>1
    <3>2. Bit(B[nxt].used) = 0
      BY <2>1, <3>1, BitIsUsed
    <3>3. BSize(H, nxt) = B[nxt].size
      BY <1>7, <2>1
    <3>4. u - nxt = B[nxt].size
      BY <1>3, <2>3
    <3> QED BY <3>1, <3>2, <3>3, <3>4
  <2>5. At(G0, B, Y, K, o, D) /\ Clear(B, nxt, K)
    BY <2>1, RemoveAt
  <2>6. G0.commit = H.commit
    <3>1. Wrote(H, G0, LinkWords(X))
      <4>1. Region(H, B, X)
        BY AtFacts
      <4> QED BY <4>1, <2>1, RemoveChains
    <3> QED BY <3>1 DEF Wrote, SameFields
  <2> HIDE DEF G0
  <2>7. ASSUME NEW a \in K PROVE ~(h <= a /\ a < u)
    <3>1. a \in Int
      <4>1. a \in DOMAIN H.mem /\ \A w \in DOMAIN H.mem : w \in Int
        BY AtFacts DEF At, Kept
      <4> QED BY <4>1
    <3>2. ~(h <= a /\ a < nxt) /\ ~(nxt <= a /\ a < u)
      BY <2>2, <2>5 DEF Clear
    <3> QED BY <3>1, <3>2, <1>3, <2>3
  <2>8. ASSUME NEW x PROVE x \in Y <=> x \in Frees(B) /\ (x < h \/ u <= x)
    <3>1. SUFFICES ASSUME x \in DOMAIN B PROVE x # h /\ x # nxt <=> x < h \/ u <= x
      BY DEF Frees, AllBut
    <3>2. x \in Int /\ BP!End(B, x) \in Int /\ x + 32 <= BP!End(B, x)
      BY <3>1, <1>1, BlockFacts
    <3>3. x # h => BP!End(B, x) <= h \/ nxt <= x
      BY <3>1, <1>1, <1>2, BlocksApart
    <3>4. x # nxt => BP!End(B, x) <= nxt \/ u <= x
      BY <3>1, <1>1, <2>1, <2>2, BlocksApart
    <3> QED BY <3>2, <3>3, <3>4, <1>3, <2>3
  <2>12. Beside(Y, B, h, u) /\ NoneIn(K, h, u)
    <3> HIDE DEF Y
    <3> QED BY <2>7, <2>8 DEF Beside, NoneIn
  <2>9. h < u /\ size = u - h /\ (u \in DOMAIN B \/ u = G0.commit - 8)
    BY <1>3, <2>3, <2>6
  <2>10. /\ At(SetBlock(G0, h, size, 0), R, Y, K, o, D)
         /\ AllBut(Y, R, h)
         /\ h \in Frees(R) /\ BP!End(R, h) = u /\ Clear(R, h, K)
    <3> HIDE DEF Y
    <3>1. h < u /\ (u \in DOMAIN B \/ u = G0.commit - 8) /\ h \in Int /\ u \in Int
      BY <1>3, <2>3, <2>6
    <3> QED BY <3>1, <1>2, <2>5, <2>12, MakeFreeAt
  <2>11. size = BSize(H, h) + BSize(H, nxt)
    BY <1>3, <1>4, <2>3, <2>4
  <2> QED BY <2>4, <2>10, <2>11 DEF G0
<1>6. CASE ~BP!IsFree(B, nxt)
  <2>1. u = nxt
    BY <1>6 DEF BP!Upper
  <2>2. AllocBit(H, nxt) # 0
    <3>1. CASE nxt = H.commit - 8
      BY <3>1, <1>1, SentinelBits
    <3>2. CASE nxt \in DOMAIN B
      <4>1. AllocBit(H, nxt) = Bit(B[nxt].used) /\ B[nxt].used \in BOOLEAN
        BY <1>7, <1>8, <3>2
      <4>2. B[nxt].used
        BY <3>2, <1>6 DEF BP!IsFree
      <4> QED BY <4>1, <4>2, BitIsUsed
    <3> QED BY <3>1, <3>2, <1>3
  <2>3. R = B
    <3> DEFINE no == FALSE
    <3>1. no = B[h].used
      <4>1. B[h].used \in BOOLEAN
        BY <1>1, <1>2, BlockFacts
      <4> QED BY <4>1, <1>2
    <3>2. FreeOne(h, nxt) = BP!One(h, nxt, no)
      BY Zenon DEF FreeOne
    <3> HIDE DEF no
    <3>3. BP!Retile(B, h, nxt, BP!One(h, nxt, no)) = B
      BY <3>1, <1>1, <1>2, RetileSame
    <3> QED BY <2>1, <3>2, <3>3
  <2>4. nxt \notin X
    <3>1. nxt \notin Frees(B)
      BY <1>6 DEF BP!IsFree, Frees
    <3> QED BY <3>1 DEF AllBut
  <2>5. X \ {nxt} = X
    BY <2>4
  <2> QED BY <2>1, <2>2, <2>3, <2>5, <1>4
<1> QED BY <1>5, <1>6

\* The backward half.
LEMMA BackwardAt ==
  ASSUME NEW H, NEW B, NEW X, NEW K, NEW o, NEW D, NEW h, NEW u, NEW l, NEW R, NEW ph,
         NEW size,
         At(H, B, X, K, o, D), h \in Frees(B), Clear(B, h, K),
         AllBut(X, B, h),
         BP!End(B, h) = u, BP!Lower(B, h) = l, BP!Retile(B, l, u, FreeOne(l, u)) = R,
         h - BSize(H, h - 8) = ph, (u - h) + (h - ph) = size
  PROVE  LET G == IF AllocBit(H, h - 8) = 0 THEN SetBlock(FlRemove(H, ph), ph, size, 0) ELSE H
         IN  /\ l = IF AllocBit(H, h - 8) = 0 THEN ph ELSE h
             /\ At(G, R, X \ {l}, K, o, D)
             /\ AllBut(X \ {l}, R, l)
             /\ l \in Frees(R) /\ BP!End(R, l) = u /\ Clear(R, l, K)
<1> DEFINE e == H.commit - 8
           Y == X \ {l}
           G0 == FlRemove(H, l)
<1>1. /\ Shape(B, e) /\ Tagged(H, B) /\ Grounds(H) /\ H.commit \in Int /\ FirstBlock + 32 <= e
  BY AtFacts
<1>2. h \in DOMAIN B /\ ~B[h].used
  BY DEF Frees
<1>3. /\ h \in Int /\ u \in Int /\ h + 32 <= u
      /\ u = e \/ u \in DOMAIN B
  BY <1>1, <1>2, BlockFacts
<1>4. \A g \in DOMAIN B : BP!End(B, g) = h =>
        /\ BSize(H, h - 8) = B[g].size /\ AllocBit(H, h - 8) = Bit(B[g].used)
        /\ B[g].used \in BOOLEAN /\ g \in Int /\ h = g + B[g].size /\ B[g].size \in Int
        /\ g + 32 <= h
  BY <1>1, BlockBits, BlockFacts
<1>5. CASE \E g \in DOMAIN B : BP!IsFree(B, g) /\ BP!End(B, g) = h
  <2>1. PICK g \in DOMAIN B : BP!IsFree(B, g) /\ BP!End(B, g) = h
    BY <1>5
  <2>2. \A x \in DOMAIN B : BP!IsFree(B, x) /\ BP!End(B, x) = h => x = g
    BY <2>1, <1>1, OneEnds
  <2>3. l = g
    BY <2>1, <2>2, LowerIs
  <2>4. /\ BSize(H, h - 8) = B[g].size /\ AllocBit(H, h - 8) = Bit(B[g].used)
        /\ B[g].used \in BOOLEAN /\ g \in Int /\ h = g + B[g].size /\ B[g].size \in Int
        /\ g + 32 <= h
    BY <2>1, <1>4
  <2>5. ~B[g].used /\ AllocBit(H, h - 8) = 0
    <3>1. ~B[g].used
      BY <2>1 DEF BP!IsFree
    <3> QED BY <3>1, <2>4, BitIsUsed
  <2>6. ph = l /\ size = u - l /\ l \in Int /\ l + 32 <= h
    BY <2>3, <2>4, <1>3
  <2>7. l \in DOMAIN B /\ l \in X /\ BP!End(B, l) = h
    BY <2>1, <2>3, <2>5, <2>6, <1>3 DEF Frees, AllBut
  <2>8. At(G0, B, Y, K, o, D) /\ Clear(B, l, K)
    BY <2>7, RemoveAt
  <2>9. G0.commit = H.commit
    <3>1. Wrote(H, G0, LinkWords(X))
      <4>1. Region(H, B, X)
        BY AtFacts
      <4> QED BY <4>1, <2>7, RemoveChains
    <3> QED BY <3>1 DEF Wrote, SameFields
  <2> HIDE DEF G0
  <2>10. ASSUME NEW a \in K PROVE ~(l <= a /\ a < u)
    <3>1. a \in Int
      <4>1. a \in DOMAIN H.mem /\ \A w \in DOMAIN H.mem : w \in Int
        BY AtFacts DEF At, Kept
      <4> QED BY <4>1
    <3>2. ~(l <= a /\ a < h) /\ ~(h <= a /\ a < u)
      BY <2>7, <2>8 DEF Clear
    <3> QED BY <3>1, <3>2, <1>3, <2>6
  <2>11. ASSUME NEW x PROVE x \in Y <=> x \in Frees(B) /\ (x < l \/ u <= x)
    <3>1. SUFFICES ASSUME x \in DOMAIN B PROVE x # h /\ x # l <=> x < l \/ u <= x
      BY DEF Frees, AllBut
    <3>2. x \in Int /\ BP!End(B, x) \in Int /\ x + 32 <= BP!End(B, x)
      BY <3>1, <1>1, BlockFacts
    <3>3. x # l => BP!End(B, x) <= l \/ h <= x
      BY <3>1, <1>1, <2>7, BlocksApart
    <3>4. x # h => BP!End(B, x) <= h \/ u <= x
      BY <3>1, <1>1, <1>2, BlocksApart
    <3> QED BY <3>2, <3>3, <3>4, <1>3, <2>6
  <2>13. Beside(Y, B, l, u) /\ NoneIn(K, l, u)
    <3> HIDE DEF Y
    <3> QED BY <2>10, <2>11 DEF Beside, NoneIn
  <2>12. /\ At(SetBlock(G0, l, size, 0), R, Y, K, o, D)
         /\ AllBut(Y, R, l)
         /\ l \in Frees(R) /\ BP!End(R, l) = u /\ Clear(R, l, K)
    <3> HIDE DEF Y
    <3>1. l < u /\ (u \in DOMAIN B \/ u = G0.commit - 8) /\ l \in Int /\ u \in Int
      BY <1>3, <2>6, <2>9
    <3> QED BY <3>1, <2>6, <2>7, <2>8, <2>13, MakeFreeAt
  <2> QED BY <2>5, <2>6, <2>12 DEF G0
<1>6. CASE ~\E g \in DOMAIN B : BP!IsFree(B, g) /\ BP!End(B, g) = h
  <2>1. l = h
    BY <1>6, LowerNone
  <2>2. AllocBit(H, h - 8) # 0
    <3>1. CASE h = FirstBlock
      <4>1. AllocBit(H, h - 8) = 1
        BY <1>1, <3>1, SentinelBits
      <4> QED BY <4>1
    <3>2. CASE \E g \in DOMAIN B : BP!End(B, g) = h
      <4>1. PICK g \in DOMAIN B : BP!End(B, g) = h
        BY <3>2
      <4>2. B[g].used
        BY <4>1, <1>6 DEF BP!IsFree
      <4>3. AllocBit(H, h - 8) = Bit(B[g].used) /\ B[g].used \in BOOLEAN
        BY <4>1, <1>4
      <4> QED BY <4>2, <4>3, BitIsUsed
    <3>3. FirstBlock # e
      BY <1>1, BaseFacts
    <3> QED BY <3>1, <3>2, <3>3, <1>1, <1>2, SomeEnds
  <2>3. R = B
    <3> DEFINE no == FALSE
    <3>1. no = B[h].used
      <4>1. B[h].used \in BOOLEAN
        BY <1>1, <1>2, BlockFacts
      <4> QED BY <4>1, <1>2
    <3>2. FreeOne(h, u) = BP!One(h, u, no)
      BY Zenon DEF FreeOne
    <3> HIDE DEF no
    <3>3. BP!Retile(B, h, u, BP!One(h, u, no)) = B
      BY <3>1, <1>1, <1>2, RetileSame
    <3> QED BY <2>1, <3>2, <3>3
  <2>4. X \ {l} = X
    <3>1. h \notin X
      BY DEF AllBut
    <3> QED BY <3>1, <2>1
  <2> QED BY <2>1, <2>2, <2>3, <2>4
<1> QED BY <1>5, <1>6

\* h is a free block that is off the list, the only one.
Loose(H, B, h, K, o, D) ==
  /\ At(H, B, Frees(B) \ {h}, K, o, D) /\ h \in Frees(B) /\ Clear(B, h, K)

\* AllBut, as a set.
LEMMA LooseAllBut ==
  ASSUME NEW X, NEW B, NEW h, AllBut(X, B, h)
  PROVE  X = Frees(B) \ {h}
BY DEF AllBut

\* A tiling ends at one place.
LEMMA SameEnd ==
  ASSUME NEW B, NEW e, NEW f, Shape(B, e), Shape(B, f), FirstBlock # e, FirstBlock # f
  PROVE  e = f
<1>1. e \in Int /\ f \in Int
  BY DEF Shape
<1>2. (\E g \in DOMAIN B : BP!End(B, g) = e) /\ (\E g \in DOMAIN B : BP!End(B, g) = f)
  BY SomeEnds
<1>3. \A g \in DOMAIN B : BP!End(B, g) <= e /\ BP!End(B, g) <= f
  BY BlockFacts
<1> QED BY <1>1, <1>2, <1>3

\* heap_coalesce merges a loose block with its free neighbours.
LEMMA CoalesceAt ==
  ASSUME NEW H, NEW B, NEW K, NEW o, NEW D, NEW h, NEW C, NEW l,
         Loose(H, B, h, K, o, D), BP!Freed(B, h, BP!End(B, h)) = C, BP!Lower(B, h) = l
  PROVE  Coalesce(H, h).at = l /\ Loose(Coalesce(H, h).heap, C, l, K, o, D)
<1> DEFINE nxt  == BP!End(B, h)
           u    == BP!Upper(B, nxt)
           R    == BP!Retile(B, h, u, FreeOne(h, u))
           X    == Frees(B) \ {h}
           Y    == X \ {nxt}
           size == u - h
           G    == IF AllocBit(H, nxt) = 0 THEN SetBlock(FlRemove(H, nxt), h, size, 0) ELSE H
           ph   == h - BSize(G, h - 8)
           all  == (u - h) + (h - ph)
           J    == IF AllocBit(G, h - 8) = 0 THEN SetBlock(FlRemove(G, ph), ph, all, 0) ELSE G
<1>1. At(H, B, X, K, o, D) /\ h \in Frees(B) /\ Clear(B, h, K) /\ AllBut(X, B, h)
  BY DEF Loose, AllBut
<1>2. Shape(B, H.commit - 8) /\ Tagged(H, B) /\ h \in DOMAIN B
  BY <1>1, AtFacts DEF Frees
<1>3. /\ h \in Int /\ nxt \in Int /\ h + 32 <= nxt /\ h % 16 = 8
      /\ nxt = h + B[h].size /\ BSize(H, h) = B[h].size
  <2>1. BSize(H, h) = B[h].size
    BY <1>2, BlockBits
  <2>2. h \in Int /\ nxt \in Int /\ h + 32 <= nxt /\ h % 16 = 8 /\ nxt = h + B[h].size
    BY <1>2, BlockFacts
  <2> QED BY <2>1, <2>2
<1>4. u \in Int /\ nxt <= u
  BY <1>2, <1>3, UpperFacts
<1>5. /\ AllocBit(H, nxt) = 0 => size = BSize(H, h) + BSize(H, nxt)
      /\ AllocBit(H, nxt) # 0 => size = BSize(H, h)
      /\ At(G, R, Y, K, o, D) /\ AllBut(Y, R, h)
      /\ h \in Frees(R) /\ BP!End(R, h) = u /\ Clear(R, h, K)
  <2> HIDE DEF X
  <2> QED BY <1>1, ForwardAt DEF nxt, u, R
<1>6. BP!Lower(R, h) = l
  <2> DEFINE T == FreeOne(h, u)
  <2>1. (\A x : x \in DOMAIN T <=> x = h) /\ BP!End(T, h) = u
    <3>1. h + (u - h) = u
      BY <1>3, <1>4
    <3> QED BY <3>1 DEF FreeOne, BP!One, BP!End
  <2>2. Within(T, h, u)
    BY <2>1, <1>3, <1>4 DEF Within
  <2> HIDE DEF T
  <2>3. Retiles(R, B, h, u, T)
    BY <2>2, <1>3, <1>4, RetileParts DEF T
  <2>4. h + 32 <= u
    BY <1>3, <1>4
  <2> HIDE DEF R, u
  <2> QED BY <2>1, <2>3, <2>4, <1>2, <1>3, <1>4, FreedBounds
<1>7. BP!Retile(R, l, u, FreeOne(l, u)) = C
  <2>1. l \in Int /\ l <= h
    BY <1>2, <1>3, LowerFacts
  <2>2. Within(FreeOne(h, u), h, u) /\ Within(FreeOne(l, u), l, u)
    BY <2>1, <1>3, <1>4 DEF FreeOne, BP!One, Within
  <2>3. \A x \in DOMAIN B : x \in Int
    BY <1>2, BlockFacts
  <2> HIDE DEF u
  <2>4. BP!Retile(BP!Retile(B, h, u, FreeOne(h, u)), l, u, FreeOne(l, u)) = BP!Retile(B, l, u, FreeOne(l, u))
    <3>1. u <= u /\ h \in Int /\ u \in Int
      BY <1>3, <1>4
    <3> QED BY <3>1, <2>1, <2>2, <2>3, RetileTwice
  <2>5. C = BP!Retile(B, l, u, FreeOne(l, u))
    BY DEF u, FreeOne, BP!Freed
  <2> QED BY <2>4, <2>5
<1> HIDE DEF Y, size, G, R, u
<1>8. /\ l = IF AllocBit(G, h - 8) = 0 THEN ph ELSE h
      /\ At(J, C, Y \ {l}, K, o, D) /\ AllBut(Y \ {l}, C, l)
      /\ l \in Frees(C) /\ Clear(C, l, K)
  BY <1>5, <1>6, <1>7, BackwardAt
<1>9. Loose(J, C, l, K, o, D)
  <2>1. Y \ {l} = Frees(C) \ {l}
    BY <1>8, LooseAllBut
  <2> QED BY <2>1, <1>8 DEF Loose
<1>10. Coalesce(H, h).heap = J /\ Coalesce(H, h).at = l
  <2>1. h + BSize(H, h) = nxt
    BY <1>3
  <2>2. size = IF AllocBit(H, nxt) = 0 THEN BSize(H, h) + BSize(H, nxt) ELSE BSize(H, h)
    BY <1>5
  <2>3. G = IF AllocBit(H, nxt) = 0 THEN SetBlock(FlRemove(H, nxt), h, size, 0) ELSE H
    BY DEF G
  <2>4. size = u - h
    BY DEF size
  <2> HIDE DEF nxt
  <2>5. all = size + (h - ph)
    BY <2>4
  <2> HIDE DEF all, ph
  <2>6. ph = h - BSize(G, h - 8)
    BY DEF ph
  <2>7. Coalesce(H, h) = IF AllocBit(G, h - 8) = 0
                         THEN [heap |-> SetBlock(FlRemove(G, ph), ph, all, 0), at |-> ph]
                         ELSE [heap |-> G, at |-> h]
    BY <2>1, <2>2, <2>3, <2>5, <2>6 DEF Coalesce
  <2> QED BY <2>7, <1>8
<1> QED BY <1>9, <1>10

\* heap_coalesce, then heap_fl_insert
LEMMA CoalesceAndInsertAt ==
  ASSUME NEW H, NEW B, NEW K, NEW o, NEW D, NEW h, NEW C,
         Loose(H, B, h, K, o, D), BP!Freed(B, h, BP!End(B, h)) = C
  PROVE  /\ At(CoalesceAndInsert(H, h).heap, C, Frees(C), K, o, D)
         /\ CoalesceAndInsert(H, h).at = BP!Lower(B, h)
         /\ BP!Lower(B, h) \in Frees(C)
<1> DEFINE l == BP!Lower(B, h)
           c == Coalesce(H, h)
           G == c.heap
<1>1. c.at = l /\ Loose(G, C, l, K, o, D)
  BY CoalesceAt
<1> HIDE DEF l, c
<1>2. CoalesceAndInsert(H, h) = [heap |-> FlInsert(G, l), at |-> l]
  BY <1>1 DEF CoalesceAndInsert, c
<1> HIDE DEF G
<1>3. At(G, C, Frees(C) \ {l}, K, o, D) /\ l \in Frees(C) /\ Clear(C, l, K) /\ l \notin Frees(C) \ {l}
  BY <1>1 DEF Loose
<1>4. At(FlInsert(G, l), C, (Frees(C) \ {l}) \cup {l}, K, o, D)
  BY <1>3, InsertAt
<1>5. (Frees(C) \ {l}) \cup {l} = Frees(C)
  BY <1>3
<1> QED BY <1>2, <1>3, <1>4, <1>5 DEF l

-----------------------------------------------------------------------------
(* free, and cutting a block in two. *)

\* free of a block of the region
LEMMA FreedAt ==
  ASSUME NEW H, NEW B, NEW K, NEW o, NEW D, NEW h, NEW C,
         At(H, B, Frees(B), K, o, D), h \in DOMAIN B, B[h].used,
         NoneIn(K, h, BP!End(B, h)), BP!Released(B, h) = C
  PROVE  At(FreedHeap(H, h + 8), C, Frees(C), K, o, D)
<1> DEFINE hi == BP!End(B, h)
           size == BSize(H, h)
           R == BP!Retile(B, h, hi, FreeOne(h, hi))
           G == SetBlock(H, h, size, 0)
           X == Frees(B)
<1>1. Shape(B, H.commit - 8) /\ Tagged(H, B)
  BY AtFacts
<1>2. h \in Int /\ hi \in Int /\ h + 32 <= hi /\ h % 16 = 8 /\ hi % 16 = 8 /\ hi = h + B[h].size
      /\ (hi = H.commit - 8 \/ hi \in DOMAIN B)
  BY <1>1, BlockFacts
<1>3. size = B[h].size /\ MmapBit(H, h) = 0
  BY <1>1, BlockBits
<1>4. hi - h = size /\ h < hi
  <2>1. B[h].size \in Int
    BY <1>1, BlockFacts
  <2> QED BY <2>1, <1>2, <1>3
<1>5. Beside(X, B, h, hi)
  <2>1. ASSUME NEW x \in Frees(B) PROVE x < h \/ hi <= x
    <3>1. x \in DOMAIN B /\ x # h
      BY <2>1 DEF Frees
    <3>2. x \in Int /\ BP!End(B, x) \in Int /\ x + 32 <= BP!End(B, x)
      BY <3>1, <1>1, BlockFacts
    <3>3. BP!End(B, x) <= h \/ hi <= x
      BY <3>1, <1>1, BlocksApart
    <3> QED BY <3>2, <3>3, <1>2
  <2> QED BY <2>1 DEF Beside
<1> HIDE DEF X, size
<1>6. /\ At(G, R, X, K, o, D) /\ AllBut(X, R, h)
      /\ h \in Frees(R) /\ BP!End(R, h) = hi /\ Clear(R, h, K)
  <2> HIDE DEF hi
  <2>1. NoneIn(K, h, hi) /\ At(H, B, X, K, o, D)
    BY DEF hi, X
  <2> QED BY <2>1, <1>2, <1>4, <1>5, MakeFreeAt
<1>7. Loose(G, R, h, K, o, D)
  <2>1. X = Frees(R) \ {h}
    BY <1>6, LooseAllBut
  <2> QED BY <2>1, <1>6 DEF Loose
<1>8. BP!Freed(R, h, BP!End(R, h)) = C
  <2>1. C = BP!Freed(B, h, hi)
    BY DEF BP!Released
  <2>2. BP!Freed(BP!Retile(B, h, hi, BP!One(h, hi, FALSE)), h, hi) = BP!Freed(B, h, hi)
    <3> HIDE DEF hi
    <3> QED BY <1>1, <1>2, FreedAgain, Zenon
  <2>3. R = BP!Retile(B, h, hi, BP!One(h, hi, FALSE))
    BY Zenon DEF FreeOne
  <2>4. BP!Freed(R, h, hi) = C
    BY <2>1, <2>2, <2>3, Zenon
  <2> HIDE DEF R, hi
  <2> QED BY <2>4, <1>6
<1> HIDE DEF R, G
<1>9. At(CoalesceAndInsert(G, h).heap, C, Frees(C), K, o, D)
  BY <1>7, <1>8, CoalesceAndInsertAt
<1>10. FreedHeap(H, h + 8) = CoalesceAndInsert(G, h).heap
  <2>1. (h + 8) - 8 = h
    BY <1>2
  <2> QED BY <2>1, <1>3 DEF FreedHeap, G, size
<1> QED BY <1>9, <1>10

FreeTwo(lo, mid, hi) == BP!Two(lo, mid, hi, FALSE)
UsedTwo(lo, mid, hi) == BP!Two(lo, mid, hi, TRUE)

\* FreeTwo, by its definition.
LEMMA FreeTwoIs ==
  ASSUME NEW lo, NEW mid, NEW hi
  PROVE  FreeTwo(lo, mid, hi) = BP!Two(lo, mid, hi, FALSE)
BY Zenon DEF FreeTwo

\* A block, free or used, is cut in two, the second part loose.
LEMMA CutAt ==
  ASSUME NEW H, NEW B, NEW X, NEW K, NEW o, NEW D, NEW lo \in Int, NEW mid \in Int, NEW hi \in Int,
         NEW s, NEW t, NEW R, At(H, B, X, K, o, D), lo \in DOMAIN B, BP!End(B, lo) = hi,
         mid % 16 = 8, lo + 32 <= mid, mid + 32 <= hi, mid - lo = s, hi - mid = t,
         AllBut(X, B, lo), Fitting(K, lo, mid, hi),
         BP!Retile(B, lo, hi, FreeTwo(lo, mid, hi)) = R
  PROVE  /\ Loose(SetBlock(SetBlock(H, lo, s, 1), mid, t, 0), R, mid, K, o, D)
         /\ BP!End(R, mid) = hi /\ BP!End(R, lo) = mid /\ lo \in DOMAIN R /\ R[lo].used
<1> DEFINE no == FALSE
           T == FreeTwo(lo, mid, hi)
           G == SetBlock(SetBlock(H, lo, s, 1), mid, t, 0)
<1>1. no \in BOOLEAN /\ Bit(no) = 0
  BY DEF Bit
<1>2. T = BP!Two(lo, mid, hi, no)
  BY Zenon DEF FreeTwo
<1>3. /\ \A x : x \in DOMAIN T <=> x = lo \/ x = mid
      /\ T[mid].used = FALSE /\ BP!End(T, mid) = hi
      /\ T[lo].used = TRUE /\ BP!End(T, lo) = mid
  <2>1. mid + (hi - mid) = hi /\ lo + (mid - lo) = mid /\ lo # mid
    OBVIOUS
  <2> QED BY <2>1 DEF FreeTwo, BP!Two, BP!End
<1> HIDE DEF T
<1>4. Shape(B, H.commit - 8) /\ X \subseteq DOMAIN B
  BY AtFacts
<1>5. \A x \in DOMAIN B : x \in Int /\ BP!End(B, x) \in Int /\ x + 32 <= BP!End(B, x)
  BY <1>4, BlockFacts
<1>6. \A x \in DOMAIN B : x # lo => x < lo \/ hi <= x
  <2>1. \A x \in DOMAIN B : x # lo => BP!End(B, x) <= lo \/ hi <= x
    BY <1>4, BlocksApart
  <2> QED BY <2>1, <1>5
<1>7. At(G, BP!Retile(B, lo, hi, T), X, K, o, D)
  <2>1. /\ \A x \in X : x < lo \/ hi <= x
        /\ \A a \in K : lo <= a /\ a < hi => lo + 8 <= a /\ a < mid - 8
    BY <1>4, <1>6 DEF AllBut, Fitting
  <2>2. hi \in DOMAIN B \/ hi = H.commit - 8
    BY <1>4, BlockFacts
  <2>3. lo < hi
    OBVIOUS
  <2> HIDE DEF no
  <2> QED BY <1>1, <1>2, <2>1, <2>2, <2>3, SetTwoAt
<1> HIDE DEF no, G
<1>8. /\ \A h : h \in DOMAIN R <=> (h \in DOMAIN B /\ (h < lo \/ hi <= h)) \/ h \in DOMAIN T
      /\ \A h \in DOMAIN T : R[h] = T[h] /\ BP!End(R, h) = BP!End(T, h)
      /\ \A h \in DOMAIN B : h < lo \/ hi <= h => R[h] = B[h] /\ BP!End(R, h) = BP!End(B, h)
  <2>1. Within(T, lo, hi)
    BY <1>3 DEF Within
  <2>2. BP!Retile(B, lo, hi, T) = R
    BY DEF T
  <2>3. Retiles(R, B, lo, hi, T)
    BY <2>1, <2>2, RetileParts
  <2> QED BY <2>3 DEF Retiles
<1>9. /\ mid \in DOMAIN R /\ R[mid].used = FALSE /\ BP!End(R, mid) = hi
      /\ lo \in DOMAIN R /\ R[lo].used = TRUE /\ BP!End(R, lo) = mid
  <2>1. lo \in DOMAIN T /\ mid \in DOMAIN T
    BY <1>3
  <2> QED BY <2>1, <1>3, <1>8
<1>10. X = Frees(R) \ {mid}
  <2>1. ASSUME NEW x PROVE x \in X <=> x \in Frees(R) /\ x # mid
    <3>1. x \in DOMAIN B /\ x # lo <=> x \in DOMAIN B /\ (x < lo \/ hi <= x)
      BY <1>6
    <3>2. x \in X <=> x \in DOMAIN B /\ ~B[x].used /\ x # lo
      BY DEF AllBut, Frees
    <3>3. x \in DOMAIN B /\ (x < lo \/ hi <= x) => x \in DOMAIN R /\ R[x] = B[x] /\ x # mid /\ x # lo
      BY <1>5, <1>8
    <3>4. x \in DOMAIN R /\ x # mid /\ x # lo => x \in DOMAIN B /\ (x < lo \/ hi <= x)
      BY <1>3, <1>8
    <3> QED BY <3>1, <3>2, <3>3, <3>4, <1>9 DEF Frees
  <2> QED BY <2>1
<1>11. Clear(R, mid, K)
  <2>1. ASSUME NEW a \in K PROVE ~(mid <= a /\ a < hi)
    <3>1. a \in Int
      <4>1. a \in DOMAIN H.mem /\ \A w \in DOMAIN H.mem : w \in Int
        BY AtFacts DEF At, Kept
      <4> QED BY <4>1
    <3> QED BY <3>1 DEF Fitting
  <2> QED BY <2>1, <1>9 DEF Clear
<1>12. Loose(G, R, mid, K, o, D)
  <2>1. mid \in Frees(R)
    BY <1>9 DEF Frees
  <2>2. At(G, R, X, K, o, D)
    BY <1>7 DEF T
  <2> QED BY <2>1, <2>2, <1>10, <1>11 DEF Loose
<1> QED BY <1>9, <1>12 DEF G

-----------------------------------------------------------------------------
(* heap_place, and realloc in place. *)

\* A block, free or used, becomes a used one.
LEMMA MakeUsedAt ==
  ASSUME NEW H, NEW B, NEW X, NEW K, NEW o, NEW D, NEW lo \in Int, NEW hi \in Int, NEW size, NEW R,
         At(H, B, X, K, o, D), lo \in DOMAIN B, BP!End(B, lo) = hi, hi - lo = size,
         AllBut(X, B, lo), Fitting(K, lo, hi, hi),
         BP!Retile(B, lo, hi, UsedOne(lo, hi)) = R
  PROVE  At(SetBlock(H, lo, size, 1), R, Frees(R), K, o, D)
<1> DEFINE yes == TRUE
           T == UsedOne(lo, hi)
           G == SetBlock(H, lo, size, 1)
<1>1. yes \in BOOLEAN /\ Bit(yes) = 1
  BY DEF Bit
<1>2. T = BP!One(lo, hi, yes)
  BY Zenon DEF UsedOne
<1>3. (\A x : x \in DOMAIN T <=> x = lo) /\ T[lo].used = TRUE
  BY DEF UsedOne, BP!One
<1> HIDE DEF T
<1>4. Shape(B, H.commit - 8) /\ X \subseteq DOMAIN B
  BY AtFacts
<1>5. \A x \in DOMAIN B : x \in Int /\ BP!End(B, x) \in Int /\ x + 32 <= BP!End(B, x)
  BY <1>4, BlockFacts
<1>6. \A x \in DOMAIN B : x # lo => x < lo \/ hi <= x
  <2>1. \A x \in DOMAIN B : x # lo => BP!End(B, x) <= lo \/ hi <= x
    BY <1>4, BlocksApart
  <2> QED BY <2>1, <1>5
<1>7. lo + 32 <= hi /\ lo < hi
  BY <1>5
<1>8. At(G, BP!Retile(B, lo, hi, T), X, K, o, D)
  <2>1. /\ \A x \in X : x < lo \/ hi <= x
        /\ \A a \in K : lo <= a /\ a < hi => lo + 8 <= a /\ a < hi - 8
    BY <1>4, <1>6 DEF AllBut, Fitting
  <2>2. hi \in DOMAIN B \/ hi = H.commit - 8
    BY <1>4, BlockFacts
  <2> HIDE DEF yes
  <2> QED BY <1>1, <1>2, <1>7, <2>1, <2>2, SetOneAt
<1> HIDE DEF yes, G
<1>9. /\ \A h : h \in DOMAIN R <=> (h \in DOMAIN B /\ (h < lo \/ hi <= h)) \/ h \in DOMAIN T
      /\ \A h \in DOMAIN T : R[h] = T[h] /\ BP!End(R, h) = BP!End(T, h)
      /\ \A h \in DOMAIN B : h < lo \/ hi <= h => R[h] = B[h] /\ BP!End(R, h) = BP!End(B, h)
  <2>1. Within(T, lo, hi)
    BY <1>3, <1>7 DEF Within
  <2>2. BP!Retile(B, lo, hi, T) = R
    BY DEF T
  <2>3. Retiles(R, B, lo, hi, T)
    BY <2>1, <2>2, RetileParts
  <2> QED BY <2>3 DEF Retiles
<1>10. X = Frees(R)
  <2>1. ASSUME NEW x PROVE x \in X <=> x \in Frees(R)
    <3>1. x \in DOMAIN B /\ x # lo <=> x \in DOMAIN B /\ (x < lo \/ hi <= x)
      BY <1>6, <1>7
    <3>2. x \in X <=> x \in DOMAIN B /\ ~B[x].used /\ x # lo
      BY DEF AllBut, Frees
    <3>3. x \in DOMAIN B /\ (x < lo \/ hi <= x) => x \in DOMAIN R /\ R[x] = B[x] /\ x # lo
      BY <1>7, <1>9
    <3>4. x \in DOMAIN R /\ x # lo => x \in DOMAIN B /\ (x < lo \/ hi <= x)
      BY <1>3, <1>9
    <3>5. R[lo].used = TRUE
      <4>1. lo \in DOMAIN T
        BY <1>3
      <4> QED BY <4>1, <1>3, <1>9
    <3> QED BY <3>1, <3>2, <3>3, <3>4, <3>5 DEF Frees
  <2> QED BY <2>1
<1> QED BY <1>8, <1>10 DEF T, G

\* heap_place, on a block that is off the list
LEMMA PlaceAt ==
  ASSUME NEW H, NEW B, NEW X, NEW K, NEW o, NEW D, NEW h, NEW hi, NEW need \in Int, NEW R,
         At(H, B, X, K, o, D), h \in DOMAIN B, BP!End(B, h) = hi, AllBut(X, B, h),
         need % 16 = 0, 32 <= need, h + need <= hi, Fitting(K, h, h + need, hi),
         BP!Place(B, h, need) = R
  PROVE  At(PlaceIn(H, h, need), R, Frees(R), K, o, D)
<1> DEFINE size == BSize(H, h)
           mid == h + need
<1>1. Shape(B, H.commit - 8) /\ Tagged(H, B)
  BY AtFacts
<1>2. h \in Int /\ hi \in Int /\ h + 32 <= hi /\ h % 16 = 8 /\ hi = h + B[h].size /\ B[h].size \in Int
  BY <1>1, BlockFacts
<1>3. hi - h = size
  <2>1. size = B[h].size
    BY <1>1, BlockBits
  <2> QED BY <2>1, <1>2
<1>4. mid \in Int /\ mid % 16 = 8 /\ h + 32 <= mid /\ mid <= hi /\ mid - h = need
  BY <1>2
<1>5. ASSUME NEW a \in K PROVE a \in Int
  <2>1. a \in DOMAIN H.mem /\ \A w \in DOMAIN H.mem : w \in Int
    BY AtFacts DEF At, Kept
  <2> QED BY <2>1
<1>6. Fitting(K, h, mid, hi)
  OBVIOUS
<1> HIDE DEF mid, size
<1>7. CASE hi - mid >= 32
  <2> DEFINE t == hi - mid
             G == SetBlock(SetBlock(H, h, need, 1), mid, t, 0)
  <2>1. BP!Retile(B, h, hi, FreeTwo(h, mid, hi)) = R
    <3>1. BP!Placed(h, hi, need) = BP!Two(h, mid, hi, FALSE)
      <4>1. hi - h - need >= 32
        BY <1>2, <1>4, <1>7 DEF mid
      <4> QED BY <4>1, Zenon DEF BP!Placed, mid
    <3>2. FreeTwo(h, mid, hi) = BP!Two(h, mid, hi, FALSE)
      BY FreeTwoIs, Zenon
    <3>3. R = BP!Retile(B, h, hi, BP!Placed(h, hi, need))
      BY DEF BP!Place
    <3> QED BY <3>1, <3>2, <3>3, Zenon
  <2>2. mid + 32 <= hi
    BY <1>2, <1>4, <1>7
  <2>3. Loose(G, R, mid, K, o, D)
    BY <2>1, <2>2, <1>2, <1>4, <1>6, CutAt
  <2> HIDE DEF G
  <2>4. At(G, R, Frees(R) \ {mid}, K, o, D) /\ mid \in Frees(R) /\ Clear(R, mid, K)
        /\ mid \notin Frees(R) \ {mid}
    BY <2>3 DEF Loose
  <2>5. At(FlInsert(G, mid), R, (Frees(R) \ {mid}) \cup {mid}, K, o, D)
    BY <2>4, InsertAt
  <2>6. (Frees(R) \ {mid}) \cup {mid} = Frees(R)
    BY <2>4
  <2>7. PlaceIn(H, h, need) = FlInsert(G, mid)
    <3>1. size - need >= 32 /\ size - need = t
      BY <1>2, <1>3, <1>4, <1>7 DEF mid
    <3> QED BY <3>1 DEF PlaceIn, G, mid, size
  <2> QED BY <2>5, <2>6, <2>7
<1>8. CASE ~(hi - mid >= 32)
  <2>1. BP!Retile(B, h, hi, UsedOne(h, hi)) = R
    <3>1. BP!Placed(h, hi, need) = BP!One(h, hi, TRUE)
      <4>1. ~(hi - h - need >= 32)
        BY <1>2, <1>4, <1>8 DEF mid
      <4> QED BY <4>1, Zenon DEF BP!Placed
    <3>2. UsedOne(h, hi) = BP!One(h, hi, TRUE)
      BY Zenon DEF UsedOne
    <3>3. R = BP!Retile(B, h, hi, BP!Placed(h, hi, need))
      BY DEF BP!Place
    <3> QED BY <3>1, <3>2, <3>3, Zenon
  <2>2. Fitting(K, h, hi, hi)
    BY <1>2, <1>4, <1>5, <1>6 DEF Fitting
  <2>3. At(SetBlock(H, h, size, 1), R, Frees(R), K, o, D)
    BY <2>1, <2>2, <1>2, <1>3, MakeUsedAt
  <2>4. PlaceIn(H, h, need) = SetBlock(H, h, size, 1)
    <3>1. ~(size - need >= 32)
      BY <1>2, <1>3, <1>4, <1>8 DEF mid
    <3> QED BY <3>1 DEF PlaceIn, size
  <2> QED BY <2>3, <2>4
<1> QED BY <1>7, <1>8

\* malloc takes a block from the list.
LEMMA TakeAt ==
  ASSUME NEW H, NEW B, NEW K, NEW o, NEW D, NEW h, NEW need \in Int, NEW R,
         At(H, B, Frees(B), K, o, D), h \in Frees(B), need % 16 = 0, 32 <= need,
         need <= B[h].size, BP!Place(B, h, need) = R
  PROVE  /\ At(PlaceIn(FlRemove(H, h), h, need), R, Frees(R), K, o, D)
         /\ NoneIn(K, h, BP!End(B, h))
<1> DEFINE G == FlRemove(H, h)
           X == Frees(B) \ {h}
           hi == BP!End(B, h)
<1>1. At(G, B, X, K, o, D) /\ Clear(B, h, K)
  BY RemoveAt
<1>2. Shape(B, H.commit - 8) /\ h \in DOMAIN B
  BY AtFacts DEF Frees
<1>3. hi = h + B[h].size /\ h \in Int /\ B[h].size \in Int
  BY <1>2, BlockFacts
<1>4. AllBut(X, B, h)
  BY DEF AllBut
<1>5. NoneIn(K, h, hi)
  BY <1>1 DEF Clear, NoneIn
<1> HIDE DEF X, G
<1>6. Fitting(K, h, h + need, hi)
  BY <1>5 DEF NoneIn, Fitting
<1>7. h + need <= hi
  BY <1>3
<1>8. At(PlaceIn(G, h, need), R, Frees(R), K, o, D)
  <2> HIDE DEF hi
  <2>1. BP!End(B, h) = hi
    BY DEF hi
  <2> QED BY <2>1, <1>1, <1>2, <1>4, <1>6, <1>7, PlaceAt
<1> QED BY <1>5, <1>8 DEF G

\* realloc absorbs the free block behind.
LEMMA AbsorbAt ==
  ASSUME NEW H, NEW B, NEW K, NEW o, NEW D, NEW h, NEW nxt, NEW hi, NEW both, NEW need \in Int, NEW R,
         At(H, B, Frees(B), K, o, D), h \in DOMAIN B, BP!End(B, h) = nxt, B[h].used,
         nxt \in Frees(B), BP!End(B, nxt) = hi, hi - h = both,
         need % 16 = 0, nxt <= h + need, h + need <= hi, Fitting(K, h, nxt, nxt),
         BP!Retile(B, h, hi, BP!Placed(h, hi, need)) = R
  PROVE  At(PlaceIn(SetBlock(FlRemove(H, nxt), h, both, 0), h, need), R, Frees(R), K, o, D)
<1> DEFINE G == FlRemove(H, nxt)
           X == Frees(B) \ {nxt}
           C == BP!Retile(B, h, hi, FreeOne(h, hi))
           J == SetBlock(G, h, both, 0)
<1>1. At(G, B, X, K, o, D) /\ Clear(B, nxt, K)
  BY RemoveAt
<1>2. Shape(B, H.commit - 8) /\ Shape(B, G.commit - 8) /\ nxt \in DOMAIN B
  <2>1. Shape(B, H.commit - 8)
    BY AtFacts
  <2>2. Shape(B, G.commit - 8)
    <3> HIDE DEF X, G
    <3> QED BY <1>1, AtFacts
  <2> QED BY <2>1, <2>2 DEF Frees
<1>3. \A x \in DOMAIN B : x \in Int /\ BP!End(B, x) \in Int /\ x + 32 <= BP!End(B, x)
  BY <1>2, BlockFacts
<1>4. h \in Int /\ nxt \in Int /\ hi \in Int /\ h + 32 <= nxt /\ nxt + 32 <= hi
  BY <1>2, <1>3
<1>5. hi \in DOMAIN B \/ hi = G.commit - 8
  BY <1>2, BlockFacts
<1>6. ASSUME NEW a \in K PROVE a \in Int
  <2>1. a \in DOMAIN H.mem /\ \A w \in DOMAIN H.mem : w \in Int
    BY AtFacts DEF At, Kept
  <2> QED BY <2>1
<1>7. ASSUME NEW a \in K, h <= a, a < hi PROVE h + 8 <= a /\ a < nxt - 8
  <2>1. ~(nxt <= a /\ a < hi)
    BY <1>1 DEF Clear
  <2> QED BY <2>1, <1>4, <1>6, <1>7 DEF Fitting
<1>8. Beside(X, B, h, hi)
  <2>1. \A x \in DOMAIN B : x # h => BP!End(B, x) <= h \/ nxt <= x
    BY <1>2, BlocksApart
  <2>2. \A x \in DOMAIN B : x # nxt => BP!End(B, x) <= nxt \/ hi <= x
    BY <1>2, BlocksApart
  <2>3. \A x \in DOMAIN B : x # h /\ x # nxt <=> x < h \/ hi <= x
    BY <2>1, <2>2, <1>3, <1>4
  <2> QED BY <2>3 DEF Beside, Frees
<1> HIDE DEF X, G
<1>9. Fitting(K, h, hi, hi)
  BY <1>4, <1>6, <1>7 DEF Fitting
<1>10. At(J, C, X, K, o, D) /\ AllBut(X, C, h) /\ h \in Frees(C) /\ BP!End(C, h) = hi
  <2>1. h < hi
    BY <1>4
  <2> QED BY <2>1, <1>1, <1>4, <1>5, <1>8, <1>9, MakeOneFreeAt
<1>11. BP!Place(C, h, need) = R
  <2> DEFINE V == BP!Placed(h, hi, need)
  <2>1. Within(FreeOne(h, hi), h, hi)
    BY <1>4 DEF FreeOne, BP!One, Within
  <2>2. Within(V, h, hi)
    BY <1>4 DEF BP!Placed, BP!One, BP!Two, Within
  <2>3. \A x \in DOMAIN B : x \in Int
    BY <1>3
  <2> HIDE DEF V
  <2>4. BP!Retile(C, h, hi, V) = BP!Retile(B, h, hi, V)
    <3>1. h <= h /\ hi <= hi
      BY <1>4
    <3> QED BY <3>1, <1>4, <2>1, <2>2, <2>3, RetileTwice
  <2> HIDE DEF C
  <2> QED BY <2>4, <1>10 DEF BP!Place, V
<1> HIDE DEF J, C
<1>12. h \in DOMAIN C
  BY <1>10 DEF Frees
<1>13. Fitting(K, h, h + need, hi) /\ 32 <= need
  <2>1. 32 <= need
    BY <1>4
  <2>2. ASSUME NEW a \in K, h <= a, a < hi PROVE h + 8 <= a /\ a < (h + need) - 8
    BY <2>2, <1>4, <1>6, <1>7
  <2> QED BY <2>1, <2>2 DEF Fitting
<1>14. At(PlaceIn(J, h, need), R, Frees(R), K, o, D)
  BY <1>10, <1>11, <1>12, <1>13, PlaceAt
<1> QED BY <1>14 DEF J, G

\* Cutting a block in two and freeing the second part is the tiling's Shrink.
LEMMA CutIsSplit ==
  ASSUME NEW B, NEW e, NEW lo \in Int, NEW mid \in Int, NEW hi \in Int, Shape(B, e), lo < mid, mid < hi
  PROVE  BP!Retile(BP!Retile(B, lo, hi, UsedTwo(lo, mid, hi)), mid, hi, FreeOne(mid, hi))
         = BP!Retile(B, lo, hi, FreeTwo(lo, mid, hi))
<1> DEFINE T == UsedTwo(lo, mid, hi)
           V == FreeTwo(lo, mid, hi)
           W == FreeOne(mid, hi)
           S == BP!Retile(B, lo, hi, T)
           R == BP!Retile(S, mid, hi, W)
           C == BP!Retile(B, lo, hi, V)
<1>1. /\ \A x : x \in DOMAIN T <=> x = lo \/ x = mid
      /\ \A x : x \in DOMAIN V <=> x = lo \/ x = mid
      /\ \A x : x \in DOMAIN W <=> x = mid
      /\ T[lo] = V[lo] /\ W[mid] = V[mid]
  <2>1. lo # mid
    OBVIOUS
  <2> QED BY <2>1 DEF UsedTwo, FreeTwo, FreeOne, BP!Two, BP!One
<1> HIDE DEF T, V, W
<1>2. Within(T, lo, hi) /\ Within(V, lo, hi) /\ Within(W, mid, hi)
  BY <1>1 DEF Within
<1>3. Retiles(S, B, lo, hi, T)
  BY <1>2, RetileParts
<1>4. Retiles(C, B, lo, hi, V)
  BY <1>2, RetileParts
<1> HIDE DEF C
<1>5. Retiles(R, S, mid, hi, W)
  <2> HIDE DEF S
  <2> QED BY <1>2, RetileParts
<1> HIDE DEF S, R
<1>6. \A x \in DOMAIN B : x \in Int
  BY BlockFacts
<1>7. /\ \A x : x \in DOMAIN S <=> (x \in DOMAIN B /\ (x < lo \/ hi <= x)) \/ x \in DOMAIN T
      /\ \A x \in DOMAIN T : S[x] = T[x]
      /\ \A x \in DOMAIN B : x < lo \/ hi <= x => S[x] = B[x]
  BY <1>3 DEF Retiles
<1>8. /\ \A x : x \in DOMAIN C <=> (x \in DOMAIN B /\ (x < lo \/ hi <= x)) \/ x \in DOMAIN V
      /\ \A x \in DOMAIN V : C[x] = V[x]
      /\ \A x \in DOMAIN B : x < lo \/ hi <= x => C[x] = B[x]
      /\ IsFcn(C)
  BY <1>4 DEF Retiles
<1>9. /\ \A x : x \in DOMAIN R <=> (x \in DOMAIN S /\ (x < mid \/ hi <= x)) \/ x \in DOMAIN W
      /\ \A x \in DOMAIN W : R[x] = W[x]
      /\ \A x \in DOMAIN S : x < mid \/ hi <= x => R[x] = S[x]
      /\ IsFcn(R)
  BY <1>5 DEF Retiles
<1>10. ASSUME NEW x PROVE (x \in DOMAIN R <=> x \in DOMAIN C) /\ (x \in DOMAIN C => R[x] = C[x])
  <2>1. CASE x = mid
    BY <2>1, <1>1, <1>8, <1>9
  <2>2. CASE x = lo
    BY <2>2, <1>1, <1>7, <1>8, <1>9
  <2>3. CASE x # lo /\ x # mid
    <3>1. x \in DOMAIN C <=> x \in DOMAIN B /\ (x < lo \/ hi <= x)
      BY <2>3, <1>1, <1>8
    <3>2. x \in DOMAIN S <=> x \in DOMAIN B /\ (x < lo \/ hi <= x)
      BY <2>3, <1>1, <1>7
    <3>3. x \in DOMAIN R <=> x \in DOMAIN S /\ (x < mid \/ hi <= x)
      BY <2>3, <1>1, <1>9
    <3>4. x \in DOMAIN B /\ (x < lo \/ hi <= x) => x < mid \/ hi <= x
      BY <1>6
    <3>5. x \in DOMAIN C => R[x] = S[x] /\ S[x] = B[x] /\ C[x] = B[x]
      BY <3>1, <3>2, <3>4, <1>7, <1>8, <1>9
    <3> QED BY <3>1, <3>2, <3>3, <3>4, <3>5
  <2> QED BY <2>1, <2>2, <2>3
<1>11. R = C
  BY <1>8, <1>9, <1>10, SameBlocks
<1> QED BY <1>11 DEF R, S, C, T, V, W

\* realloc to less: the tail is freed.
LEMMA ShrinkAt ==
  ASSUME NEW H, NEW B, NEW K, NEW o, NEW D, NEW h, NEW hi, NEW mid, NEW t, NEW need \in Int, NEW C,
         At(H, B, Frees(B), K, o, D), h \in DOMAIN B, BP!End(B, h) = hi, B[h].used,
         need % 16 = 0, 32 <= need, h + need = mid, mid + 32 <= hi, hi - mid = t,
         Fitting(K, h, mid, hi),
         BP!Released(BP!Split(B, h, need), mid) = C
  PROVE  At(CoalesceAndInsert(SetBlock(SetBlock(H, h, need, 1), mid, t, 0), mid).heap, C, Frees(C), K, o, D)
<1> DEFINE R == BP!Retile(B, h, hi, FreeTwo(h, mid, hi))
           S == BP!Retile(B, h, hi, UsedTwo(h, mid, hi))
           G == SetBlock(SetBlock(H, h, need, 1), mid, t, 0)
           J == SetBlock(SetBlock(H, h, need, 1), mid, t, 1)
           X == Frees(B)
<1>1. Shape(B, H.commit - 8)
  BY AtFacts
<1>2. h \in Int /\ hi \in Int /\ h + 32 <= hi /\ h % 16 = 8 /\ hi % 16 = 8
      /\ (hi = H.commit - 8 \/ hi \in DOMAIN B)
  BY <1>1, BlockFacts
<1>3. mid \in Int /\ mid % 16 = 8 /\ h + 32 <= mid /\ mid - h = need /\ h < mid /\ mid < hi /\ h < hi
  BY <1>2
<1>4. AllBut(X, B, h)
  BY DEF AllBut, Frees
<1>5. /\ Loose(G, R, mid, K, o, D) /\ BP!End(R, mid) = hi
  <2> HIDE DEF X, G, R
  <2>1. At(H, B, X, K, o, D) /\ BP!Retile(B, h, hi, FreeTwo(h, mid, hi)) = R
    BY DEF X, R
  <2> QED BY <2>1, <1>2, <1>3, <1>4, CutAt DEF G
<1>6. S = BP!Split(B, h, need)
  <2>1. UsedTwo(h, mid, hi) = BP!Two(h, mid, hi, TRUE)
    BY Zenon DEF UsedTwo
  <2>2. mid = h + need /\ hi = BP!End(B, h)
    OBVIOUS
  <2> QED BY <2>1, <2>2, Zenon DEF BP!Split
<1>7. Shape(S, J.commit - 8)
  <2> DEFINE yes == TRUE
  <2>1. yes \in BOOLEAN /\ Bit(yes) = 1
    BY DEF Bit
  <2>2. UsedTwo(h, mid, hi) = BP!Two(h, mid, hi, yes)
    BY Zenon DEF UsedTwo
  <2> HIDE DEF yes
  <2>3. ASSUME NEW x \in X PROVE x < h \/ hi <= x
    <3>1. x \in DOMAIN B /\ x # h
      BY <2>3 DEF Frees
    <3>2. x \in Int /\ BP!End(B, x) \in Int /\ x + 32 <= BP!End(B, x)
      BY <3>1, <1>1, BlockFacts
    <3>3. BP!End(B, x) <= h \/ hi <= x
      BY <3>1, <1>1, BlocksApart
    <3> QED BY <3>2, <3>3, <1>2
  <2>4. \A a \in K : h <= a /\ a < hi => h + 8 <= a /\ a < mid - 8
    BY DEF Fitting
  <2> HIDE DEF X
  <2>5. At(H, B, X, K, o, D)
    BY DEF X
  <2> DEFINE V == BP!Two(h, mid, hi, yes)
             W == BP!Retile(B, h, hi, V)
  <2>6. At(J, W, X, K, o, D)
    <3>1. V = BP!Two(h, mid, hi, yes)
      OBVIOUS
    <3> HIDE DEF V
    <3> QED BY <2>1, <2>3, <2>4, <2>5, <3>1, <1>2, <1>3, SetTwoAt
  <2>7. W = S
    BY <2>2
  <2> HIDE DEF W, J, S
  <2> QED BY <2>6, <2>7, AtFacts
<1>8. BP!Retile(S, mid, hi, FreeOne(mid, hi)) = R
  BY <1>1, <1>2, <1>3, CutIsSplit
<1> HIDE DEF R
<1>9. BP!End(S, mid) = hi
  <2> DEFINE T == UsedTwo(h, mid, hi)
  <2>1. (\A x : x \in DOMAIN T <=> x = h \/ x = mid) /\ BP!End(T, mid) = hi
    <3>1. mid + (hi - mid) = hi /\ h # mid
      BY <1>2, <1>3
    <3> QED BY <3>1 DEF UsedTwo, BP!Two, BP!End
  <2>2. Within(T, h, hi)
    BY <2>1, <1>2, <1>3 DEF Within
  <2> HIDE DEF T
  <2>3. Retiles(S, B, h, hi, T)
    BY <2>2, <1>2, RetileParts DEF T
  <2>4. mid \in DOMAIN T
    BY <2>1
  <2> HIDE DEF S
  <2>5. BP!End(S, mid) = BP!End(T, mid)
    BY <2>3, <2>4 DEF Retiles
  <2> QED BY <2>1, <2>5
<1> HIDE DEF S, J
<1>10. BP!Freed(R, mid, BP!End(R, mid)) = C
  <2>1. C = BP!Freed(S, mid, hi)
    BY <1>6, <1>9 DEF BP!Released
  <2>2. BP!Freed(BP!Retile(S, mid, hi, BP!One(mid, hi, FALSE)), mid, hi) = BP!Freed(S, mid, hi)
    <3>1. mid \in Int /\ hi \in Int /\ mid + 32 <= hi /\ mid % 16 = 8 /\ hi % 16 = 8
      BY <1>2, <1>3
    <3> QED BY <3>1, <1>7, FreedAgain, Zenon
  <2>3. R = BP!Retile(S, mid, hi, BP!One(mid, hi, FALSE))
    BY <1>8, Zenon DEF FreeOne
  <2>4. BP!Freed(R, mid, hi) = C
    BY <2>1, <2>2, <2>3, Zenon
  <2> QED BY <2>4, <1>5
<1> HIDE DEF G
<1>11. At(CoalesceAndInsert(G, mid).heap, C, Frees(C), K, o, D)
  BY <1>5, <1>10, CoalesceAndInsertAt
<1> QED BY <1>11 DEF G

\* The words of an aligned range.
LEMMA WordsFacts ==
  ASSUME NEW a \in Int, a % 8 = 0, NEW n \in Nat, n % 8 = 0, NEW w
  PROVE  w \in Words(a, n) <=> w \in Int /\ a <= w /\ w < a + n /\ w % 8 = 0
<1>1. ASSUME w \in Words(a, n) PROVE w \in Int /\ a <= w /\ w < a + n /\ w % 8 = 0
  <2>1. PICK i \in 0..(n \div 8) - 1 : w = a + 8 * i
    BY <1>1 DEF Words
  <2>2. i \in Int /\ 0 <= i /\ i <= (n \div 8) - 1
    BY <2>1
  <2> QED BY <2>1, <2>2
<1>2. ASSUME w \in Int, a <= w, w < a + n, w % 8 = 0 PROVE w \in Words(a, n)
  <2> DEFINE i == (w - a) \div 8
  <2>1. w = a + 8 * i /\ i \in Int /\ 0 <= i /\ i <= (n \div 8) - 1
    BY <1>2
  <2>2. i \in 0..(n \div 8) - 1
    BY <2>1
  <2> HIDE DEF i
  <2> QED BY <2>1, <2>2 DEF Words
<1> QED BY <1>1, <1>2

\* The links stay, and so does the list.
LEMMA LinkedKept ==
  ASSUME NEW H, NEW G, NEW X, Linked(H, X), G.free = H.free,
         \A x \in X : Get(G, x + 8) = Get(H, x + 8) /\ Get(G, x + 16) = Get(H, x + 16)
  PROVE  Linked(G, X)
<1>1. PICK n \in Nat : \E L \in [1..n -> X] : Lists(L, n, X) /\ Chain(H, L, n)
  BY DEF Linked
<1>2. PICK L \in [1..n -> X] : Lists(L, n, X) /\ Chain(H, L, n)
  BY <1>1
<1>3. \A i \in 1..n : Get(G, L[i] + 8) = Get(H, L[i] + 8) /\ Get(G, L[i] + 16) = Get(H, L[i] + 16)
  OBVIOUS
<1>4. Chain(G, L, n)
  BY <1>2, <1>3 DEF Chain
<1> QED BY <1>2, <1>4 DEF Linked

-----------------------------------------------------------------------------
(* heap_extend and heap_init *)

\* Filled is about these words.
LEMMA FilledFacts ==
  ASSUME NEW a, NEW n, NEW v
  PROVE  DOMAIN Filled(a, n, v) = Words(a, n)
BY DEF Filled

Recommitted(H, c) == [H EXCEPT !.commit = c]

\* heap_extend, up to the merge: one more free block, loose, at the old epilogue.
LEMMA ExtendedAt ==
  ASSUME NEW H, NEW B, NEW K, NEW o, NEW D, NEW want \in Int, NEW e \in Int,
         NEW c2 \in Int, NEW e2 \in Int, NEW H1, NEW H2, NEW R,
         At(H, B, Frees(B), K, o, D), 32 <= want, want % PageSize = 0,
         e + 8 = H.commit, e + want = e2, e2 + 8 = c2, c2 <= Base + Reserve,
         PutWords(Recommitted(H, c2), Filled(H.commit, want, Junk)) = H1,
         Put(SetBlock(H1, e, want, 0), e2, 1) = H2,
         BP!Retile(B, e, e2, FreeOne(e, e2)) = R
  PROVE  Loose(H2, R, e, K, o, D) /\ BP!End(R, e) = e2 /\ H2.commit = c2
<1> DEFINE H0 == Recommitted(H, c2)
           ws == Filled(H.commit, want, Junk)
           J  == SetBlock(H1, e, want, 0)
           T  == FreeOne(e, e2)
           X  == Frees(B)
           S  == {e, e2 - 8, e2}
<1>0. H.commit - 8 = e
  <2>1. (e + 8) - 8 = e
    OBVIOUS
  <2> QED BY <2>1
<1>1. /\ Grounds(H) /\ IsHeap(H) /\ Shape(B, e) /\ Tagged(H, B) /\ X \subseteq DOMAIN B /\ Linked(H, X)
      /\ H.commit \in Int /\ H.commit % 16 = 0 /\ FirstBlock + 32 <= e
      /\ \A a \in D : a \in Int /\ (a < FirstBlock \/ H.commit <= a)
      /\ \A a \in DOMAIN H.mem : a \in Int
  BY <1>0, AtFacts
<1>2. want % 16 = 0 /\ PageSize \in Nat \ {0} /\ H.commit % PageSize = 0
  BY PagesAreAligned, BaseFacts, <1>1 DEF Grounds
<1>3. c2 % PageSize = 0
  BY <1>1, <1>2, MultipleSum
<1>4. /\ e \in Int /\ e2 \in Int /\ c2 \in Int /\ e % 16 = 8 /\ e2 % 16 = 8
      /\ e + 32 <= e2 /\ e2 - e = want /\ c2 - 8 = e2 /\ H.commit - 8 = e
      /\ Base + 24 <= e /\ Base \in Int /\ Base % 8 = 0
  BY <1>1, <1>2, BaseFacts
<1>5. IsHeap(H0) /\ H0.mem = H.mem /\ H0.free = H.free /\ H0.commit = c2 /\ H0.base = H.base
      /\ H0.reserve = H.reserve /\ H0.ready = H.ready
  BY <1>1 DEF IsHeap, Recommitted
<1>6. DOMAIN ws = Words(H.commit, want)
  BY FilledFacts
<1>7. \A w : w \in DOMAIN ws <=> w \in Int /\ e + 8 <= w /\ w <= e2 /\ w % 8 = 0
  <2>1. want \in Nat /\ want % 8 = 0 /\ H.commit % 8 = 0
    BY <1>1, <1>2
  <2>2. \A w : w \in Words(H.commit, want) <=> w \in Int /\ H.commit <= w /\ w < H.commit + want /\ w % 8 = 0
    BY <2>1, <1>1, WordsFacts
  <2>3. \A w \in Int : w % 8 = 0 /\ w < e2 + 8 => w <= e2
    BY <1>4
  <2> QED BY <2>2, <2>3, <1>4, <1>6
<1> HIDE DEF H0, ws
<1>8. /\ IsHeap(H1) /\ SameFields(H0, H1) /\ H1.free = H.free
      /\ DOMAIN H1.mem = DOMAIN H.mem \cup DOMAIN ws
      /\ \A a \in DOMAIN H.mem : a \notin DOMAIN ws => Get(H1, a) = Get(H, a)
  <2>1. H1 = PutWords(H0, ws)
    BY DEF H0, ws
  <2>2. LET G == PutWords(H0, ws) IN
        /\ IsHeap(G) /\ SameFields(H0, G) /\ G.free = H0.free
        /\ DOMAIN G.mem = DOMAIN H0.mem \cup DOMAIN ws
        /\ \A a \in DOMAIN H0.mem : a \notin DOMAIN ws => Get(G, a) = Get(H0, a)
    BY <1>5, PutWordsFacts
  <2>3. \A a : Get(H0, a) = Get(H, a)
    BY <1>5 DEF Get
  <2> QED BY <2>1, <2>2, <2>3, <1>5
<1>9. \A a : a \in DOMAIN H.mem <=> (a \in Int /\ Base <= a /\ a <= e /\ a % 8 = 0) \/ a \in D
  <2>1. DOMAIN H.mem = {a \in Base .. e : a % 8 = 0} \cup D
    BY DEF At
  <2>2. \A a : a \in Base .. e <=> a \in Int /\ Base <= a /\ a <= e
    BY <1>4
  <2> QED BY <2>1, <2>2
<1>10. \A a \in D : a \in Int /\ (a < Base \/ Base + Reserve <= a)
  BY DEF At, Outside
<1>11. \A a \in DOMAIN H.mem : a \notin DOMAIN ws /\ Get(H1, a) = Get(H, a)
  <2>1. \A a \in DOMAIN H.mem : a \notin DOMAIN ws
    BY <1>4, <1>7, <1>9, <1>10, BaseFacts
  <2> QED BY <2>1, <1>8
<1>12. \A a : a \in DOMAIN H1.mem <=> (a \in Int /\ Base <= a /\ a <= e2 /\ a % 8 = 0) \/ a \in D
  <2>1. \A a \in Int : a % 8 = 0 /\ ~(a <= e) => e + 8 <= a
    BY <1>4
  <2>2. ASSUME NEW a PROVE a \in DOMAIN H1.mem <=> a \in DOMAIN H.mem \/ a \in DOMAIN ws
    BY <1>8
  <2>3. ASSUME NEW a \in Int, a % 8 = 0, Base <= a, a <= e2 PROVE a <= e \/ a \in DOMAIN ws
    BY <2>1, <2>3, <1>7
  <2>4. ASSUME NEW a \in DOMAIN ws PROVE a \in Int /\ Base <= a /\ a <= e2 /\ a % 8 = 0
    <3>1. a \in Int /\ e + 8 <= a /\ a <= e2 /\ a % 8 = 0
      BY <1>7
    <3> QED BY <3>1, <1>4
  <2>5. e <= e2
    BY <1>4
  <2>6. ASSUME NEW a PROVE a \in DOMAIN H.mem => (a \in Int /\ Base <= a /\ a <= e2 /\ a % 8 = 0) \/ a \in D
    BY <1>9, <1>4
  <2> QED BY <2>2, <2>3, <2>4, <2>6, <1>9
<1>13. e \in DOMAIN H1.mem /\ e2 - 8 \in DOMAIN H1.mem /\ e2 \in DOMAIN H1.mem
  <2>1. e % 8 = 0 /\ e2 % 8 = 0 /\ (e2 - 8) % 8 = 0 /\ e2 - 8 \in Int
    BY <1>4
  <2> QED BY <2>1, <1>4, <1>12
<1>14. Wrote(H1, J, Pair(e, e2 - 8)) /\ J.free = H1.free /\ Get(J, e) = want /\ Get(J, e2 - 8) = want
  <2>1. e2 - 8 = e + want - 8 /\ want = want + 0
    BY <1>4
  <2> QED BY <2>1, <1>8, <1>13, SetBlockFacts
<1> HIDE DEF J
<1>15. IsHeap(J) /\ DOMAIN J.mem = DOMAIN H1.mem
  BY <1>14 DEF Wrote
<1>16. Wrote(J, H2, {e2}) /\ H2.free = J.free /\ Get(H2, e2) = 1
  <2>1. H2 = Put(J, e2, 1)
    BY DEF J
  <2>2. e2 \in DOMAIN J.mem
    BY <1>13, <1>15
  <2> QED BY <2>1, <2>2, <1>15, PutFacts
<1>17. Wrote(H1, H2, S)
  <2>1. Pair(e, e2 - 8) \subseteq S /\ {e2} \subseteq S
    BY DEF Pair
  <2> HIDE DEF S
  <2> QED BY <2>1, <1>14, <1>16, WroteTwice
<1>18. Get(H2, e) = want /\ Get(H2, e2 - 8) = want
  <2>1. e # e2 /\ e2 - 8 # e2
    BY <1>4
  <2> QED BY <2>1, <1>13, <1>14, <1>15, <1>16 DEF Wrote
<1>19. /\ \A a : a \in S <=> a = e \/ a = e2 - 8 \/ a = e2
       /\ \A a \in DOMAIN H.mem : a \notin S => Get(H2, a) = Get(H, a)
  <2>1. \A a \in DOMAIN H.mem : a \in DOMAIN H1.mem
    BY <1>8
  <2> QED BY <2>1, <1>11, <1>17 DEF Wrote
<1> HIDE DEF S
<1>20. /\ \A x : x \in DOMAIN T <=> x = e
       /\ T[e].size = want /\ T[e].used = FALSE /\ BP!End(T, e) = e2
       /\ BP!Tiles(T, e, e2) /\ BP!HoldsLinks(T) /\ Aligned(T) /\ IsFcn(T)
  <2> DEFINE no == FALSE
  <2>1. no \in BOOLEAN
    OBVIOUS
  <2>2. T = BP!One(e, e2, no)
    BY Zenon DEF FreeOne
  <2> HIDE DEF T, no
  <2>3. IsOne(T, e, e2, no)
    BY <2>1, <2>2, <1>4, OneParts
  <2>4. /\ \A x : x \in DOMAIN T <=> x = e
        /\ T[e].size = e2 - e /\ T[e].used = no /\ BP!End(T, e) = e2
        /\ BP!Tiles(T, e, e2) /\ BP!HoldsLinks(T) /\ Aligned(T) /\ IsFcn(T)
    BY <2>3 DEF IsOne
  <2> QED BY <2>4, <1>4 DEF no
<1> HIDE DEF T
<1>21. \A x \in DOMAIN B : /\ x \in Int /\ FirstBlock <= x /\ BP!End(B, x) \in Int /\ x + 32 <= BP!End(B, x)
                           /\ BP!End(B, x) <= e /\ x % 16 = 8
  BY <1>1, BlockFacts
<1>22. /\ \A x : x \in DOMAIN R <=> x \in DOMAIN B \/ x = e
       /\ \A x \in DOMAIN B : R[x] = B[x] /\ BP!End(R, x) = BP!End(B, x)
       /\ R[e] = T[e] /\ BP!End(R, e) = e2 /\ IsFcn(R)
  <2>1. Within(T, e, e2)
    BY <1>4, <1>20 DEF Within
  <2>2. R = BP!Retile(B, e, e2, T)
    BY DEF T
  <2>3. Retiles(R, B, e, e2, T)
    BY <2>1, <2>2, <1>4, RetileParts
  <2>4. \A x \in DOMAIN B : x < e
    BY <1>4, <1>21
  <2>5. e \in DOMAIN T
    BY <1>20
  <2> QED BY <2>3, <2>4, <2>5, <1>20 DEF Retiles
<1>23. Shape(R, e2)
  <2>1. BP!Tiles(R, FirstBlock, e2)
    <3>1. e2 = IF e2 >= e THEN e2 ELSE e
      BY <1>4
    <3>4. FirstBlock \in Int
      BY BaseFacts
    <3>5. R = BP!Retile(B, e, e2, T)
      BY DEF T
    <3>2. R = BP!Retile(B, e, e2, T) /\ e2 >= e /\ FirstBlock <= e /\ e < e2 /\ FirstBlock \in Int
      <4>1. e2 >= e /\ FirstBlock <= e /\ e < e2
        BY <1>1, <1>4, <3>4
      <4> QED BY <3>4, <3>5, <4>1
    <3>3. BP!Tiles(B, FirstBlock, e)
      BY <1>1 DEF Shape
    <3> QED BY <3>1, <3>2, <3>3, <1>4, <1>20, BP!RetileTiles, RegionOK
  <2>2. BP!HoldsLinks(R)
    <3>1. T[e].size >= 32 /\ \A x \in DOMAIN B : B[x].size >= 32
      BY <1>1, <1>20 DEF Shape, BP!HoldsLinks
    <3> QED BY <3>1, <1>22 DEF BP!HoldsLinks
  <2>3. Aligned(R)
    <3>1. \A x \in DOMAIN B : x % 16 = 8 /\ B[x].size % 16 = 0
      BY <1>1 DEF Shape, Aligned
    <3>2. e % 16 = 8 /\ T[e].size % 16 = 0
      BY <1>2, <1>4, <1>20
    <3> QED BY <3>1, <3>2, <1>22 DEF Aligned
  <2> QED BY <2>1, <2>2, <2>3, <1>4, <1>22 DEF Shape, IsFcn
<1>24. Tagged(H2, R)
  <2>1. ASSUME NEW x \in DOMAIN B
        PROVE  Get(H2, x) = Tag(R[x]) /\ Get(H2, BP!End(R, x) - 8) = Tag(R[x])
    <3>1. x \in DOMAIN H.mem /\ BP!End(B, x) - 8 \in DOMAIN H.mem
      BY <1>1, LinksAreMapped
    <3>2. x \notin S /\ BP!End(B, x) - 8 \notin S
      BY <1>4, <1>19, <1>21
    <3> QED BY <3>1, <3>2, <1>1, <1>19, <1>22 DEF Tagged
  <2>2. Tag(R[e]) = want
    BY <1>20, <1>22 DEF Tag
  <2> QED BY <2>1, <2>2, <1>18, <1>22 DEF Tagged
<1>25. /\ IsHeap(H2) /\ SameFields(H1, H2) /\ DOMAIN H2.mem = DOMAIN H1.mem /\ H2.free = H.free
  BY <1>8, <1>14, <1>16, <1>17 DEF Wrote
<1>26. H2.commit = c2 /\ H2.base = Base /\ H2.ready = TRUE /\ H2.reserve = Base + Reserve
  BY <1>1, <1>5, <1>8, <1>25 DEF SameFields, Grounds
<1>27. Grounds(H2)
  <2>1. \A a \in Base .. c2 - 8 : a % 8 = 0 => a \in DOMAIN H2.mem
    BY <1>4, <1>12, <1>25
  <2>2. Get(H2, Base + 16) = 17
    <3>1. Base + 16 \notin S
      <4>1. Base + 16 # e /\ Base + 16 # e2 - 8 /\ Base + 16 # e2
        BY <1>4
      <4> QED BY <4>1, <1>19
    <3>2. Base + 16 \in DOMAIN H.mem
      <4>1. Base + 16 \in Int /\ (Base + 16) % 8 = 0 /\ Base <= Base + 16 /\ Base + 16 <= e
        BY <1>4
      <4> QED BY <4>1, <1>9
    <3> QED BY <3>1, <3>2, <1>1, <1>19 DEF Grounds
  <2>3. Get(H2, c2 - 8) = 1 /\ Base + Chunk <= c2
    BY <1>1, <1>4, <1>16, BaseFacts DEF Grounds
  <2> QED BY <2>1, <2>2, <2>3, <1>3, <1>4, <1>25, <1>26 DEF Grounds
<1>28. X = Frees(R) \ {e}
  <2>1. e \notin DOMAIN B
    BY <1>4, <1>21
  <2> QED BY <2>1, <1>22 DEF Frees
<1>29. Linked(H2, X)
  <2>1. ASSUME NEW x \in X PROVE Get(H2, x + 8) = Get(H, x + 8) /\ Get(H2, x + 16) = Get(H, x + 16)
    <3>1. x \in DOMAIN B /\ x + 8 \in DOMAIN H.mem /\ x + 16 \in DOMAIN H.mem
      BY <1>1, LinksAreMapped
    <3>2. x + 8 \notin S /\ x + 16 \notin S
      BY <3>1, <1>4, <1>19, <1>21
    <3> QED BY <3>1, <3>2, <1>19
  <2> QED BY <2>1, <1>1, <1>25, LinkedKept
<1>30. ASSUME NEW a \in K
       PROVE  /\ a \in DOMAIN H2.mem /\ Get(H2, a) = Get(o, a)
              /\ a \in D \/ Inside(R, X, a)
              /\ ~(e <= a /\ a < e2)
  <2>1. a \in DOMAIN H.mem /\ Get(H, a) = Get(o, a) /\ (a \in D \/ Inside(B, X, a)) /\ a \in Int
    BY <1>1 DEF At, Kept
  <2>2. CASE a \in D
    <3>1. ~(e <= a /\ a <= e2)
      BY <2>1, <2>2, <1>4, <1>10, BaseFacts
    <3>2. a \notin S
      <4>1. a # e /\ a # e2 - 8 /\ a # e2
        BY <3>1, <2>1, <1>4
      <4> QED BY <4>1, <1>19
    <3> QED BY <2>1, <2>2, <3>1, <3>2, <1>4, <1>8, <1>19, <1>25
  <2>3. CASE Inside(B, X, a)
    <3>1. PICK g \in DOMAIN B \ X : g + 8 <= a /\ a < BP!End(B, g) - 8
      BY <2>3 DEF Inside
    <3>2. a < e
      BY <3>1, <2>1, <1>4, <1>21
    <3>3. a \notin S
      BY <3>2, <2>1, <1>4, <1>19
    <3>4. Inside(R, X, a)
      BY <3>1, <1>22 DEF Inside
    <3>5. a \in DOMAIN H2.mem
      BY <2>1, <1>8, <1>25
    <3>6. Get(H2, a) = Get(o, a)
      BY <2>1, <3>3, <1>19
    <3>7. ~(e <= a /\ a < e2)
      BY <2>1, <3>2, <1>4
    <3> QED BY <3>4, <3>5, <3>6, <3>7
  <2> QED BY <2>1, <2>2, <2>3
<1>31. DOMAIN H2.mem = {a \in Base .. H2.commit - 8 : a % 8 = 0} \cup D
  <2>1. H2.commit - 8 = e2
    BY <1>26
  <2>2. \A a : a \in Base .. e2 <=> a \in Int /\ Base <= a /\ a <= e2
    BY <1>4
  <2> QED BY <2>1, <2>2, <1>12, <1>25
<1>32. At(H2, R, X, K, o, D)
  <2>1. X \subseteq Frees(R)
    BY <1>28
  <2>2. Region(H2, R, X)
    BY <2>1, <1>23, <1>24, <1>26, <1>27, <1>29 DEF Region
  <2>3. Kept(H2, R, X, K, o, D)
    BY <1>30 DEF Kept
  <2> QED BY <2>2, <2>3, <1>31 DEF At
<1>33. e \in Frees(R)
  BY <1>20, <1>22 DEF Frees
<1>34. Clear(R, e, K)
  BY <1>22, <1>30 DEF Clear
<1> QED BY <1>22, <1>26, <1>28, <1>32, <1>33, <1>34 DEF Loose

Started(H) ==
  [mem |-> H.mem, base |-> Base, commit |-> Base + Chunk,
   reserve |-> Base + Reserve, free |-> 0, ready |-> TRUE]

\* The globals after heap_init.
LEMMA StartedFacts ==
  ASSUME NEW H, IsHeap(H)
  PROVE  /\ IsHeap(Started(H)) /\ Started(H).mem = H.mem /\ Started(H).free = 0
         /\ Started(H).ready = TRUE /\ Started(H).base = Base
         /\ Started(H).reserve = Base + Reserve /\ Started(H).commit = Base + Chunk
BY DEF IsHeap, Started

\* heap_init lays out one free block between the sentinels.
LEMMA LaidOutAt ==
  ASSUME NEW H, NEW K, NEW o, NEW D, NEW e \in Int, NEW f \in Int, NEW C, IsHeap(H), DOMAIN H.mem = D, Outside(D),
         \A a \in K : a \in D /\ Get(H, a) = Get(o, a),
         Base + Chunk - 8 = e, Base + 24 = f, FreeOne(f, e) = C
  PROVE  At(LaidOut(H), C, Frees(C), K, o, D) /\ LaidOut(H).commit = Base + Chunk
<1> DEFINE ws == Filled(Base, Chunk, Junk)
           H0 == PutWords(Started(H), ws)
           H1 == SetBlock(H0, Base + 8, 16, 1)
           H2 == SetBlock(H1, f, e - f, 0)
           H3 == Put(H2, e, 1)
           S  == {Base + 8, Base + 16, f, e - 8, e}
<1>1. /\ Base \in Int /\ Base > 0 /\ Base % 16 = 0 /\ Reserve \in Int /\ Chunk \in Int /\ Chunk >= 64 /\ Chunk <= Reserve
      /\ Chunk % 16 = 0 /\ f = FirstBlock /\ Chunk \in Nat
      /\ Base % PageSize = 0 /\ Chunk % PageSize = 0 /\ PageSize \in Nat \ {0}
  BY BaseFacts, HeapAssumption
<1>2. /\ e % 16 = 8 /\ f % 16 = 8 /\ f + 32 <= e /\ Base % 8 = 0 /\ Chunk % 8 = 0 /\ e % 8 = 0 /\ (e - 8) % 8 = 0
      /\ f % 8 = 0 /\ (Base + 8) % 8 = 0 /\ (Base + 16) % 8 = 0 /\ e + 8 = Base + Chunk /\ e + 8 <= Base + Reserve
  BY <1>1
<1>3. \A w : w \in DOMAIN ws <=> w \in Int /\ Base <= w /\ w <= e /\ w % 8 = 0
  <2>1. \A w : w \in Words(Base, Chunk) <=> w \in Int /\ Base <= w /\ w < Base + Chunk /\ w % 8 = 0
    BY <1>1, <1>2, WordsFacts
  <2>2. \A w \in Int : w % 8 = 0 => (w < Base + Chunk <=> w <= e)
    BY <1>1, <1>2
  <2>3. DOMAIN ws = Words(Base, Chunk)
    BY FilledFacts
  <2> HIDE DEF ws
  <2> QED BY <2>1, <2>2, <2>3
<1> HIDE DEF ws
<1>4. \A a \in D : a \in Int /\ (a < Base \/ Base + Reserve <= a)
  BY DEF Outside
<1>5. \A a \in D : a \notin DOMAIN ws
  BY <1>1, <1>2, <1>3, <1>4
<1>6. /\ IsHeap(H0) /\ SameFields(Started(H), H0) /\ H0.free = 0
      /\ DOMAIN H0.mem = D \cup DOMAIN ws
      /\ \A a \in D : Get(H0, a) = Get(H, a)
  <2>1. LET G == PutWords(Started(H), ws) IN
        /\ IsHeap(G) /\ SameFields(Started(H), G) /\ G.free = Started(H).free
        /\ DOMAIN G.mem = DOMAIN Started(H).mem \cup DOMAIN ws
        /\ \A a \in DOMAIN Started(H).mem : a \notin DOMAIN ws => Get(G, a) = Get(Started(H), a)
    BY StartedFacts, PutWordsFacts
  <2>2. \A a : Get(Started(H), a) = Get(H, a)
    BY StartedFacts DEF Get
  <2>3. Started(H).free = 0 /\ DOMAIN Started(H).mem = D
    BY StartedFacts
  <2> QED BY <2>1, <2>2, <2>3, <1>5
<1> HIDE DEF H0
<1>7. \A a : a \in DOMAIN H0.mem <=> (a \in Int /\ Base <= a /\ a <= e /\ a % 8 = 0) \/ a \in D
  BY <1>3, <1>6
<1>8. /\ Base + 8 \in DOMAIN H0.mem /\ Base + 16 \in DOMAIN H0.mem /\ f \in DOMAIN H0.mem
      /\ e - 8 \in DOMAIN H0.mem /\ e \in DOMAIN H0.mem
  <2>1. /\ Base + 8 \in Int /\ Base + 16 \in Int /\ e - 8 \in Int
        /\ Base <= Base + 8 /\ Base <= Base + 16 /\ Base <= f /\ Base <= e - 8 /\ Base <= e
        /\ Base + 8 <= e /\ Base + 16 <= e /\ f <= e /\ e - 8 <= e
    BY <1>1, <1>2
  <2> QED BY <2>1, <1>2, <1>7
<1>9. /\ Wrote(H0, H1, Pair(Base + 8, Base + 16)) /\ H1.free = 0
      /\ Get(H1, Base + 16) = 17
  <2>1. (Base + 8) + 16 - 8 = Base + 16 /\ 16 + 1 = 17
    BY <1>1
  <2> QED BY <2>1, <1>6, <1>8, SetBlockFacts
<1>10. IsHeap(H1) /\ DOMAIN H1.mem = DOMAIN H0.mem
  BY <1>9 DEF Wrote
<1> HIDE DEF H1
<1>11. Wrote(H1, H2, Pair(f, e - 8)) /\ H2.free = 0 /\ Get(H2, f) = e - f /\ Get(H2, e - 8) = e - f
  <2>1. f + (e - f) - 8 = e - 8 /\ (e - f) + 0 = e - f
    OBVIOUS
  <2> QED BY <2>1, <1>8, <1>9, <1>10, SetBlockFacts
<1>12. IsHeap(H2) /\ DOMAIN H2.mem = DOMAIN H0.mem
  BY <1>10, <1>11 DEF Wrote
<1> HIDE DEF H2
<1>13. Wrote(H2, H3, {e}) /\ H3.free = 0 /\ Get(H3, e) = 1
  BY <1>8, <1>11, <1>12, PutFacts
<1> HIDE DEF H3
<1>14. Wrote(H0, H3, S)
  <2>1. Pair(Base + 8, Base + 16) \subseteq S /\ Pair(f, e - 8) \subseteq S /\ {e} \subseteq S
    BY DEF Pair
  <2> HIDE DEF S
  <2>2. Wrote(H0, H2, S)
    BY <2>1, <1>9, <1>11, WroteTwice
  <2>3. S \subseteq S
    OBVIOUS
  <2> QED BY <2>1, <2>2, <2>3, <1>13, WroteTwice
<1>15. Get(H3, Base + 16) = 17 /\ Get(H3, f) = e - f /\ Get(H3, e - 8) = e - f
  <2>1. Base + 16 # f /\ Base + 16 # e - 8 /\ Base + 16 # e /\ f # e /\ e - 8 # e
    BY <1>1, <1>2
  <2>2. Base + 16 \notin Pair(f, e - 8)
    BY <2>1 DEF Pair
  <2>3. Get(H2, Base + 16) = 17
    BY <2>2, <1>8, <1>9, <1>10, <1>11 DEF Wrote
  <2> QED BY <2>1, <2>3, <1>8, <1>11, <1>12, <1>13 DEF Wrote
<1>16. ASSUME NEW a \in D PROVE a \in DOMAIN H3.mem /\ Get(H3, a) = Get(H, a) /\ ~(f <= a /\ a < e)
  <2>1. a \in DOMAIN H0.mem
    BY <1>7
  <2>2. a \in Int /\ (a < Base \/ e + 8 <= a)
    BY <1>1, <1>2, <1>4
  <2>3. a \notin S /\ ~(f <= a /\ a < e)
    BY <2>2, <1>1, <1>2
  <2> HIDE DEF S
  <2> QED BY <2>1, <2>3, <1>6, <1>14 DEF Wrote
<1>17. /\ \A x : x \in DOMAIN C <=> x = f
       /\ C[f].size = e - f /\ C[f].used = FALSE /\ BP!End(C, f) = e
       /\ BP!Tiles(C, f, e) /\ BP!HoldsLinks(C) /\ Aligned(C) /\ IsFcn(C)
  <2> DEFINE no == FALSE
  <2>1. no \in BOOLEAN
    OBVIOUS
  <2>2. C = BP!One(f, e, no)
    BY Zenon DEF FreeOne
  <2> HIDE DEF no
  <2>3. IsOne(C, f, e, no)
    BY <2>1, <2>2, <1>2, OneParts
  <2>4. /\ \A x : x \in DOMAIN C <=> x = f
        /\ C[f].size = e - f /\ C[f].used = no /\ BP!End(C, f) = e
        /\ BP!Tiles(C, f, e) /\ BP!HoldsLinks(C) /\ Aligned(C) /\ IsFcn(C)
    BY <2>3 DEF IsOne
  <2> QED BY <2>4 DEF no
<1>18. Shape(C, e)
  <2>1. BP!Tiles(C, FirstBlock, e)
    BY <1>1, <1>17
  <2> QED BY <2>1, <1>2, <1>17 DEF Shape, IsFcn
<1>19. H3.commit = Base + Chunk /\ H3.base = Base /\ H3.ready = TRUE /\ H3.reserve = Base + Reserve /\ IsHeap(H3)
       /\ H3.commit - 8 = e /\ DOMAIN H3.mem = DOMAIN H0.mem
  <2>1. IsHeap(H3) /\ SameFields(H0, H3) /\ DOMAIN H3.mem = DOMAIN H0.mem
    BY <1>14 DEF Wrote
  <2>2. H3.commit = Base + Chunk /\ H3.base = Base /\ H3.ready = TRUE /\ H3.reserve = Base + Reserve
    BY <2>1, <1>6, StartedFacts DEF SameFields
  <2>3. H3.commit - 8 = e
    BY <1>1, <2>2
  <2> QED BY <2>1, <2>2, <2>3
<1>20. Grounds(H3)
  <2>1. \A a \in Base .. e : a % 8 = 0 => a \in DOMAIN H3.mem
    BY <1>1, <1>7, <1>19
  <2>2. (Base + Chunk) % PageSize = 0 /\ Base + Chunk \in Int
    <3>1. Base \in Int /\ Chunk \in Int /\ Base % PageSize = 0 /\ Chunk % PageSize = 0 /\ PageSize \in Nat \ {0}
      BY <1>1
    <3>2. Base + Chunk \in Int
      BY <3>1
    <3> HIDE DEF S, H0, H1, H2, H3
    <3> QED BY ONLY <3>1, <3>2, MultipleSum, Zenon
  <2>3. Base + Chunk <= Base + Reserve
    BY <1>1
  <2> QED BY <2>1, <2>2, <2>3, <1>13, <1>15, <1>19 DEF Grounds
<1>21. Tagged(H3, C)
  <2>1. Tag(C[f]) = e - f
    BY <1>17 DEF Tag
  <2> QED BY <2>1, <1>15, <1>17 DEF Tagged
<1>22. Linked(H3, {})
  <2> DEFINE L == [i \in 1..0 |-> 0]
  <2>1. 1..0 = {}
    OBVIOUS
  <2>2. L \in [1..0 -> {}] /\ 0 \in Nat
    BY <2>1
  <2>3. Lists(L, 0, {}) /\ Chain(H3, L, 0)
    BY <2>1, <2>2, <1>13 DEF Lists, Chain
  <2> QED BY <2>2, <2>3 DEF Linked
<1>23. At(H3, C, {}, K, o, D)
  <2>1. Region(H3, C, {})
    BY <1>18, <1>19, <1>20, <1>21, <1>22 DEF Region
  <2>2. DOMAIN H3.mem = {a \in Base .. H3.commit - 8 : a % 8 = 0} \cup D
    <3>1. \A a : a \in Base .. e <=> a \in Int /\ Base <= a /\ a <= e
      BY <1>1
    <3> QED BY <3>1, <1>7, <1>19
  <2>3. Kept(H3, C, {}, K, o, D)
    BY <1>16 DEF Kept
  <2> QED BY <2>1, <2>2, <2>3 DEF At
<1>24. f \in Frees(C) /\ Frees(C) = {f}
  BY <1>17 DEF Frees
<1>25. Clear(C, f, K)
  BY <1>16, <1>17 DEF Clear
<1>26. At(FlInsert(H3, f), C, Frees(C), K, o, D)
  <2>1. f \notin {} /\ {} \cup {f} = Frees(C)
    BY <1>24
  <2> QED BY <2>1, <1>23, <1>24, <1>25, InsertAt
<1>27. LaidOut(H) = FlInsert(H3, f)
  BY DEF LaidOut, H3, H2, H1, H0, ws, Started
<1>28. FlInsert(H3, f).commit = Base + Chunk
  <2>1. At(FlInsert(H3, f), C, Frees(C), K, o, D)
    BY <1>26
  <2>2. f # e /\ FirstBlock \in Int
    BY <1>2, BaseFacts
  <2> DEFINE G == FlInsert(H3, f)
  <2>3. Shape(C, G.commit - 8) /\ G.commit \in Int /\ FirstBlock + 32 <= G.commit - 8
    <3> HIDE DEF G
    <3> QED BY <2>1, AtFacts DEF G
  <2> HIDE DEF G
  <2>4. FirstBlock # G.commit - 8 /\ FirstBlock # e
    BY <2>2, <2>3, <1>1
  <2>5. G.commit - 8 = e
    BY <2>3, <2>4, <1>18, SameEnd
  <2>6. G.commit = Base + Chunk
    BY <2>3, <2>5, <1>1, <1>2
  <2> QED BY <2>6 DEF G
<1> QED BY <1>26, <1>27, <1>28

\* A block size that requests round up to.
IsNeed(need) ==
  /\ need \in Int /\ need % 16 = 0 /\ 32 <= need /\ need + PageSize <= WordRange
  /\ need \in {Need(n) : n \in Requests}

\* heap_extend grows by whole pages, by enough, and not beyond the reservation.
LEMMA GrowthFacts ==
  ASSUME NEW H, NEW need, NEW w, IsNeed(need), Growth(H, need) = w,
         H.commit \in Int, H.commit % PageSize = 0, H.reserve = Base + Reserve,
         H.commit <= Base + Reserve
  PROVE  w = 0 \/ (w \in Int /\ need <= w /\ w % PageSize = 0 /\ H.commit + w <= Base + Reserve)
<1> DEFINE m == IF need < Chunk THEN Chunk ELSE need
           p == RoundPage(m)
           c == H.commit
           r == Base + Reserve
<1>1. need \in Int /\ 32 <= need /\ need + PageSize <= WordRange
  BY DEF IsNeed
<1>2. /\ Chunk \in Nat /\ Chunk + PageSize <= WordRange /\ PageSize \in Nat \ {0}
      /\ Base \in Int /\ Reserve \in Int /\ Base % PageSize = 0 /\ Reserve % PageSize = 0
  BY HeapAssumption, RequestAssumption
<1>3. m \in Nat /\ m > 0 /\ m + PageSize <= WordRange /\ need <= m
  BY <1>1, <1>2
<1> HIDE DEF m
<1>4. p \in Nat /\ m <= p /\ p % PageSize = 0
  BY <1>3, RoundPageFacts
<1> HIDE DEF p
<1>5. c \in Int /\ r \in Int /\ c % PageSize = 0 /\ c <= r /\ H.reserve = r
  BY <1>2
<1>6. (Base + Reserve) % PageSize = 0
  BY <1>2, MultipleSum, Zenon
<1>7. (r - c) % PageSize = 0
  <2> HIDE DEF c, r
  <2>1. r % PageSize = 0
    BY <1>6 DEF r
  <2> QED BY <2>1, <1>2, <1>5, MultipleSum, Zenon
<1> HIDE DEF c, r
<1>8. w = IF c + p <= r THEN p ELSE IF c + need > r THEN 0 ELSE r - c
  BY <1>5 DEF Growth, Most, m, p, c
<1>9. w = 0 \/ (w \in Int /\ need <= w /\ w % PageSize = 0 /\ c + w <= r)
  BY <1>1, <1>3, <1>4, <1>5, <1>7, <1>8
<1> QED BY <1>9 DEF c, r

\* What heap_extend has done when it succeeds: the region ends at f and the block at
\* h, free, is large enough.
ExtendedTo(G, h, B, e, f, C, K, o, D, need) ==
  /\ f \in Int /\ e + 32 <= f /\ f <= Base + Reserve - 8
  /\ BP!Freed(B, e, f) = C
  /\ At(G, C, Frees(C), K, o, D) /\ BP!NoNeighboursFree(C) /\ G.commit = f + 8
  /\ h \in Frees(C) /\ need <= C[h].size

\* A region at rest is Good in the sense of BlockHeapProofs.
LEMMA GoodShape ==
  ASSUME NEW B, NEW e, Shape(B, e), BP!NoNeighboursFree(B)
  PROVE  BP!Good(B, e)
BY DEF Shape, BP!Good

\* Growing a region at rest leaves it at rest.
LEMMA FreedShape ==
  ASSUME NEW B, NEW e \in Int, NEW f \in Int, NEW g, NEW C, Shape(B, e), BP!NoNeighboursFree(B),
         e + 32 <= f, f % 16 = 8, FirstBlock <= e, BP!Freed(B, e, f) = C, Shape(C, g)
  PROVE  Shape(C, f) /\ BP!NoNeighboursFree(C)
<1>1. BP!Good(B, e)
  BY GoodShape
<1>2. f >= e /\ f = (IF f >= e THEN f ELSE e) /\ FirstBlock <= e /\ e + 32 <= f
  OBVIOUS
<1>3. BP!Good(BP!Freed(B, e, f), f)
  BY <1>1, <1>2, BP!FreedGood, RegionOK
<1>4. BP!Good(C, f)
  BY <1>3
<1> QED BY <1>4 DEF Shape, BP!Good

\* heap_extend fails and nothing changed, or it gives a free block that is large enough.
LEMMA ExtendAt ==
  ASSUME NEW H, NEW B, NEW K, NEW o, NEW D, NEW need, NEW e \in Int, NEW x, IsNeed(need),
         At(H, B, Frees(B), K, o, D), BP!NoNeighboursFree(B), e + 8 = H.commit,
         x \in ExtendOutcomes(H, need)
  PROVE  \/ x.at = 0 /\ x.heap = H
         \/ \E f, C : ExtendedTo(x.heap, x.at, B, e, f, C, K, o, D, need)
<1> DEFINE want == Growth(H, need)
           c2 == H.commit + want
           f == e + want
           H1 == PutWords(Recommitted(H, c2), Filled(H.commit, want, Junk))
           H2 == Put(SetBlock(H1, e, want, 0), f, 1)
           R == BP!Retile(B, e, f, FreeOne(e, f))
           C == BP!Freed(B, e, f)
           y == CoalesceAndInsert(H2, e)
<1>1. /\ H.commit \in Int /\ H.commit % PageSize = 0 /\ H.reserve = Base + Reserve
      /\ H.commit <= Base + Reserve /\ FirstBlock + 32 <= H.commit - 8 /\ e % 16 = 8
      /\ Shape(B, H.commit - 8)
  <2>1. Grounds(H)
    BY AtFacts
  <2>2. Shape(B, H.commit - 8) /\ FirstBlock + 32 <= H.commit - 8 /\ (H.commit - 8) % 16 = 8 /\ H.commit \in Int
    BY AtFacts
  <2>3. e % 16 = 8
    BY <2>2
  <2> QED BY <2>1, <2>2, <2>3 DEF Grounds
<1>2. want = 0 \/ (want \in Int /\ need <= want /\ want % PageSize = 0 /\ H.commit + want <= Base + Reserve)
  BY <1>1, GrowthFacts
<1> HIDE DEF want
<1>3. CASE x.at = 0 /\ x.heap = H
  BY <1>3
<1>4. CASE ~(x.at = 0 /\ x.heap = H)
  <2>1. want # 0
    BY <1>4 DEF ExtendOutcomes, want
  <2>2. want \in Int /\ need <= want /\ want % PageSize = 0 /\ H.commit + want <= Base + Reserve
    BY <2>1, <1>2
  <2>3. x = y
    <3>1. (H.commit - 8) = e /\ c2 - 8 = f
      BY <1>1, <2>2
    <3>2. PutWords([H EXCEPT !.commit = c2], Filled(H.commit, want, Junk)) = H1
      BY DEF Recommitted
    <3>3. PutWords([H EXCEPT !.commit = c2], Filled(H.commit, want, Junk)).commit = c2
      <4>1. IsHeap(H)
        BY AtFacts
      <4> QED BY <4>1 DEF PutWords, IsHeap
    <3> QED BY <3>1, <3>2, <3>3, <1>4, <2>1 DEF ExtendOutcomes, want
  <2>4. need \in Int /\ 32 <= need
    BY DEF IsNeed
  <2>5. 32 <= want /\ f \in Int /\ f + 8 = c2 /\ c2 \in Int /\ c2 <= Base + Reserve /\ e + 32 <= f
    BY <1>1, <2>2, <2>4
  <2>6. f % 16 = 8
    <3>1. want % 16 = 0
      BY <2>2, PagesAreAligned
    <3> QED BY <3>1, <2>2, <1>1
  <2> DEFINE l == BP!Lower(R, e)
             u == BP!Upper(R, f)
  <2>7. Loose(H2, R, e, K, o, D) /\ BP!End(R, e) = f /\ H2.commit = c2
    <3>1. e + want = f
      OBVIOUS
    <3> HIDE DEF f, c2
    <3>2. PutWords(Recommitted(H, c2), Filled(H.commit, want, Junk)) = H1
      OBVIOUS
    <3>3. Put(SetBlock(H1, e, want, 0), f, 1) = H2
      OBVIOUS
    <3>4. BP!Retile(B, e, f, FreeOne(e, f)) = R
      OBVIOUS
    <3> HIDE DEF H1, H2, R
    <3> QED BY <2>2, <2>5, <3>1, <3>2, <3>3, <3>4, ExtendedAt
  <2>8. BP!Freed(R, e, f) = C
    <3> HIDE DEF f
    <3>1. BP!Freed(BP!Retile(B, e, f, BP!One(e, f, FALSE)), e, f) = BP!Freed(B, e, f)
      BY <1>1, <2>5, <2>6, FreedAgain, Zenon
    <3>2. R = BP!Retile(B, e, f, BP!One(e, f, FALSE))
      BY Zenon DEF FreeOne
    <3> QED BY <3>1, <3>2, Zenon
  <2> HIDE DEF c2, f, H1, H2, R, C
  <2>9. At(y.heap, C, Frees(C), K, o, D) /\ y.at = l /\ l \in Frees(C)
    BY <2>7, <2>8, CoalesceAndInsertAt
  <2> HIDE DEF y
  <2>10. Shape(R, f) /\ Shape(C, y.heap.commit - 8)
    <3>1. Shape(R, H2.commit - 8)
      BY <2>7, AtFacts DEF Loose
    <3>2. H2.commit - 8 = f
      BY <2>5, <2>7
    <3>3. Shape(C, y.heap.commit - 8)
      BY <2>9, AtFacts
    <3> QED BY <3>1, <3>2, <3>3
  <2>11. Shape(C, f) /\ BP!NoNeighboursFree(C)
    <3>1. Shape(B, e) /\ FirstBlock <= e
      <4>1. H.commit - 8 = e /\ FirstBlock \in Int
        BY <1>1, BaseFacts
      <4> QED BY <4>1, <1>1
    <3>2. BP!Freed(B, e, f) = C
      BY DEF C
    <3> QED BY <3>1, <3>2, <2>5, <2>6, <2>10, FreedShape
  <2>12. y.heap.commit = f + 8
    <3>1. FirstBlock # f /\ FirstBlock # y.heap.commit - 8
      <4>1. FirstBlock + 32 <= y.heap.commit - 8 /\ y.heap.commit \in Int
        BY <2>9, AtFacts
      <4> QED BY <4>1, BaseFacts, <1>1, <2>5
    <3>2. y.heap.commit - 8 = f /\ y.heap.commit \in Int
      BY <2>10, <2>11, <3>1, SameEnd, <2>9, AtFacts
    <3> QED BY <3>2
  <2>13. need <= C[l].size
    <3>1. l \in Int /\ l <= e
      BY <2>10, LowerFacts
    <3>2. u \in Int /\ f <= u
      BY <2>5, <2>10, UpperFacts
    <3> DEFINE T == BP!One(l, u, FALSE)
    <3>3. Retiles(C, R, l, u, T)
      <4>1. Within(T, l, u)
        <5>1. l < u
          BY <3>1, <3>2, <2>5
        <5> QED BY <5>1, <3>1 DEF Within, BP!One
      <4>2. C = BP!Retile(R, l, u, T)
        BY <2>8 DEF BP!Freed
      <4> HIDE DEF T, l, u
      <4> QED BY <4>1, <4>2, <3>1, <3>2, RetileParts
    <3>4. l \in DOMAIN T /\ T[l].size = u - l
      BY DEF BP!One
    <3> HIDE DEF T, l, u
    <3>5. C[l].size = u - l
      BY <3>3, <3>4 DEF Retiles
    <3>6. u - l >= want
      BY <3>1, <3>2, <2>2 DEF f
    <3> QED BY <3>1, <3>2, <3>5, <3>6, <2>2, <2>4
  <2>14. f <= Base + Reserve - 8
    BY <2>5, BaseFacts
  <2>15. ExtendedTo(y.heap, y.at, B, e, f, C, K, o, D, need)
    <3>1. BP!Freed(B, e, f) = C
      BY DEF C
    <3> HIDE DEF l
    <3> QED BY <3>1, <2>5, <2>9, <2>11, <2>12, <2>13, <2>14 DEF ExtendedTo
  <2> QED BY <2>3, <2>15
<1> QED BY <1>3, <1>4

-----------------------------------------------------------------------------
(* heap_fl_find *)

Iterate(f, start, after, n) ==
  f = [i \in 0..n |-> IF i = 0 THEN start ELSE after[f[i - 1]]]

\* A function defined from its value at the number before is there.
LEMMA Iterates ==
  ASSUME NEW start, NEW after, NEW n \in Nat
  PROVE  \E f : Iterate(f, start, after, n)
<1> DEFINE Bad == {k \in Nat : ~(\E f : f = [i \in 0..k |-> IF i = 0 THEN start ELSE after[f[i - 1]]])}
<1>1. SUFFICES ASSUME Bad # {} PROVE FALSE
  BY DEF Iterate
<1>2. PICK k \in Bad : \A m \in Bad : k <= m
  BY <1>1, LeastNumber
<1>3. k \in Nat /\ ~(\E f : f = [i \in 0..k |-> IF i = 0 THEN start ELSE after[f[i - 1]]])
  BY <1>2
<1>4. CASE k = 0
  <2> DEFINE f == [i \in 0..0 |-> start]
  <2>1. f = [i \in 0..0 |-> IF i = 0 THEN start ELSE after[f[i - 1]]]
    OBVIOUS
  <2> QED BY <2>1, <1>3, <1>4
<1>5. CASE k # 0
  <2>1. k - 1 \in Nat /\ k - 1 \notin Bad
    <3>1. k - 1 \in Nat /\ ~(k <= k - 1)
      BY <1>3, <1>5
    <3> HIDE DEF Bad
    <3> QED BY <1>2, <3>1
  <2>2. PICK g : g = [i \in 0..k - 1 |-> IF i = 0 THEN start ELSE after[g[i - 1]]]
    BY <2>1
  <2> DEFINE f == [i \in 0..k |-> IF i = k THEN after[g[k - 1]] ELSE g[i]]
  <2>3. \A i \in 0..k : f[i] = IF i = 0 THEN start ELSE after[f[i - 1]]
    <3> SUFFICES ASSUME NEW i \in 0..k PROVE f[i] = IF i = 0 THEN start ELSE after[f[i - 1]]
      OBVIOUS
    <3>1. CASE i = k
      <4>1. f[i] = after[g[k - 1]] /\ f[i - 1] = g[k - 1] /\ i # 0
        BY <3>1, <1>3, <1>5
      <4> QED BY <4>1
    <3>2. CASE i # k
      <4>1. i \in 0..k - 1
        BY <3>2, <1>3
      <4>2. g[i] = IF i = 0 THEN start ELSE after[g[i - 1]]
        BY <2>2, <4>1
      <4>3. f[i] = g[i] /\ (i # 0 => f[i - 1] = g[i - 1])
        BY <3>2, <4>1, <1>3
      <4> QED BY <4>2, <4>3
    <3> QED BY <3>1, <3>2
  <2>4. f = [i \in 0..k |-> IF i = 0 THEN start ELSE after[f[i - 1]]]
    BY <2>3
  <2> QED BY <2>4, <1>3
<1> QED BY <1>4, <1>5

\* The positions a walk can take.
LEMMA StepsFacts ==
  /\ \A i : i \in Steps <=> i \in Nat /\ 32 * i <= Reserve
  /\ Steps = 0 .. Reserve \div 32 /\ Reserve \div 32 \in Nat /\ 0 \in Steps
<1>1. Reserve \in Nat
  BY HeapAssumption
<1>2. \A i \in Nat : i <= Reserve \div 32 <=> 32 * i <= Reserve
  BY <1>1
<1>3. Reserve \div 32 \in Nat
  BY <1>1
<1> QED BY <1>1, <1>2, <1>3 DEF Steps

\* The walk along the free list, link by link.
LEMMA FlNodesStep ==
  ASSUME NEW H, NEW at, FlNodes(H) = at
  PROVE  /\ at[0] = H.free
         /\ \A i \in Steps : i # 0 =>
              (at[i - 1] \in Int => at[i] = IF at[i - 1] = 0 THEN 0 ELSE Get(H, at[i - 1] + 8))
<1> DEFINE after == [h \in Int |-> IF h = 0 THEN 0 ELSE Get(H, h + 8)]
<1>1. \E f : f = [i \in Steps |-> IF i = 0 THEN H.free ELSE after[f[i - 1]]]
  <2> HIDE DEF after
  <2>1. \E f : Iterate(f, H.free, after, Reserve \div 32)
    <3>1. Reserve \div 32 \in Nat
      BY StepsFacts
    <3> QED BY <3>1, Iterates, Zenon
  <2>2. Steps = 0 .. Reserve \div 32
    BY StepsFacts
  <2> QED BY <2>1, <2>2, Zenon DEF Iterate
<1>2. at = [i \in Steps |-> IF i = 0 THEN H.free ELSE after[at[i - 1]]]
  BY <1>1 DEF FlNodes
<1>3. \A i \in Steps : at[i] = IF i = 0 THEN H.free ELSE after[at[i - 1]]
  BY <1>2
<1>4. \A h \in Int : after[h] = IF h = 0 THEN 0 ELSE Get(H, h + 8)
  OBVIOUS
<1> HIDE DEF after
<1> QED BY <1>3, <1>4, StepsFacts

\* A list without repetitions whose members are among m numbers has at most m entries.
LEMMA FewEnough ==
  ASSUME NEW n \in Nat, NEW m \in Nat, NEW f \in [1..n -> 0..m - 1],
         \A i, j \in 1..n : f[i] = f[j] => i = j
  PROVE  n <= m
<1>1. f \in Injection(1..n, 0..m - 1)
  BY DEF Injection, IsInjective
<1>2. IsFiniteSet(0..m - 1) /\ Cardinality(0..m - 1) = m
  <2>1. Cardinality(0..m - 1) = IF 0 > m - 1 THEN 0 ELSE (m - 1) - 0 + 1
    BY FS_Interval
  <2>2. IsFiniteSet(0..m - 1)
    BY FS_Interval
  <2> QED BY <2>1, <2>2
<1>3. Cardinality(1..n) = n
  <2>1. Cardinality(1..n) = IF 1 > n THEN 0 ELSE n - 1 + 1
    BY FS_Interval
  <2> QED BY <2>1
<1>4. Cardinality(1..n) <= Cardinality(0..m - 1)
  BY <1>1, <1>2, FS_Injection
<1> QED BY <1>2, <1>3, <1>4

\* There is room for a step from every node of the list to the next, and to its end.
LEMMA ListFits ==
  ASSUME NEW B, NEW e, NEW X, NEW L, NEW n, Shape(B, e), X \subseteq DOMAIN B, e <= Base + Reserve - 8,
         Lists(L, n, X)
  PROVE  n \in Nat /\ n <= Reserve \div 32
<1> DEFINE m == Reserve \div 32
           f == [i \in 1..n |-> (L[i] - FirstBlock) \div 32]
<1>1. n \in Nat /\ \A i \in 1..n : L[i] \in DOMAIN B
  BY DEF Lists
<1>2. m \in Nat /\ Reserve \in Nat /\ FirstBlock \in Nat /\ FirstBlock = Base + 24 /\ e \in Int /\ Base \in Nat
  BY StepsFacts, BaseFacts DEF Shape
<1>3. ASSUME NEW i \in 1..n PROVE f[i] \in 0..m - 1
  <2>1. L[i] \in Int /\ FirstBlock <= L[i] /\ L[i] + 32 <= BP!End(B, L[i]) /\ BP!End(B, L[i]) <= e /\ BP!End(B, L[i]) \in Int
    BY <1>1, BlockFacts
  <2> DEFINE d == L[i] - FirstBlock
  <2>2. d \in Nat /\ d + 32 <= Reserve
    BY <1>2, <2>1
  <2> HIDE DEF d
  <2>3. d \div 32 \in 0..m - 1
    BY <1>2, <2>2
  <2> QED BY <2>3 DEF d
<1>4. ASSUME NEW i \in 1..n, NEW j \in 1..n, f[i] = f[j] PROVE i = j
  <2>1. L[i] \in DOMAIN B /\ L[j] \in DOMAIN B
    BY <1>1
  <2>2. L[i] # L[j] => BP!End(B, L[i]) <= L[j] \/ BP!End(B, L[j]) <= L[i]
    BY <2>1, BlocksApart
  <2>3. /\ L[i] \in Int /\ FirstBlock <= L[i] /\ L[i] + 32 <= BP!End(B, L[i]) /\ BP!End(B, L[i]) \in Int
        /\ L[j] \in Int /\ FirstBlock <= L[j] /\ L[j] + 32 <= BP!End(B, L[j]) /\ BP!End(B, L[j]) \in Int
    BY <2>1, BlockFacts
  <2>4. L[i] # L[j] => L[i] + 32 <= L[j] \/ L[j] + 32 <= L[i]
    BY <2>2, <2>3
  <2>5. (L[i] - FirstBlock) \div 32 = (L[j] - FirstBlock) \div 32
    BY <1>4
  <2>6. L[i] = L[j]
    BY <2>3, <2>4, <2>5, <1>2
  <2> QED BY <2>6, <1>1 DEF Lists
<1>5. f \in [1..n -> 0..m - 1]
  BY <1>3
<1> HIDE DEF f
<1>6. \A i, j \in 1..n : f[i] = f[j] => i = j
  BY <1>4
<1> HIDE DEF m
<1>7. n <= m
  BY <1>1, <1>2, <1>5, <1>6, FewEnough
<1> QED BY <1>1, <1>7 DEF m

\* Following the links from the head visits the list in its order and stops behind it.
LEMMA NodesOfList ==
  ASSUME NEW H, NEW B, NEW e, NEW X, NEW L, NEW n, NEW at, Shape(B, e), X \subseteq DOMAIN B,
         e <= Base + Reserve - 8, Lists(L, n, X), Chain(H, L, n), FlNodes(H) = at
  PROVE  n \in Steps /\ at[n] = 0 /\ \A i \in 0..n - 1 : at[i] = L[i + 1]
<1>1. n \in Nat /\ n <= Reserve \div 32 /\ n \in Steps
  <2>1. n \in Nat /\ n <= Reserve \div 32
    BY ListFits
  <2> QED BY <2>1, StepsFacts
<1>2. /\ at[0] = H.free
      /\ \A i \in Steps : i # 0 =>
           (at[i - 1] \in Int => at[i] = IF at[i - 1] = 0 THEN 0 ELSE Get(H, at[i - 1] + 8))
  BY FlNodesStep
<1>3. \A i \in 1..n : L[i] \in Int /\ L[i] > 0
  <2>1. ASSUME NEW i \in 1..n PROVE L[i] \in Int /\ L[i] > 0
    <3>1. L[i] \in DOMAIN B
      BY DEF Lists
    <3>2. L[i] \in Int /\ FirstBlock <= L[i] /\ FirstBlock > 0 /\ FirstBlock \in Int
      BY <3>1, BlockFacts, BaseFacts
    <3> QED BY <3>2
  <2> QED BY <2>1
<1> DEFINE Is(i) == at[i] = IF i < n THEN L[i + 1] ELSE 0
           Bad == {i \in Nat : i <= n /\ ~Is(i)}
<1>4. Bad = {}
  <2>1. SUFFICES ASSUME Bad # {} PROVE FALSE
    OBVIOUS
  <2>2. PICK k \in Bad : \A i \in Bad : k <= i
    <3>1. Bad \subseteq Nat
      OBVIOUS
    <3> HIDE DEF Bad
    <3> QED BY <2>1, <3>1, LeastNumber
  <2>3. k \in Nat /\ k <= n /\ ~Is(k)
    BY <2>2
  <2>4. k # 0
    <3>1. Is(0)
      BY <1>1, <1>2 DEF Chain
    <3> QED BY <2>3, <3>1
  <2>5. k - 1 \in Nat /\ k - 1 < n /\ Is(k - 1) /\ (k - 1) + 1 = k
    <3>1. k - 1 \in Nat /\ k - 1 < n /\ k - 1 <= n /\ ~(k <= k - 1) /\ (k - 1) + 1 = k
      BY <2>3, <2>4, <1>1
    <3>2. k - 1 \notin Bad
      <4> HIDE DEF Bad
      <4> QED BY <2>2, <3>1
    <3> HIDE DEF Is
    <3> QED BY <3>1, <3>2
  <2>6. at[k - 1] = L[k] /\ k \in 1..n /\ k \in Steps
    <3>1. at[k - 1] = L[(k - 1) + 1]
      BY <2>5
    <3>2. k \in Steps
      BY <2>3, <1>1, StepsFacts
    <3>3. k \in 1..n
      BY <2>3, <2>4, <1>1
    <3> QED BY <3>1, <3>2, <3>3, <2>5
  <2>7. at[k] = Get(H, L[k] + 8)
    <3>1. L[k] \in Int /\ L[k] # 0
      BY <2>6, <1>3
    <3> QED BY <3>1, <2>4, <2>6, <1>2
  <2>8. Get(H, L[k] + 8) = IF k = n THEN 0 ELSE L[k + 1]
    BY <2>6 DEF Chain
  <2>9. k < n <=> k # n
    BY <2>3, <1>1
  <2> QED BY <2>3, <2>7, <2>8, <2>9
<1>5. Is(n) /\ \A i \in 0..n - 1 : Is(i)
  <2>1. ASSUME NEW i \in Nat, i <= n PROVE Is(i)
    <3> HIDE DEF Is
    <3> QED BY <1>4, <2>1
  <2> HIDE DEF Is
  <2>2. n <= n /\ \A i \in 0..n - 1 : i \in Nat /\ i <= n
    BY <1>1
  <2> QED BY <2>1, <2>2, <1>1
<1>6. \A i \in 0..n - 1 : i < n
  BY <1>1
<1> QED BY <1>1, <1>5, <1>6

\* First fit: a block of the list that is large enough, when there is one.
LEMMA FlFindAt ==
  ASSUME NEW H, NEW B, NEW K, NEW o, NEW D, NEW need \in Int, NEW h,
         At(H, B, Frees(B), K, o, D), FlFind(H, need) = h
  PROVE  \/ h = 0 /\ \A g \in Frees(B) : B[g].size < need
         \/ h # 0 /\ h \in Frees(B) /\ need <= B[h].size
<1> DEFINE X == Frees(B)
           e == H.commit - 8
           at == FlNodes(H)
           Stops(i) == at[i] = 0 \/ BSize(H, at[i]) >= need
           Best(i) == Stops(i) /\ \A j \in 0..i - 1 : ~Stops(j)
           b == CHOOSE i \in Steps : Best(i)
<1>1. /\ Shape(B, e) /\ Tagged(H, B) /\ X \subseteq DOMAIN B /\ Linked(H, X) /\ e \in Int
      /\ e <= Base + Reserve - 8
  <2>1. Shape(B, H.commit - 8) /\ Tagged(H, B) /\ X \subseteq DOMAIN B /\ Linked(H, X)
    BY AtFacts
  <2>2. H.commit \in Int /\ H.commit <= Base + Reserve
    BY AtFacts
  <2> QED BY <2>1, <2>2, BaseFacts
<1>2. PICK n \in Nat : \E L \in [1..n -> X] : Lists(L, n, X) /\ Chain(H, L, n)
  BY <1>1 DEF Linked
<1>3. PICK L \in [1..n -> X] : Lists(L, n, X) /\ Chain(H, L, n)
  BY <1>2
<1>4. n \in Steps /\ at[n] = 0 /\ \A i \in 0..n - 1 : at[i] = L[i + 1]
  <2> HIDE DEF at, X, e
  <2>1. FlNodes(H) = at
    BY DEF at
  <2> QED BY <2>1, <1>1, <1>3, NodesOfList
<1> HIDE DEF at
<1>5. \A g \in X : g \in DOMAIN B /\ g # 0 /\ BSize(H, g) = B[g].size /\ B[g].size \in Int
  <2>1. ASSUME NEW g \in X PROVE g \in DOMAIN B /\ g # 0 /\ BSize(H, g) = B[g].size /\ B[g].size \in Int
    <3>1. g \in DOMAIN B
      BY <1>1
    <3>2. g \in Int /\ FirstBlock <= g /\ B[g].size \in Nat
      BY <3>1, <1>1, BlockFacts
    <3>3. BSize(H, g) = B[g].size
      BY <3>1, <1>1, BlockBits
    <3>4. g # 0
      BY <3>2, BaseFacts
    <3> QED BY <3>1, <3>2, <3>3, <3>4
  <2> QED BY <2>1
<1>6. \E i \in Steps : Best(i)
  <2> DEFINE N == {i \in Nat : i <= n /\ Stops(i)}
  <2>1. N \subseteq Nat /\ N # {}
    <3>1. n \in N
      BY <1>4
    <3> QED BY <3>1
  <2> HIDE DEF N
  <2>2. PICK k \in N : \A m \in N : k <= m
    BY <2>1, LeastNumber
  <2>3. k \in Nat /\ k <= n /\ Stops(k)
    BY <2>2 DEF N
  <2>4. \A j \in 0..k - 1 : ~Stops(j)
    <3>1. ASSUME NEW j \in 0..k - 1, Stops(j) PROVE FALSE
      <4>1. j \in Nat /\ j <= n /\ ~(k <= j)
        BY <2>3
      <4>2. j \in N
        BY <4>1, <3>1 DEF N
      <4> QED BY <4>1, <4>2, <2>2
    <3> HIDE DEF Stops
    <3> QED BY <3>1
  <2>5. k \in Steps
    BY <2>3, <1>4, StepsFacts
  <2> QED BY <2>3, <2>4, <2>5
<1>7. b \in Steps /\ Best(b)
  <2> HIDE DEF Best
  <2> QED BY <1>6
<1>8. h = at[b]
  BY DEF FlFind, at
<1> HIDE DEF b
<1>9. b \in Nat /\ b <= n
  <2>1. ~(n \in 0..b - 1)
    BY <1>4, <1>7
  <2> QED BY <2>1, <1>7, StepsFacts
<1>10. CASE b = n
  <2>1. h = 0
    BY <1>8, <1>4, <1>10
  <2>2. ASSUME NEW g \in X PROVE B[g].size < need
    <3>1. PICK i \in 1..n : L[i] = g
      BY <1>3 DEF Lists
    <3>2. i - 1 \in 0..b - 1 /\ i - 1 \in 0..n - 1 /\ (i - 1) + 1 = i
      BY <1>10
    <3>3. at[i - 1] = g
      BY <1>4, <3>1, <3>2
    <3>4. ~Stops(i - 1)
      BY <1>7, <3>2
    <3>5. ~(B[g].size >= need) /\ B[g].size \in Int
      BY <3>3, <3>4, <1>5
    <3> QED BY <3>5
  <2> QED BY <2>1, <2>2
<1>11. CASE b # n
  <2>1. b \in 0..n - 1 /\ b + 1 \in 1..n
    BY <1>9, <1>11
  <2>2. h = L[b + 1] /\ h \in X
    BY <2>1, <1>3, <1>4, <1>8
  <2>3. h # 0 /\ BSize(H, h) >= need /\ BSize(H, h) = B[h].size /\ B[h].size \in Int
    BY <2>2, <1>5, <1>7, <1>8
  <2> QED BY <2>2, <2>3
<1> QED BY <1>10, <1>11

-----------------------------------------------------------------------------
(* Used blocks. *)

Useds(B) == {h \in DOMAIN B : B[h].used}

\* The used blocks of B and of C are the same ones, but for those at S.
SameUsed(B, C, S) ==
  \A g : g \notin S => /\ g \in Useds(B) <=> g \in Useds(C)
                       /\ g \in Useds(B) => C[g] = B[g]

UsedIn(B, lo, hi, S) == \A g \in Useds(B) : lo <= g /\ g < hi => g \in S

\* Replacing the blocks between lo and hi leaves the used ones elsewhere.
LEMMA RetileUsed ==
  ASSUME NEW B, NEW lo \in Int, NEW hi \in Int, NEW T, NEW C, NEW S, Within(T, lo, hi),
         BP!Retile(B, lo, hi, T) = C, DOMAIN B \subseteq Int,
         UsedIn(B, lo, hi, S), Useds(T) \subseteq S
  PROVE  SameUsed(B, C, S) /\ Retiles(C, B, lo, hi, T)
<1>1. Retiles(C, B, lo, hi, T)
  BY RetileParts
<1>2. /\ \A h : h \in DOMAIN C <=> (h \in DOMAIN B /\ (h < lo \/ hi <= h)) \/ h \in DOMAIN T
      /\ \A h \in DOMAIN T : C[h] = T[h]
      /\ \A h \in DOMAIN B : h < lo \/ hi <= h => C[h] = B[h]
  BY <1>1 DEF Retiles
<1>3. \A g \in DOMAIN T : g \in Int /\ lo <= g /\ g < hi
  BY DEF Within
<1>4. ASSUME NEW g, g \notin S PROVE (g \in Useds(B) <=> g \in Useds(C)) /\ (g \in Useds(B) => C[g] = B[g])
  <2>1. CASE g \in DOMAIN T
    <3>1. g \notin Useds(T) /\ C[g] = T[g]
      BY <1>2, <1>4, <2>1
    <3>2. g \notin Useds(C)
      BY <3>1, <2>1 DEF Useds
    <3>3. g \notin Useds(B)
      BY <1>3, <1>4, <2>1 DEF UsedIn
    <3> QED BY <3>2, <3>3
  <2>2. CASE g \notin DOMAIN T /\ g \in DOMAIN B /\ (g < lo \/ hi <= g)
    BY <1>2, <2>2 DEF Useds
  <2>3. CASE g \notin DOMAIN T /\ ~(g \in DOMAIN B /\ (g < lo \/ hi <= g))
    <3>1. g \notin Useds(C)
      BY <1>2, <2>3 DEF Useds
    <3>2. g \in Useds(B) => lo <= g /\ g < hi
      BY <2>3 DEF Useds
    <3> QED BY <3>1, <3>2, <1>4 DEF UsedIn
  <2> QED BY <2>1, <2>2, <2>3
<1> QED BY <1>1, <1>4 DEF SameUsed

\* Freeing the stretch between two boundaries takes the used blocks in it, no others.
LEMMA FreedUsed ==
  ASSUME NEW B, NEW e, NEW lo \in Int, NEW hi \in Int, NEW C, NEW S, Shape(B, e), lo < hi,
         BP!Freed(B, lo, hi) = C, UsedIn(B, lo, hi, S)
  PROVE  SameUsed(B, C, S) /\ \A g \in Useds(C) : g \in Useds(B) /\ (g < lo \/ hi <= g)
<1> DEFINE l == BP!Lower(B, lo)
           u == BP!Upper(B, hi)
           T == BP!One(l, u, FALSE)
<1>1. /\ l \in Int /\ l <= lo
      /\ \/ l = lo
         \/ l \in DOMAIN B /\ BP!IsFree(B, l) /\ BP!End(B, l) = lo
  BY LowerFacts
<1>2. u \in Int /\ hi <= u /\ u = IF BP!IsFree(B, hi) THEN BP!End(B, hi) ELSE hi
  BY UpperFacts
<1>3. BP!Retile(B, l, u, T) = C
  BY DEF BP!Freed
<1>4. DOMAIN T = {l} /\ T[l].used = FALSE
  BY Zenon DEF BP!One
<1> HIDE DEF l, u, T
<1>5. Within(T, l, u) /\ Useds(T) = {}
  <2>1. l < u
    BY <1>1, <1>2
  <2> QED BY <2>1, <1>1, <1>4 DEF Within, Useds
<1>6. DOMAIN B \subseteq Int
  BY BlockFacts
<1>7. ASSUME NEW g \in Useds(B), l <= g, g < u PROVE lo <= g /\ g < hi
  <2>1. g \in DOMAIN B /\ g \in Int /\ B[g].used
    BY <1>6 DEF Useds
  <2>2. lo <= g
    <3>1. SUFFICES ASSUME g < lo PROVE FALSE
      BY <2>1
    <3>2. l \in DOMAIN B /\ BP!IsFree(B, l) /\ BP!End(B, l) = lo
      BY <1>1, <1>7, <2>1, <3>1
    <3>3. l # g
      BY <3>2, <2>1 DEF BP!IsFree
    <3>4. BP!End(B, l) <= g \/ BP!End(B, g) <= l
      BY <3>2, <3>3, <2>1, BlocksApart
    <3>5. g + 32 <= BP!End(B, g) /\ BP!End(B, g) \in Int
      BY <2>1, BlockFacts
    <3> QED BY <3>1, <3>2, <3>4, <3>5, <1>1, <1>7, <2>1
  <2>3. g < hi
    <3>1. SUFFICES ASSUME hi <= g PROVE FALSE
      BY <2>1
    <3>2. BP!IsFree(B, hi) /\ BP!End(B, hi) = u
      BY <1>2, <1>7, <2>1, <3>1
    <3>3. hi # g /\ hi \in DOMAIN B
      BY <3>2, <2>1 DEF BP!IsFree
    <3>4. BP!End(B, hi) <= g \/ BP!End(B, g) <= hi
      BY <3>3, <2>1, BlocksApart
    <3>5. g + 32 <= BP!End(B, g) /\ BP!End(B, g) \in Int
      BY <2>1, BlockFacts
    <3> QED BY <3>1, <3>2, <3>4, <3>5, <1>2, <1>7, <2>1
  <2> QED BY <2>2, <2>3
<1>8. /\ SameUsed(B, C, S)
      /\ \A g \in DOMAIN T : C[g] = T[g]
      /\ \A g \in DOMAIN C : g \in DOMAIN T \/ (g \in DOMAIN B /\ (g < l \/ u <= g) /\ C[g] = B[g])
  <2>1. UsedIn(B, l, u, S)
    BY <1>7 DEF UsedIn
  <2>2. Useds(T) \subseteq S
    BY <1>5
  <2>3. l \in Int /\ u \in Int /\ Within(T, l, u) /\ BP!Retile(B, l, u, T) = C
    BY <1>1, <1>2, <1>3, <1>5
  <2>4. SameUsed(B, C, S) /\ Retiles(C, B, l, u, T)
    BY <2>1, <2>2, <2>3, <1>6, RetileUsed
  <2> QED BY <2>4 DEF Retiles
<1>9. ASSUME NEW g \in Useds(C) PROVE g \in Useds(B) /\ (g < lo \/ hi <= g)
  <2>1. g \in DOMAIN C /\ C[g].used
    BY DEF Useds
  <2>2. g \notin DOMAIN T
    BY <2>1, <1>4, <1>8
  <2>3. g \in DOMAIN B /\ (g < l \/ u <= g) /\ C[g] = B[g]
    BY <2>1, <2>2, <1>8
  <2>4. g < lo \/ hi <= g
    BY <2>3, <1>1, <1>2, <1>6
  <2> QED BY <2>1, <2>3, <2>4 DEF Useds
<1> QED BY <1>8, <1>9

\* A block that begins within another block is that block.
LEMMA OneInside ==
  ASSUME NEW B, NEW e, Shape(B, e), NEW h \in DOMAIN B, NEW g \in DOMAIN B, h <= g, g < BP!End(B, h)
  PROVE  g = h
<1>1. SUFFICES ASSUME g # h PROVE FALSE
  OBVIOUS
<1>2. BP!End(B, h) <= g \/ BP!End(B, g) <= h
  BY <1>1, BlocksApart
<1>3. g + 32 <= BP!End(B, g) /\ BP!End(B, g) \in Int /\ BP!End(B, h) \in Int /\ g \in Int /\ h \in Int
  BY BlockFacts
<1> QED BY <1>2, <1>3

\* What heap_place leaves of the stretch it is given.
LEMMA PlacedParts ==
  ASSUME NEW lo \in Int, NEW hi \in Int, NEW need \in Int, NEW T, 32 <= need, lo + need <= hi,
         BP!Placed(lo, hi, need) = T
  PROVE  /\ Within(T, lo, hi) /\ Useds(T) = {lo} /\ lo \in DOMAIN T /\ T[lo].used = TRUE
         /\ need <= T[lo].size /\ T[lo].size \in Int
<1>1. CASE hi - lo - need >= 32
  <2>1. T = BP!Two(lo, lo + need, hi, FALSE)
    BY <1>1, Zenon DEF BP!Placed
  <2>2. lo # lo + need /\ lo < hi /\ lo < lo + need /\ lo + need < hi
    BY <1>1
  <2>3. /\ DOMAIN T = {lo, lo + need} /\ T[lo].used = TRUE /\ T[lo].size = need
        /\ T[lo + need].used = FALSE
    BY <2>1, <2>2 DEF BP!Two
  <2> QED BY <2>2, <2>3 DEF Within, Useds
<1>2. CASE ~(hi - lo - need >= 32)
  <2>1. T = BP!One(lo, hi, TRUE)
    BY <1>2, Zenon DEF BP!Placed
  <2>2. DOMAIN T = {lo} /\ T[lo].used = TRUE /\ T[lo].size = hi - lo
    BY <2>1 DEF BP!One
  <2>3. lo < hi /\ need <= hi - lo
    OBVIOUS
  <2> QED BY <2>2, <2>3 DEF Within, Useds
<1> QED BY <1>1, <1>2

\* heap_place makes the block h a used one and touches no other used block.
LEMMA PlaceUsed ==
  ASSUME NEW B, NEW e, NEW h, NEW need \in Int, NEW C, Shape(B, e), 32 <= need, BP!Fits(B, h, need),
         BP!Place(B, h, need) = C
  PROVE  /\ SameUsed(B, C, {h}) /\ h \notin Useds(B) /\ h \in Useds(C)
         /\ need <= C[h].size /\ C[h].size \in Int
<1> DEFINE hi == BP!End(B, h)
           T == BP!Placed(h, hi, need)
<1>1. h \in DOMAIN B /\ ~B[h].used /\ B[h].size >= need
  BY DEF BP!Fits, BP!IsFree
<1>2. h \in Int /\ hi \in Int /\ B[h].size \in Int /\ hi = h + B[h].size
  BY <1>1, BlockFacts
<1>3. h + need <= hi
  BY <1>1, <1>2
<1>4. UsedIn(B, h, hi, {h})
  BY <1>1, OneInside DEF Useds, UsedIn
<1>5. BP!Retile(B, h, hi, T) = C
  BY DEF BP!Place
<1>6. DOMAIN B \subseteq Int
  BY BlockFacts
<1> HIDE DEF hi
<1>7. /\ Within(T, h, hi) /\ Useds(T) = {h} /\ h \in DOMAIN T /\ T[h].used = TRUE
      /\ need <= T[h].size /\ T[h].size \in Int
  BY <1>2, <1>3, PlacedParts
<1> HIDE DEF T
<1>8. Useds(T) \subseteq {h}
  BY <1>7
<1>9. SameUsed(B, C, {h}) /\ h \in DOMAIN C /\ C[h] = T[h]
  <2>1. h \in Int /\ hi \in Int /\ Within(T, h, hi) /\ h \in DOMAIN T
    BY <1>2, <1>7
  <2>2. SameUsed(B, C, {h}) /\ Retiles(C, B, h, hi, T)
    BY <2>1, <1>2, <1>4, <1>5, <1>6, <1>8, RetileUsed
  <2> QED BY <2>1, <2>2 DEF Retiles
<1> QED BY <1>1, <1>7, <1>9 DEF Useds

-----------------------------------------------------------------------------
(* The heap at rest. *)

\* There is no region: nothing was asked for yet, or heap_init failed.
Bare(H, B, K, o, D) ==
  /\ IsHeap(H) /\ H.base = 0 /\ H.free = 0 /\ H.ready \in BOOLEAN
  /\ IsFcn(B) /\ DOMAIN B = {}
  /\ DOMAIN H.mem = D /\ Outside(D) /\ \A a \in K : a \in D /\ Get(H, a) = Get(o, a)

Rest(H, B, K, o, D) ==
  \/ Bare(H, B, K, o, D)
  \/ At(H, B, Frees(B), K, o, D) /\ BP!NoNeighboursFree(B)

\* Where the last block ends.
Brk(H) == IF H.base = 0 THEN FirstBlock ELSE H.commit - 8

\* The region with blocks B that ends at e becomes C that ends at f, and h is the
\* block of C that was taken.
TookHere(B, e, C, f, need, h) ==
  f = e /\ BP!Fits(B, h, need) /\ BP!Place(B, h, need) = C
TookGrown(B, e, C, f, need, h) ==
  /\ \A g \in DOMAIN B : ~BP!Fits(B, g, need)
  /\ f \in Int /\ e + 32 <= f /\ f <= Base + Reserve - 8
  /\ \E M : BP!Freed(B, e, f) = M /\ BP!Fits(M, h, need) /\ BP!Place(M, h, need) = C
Took(B, e, C, f, need, h) == TookHere(B, e, C, f, need, h) \/ TookGrown(B, e, C, f, need, h)

\* The region was set up: one free block.
SetUp(B, e, C, f) ==
  /\ e = FirstBlock /\ f \in Int /\ e + 32 <= f /\ f <= Base + Reserve - 8
  /\ BP!Freed(B, e, f) = C

\* A heap at rest, set up or not.
LEMMA RestFacts ==
  ASSUME NEW H, NEW B, NEW K, NEW o, NEW D, Rest(H, B, K, o, D)
  PROVE  /\ IsHeap(H) /\ Outside(D) /\ H.ready \in BOOLEAN /\ IsFcn(B)
         /\ H.base = 0 <=> Bare(H, B, K, o, D)
         /\ H.base # 0 => At(H, B, Frees(B), K, o, D) /\ BP!NoNeighboursFree(B)
         /\ H.base \in {0, Base} /\ Base # 0
         /\ D \subseteq DOMAIN H.mem
<1>1. Base # 0
  BY BaseFacts
<1>2. CASE Bare(H, B, K, o, D)
  BY <1>1, <1>2 DEF Bare
<1>3. CASE At(H, B, Frees(B), K, o, D) /\ BP!NoNeighboursFree(B)
  <2>1. Grounds(H) /\ Shape(B, H.commit - 8) /\ IsHeap(H)
    BY <1>3, AtFacts
  <2>2. H.base = Base /\ H.ready = TRUE /\ IsFcn(B)
    BY <2>1 DEF Grounds, Shape, IsFcn
  <2>3. ~Bare(H, B, K, o, D)
    BY <2>2, <1>1 DEF Bare
  <2>4. Outside(D) /\ D \subseteq DOMAIN H.mem
    BY <1>3 DEF At
  <2> QED BY <1>1, <1>3, <2>1, <2>2, <2>3, <2>4
<1> QED BY <1>2, <1>3 DEF Rest

\* heap_place leaves no two neighbours free.
LEMMA PlaceKeeps ==
  ASSUME NEW B, NEW e, NEW h, NEW need, NEW C, Shape(B, e), BP!NoNeighboursFree(B), IsNeed(need),
         BP!Fits(B, h, need), BP!Place(B, h, need) = C
  PROVE  BP!NoNeighboursFree(C)
<1>1. BP!Good(B, e)
  BY GoodShape
<1>2. h \in DOMAIN B /\ need \in {Need(n) : n \in Requests}
  BY DEF BP!Fits, BP!IsFree, IsNeed
<1>3. BP!Good(BP!Place(B, h, need), e)
  BY <1>1, <1>2, BP!PlaceKeepsGood, RegionOK
<1>4. BP!Good(C, e)
  BY <1>3
<1> QED BY <1>4 DEF BP!Good

\* Taking a block that fits.
LEMMA TakeRest ==
  ASSUME NEW H, NEW B, NEW K, NEW o, NEW D, NEW h, NEW need, NEW G,
         At(H, B, Frees(B), K, o, D), BP!NoNeighboursFree(B), IsNeed(need), h \in Frees(B),
         need <= B[h].size, PlaceIn(FlRemove(H, h), h, need) = G
  PROVE  \E C : /\ BP!Fits(B, h, need) /\ BP!Place(B, h, need) = C
                /\ At(G, C, Frees(C), K, o, D) /\ BP!NoNeighboursFree(C) /\ G.commit = H.commit
<1> DEFINE C == BP!Place(B, h, need)
           e == H.commit - 8
<1>1. need \in Int /\ 32 <= need /\ need % 16 = 0
  BY DEF IsNeed
<1>2. Shape(B, e) /\ h \in DOMAIN B /\ e \in Int /\ FirstBlock + 32 <= e /\ H.commit \in Int
  BY AtFacts DEF Frees
<1>3. BP!Fits(B, h, need)
  <2>1. B[h].size \in Int
    BY <1>2, BlockFacts
  <2> QED BY <2>1, <1>1, <1>2 DEF BP!Fits, BP!IsFree, Frees
<1> HIDE DEF C
<1>4. BP!Place(B, h, need) = C
  BY DEF C
<1>5. At(G, C, Frees(C), K, o, D)
  BY <1>1, <1>4, TakeAt
<1>6. BP!NoNeighboursFree(C)
  BY <1>2, <1>3, <1>4, PlaceKeeps
<1>7. G.commit = H.commit
  <2>1. Shape(C, G.commit - 8) /\ G.commit \in Int /\ FirstBlock + 32 <= G.commit - 8
    BY <1>5, AtFacts
  <2>2. Shape(C, e)
    <3>1. BP!Good(BP!Place(B, h, need), e)
      <4>1. BP!Good(B, e) /\ need \in {Need(n) : n \in Requests}
        BY <1>2, GoodShape DEF IsNeed
      <4> QED BY <4>1, <1>2, <1>3, BP!PlaceKeepsGood, RegionOK
    <3>2. BP!Good(C, e)
      BY <3>1 DEF C
    <3>3. e % 16 = 8
      BY <1>2 DEF Shape
    <3> QED BY <1>2, <2>1, <3>2, <3>3 DEF Shape, BP!Good
  <2>3. FirstBlock # e /\ FirstBlock # G.commit - 8
    BY <1>2, <2>1, BaseFacts
  <2>4. G.commit - 8 = e
    BY <2>1, <2>2, <2>3, SameEnd
  <2> QED BY <2>1, <2>4, <1>2
<1> QED BY <1>3, <1>4, <1>5, <1>6, <1>7

\* On an empty list heap_fl_find finds nothing.
LEMMA FindNone ==
  ASSUME NEW H, NEW need, H.free = 0
  PROVE  FlFind(H, need) = 0
<1> DEFINE at == FlNodes(H)
           Stops(i) == at[i] = 0 \/ BSize(H, at[i]) >= need
           Best(i) == Stops(i) /\ \A j \in 0..i - 1 : ~Stops(j)
           b == CHOOSE i \in Steps : Best(i)
<1>1. at[0] = 0 /\ 0 \in Steps
  BY FlNodesStep, StepsFacts
<1>2. Best(0)
  BY <1>1
<1>3. b \in Steps /\ Best(b)
  <2> HIDE DEF Best
  <2> QED BY <1>1, <1>2
<1>4. b = 0
  <2> HIDE DEF b
  <2>1. b \in Nat /\ ~(0 \in 0..b - 1)
    BY <1>1, <1>3, StepsFacts
  <2> QED BY <2>1
<1>5. FlFind(H, need) = at[b]
  BY DEF FlFind
<1> HIDE DEF b, at
<1> QED BY <1>1, <1>4, <1>5

\* A small request is refused or takes a block, of the region as it is or grown.
LEMMA SmallRest ==
  ASSUME NEW H, NEW B, NEW K, NEW o, NEW D, NEW req, NEW need, NEW r,
         Rest(H, B, K, o, D), IsNeed(need), Need(req) = need, r \in SmallOutcomes(H, req)
  PROVE  \/ r.ptr = 0 /\ r.heap = H
         \/ \E h, C : /\ r.ptr = h + 8 /\ h \in Int /\ h > 0 /\ H.base # 0
                      /\ At(r.heap, C, Frees(C), K, o, D) /\ BP!NoNeighboursFree(C)
                      /\ Took(B, H.commit - 8, C, r.heap.commit - 8, need, h)
<1> DEFINE h == FlFind(H, need)
           e == H.commit - 8
<1>0. need \in Int /\ 32 <= need
  BY DEF IsNeed
<1>1. CASE H.base = 0
  <2>1. h = 0
    BY <1>1, RestFacts, FindNone DEF Bare
  <2>2. \A x \in ExtendOutcomes(H, need) : x.at = 0 /\ x.heap = H
    BY <1>1 DEF ExtendOutcomes
  <2> HIDE DEF h
  <2>3. PICK x \in ExtendOutcomes(H, need) :
          r = IF x.at = 0 THEN [heap |-> x.heap, ptr |-> 0]
              ELSE [heap |-> PlaceIn(FlRemove(x.heap, x.at), x.at, need), ptr |-> x.at + 8]
    BY <2>1 DEF SmallOutcomes, h
  <2> QED BY <2>2, <2>3
<1>2. CASE H.base # 0
  <2>1. At(H, B, Frees(B), K, o, D) /\ BP!NoNeighboursFree(B)
    BY <1>2, RestFacts
  <2>2. Shape(B, e) /\ H.commit \in Int /\ e \in Int /\ FirstBlock + 32 <= e
    BY <2>1, AtFacts
  <2>3. \/ h = 0 /\ \A g \in Frees(B) : B[g].size < need
        \/ h # 0 /\ h \in Frees(B) /\ need <= B[h].size
    BY <1>0, <2>1, FlFindAt
  <2>4. CASE h # 0
    <3>1. r = [heap |-> PlaceIn(FlRemove(H, h), h, need), ptr |-> h + 8]
      BY <2>4 DEF SmallOutcomes
    <3> DEFINE G == PlaceIn(FlRemove(H, h), h, need)
    <3> HIDE DEF h
    <3>2. h \in Frees(B) /\ need <= B[h].size
      BY <2>3, <2>4
    <3>3. PICK C : /\ BP!Fits(B, h, need) /\ BP!Place(B, h, need) = C
                   /\ At(G, C, Frees(C), K, o, D) /\ BP!NoNeighboursFree(C) /\ G.commit = H.commit
      BY <2>1, <3>2, TakeRest
    <3> HIDE DEF G
    <3>4. h \in Int /\ h > 0
      <4>1. h \in DOMAIN B
        BY <3>2 DEF Frees
      <4>2. h \in Int /\ FirstBlock <= h
        BY <4>1, <2>2, BlockFacts
      <4> QED BY <4>2, BaseFacts
    <3>5. Took(B, e, C, G.commit - 8, need, h)
      BY <3>3 DEF Took, TookHere
    <3>6. r.heap = G /\ r.ptr = h + 8
      BY <3>1 DEF G
    <3> HIDE DEF e
    <3> QED BY <1>2, <3>3, <3>4, <3>5, <3>6 DEF e
  <2>5. CASE h = 0
    <3>1. PICK x \in ExtendOutcomes(H, need) :
            r = IF x.at = 0 THEN [heap |-> x.heap, ptr |-> 0]
                ELSE [heap |-> PlaceIn(FlRemove(x.heap, x.at), x.at, need), ptr |-> x.at + 8]
      BY <2>5 DEF SmallOutcomes
    <3> HIDE DEF h
    <3>2. \/ x.at = 0 /\ x.heap = H
          \/ \E f, M : ExtendedTo(x.heap, x.at, B, e, f, M, K, o, D, need)
      <4>1. e + 8 = H.commit
        BY <2>2
      <4> HIDE DEF e
      <4> QED BY <4>1, <2>1, <2>2, ExtendAt
    <3>3. CASE x.at = 0 /\ x.heap = H
      BY <3>1, <3>3
    <3>4. CASE \E f, M : ExtendedTo(x.heap, x.at, B, e, f, M, K, o, D, need)
      <4> DEFINE y == x.heap
                 g == x.at
                 G == PlaceIn(FlRemove(y, g), g, need)
      <4>1. PICK f, M : ExtendedTo(y, g, B, e, f, M, K, o, D, need)
        BY <3>4
      <4> HIDE DEF y, g
      <4>2. /\ f \in Int /\ e + 32 <= f /\ f <= Base + Reserve - 8 /\ BP!Freed(B, e, f) = M
            /\ At(y, M, Frees(M), K, o, D) /\ BP!NoNeighboursFree(M) /\ y.commit = f + 8
            /\ g \in Frees(M) /\ need <= M[g].size
        BY <4>1 DEF ExtendedTo
      <4>3. PICK C : /\ BP!Fits(M, g, need) /\ BP!Place(M, g, need) = C
                     /\ At(G, C, Frees(C), K, o, D) /\ BP!NoNeighboursFree(C) /\ G.commit = y.commit
        BY <4>2, TakeRest
      <4> HIDE DEF G
      <4>4. g \in Int /\ g > 0
        <5>1. g \in DOMAIN M /\ Shape(M, y.commit - 8)
          BY <4>2, AtFacts DEF Frees
        <5>2. g \in Int /\ FirstBlock <= g
          BY <5>1, BlockFacts
        <5> QED BY <5>2, BaseFacts
      <4>5. \A k \in DOMAIN B : ~BP!Fits(B, k, need)
        <5>1. ASSUME NEW k \in DOMAIN B, BP!Fits(B, k, need) PROVE FALSE
          <6>1. k \in Frees(B) /\ B[k].size >= need
            BY <5>1 DEF BP!Fits, BP!IsFree, Frees
          <6>2. B[k].size < need /\ B[k].size \in Int
            BY <6>1, <2>2, <2>3, <2>5, BlockFacts
          <6> QED BY <6>1, <6>2, <1>0
        <5> QED BY <5>1
      <4>6. G.commit - 8 = f
        BY <4>2, <4>3
      <4>7. Took(B, e, C, f, need, g)
        BY <4>2, <4>3, <4>5 DEF Took, TookGrown
      <4>8. r.heap = G /\ r.ptr = g + 8
        <5>1. g # 0
          BY <4>4
        <5> QED BY <5>1, <3>1 DEF G, y, g
      <4> QED BY <1>2, <4>3, <4>4, <4>6, <4>7, <4>8
    <3> QED BY <3>2, <3>3, <3>4
  <2> QED BY <2>4, <2>5
<1> QED BY <1>1, <1>2

\* Setting up the region and growing it at once is growing it.
LEMMA SetUpThenGrown ==
  ASSUME NEW B, NEW e \in Int, NEW B1, NEW f1 \in Int, NEW f \in Int, DOMAIN B = {},
         e + 32 <= f1, f1 + 32 <= f, e % 16 = 8, f1 % 16 = 8, f % 16 = 8, BP!Freed(B, e, f1) = B1
  PROVE  BP!Freed(B1, f1, f) = BP!Freed(B, e, f)
<1>1. \A g : BP!Lower(B, g) = g /\ BP!Upper(B, g) = g
  BY DEF BP!Lower, BP!Upper, BP!IsFree
<1>2. B1 = BP!Retile(B, e, f1, FreeOne(e, f1))
  BY <1>1, Zenon DEF BP!Freed, FreeOne
<1> DEFINE T1 == FreeOne(e, f1)
           T == FreeOne(e, f)
<1>3. (\A x : x \in DOMAIN T1 <=> x = e) /\ BP!End(T1, e) = f1 /\ T1[e].used = FALSE
  <2>1. DOMAIN T1 = {e} /\ T1[e].used = FALSE /\ T1[e].size = f1 - e
    BY DEF FreeOne, BP!One
  <2> QED BY <2>1 DEF BP!End
<1> HIDE DEF T1
<1>4. Retiles(B1, B, e, f1, T1)
  <2>1. Within(T1, e, f1)
    BY <1>3 DEF Within
  <2> QED BY <2>1, <1>2, RetileParts DEF T1
<1>5. /\ \A x : x \in DOMAIN B1 <=> x = e
      /\ BP!End(B1, e) = f1 /\ B1[e].used = FALSE
  BY <1>3, <1>4 DEF Retiles
<1>6. BP!Lower(B1, f1) = e
  <2>1. e \in DOMAIN B1 /\ BP!IsFree(B1, e)
    BY <1>5 DEF BP!IsFree
  <2>2. \A x \in DOMAIN B1 : BP!IsFree(B1, x) /\ BP!End(B1, x) = f1 => x = e
    BY <1>5
  <2> QED BY <2>1, <2>2, <1>5, LowerIs
<1>7. BP!Upper(B1, f) = f
  <2>1. f \notin DOMAIN B1
    BY <1>5
  <2> QED BY <2>1 DEF BP!Upper, BP!IsFree
<1>8. BP!Freed(B1, f1, f) = BP!Retile(B1, e, f, T)
  BY <1>6, <1>7, Zenon DEF BP!Freed, FreeOne
<1>9. BP!Freed(B, e, f) = BP!Retile(B, e, f, T)
  BY <1>1, Zenon DEF BP!Freed, FreeOne
<1>10. BP!Retile(BP!Retile(B, e, f1, T1), e, f, T) = BP!Retile(B, e, f, T)
  <2>1. Within(T1, e, f1)
    BY <1>3 DEF Within
  <2>2. Within(T, e, f)
    <3>1. DOMAIN T = {e} /\ e < f
      BY DEF FreeOne, BP!One
    <3> QED BY <3>1 DEF Within
  <2>3. \A h \in DOMAIN B : h \in Int
    OBVIOUS
  <2> HIDE DEF T
  <2> QED BY <2>1, <2>2, <2>3, RetileTwice
<1> QED BY <1>2, <1>8, <1>9, <1>10 DEF T1

\* heap_init fails and nothing changed, or the region is one free block.
LEMMA InitRest ==
  ASSUME NEW H, NEW B, NEW K, NEW o, NEW D, NEW G, Rest(H, B, K, o, D), G \in InitOutcomes(H)
  PROVE  \/ Rest(G, B, K, o, D) /\ Brk(G) = Brk(H)
         \/ \E C : /\ DOMAIN B = {} /\ At(G, C, Frees(C), K, o, D) /\ BP!NoNeighboursFree(C)
                   /\ SetUp(B, Brk(H), C, Brk(G))
<1>1. CASE G = H
  BY <1>1
<1>2. CASE G # H
  <2>1. G = LaidOut(H) \/ G = [H EXCEPT !.ready = TRUE]
    BY <1>2 DEF InitOutcomes
  <2>2. Bare(H, B, K, o, D)
    <3>1. H.ready # TRUE
      BY <1>2 DEF InitOutcomes
    <3>2. H.base = 0
      <4>1. SUFFICES ASSUME H.base # 0 PROVE FALSE
        OBVIOUS
      <4>2. Grounds(H)
        BY <4>1, RestFacts, AtFacts
      <4> QED BY <4>2, <3>1 DEF Grounds
    <3> QED BY <3>2, RestFacts
  <2>3. CASE G = LaidOut(H)
    <3> DEFINE f == Base + 24
               e == Base + Chunk - 8
               C == FreeOne(f, e)
    <3>1. /\ Base \in Int /\ Chunk \in Int /\ f \in Int /\ e \in Int /\ f = FirstBlock /\ f + 32 <= e /\ f < e
          /\ e <= Base + Reserve - 8 /\ e + 8 = Base + Chunk /\ Base # 0
      BY BaseFacts
    <3>2. IsHeap(H) /\ DOMAIN H.mem = D /\ Outside(D) /\ \A a \in K : a \in D /\ Get(H, a) = Get(o, a)
      BY <2>2 DEF Bare
    <3>3. At(G, C, Frees(C), K, o, D) /\ G.commit = Base + Chunk
      <4>1. Base + Chunk - 8 = e /\ Base + 24 = f
        OBVIOUS
      <4> HIDE DEF e, f
      <4>2. FreeOne(f, e) = C
        OBVIOUS
      <4> HIDE DEF C
      <4> QED BY <4>1, <4>2, <3>1, <3>2, <2>3, LaidOutAt
    <3>4. (\A x : x \in DOMAIN C <=> x = f) /\ BP!End(C, f) = e
      <4>1. DOMAIN C = {f} /\ C[f].size = e - f
        BY DEF FreeOne, BP!One
      <4> QED BY <4>1, <3>1 DEF BP!End
    <3>5. BP!NoNeighboursFree(C)
      <4>1. e # f
        BY <3>1
      <4> HIDE DEF C, e, f
      <4> QED BY <4>1, <3>4 DEF BP!NoNeighboursFree, BP!IsFree
    <3>6. G.base # 0 /\ H.base = 0
      <4>1. Grounds(G)
        BY <3>3, AtFacts
      <4> QED BY <4>1, <2>2, <3>1 DEF Grounds, Bare
    <3>7. Brk(H) = f /\ Brk(G) = e
      BY <3>1, <3>3, <3>6 DEF Brk
    <3>8. DOMAIN B = {} /\ IsFcn(B)
      BY <2>2 DEF Bare
    <3>9. BP!Freed(B, f, e) = C
      <4>1. BP!Lower(B, f) = f /\ BP!Upper(B, e) = e
        BY <3>8 DEF BP!Lower, BP!Upper, BP!IsFree
      <4>2. BP!Freed(B, f, e) = BP!Retile(B, f, e, FreeOne(f, e))
        BY <4>1, Zenon DEF BP!Freed, FreeOne
      <4> DEFINE R == BP!Retile(B, f, e, C)
      <4>3. Within(C, f, e)
        <5> HIDE DEF C, f, e
        <5> QED BY <3>1, <3>4 DEF Within
      <4>4. Retiles(R, B, f, e, C)
        <5> HIDE DEF C, f, e
        <5> QED BY <4>3, <3>1, RetileParts
      <4>5. IsFcn(C)
        BY DEF FreeOne, BP!One, IsFcn
      <4>6. R = C
        <5>1. IsFcn(R) /\ (\A h : h \in DOMAIN R <=> h \in DOMAIN C) /\ (\A h \in DOMAIN R : R[h] = C[h])
          <6> HIDE DEF R, C
          <6> QED BY <4>4, <3>8 DEF Retiles
        <5> HIDE DEF R, C
        <5> QED BY <5>1, <4>5, SameBlocks
      <4> QED BY <4>2, <4>6
    <3>10. SetUp(B, Brk(H), C, Brk(G))
      <4> HIDE DEF C, e, f
      <4> QED BY <3>1, <3>7, <3>9 DEF SetUp
    <3> QED BY <3>3, <3>5, <3>8, <3>10
  <2>4. CASE G = [H EXCEPT !.ready = TRUE]
    <3>1. IsHeap(G) /\ G.base = 0 /\ G.free = 0 /\ G.ready = TRUE /\ G.mem = H.mem
      BY <2>2, <2>4 DEF Bare, IsHeap
    <3>2. \A a : Get(G, a) = Get(H, a)
      BY <3>1 DEF Get
    <3>3. Bare(G, B, K, o, D)
      BY <2>2, <3>1, <3>2 DEF Bare
    <3>4. Brk(G) = Brk(H)
      BY <2>2, <3>1 DEF Brk, Bare
    <3> QED BY <3>3, <3>4 DEF Rest
  <2> QED BY <2>1, <2>3, <2>4
<1> QED BY <1>1, <1>2

\* What an operation does to a region when it takes no block: nothing, or it sets it up.
Readied(B, e, C, f) == (C = B /\ f = e) \/ SetUp(B, e, C, f)

\* A small request, from heap_init on.
LEMMA SmallMalloc ==
  ASSUME NEW H, NEW B, NEW K, NEW o, NEW D, NEW G, NEW req, NEW need, NEW r,
         Rest(H, B, K, o, D), IsNeed(need), Need(req) = need,
         G \in InitOutcomes(H), r \in SmallOutcomes(G, req)
  PROVE  \/ r.ptr = 0 /\ \E C : Rest(r.heap, C, K, o, D) /\ Readied(B, Brk(H), C, Brk(r.heap))
         \/ \E h, C : /\ r.ptr = h + 8 /\ h \in Int /\ h > 0
                      /\ At(r.heap, C, Frees(C), K, o, D) /\ BP!NoNeighboursFree(C)
                      /\ Took(B, Brk(H), C, Brk(r.heap), need, h)
<1>1. ASSUME NEW M, NEW x, NEW L, At(x, M, L, K, o, D) PROVE Brk(x) = x.commit - 8
  <2>1. Grounds(x)
    BY <1>1, AtFacts
  <2> QED BY <2>1, BaseFacts DEF Grounds, Brk
<1>2. CASE Rest(G, B, K, o, D) /\ Brk(G) = Brk(H)
  <2>1. \/ r.ptr = 0 /\ r.heap = G
        \/ \E h, C : /\ r.ptr = h + 8 /\ h \in Int /\ h > 0 /\ G.base # 0
                     /\ At(r.heap, C, Frees(C), K, o, D) /\ BP!NoNeighboursFree(C)
                     /\ Took(B, G.commit - 8, C, r.heap.commit - 8, need, h)
    BY <1>2, SmallRest
  <2>2. CASE r.ptr = 0 /\ r.heap = G
    BY <1>2, <2>2 DEF Readied
  <2>3. ASSUME NEW h, NEW C, r.ptr = h + 8, h \in Int, h > 0, G.base # 0,
               At(r.heap, C, Frees(C), K, o, D), BP!NoNeighboursFree(C),
               Took(B, G.commit - 8, C, r.heap.commit - 8, need, h)
        PROVE  Took(B, Brk(H), C, Brk(r.heap), need, h)
    <3>1. Brk(r.heap) = r.heap.commit - 8
      BY <1>1, <2>3
    <3>2. Brk(G) = G.commit - 8
      BY <2>3 DEF Brk
    <3> QED BY <1>2, <2>3, <3>1, <3>2
  <2> QED BY <2>1, <2>2, <2>3
<1>3. ASSUME NEW B1, DOMAIN B = {}, At(G, B1, Frees(B1), K, o, D), BP!NoNeighboursFree(B1),
             SetUp(B, Brk(H), B1, Brk(G))
      PROVE  \/ r.ptr = 0 /\ \E C : Rest(r.heap, C, K, o, D) /\ Readied(B, Brk(H), C, Brk(r.heap))
             \/ \E h, C : /\ r.ptr = h + 8 /\ h \in Int /\ h > 0
                          /\ At(r.heap, C, Frees(C), K, o, D) /\ BP!NoNeighboursFree(C)
                          /\ Took(B, Brk(H), C, Brk(r.heap), need, h)
  <2>1. Rest(G, B1, K, o, D)
    BY <1>3 DEF Rest
  <2>2. \/ r.ptr = 0 /\ r.heap = G
        \/ \E h, C : /\ r.ptr = h + 8 /\ h \in Int /\ h > 0 /\ G.base # 0
                     /\ At(r.heap, C, Frees(C), K, o, D) /\ BP!NoNeighboursFree(C)
                     /\ Took(B1, G.commit - 8, C, r.heap.commit - 8, need, h)
    BY <2>1, SmallRest
  <2>3. CASE r.ptr = 0 /\ r.heap = G
    BY <1>3, <2>1, <2>3 DEF Readied
  <2>4. ASSUME NEW h, NEW C, r.ptr = h + 8, h \in Int, h > 0, G.base # 0,
               At(r.heap, C, Frees(C), K, o, D), BP!NoNeighboursFree(C),
               Took(B1, G.commit - 8, C, r.heap.commit - 8, need, h)
        PROVE  Took(B, Brk(H), C, Brk(r.heap), need, h)
    <3> DEFINE e == Brk(H)
               f1 == G.commit - 8
               f == r.heap.commit - 8
    <3>1. Brk(r.heap) = f /\ Brk(G) = f1
      BY <1>1, <1>3, <2>4
    <3>2. e = FirstBlock /\ f1 \in Int /\ e + 32 <= f1 /\ f1 <= Base + Reserve - 8 /\ BP!Freed(B, e, f1) = B1
      BY <1>3, <3>1 DEF SetUp
    <3>3. e \in Int /\ e % 16 = 8
      BY <3>2, BaseFacts
    <3>4. f1 % 16 = 8 /\ f % 16 = 8 /\ f \in Int
      <4>1. (G.commit - 8) % 16 = 8
        BY <1>3, AtFacts
      <4>2. (r.heap.commit - 8) % 16 = 8 /\ r.heap.commit \in Int
        BY <2>4, AtFacts
      <4> QED BY <4>1, <4>2
    <3>5. \A g \in DOMAIN B : ~BP!Fits(B, g, need)
      BY <1>3
    <3>6. Took(B1, f1, C, f, need, h)
      BY <2>4
    <3> HIDE DEF e, f1, f
    <3>7. CASE TookHere(B1, f1, C, f, need, h)
      <4>1. f = f1 /\ BP!Fits(B1, h, need) /\ BP!Place(B1, h, need) = C
        BY <3>7 DEF TookHere
      <4>2. TookGrown(B, e, C, f, need, h)
        BY <4>1, <3>2, <3>5 DEF TookGrown
      <4> QED BY <4>2, <3>1 DEF Took, e
    <3>8. CASE TookGrown(B1, f1, C, f, need, h)
      <4>1. /\ f1 + 32 <= f /\ f <= Base + Reserve - 8
            /\ \E M : BP!Freed(B1, f1, f) = M /\ BP!Fits(M, h, need) /\ BP!Place(M, h, need) = C
        BY <3>8 DEF TookGrown
      <4>2. BP!Freed(B1, f1, f) = BP!Freed(B, e, f)
        BY <4>1, <3>2, <3>3, <3>4, <1>3, SetUpThenGrown
      <4>3. e + 32 <= f
        BY <4>1, <3>2, <3>3, <3>4
      <4>4. TookGrown(B, e, C, f, need, h)
        BY <4>1, <4>2, <4>3, <3>4, <3>5 DEF TookGrown
      <4> QED BY <4>4, <3>1 DEF Took, e
    <3> QED BY <3>6, <3>7, <3>8 DEF Took
  <2> QED BY <2>2, <2>3, <2>4
<1> QED BY <1>2, <1>3, InitRest

-----------------------------------------------------------------------------
(* Writes that leave the allocator's own words alone. *)

\* The words of the region that the allocator reads: sentinels, tags, links.
Essential(e, B, X, a) ==
  \/ a = Base + 16 \/ a = e
  \/ \E h \in DOMAIN B : a = h \/ a = BP!End(B, h) - 8
  \/ \E h \in X : a = h + 8 \/ a = h + 16

\* The words of the region that ends at e.
RegionWords(e) == {a \in Base .. e : a % 8 = 0}

\* A heap that differs only in words that are not the allocator's own.
LEMMA FrameAt ==
  ASSUME NEW H, NEW B, NEW X, NEW K, NEW o, NEW D, At(H, B, X, K, o, D),
         NEW G, IsHeap(G), SameFields(H, G), G.free = H.free,
         \A a : Essential(H.commit - 8, B, X, a) => Get(G, a) = Get(H, a),
         NEW E, DOMAIN G.mem = RegionWords(H.commit - 8) \cup E, Outside(E),
         NEW M, NEW u, Kept(G, B, X, M, u, E)
  PROVE  At(G, B, X, M, u, E)
<1>1. /\ Grounds(H) /\ Shape(B, H.commit - 8) /\ Tagged(H, B) /\ X \subseteq Frees(B) /\ Linked(H, X)
  BY AtFacts
<1>2. G.commit = H.commit /\ G.base = H.base /\ G.ready = H.ready /\ G.reserve = H.reserve
  BY DEF SameFields
<1>3. Grounds(G)
  <2>1. Get(G, Base + 16) = Get(H, Base + 16) /\ Get(G, H.commit - 8) = Get(H, H.commit - 8)
    BY DEF Essential
  <2>2. \A a \in Base .. G.commit - 8 : a % 8 = 0 => a \in DOMAIN G.mem
    BY <1>2 DEF RegionWords
  <2> QED BY <1>1, <1>2, <2>1, <2>2 DEF Grounds
<1>4. Tagged(G, B)
  <2>1. ASSUME NEW h \in DOMAIN B PROVE Get(G, h) = Tag(B[h]) /\ Get(G, BP!End(B, h) - 8) = Tag(B[h])
    <3>1. Get(G, h) = Get(H, h) /\ Get(G, BP!End(B, h) - 8) = Get(H, BP!End(B, h) - 8)
      BY DEF Essential
    <3> QED BY <1>1, <3>1 DEF Tagged
  <2> QED BY <2>1 DEF Tagged
<1>5. Linked(G, X)
  <2>1. \A x \in X : Get(G, x + 8) = Get(H, x + 8) /\ Get(G, x + 16) = Get(H, x + 16)
    BY DEF Essential
  <2> QED BY <1>1, <2>1, LinkedKept
<1>6. Region(G, B, X)
  BY <1>1, <1>2, <1>3, <1>4, <1>5 DEF Region
<1> QED BY <1>2, <1>6 DEF At, RegionWords

\* Where the allocator's own words are: in the region, and not inside a used block.
LEMMA EssentialFacts ==
  ASSUME NEW H, NEW B, NEW K, NEW o, NEW D, NEW a, At(H, B, Frees(B), K, o, D),
         Essential(H.commit - 8, B, Frees(B), a)
  PROVE  /\ a \in Int /\ Base <= a /\ a < Base + Reserve /\ a \in DOMAIN H.mem /\ a \notin D
         /\ ~Inside(B, Frees(B), a)
<1> DEFINE e == H.commit - 8
<1>1. /\ Shape(B, e) /\ Grounds(H) /\ e \in Int /\ e < Base + Reserve /\ FirstBlock + 32 <= e /\ e % 8 = 0
  <2>1. Shape(B, H.commit - 8) /\ Grounds(H) /\ H.commit \in Int /\ H.commit <= Base + Reserve
        /\ FirstBlock + 32 <= H.commit - 8 /\ H.commit % 16 = 0
    BY AtFacts
  <2> QED BY <2>1, BaseFacts
<1>2. Base \in Int /\ FirstBlock = Base + 24 /\ Base % 16 = 0
  BY BaseFacts
<1>3. ASSUME NEW w \in Int, Base <= w, w <= e, w % 8 = 0
      PROVE  w < Base + Reserve /\ w \in DOMAIN H.mem /\ w \notin D
  <2>1. w \in Base .. e
    BY <1>1, <1>2, <1>3
  <2>2. w < Base + Reserve
    BY <1>1, <1>2, <1>3, BaseFacts
  <2>3. w \notin D
    <3>1. Outside(D)
      BY DEF At
    <3>2. Reserve \in Int
      BY BaseFacts
    <3> QED BY <3>1, <3>2, <1>2, <1>3, <2>2 DEF Outside
  <2> QED BY <1>1, <1>3, <2>1, <2>2, <2>3 DEF Grounds
<1>4. ASSUME NEW g \in DOMAIN B
      PROVE  /\ g \in Int /\ g % 16 = 8 /\ FirstBlock <= g /\ g + 32 <= BP!End(B, g) /\ BP!End(B, g) <= e
             /\ BP!End(B, g) \in Int /\ BP!End(B, g) % 16 = 8
  BY <1>1, BlockFacts
<1> HIDE DEF e
<1>5. CASE a = Base + 16
  <2>1. a \in Int /\ Base <= a /\ a <= e /\ a % 8 = 0 /\ a < FirstBlock
    BY <1>1, <1>2, <1>5
  <2>2. ~Inside(B, Frees(B), a)
    BY <1>4, <1>2, <2>1 DEF Inside
  <2> QED BY <1>3, <2>1, <2>2
<1>6. CASE a = e
  <2>1. a \in Int /\ Base <= a /\ a <= e /\ a % 8 = 0
    BY <1>1, <1>2, <1>6
  <2>2. ~Inside(B, Frees(B), a)
    BY <1>4, <1>1, <1>6 DEF Inside
  <2> QED BY <1>3, <2>1, <2>2
<1>7. ASSUME NEW h \in DOMAIN B, a = h \/ a = BP!End(B, h) - 8
      PROVE  /\ a \in Int /\ Base <= a /\ a <= e /\ a % 8 = 0 /\ ~Inside(B, Frees(B), a)
  <2>1. a \in Int /\ Base <= a /\ a <= e /\ a % 8 = 0
    BY <1>1, <1>2, <1>4, <1>7
  <2>2. ASSUME NEW g \in DOMAIN B, g + 8 <= a, a < BP!End(B, g) - 8 PROVE FALSE
    <3>1. g # h => BP!End(B, g) <= h \/ BP!End(B, h) <= g
      BY <1>1, BlocksApart
    <3> QED BY <3>1, <2>1, <2>2, <1>4, <1>7
  <2> QED BY <2>1, <2>2 DEF Inside
<1>8. ASSUME NEW h \in Frees(B), a = h + 8 \/ a = h + 16
      PROVE  /\ a \in Int /\ Base <= a /\ a <= e /\ a % 8 = 0 /\ ~Inside(B, Frees(B), a)
  <2>0. h \in DOMAIN B
    BY DEF Frees
  <2>1. a \in Int /\ Base <= a /\ a <= e /\ a % 8 = 0 /\ h < a /\ a < BP!End(B, h)
    BY <1>1, <1>2, <1>4, <1>8, <2>0
  <2>2. ASSUME NEW g \in DOMAIN B \ Frees(B), g + 8 <= a, a < BP!End(B, g) - 8 PROVE FALSE
    <3>1. g # h /\ (g # h => BP!End(B, g) <= h \/ BP!End(B, h) <= g)
      BY <1>1, <2>0, BlocksApart
    <3> QED BY <3>1, <2>0, <2>1, <2>2, <1>4, <1>8
  <2> QED BY <2>1, <2>2 DEF Inside
<1>9. a = Base + 16 \/ a = e \/ (\E h \in DOMAIN B : a = h \/ a = BP!End(B, h) - 8)
      \/ (\E h \in Frees(B) : a = h + 8 \/ a = h + 16)
  BY DEF Essential, e
<1>10. CASE \E h \in DOMAIN B : a = h \/ a = BP!End(B, h) - 8
  BY <1>3, <1>7, <1>10
<1>11. CASE \E h \in Frees(B) : a = h + 8 \/ a = h + 16
  BY <1>3, <1>8, <1>11
<1> QED BY <1>5, <1>6, <1>9, <1>10, <1>11

\* The state at rest after writes that leave the allocator's own words alone.
LEMMA FrameRest ==
  ASSUME NEW H, NEW B, NEW K, NEW o, NEW D, Rest(H, B, K, o, D),
         NEW G, IsHeap(G), SameFields(H, G), G.free = H.free,
         \A a \in DOMAIN H.mem : a \notin D /\ ~Inside(B, Frees(B), a) => Get(G, a) = Get(H, a),
         NEW E, \A a : a \in DOMAIN G.mem <=> (a \in DOMAIN H.mem /\ a \notin D) \/ a \in E, Outside(E),
         NEW M, NEW u, Kept(G, B, Frees(B), M, u, E)
  PROVE  Rest(G, B, M, u, E) /\ Brk(G) = Brk(H)
<1>1. CASE Bare(H, B, K, o, D)
  <2>1. DOMAIN H.mem = D /\ DOMAIN B = {} /\ H.base = 0 /\ H.free = 0 /\ H.ready \in BOOLEAN /\ IsFcn(B)
    BY <1>1 DEF Bare
  <2>2. DOMAIN G.mem = E
    BY <2>1
  <2>3. \A a \in M : a \in E /\ Get(G, a) = Get(u, a)
    BY <2>1 DEF Kept, Inside
  <2> QED BY <2>1, <2>2, <2>3 DEF Bare, Rest, Brk, SameFields
<1>2. CASE At(H, B, Frees(B), K, o, D) /\ BP!NoNeighboursFree(B)
  <2>1. \A a : Essential(H.commit - 8, B, Frees(B), a) => Get(G, a) = Get(H, a)
    BY <1>2, EssentialFacts
  <2>2. DOMAIN G.mem = RegionWords(H.commit - 8) \cup E
    <3>1. DOMAIN H.mem = RegionWords(H.commit - 8) \cup D
      BY <1>2 DEF At, RegionWords
    <3>2. \A a \in RegionWords(H.commit - 8) : a \notin D
      <4>1. H.commit \in Int /\ H.commit <= Base + Reserve /\ Outside(D) /\ Base \in Int /\ Reserve \in Int
        BY <1>2, AtFacts, BaseFacts DEF At
      <4> QED BY <4>1 DEF RegionWords, Outside
    <3> QED BY <3>1, <3>2
  <2>3. At(G, B, Frees(B), M, u, E)
    BY <1>2, <2>1, <2>2, FrameAt
  <2> QED BY <1>2, <2>3 DEF Rest, Brk, SameFields
<1> QED BY <1>1, <1>2 DEF Rest
=============================================================================
