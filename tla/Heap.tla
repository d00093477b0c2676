-------------------------------- MODULE Heap --------------------------------
(***************************************************************************)
(* The freestanding allocator of std/mem (src/lib/std/mem/generic.ap under  *)
(* STD_NO_LIBC), word by word: boundary tags, the doubly linked free list   *)
(* threaded through the free blocks, growth by page_commit, dedicated       *)
(* mappings for large requests.                                             *)
(*                                                                          *)
(* Memory is a function from the addresses of mapped 8-byte words to what   *)
(* they hold; the code's byte offsets and flag bits are kept.  The sizes    *)
(* that only scale the picture (page, chunks, reservation, the large        *)
(* threshold, the width of u64) are constants.  Requests are multiples of   *)
(* 8 bytes, or zero.  A word nobody may read (stale tags and links, the      *)
(* inside of a free block, what malloc hands out uninitialised) holds Junk:  *)
(* a step that computed with one would stop the checker.                     *)
(*                                                                          *)
(* The operators that can fail return the SET of their outcomes: which      *)
(* calls to the page seam (std/mem/page, external) fail is not known.       *)
(* `live` is what callers hold: address -> bytes asked for.                 *)
(***************************************************************************)
EXTENDS Integers, Sequences, FiniteSets

CONSTANTS
  Base,       \* where page_reserve puts the region
  Reserve,    \* its length (1 GiB in the code)
  PageSize,
  Chunk,      \* what heap_init commits and heap_extend grows by (64 KiB)
  Large,      \* requests from here on get a mapping of their own (128 KiB)
  WordRange,  \* u64 arithmetic is modulo this (2^64)
  MapBases,   \* where page_map can put a mapping
  Sizes,      \* bytes a caller asks for
  Products,   \* <<nmemb, size>> a caller passes to calloc
  Junk,       \* what a word nobody may read holds
  Stored,     \* what a caller writes into its words
  MaxLive     \* bound: allocations held at once

\* Bytes a call can come to ask for.
Requests == Sizes \cup {p[1] * p[2] : p \in Products}

\* Whole pages of 16 bytes each at least; the first chunk holds the pad, the
\* sentinels and a block.
ASSUME HeapAssumption ==
  /\ {Base, Reserve, PageSize, Chunk, Large, MaxLive} \subseteq Nat
  /\ PageSize > 0 /\ PageSize % 16 = 0
  /\ Base > 0 /\ Base % PageSize = 0 /\ Reserve % PageSize = 0
  /\ 64 <= Chunk /\ Chunk <= Reserve /\ Chunk % PageSize = 0
  /\ Large > 1

\* Callers ask for whole words, and not for so much that the rounding of a size
\* wraps around, which nothing in the code would notice.
ASSUME RequestAssumption ==
  /\ Requests \subseteq Nat /\ Products \subseteq Nat \X Nat
  /\ WordRange \in Nat /\ Chunk + PageSize <= WordRange
  /\ \A n \in Requests : n % 8 = 0 /\ n + PageSize + 32 <= WordRange

VARIABLES
  heap,       \* [mem, base, commit, reserve, free, ready]: memory and the g_heap_*
  live,       \* history: what the callers hold
  held        \* history: how many allocations they were handed and still hold

heapVars == <<heap, live, held>>

-----------------------------------------------------------------------------
\* Words, tags and rounding.

Get(H, a) == H.mem[a]

\* The words ws are written, to memory that is there or is mapped with them.
PutWords(H, ws) ==
  [H EXCEPT !.mem = [a \in DOMAIN @ \cup DOMAIN ws |->
                       IF a \in DOMAIN ws THEN ws[a] ELSE H.mem[a]]]
Put(H, a, v) == PutWords(H, [w \in {a} |-> v])

\* No walk over blocks takes more steps: each block has 32 bytes at least.
Steps == 0 .. Reserve \div 32

BSize(H, a) == (Get(H, a) \div 16) * 16
AllocBit(H, a) == Get(H, a) % 2
MmapBit(H, a) == (Get(H, a) \div 2) % 2

\* heap_set_block: both tags.
SetBlock(H, h, size, alloc) ==
  Put(Put(H, h, size + alloc), h + size - 8, size + alloc)

Word(x) == x % WordRange
Round16(x) == (Word(x + 15) \div 16) * 16
RoundPage(x) == (Word(x + PageSize - 1) \div PageSize) * PageSize

\* The platform puts no mapping into what is reserved, nor at address 0.
ASSUME MappingAssumption ==
  \A m \in MapBases :
    /\ m \in Nat /\ m > 0 /\ m % PageSize = 0
    /\ \A n \in Requests : m + RoundPage(Word(n + 16)) <= Base \/ Base + Reserve <= m

Need(req) == IF Round16(req) + 16 < 32 THEN 32 ELSE Round16(req) + 16

\* The n bytes from a on, all their words v.
Words(a, n) == {a + 8 * i : i \in 0..(n \div 8) - 1}
Filled(a, n, v) == [w \in Words(a, n) |-> v]

-----------------------------------------------------------------------------
\* The free list: next at h + 8, prev at h + 16.

FlInsert(H, h) ==
  LET old == H.free
      H1  == Put(Put(H, h + 8, old), h + 16, 0)
      H2  == IF old # 0 THEN Put(H1, old + 16, h) ELSE H1
  IN  [H2 EXCEPT !.free = h]

\* Slip: the successor keeps its old backward link.
FlRemoveOneWay(H, h) ==
  LET nx == Get(H, h + 8)
      pv == Get(H, h + 16)
  IN  IF pv # 0 THEN Put(H, pv + 8, nx) ELSE [H EXCEPT !.free = nx]

FlRemove(H, h) ==
  LET nx == Get(H, h + 8)
      pv == Get(H, h + 16)
      H1 == IF pv # 0 THEN Put(H, pv + 8, nx) ELSE [H EXCEPT !.free = nx]
  IN  IF nx # 0 THEN Put(H1, nx + 16, pv) ELSE H1

\* The blocks on the free list, in order from 0 on; behind the last one, 0.
FlNodes(H) ==
  LET after == [h \in Int |-> IF h = 0 THEN 0 ELSE Get(H, h + 8)]
      at[i \in Steps] == IF i = 0 THEN H.free ELSE after[at[i - 1]]
  IN  at

\* First fit.
FlFind(H, need) ==
  LET at == FlNodes(H)
      Stops(i) == at[i] = 0 \/ BSize(H, at[i]) >= need
  IN  at[CHOOSE i \in Steps : Stops(i) /\ \A j \in 0..i - 1 : ~Stops(j)]

\* Slip: only the block behind is looked at.
CoalesceForward(H, h) ==
  LET nxt  == h + BSize(H, h)
      size == BSize(H, h) + BSize(H, nxt)
  IN  IF AllocBit(H, nxt) = 0
      THEN [heap |-> SetBlock(FlRemove(H, nxt), h, size, 0), at |-> h]
      ELSE [heap |-> H, at |-> h]

\* The free block h merges with its free neighbours.
Coalesce(H, h) ==
  LET s0   == BSize(H, h)
      nxt  == h + s0
      fwd  == AllocBit(H, nxt) = 0
      s1   == IF fwd THEN s0 + BSize(H, nxt) ELSE s0
      H1   == IF fwd THEN SetBlock(FlRemove(H, nxt), h, s1, 0) ELSE H
      back == AllocBit(H1, h - 8) = 0
      ph   == h - BSize(H1, h - 8)
  IN  IF back
      THEN [heap |-> SetBlock(FlRemove(H1, ph), ph, s1 + (h - ph), 0), at |-> ph]
      ELSE [heap |-> H1, at |-> h]

CoalesceAndInsert(H, h) ==
  LET c == Coalesce(H, h) IN [heap |-> FlInsert(c.heap, c.at), at |-> c.at]

-----------------------------------------------------------------------------
\* Setting up and growing the region.

LaidOut(H) ==
  LET G  == [mem |-> H.mem, base |-> Base, commit |-> Base + Chunk,
             reserve |-> Base + Reserve, free |-> 0, ready |-> TRUE]
      H0 == PutWords(G, Filled(Base, Chunk, Junk))
      H1 == SetBlock(H0, Base + 8, 16, 1)
      H2 == SetBlock(H1, Base + 24, (Base + Chunk - 8) - (Base + 24), 0)
      H3 == Put(H2, Base + Chunk - 8, 1)
  IN  FlInsert(H3, Base + 24)

\* heap_init: reserving or committing the first chunk may fail, for good.
InitOutcomes(H) ==
  IF H.ready THEN {H} ELSE {LaidOut(H), [H EXCEPT !.ready = TRUE]}

Most(need) == RoundPage(IF need < Chunk THEN Chunk ELSE need)

\* How far heap_extend grows the region; 0 is not at all.
Growth(H, need) ==
  IF H.commit + Most(need) <= H.reserve THEN Most(need)
  ELSE IF H.commit + need > H.reserve THEN 0
  ELSE H.reserve - H.commit

\* heap_extend: commit more pages as one free block; at = 0 is failure.
ExtendOutcomes(H, need) ==
  LET want    == Growth(H, need)
      newblk  == H.commit - 8
      H1      == PutWords([H EXCEPT !.commit = H.commit + want],
                          Filled(H.commit, want, Junk))
      H2      == Put(SetBlock(H1, newblk, want, 0), H1.commit - 8, 1)
      refused == [heap |-> H, at |-> 0]
  IN  IF H.base = 0 \/ want = 0 THEN {refused}
      ELSE {refused, CoalesceAndInsert(H2, newblk)}

\* The free block h, off the list, becomes allocated.
PlaceIn(H, h, need) ==
  LET bsize == BSize(H, h)
      rem   == h + need
  IN  IF bsize - need >= 32
      THEN FlInsert(SetBlock(SetBlock(H, h, need, 1), rem, bsize - need, 0), rem)
      ELSE SetBlock(H, h, bsize, 1)

-----------------------------------------------------------------------------
\* Large requests.

LargeOutcomes(H, req) ==
  LET total == RoundPage(Word(req + 16))
      Free(b) == \A w \in DOMAIN H.mem : w < b \/ b + total <= w
      Mapped(b) == Put(Put(PutWords(H, Filled(b, total, Junk)), b, total), b + 8, 3)
  IN  {[heap |-> H, ptr |-> 0]} \cup   \* where a mapping lies does not matter
      {[heap |-> Mapped(b), ptr |-> b + 16] :
         b \in {m \in MapBases : total > 0 /\ Free(m) /\ \A o \in MapBases : Free(o) => m <= o}}

\* page_release of the length the mapping recorded about itself.
LargeFree(H, base) ==
  LET total == Get(H, base)
  IN  [H EXCEPT !.mem = [w \in {x \in DOMAIN @ : x < base \/ base + total <= x} |-> H.mem[w]]]

-----------------------------------------------------------------------------
\* The public functions, as operators on the heap.

SmallOutcomes(H, req) ==
  LET need == Need(req)
      h    == FlFind(H, need)
      Take(G, b) == [heap |-> PlaceIn(FlRemove(G, b), b, need), ptr |-> b + 8]
  IN  IF h # 0 THEN {Take(H, h)}
      ELSE {IF x.at = 0 THEN [heap |-> x.heap, ptr |-> 0] ELSE Take(x.heap, x.at) :
              x \in ExtendOutcomes(H, need)}

MallocOutcomes(H, n) ==
  LET req == IF n = 0 THEN 1 ELSE n
  IN  UNION {IF req >= Large THEN LargeOutcomes(H1, req) ELSE SmallOutcomes(H1, req) :
               H1 \in InitOutcomes(H)}

FreedHeap(H, p) ==
  IF MmapBit(H, p - 8) # 0 THEN LargeFree(H, p - 16)
  ELSE LET h == p - 8
       IN  CoalesceAndInsert(SetBlock(H, h, BSize(H, h), 0), h).heap

\* memset(p, v, n) and memcpy(q, p, n)
Refilled(H, p, n, v) == PutWords(H, Filled(p, n, v))

\* Slip: the last word is left out.
CopiedShort(H, q, p, n) ==
  PutWords(H, [w \in Words(q, n - 8) |-> H.mem[p + (w - q)]])

Copied(H, q, p, n) ==
  PutWords(H, [w \in Words(q, n) |-> H.mem[p + (w - q)]])

\* heap_realloc_move
MoveOutcomes(H, p, old, n) ==
  LET cpy == IF n < old THEN n ELSE old
  IN  {IF r.ptr = 0 THEN r
       ELSE [heap |-> FreedHeap(Copied(r.heap, r.ptr, p, cpy), p), ptr |-> r.ptr] :
         r \in MallocOutcomes(H, n)}

\* realloc of a live p to n > 0 bytes.
ReallocOutcomes(H, p, n) ==
  LET h    == p - 8
      size == BSize(H, h)
      need == Need(n)
      nxt  == h + size
      both == size + BSize(H, nxt)
      rem  == h + need
      InPlace(G) == {[heap |-> G, ptr |-> p]}
  IN  IF MmapBit(H, h) # 0 THEN MoveOutcomes(H, p, Get(H, p - 16) - 16, n)
      ELSE IF n >= Large THEN MoveOutcomes(H, p, size - 16, n)
      ELSE IF size >= need
      THEN IF size - need >= 32
           THEN InPlace(CoalesceAndInsert(
                  SetBlock(SetBlock(H, h, need, 1), rem, size - need, 0), rem).heap)
           ELSE InPlace(H)
      ELSE IF AllocBit(H, nxt) = 0 /\ both >= need
      THEN InPlace(PlaceIn(SetBlock(FlRemove(H, nxt), h, both, 0), h, need))
      ELSE MoveOutcomes(H, p, size - 16, n)

-----------------------------------------------------------------------------
\* The blocks the tags describe, from the first header to the epilogue.

InRegion(H, h) == h < H.commit - 8 /\ h \in DOMAIN H.mem /\ BSize(H, h) > 0

FirstBlock == Base + 24

\* From block to block; at the end the walk stands still.
BlockWalk(H) ==
  LET after == [h \in Int |-> IF InRegion(H, h) THEN h + BSize(H, h) ELSE h]
      at[i \in Steps] == IF i = 0 THEN FirstBlock ELSE after[at[i - 1]]
  IN  at

Headers(H) ==
  IF H.base = 0 THEN {}
  ELSE LET at == BlockWalk(H) IN {h \in {at[i] : i \in Steps} : InRegion(H, h)}

BlocksOf(H) ==
  [h \in Headers(H) |-> [size |-> BSize(H, h), used |-> AllocBit(H, h) = 1]]

\* The words that mean something when callers hold L: sentinels, tags, the links
\* of free blocks, the two words of a mapping, the objects.
Meaningful(H, L) ==
  LET B      == BlocksOf(H)
      ends   == IF H.base = 0 THEN {} ELSE {Base + 8, Base + 16, H.commit - 8}
      tags   == UNION {{h, h + B[h].size - 8} : h \in DOMAIN B}
      links  == UNION {{h + 8, h + 16} : h \in {b \in DOMAIN B : ~B[b].used}}
      mapped == UNION {{p - 16, p - 8} : p \in {q \in DOMAIN L : MmapBit(H, q - 8) # 0}}
  IN  ends \cup tags \cup links \cup mapped \cup UNION {Words(p, L[p]) : p \in DOMAIN L}

Settled(H, L) ==
  LET kept == Meaningful(H, L)
  IN  [H EXCEPT !.mem = [a \in DOMAIN @ |-> IF a \in kept THEN H.mem[a] ELSE Junk]]

-----------------------------------------------------------------------------
\* The calls.

\* What lies behind the old bytes of a grown object.
Grown(H, p, old, n) ==
  IF n > old THEN Refilled(H, p + old, n - old, Junk) ELSE H

Holding(p, n, rest) ==
  [q \in rest \cup {p} |-> IF q = p THEN n ELSE live[q]]

\* A new allocation, or none.
Handed(p, n) ==
  IF p = 0 THEN UNCHANGED <<live, held>>
  ELSE live' = Holding(p, n, DOMAIN live) /\ held' = held + 1

MallocCall(n) ==
  /\ held < MaxLive
  /\ \E r \in MallocOutcomes(heap, n) :
        /\ Handed(r.ptr, n)
        /\ heap' = Settled(IF r.ptr = 0 THEN r.heap ELSE Refilled(r.heap, r.ptr, n, Junk), live')

\* The caller of calloc asked for nmemb objects of `size` bytes each.
CallocCall(nmemb, size) ==
  /\ held < MaxLive
  /\ LET total == Word(nmemb * size)
     IN  \E r \in MallocOutcomes(heap, total) :
           /\ Handed(r.ptr, nmemb * size)
           /\ heap' = Settled(IF r.ptr = 0 THEN r.heap ELSE Refilled(r.heap, r.ptr, total, 0), live')

FreeCall(p) ==
  /\ live' = [q \in DOMAIN live \ {p} |-> live[q]]
  /\ heap' = Settled(FreedHeap(heap, p), live')
  /\ held' = held - 1

\* realloc of a pointer the caller holds; realloc(null, n) is malloc(n) and
\* realloc(p, 0) is free(p).
ReallocCall(p, n) ==
  /\ n > 0
  /\ \E r \in ReallocOutcomes(heap, p, n) :
        /\ live' = IF r.ptr = 0 THEN live ELSE Holding(r.ptr, n, DOMAIN live \ {p})
        /\ heap' = Settled(IF r.ptr = 0 THEN r.heap ELSE Grown(r.heap, r.ptr, live[p], n), live')
  /\ UNCHANGED held

\* A caller fills its object.
CallerStores(p, v) ==
  /\ live[p] > 0
  /\ heap' = Refilled(heap, p, live[p], v)
  /\ UNCHANGED <<live, held>>

HeapInit ==
  /\ heap = [mem |-> [a \in {} |-> Junk], base |-> 0, commit |-> 0, reserve |-> 0, free |-> 0, ready |-> FALSE]
  /\ live = [p \in {} |-> 0]
  /\ held = 0

HeapNext ==
  \/ \E n \in Sizes : MallocCall(n)
  \/ \E p \in Products : CallocCall(p[1], p[2])
  \/ \E p \in DOMAIN live :
        \/ FreeCall(p)
        \/ \E n \in Sizes : ReallocCall(p, n)
        \/ \E v \in Stored : CallerStores(p, v)

HeapSpec == HeapInit /\ [][HeapNext]_heapVars

-----------------------------------------------------------------------------

\* Pages are committed whole and never beyond the reservation; what callers
\* hold is aligned.
HeapTypeOK ==
  /\ heap.base \in {0, Base} /\ heap.ready \in BOOLEAN
  /\ heap.base = Base => heap.commit % PageSize = 0 /\ heap.commit <= heap.reserve
  /\ \A p \in DOMAIN live : p % 16 = 0 /\ live[p] >= 0
  /\ held \in 0..MaxLive

\* The free list holds exactly the free blocks, each once, and its backward
\* links mirror its forward ones, whatever was split, merged, absorbed or
\* grown in between.
FreeListIsExact ==
  LET B     == BlocksOf(heap)
      frees == {h \in DOMAIN B : ~B[h].used}
      n     == Cardinality(frees)
      at    == FlNodes(heap)
  IN  /\ {at[i] : i \in 0..n - 1} = frees
      /\ at[n] = 0
      /\ \A i \in 0..n - 1 :
            Get(heap, at[i] + 16) = (IF i = 0 THEN 0 ELSE at[i - 1])

\* The region stays within its reservation, both tags of every block say the
\* same, and the sentinels at the two ends still stop the merges.
TagsAgree ==
  HeapTypeOK /\ (heap.base = 0 \/
    LET B == BlocksOf(heap)
    IN  /\ \A h \in DOMAIN B : Get(heap, h) = Get(heap, h + B[h].size - 8)
        /\ AllocBit(heap, FirstBlock - 8) = 1
        /\ Get(heap, heap.commit - 8) = 1)

\* Every used block and every mapping belongs to one caller's pointer and every
\* pointer to one of them: nothing is handed out twice, and nothing stays
\* behind when a realloc moves an object or fails half way.
OwnersMatch ==
  LET B       == BlocksOf(heap)
      mapped  == {p \in DOMAIN live : MmapBit(heap, p - 8) # 0}
      region  == IF heap.base = 0 THEN {} ELSE Base..heap.commit - 8
      words(p) == {p - 16 + 8 * i : i \in 0..(Get(heap, p - 16) \div 8) - 1}
  IN  /\ held = Cardinality(DOMAIN live)
      /\ {h + 8 : h \in {b \in DOMAIN B : B[b].used}} = DOMAIN live \ mapped
      /\ DOMAIN heap.mem = {a \in region : a % 8 = 0} \cup UNION {words(p) : p \in mapped}

\* At rest the allocator's three views of memory agree: the free list, the
\* tags, and who was given what.
HeapIsSound == FreeListIsExact /\ TagsAgree /\ OwnersMatch

\* Callers see the promise of malloc, calloc, realloc and free: objects that
\* are aligned, apart, and keep their contents.
Objects ==
  [p \in DOMAIN live |-> [i \in 1..live[p] \div 8 |-> heap.mem[p + 8 * (i - 1)]]]

Promise == INSTANCE Malloc WITH objects <- Objects
MallocPromise == Promise!MallocSpec

\* The words implement the tiling: every call is one of the block moves.
Tiling == INSTANCE BlockHeap WITH
  First <- FirstBlock, Limit <- Base + Reserve - 8, MinBlock <- 32,
  Needs <- {Need(n) : n \in Requests},
  blocks <- BlocksOf(heap),
  brk <- IF heap.base = 0 THEN FirstBlock ELSE heap.commit - 8
BlocksRefine == Tiling!BlockSpec
=============================================================================
