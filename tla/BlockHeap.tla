------------------------------ MODULE BlockHeap -----------------------------
(***************************************************************************)
(* The freestanding allocator of std/mem (src/lib/std/mem/generic.ap) seen  *)
(* as what its boundary tags describe: a sequence of blocks that tile the   *)
(* committed region from the first block to the epilogue.                   *)
(*                                                                          *)
(* A block is its header's address and [size, used].  Which of the free     *)
(* blocks that fit is taken (the code: the first of the free list) and how  *)
(* far the region grows are left open.  Module Heap, which keeps the        *)
(* words in memory, implements this specification.                          *)
(***************************************************************************)
EXTENDS Integers

CONSTANTS
  First,     \* the address of the first block, behind pad and prologue
  Limit,     \* the last place the epilogue can be
  MinBlock,  \* the smallest block: header, two links, footer
  Needs      \* the block sizes that requests round up to

ASSUME RegionAssumption ==
  /\ First \in Nat /\ Limit \in Nat /\ First <= Limit
  /\ MinBlock \in Nat \ {0}
  /\ Needs \subseteq Nat /\ \A n \in Needs : n >= MinBlock

VARIABLES
  blocks,    \* header address -> [size, used]
  brk        \* the epilogue's address: the end of the last block

blockVars == <<blocks, brk>>

-----------------------------------------------------------------------------
\* Operations on a tiling B.

End(B, h) == h + B[h].size
IsFree(B, h) == h \in DOMAIN B /\ ~B[h].used
Fits(B, h, need) == IsFree(B, h) /\ B[h].size >= need

\* Slip: the blocks that were merged stay.
RetiledOver(B, lo, hi, T) ==
  [x \in DOMAIN B \cup DOMAIN T |-> IF x \in DOMAIN T THEN T[x] ELSE B[x]]

\* B with the blocks that start in [lo, hi) replaced by T.
Retile(B, lo, hi, T) ==
  [x \in {y \in DOMAIN B : y < lo \/ hi <= y} \cup DOMAIN T |->
     IF x \in DOMAIN T THEN T[x] ELSE B[x]]

One(lo, hi, used) == [x \in {lo} |-> [size |-> hi - lo, used |-> used]]

\* A used block and behind it another one.
Two(lo, mid, hi, used) ==
  [x \in {lo, mid} |-> IF x = lo THEN [size |-> mid - lo, used |-> TRUE]
                                 ELSE [size |-> hi - mid, used |-> used]]

\* heap_place: a remainder worth a whole block is split off.
Placed(lo, hi, need) ==
  IF hi - lo - need >= MinBlock THEN Two(lo, lo + need, hi, FALSE)
                                ELSE One(lo, hi, TRUE)

Place(B, h, need) == Retile(B, h, End(B, h), Placed(h, End(B, h), need))

\* Where the free block around the boundary lo begins, and ends around hi.
Lower(B, lo) == IF \E g \in DOMAIN B : IsFree(B, g) /\ End(B, g) = lo
                THEN CHOOSE g \in DOMAIN B : IsFree(B, g) /\ End(B, g) = lo
                ELSE lo

\* Slip: the block behind is not looked at.
UpperIgnored(B, hi) == hi

Upper(B, hi) == IF IsFree(B, hi) THEN End(B, hi) ELSE hi

\* heap_coalesce: [lo, hi) becomes free and merges with its free neighbours.
Freed(B, lo, hi) ==
  LET l == Lower(B, lo)
      u == Upper(B, hi)
  IN  Retile(B, l, u, One(l, u, FALSE))

Released(B, h) == Freed(B, h, End(B, h))

Split(B, h, need) ==
  Retile(B, h, End(B, h), Two(h, h + need, End(B, h), TRUE))

-----------------------------------------------------------------------------
\* What a call does to the region.

\* The region as a request finds it: as it is when some block fits, else grown
\* to e.
Grown(B, e) == Freed(B, brk, e)

\* heap_init, when the request that triggers it takes no block.
Setup == /\ brk = First
         /\ \E e \in First + MinBlock .. Limit :
               brk' = e /\ blocks' = Grown(blocks, e)

\* malloc from a free block
Alloc(need) ==
  /\ UNCHANGED brk
  /\ \E h \in DOMAIN blocks :
        Fits(blocks, h, need) /\ blocks' = Place(blocks, h, need)

NothingFits(need) == \A h \in DOMAIN blocks : ~Fits(blocks, h, need)

\* malloc when nothing fits: heap_extend, then the fresh block
GrowAlloc(need) ==
  /\ NothingFits(need)
  /\ \E e \in brk + MinBlock .. Limit :
        /\ brk' = e
        /\ LET B == Grown(blocks, e)
           IN  \E h \in DOMAIN B : Fits(B, h, need) /\ blocks' = Place(B, h, need)

\* free
Release(h) ==
  /\ h \in DOMAIN blocks /\ blocks[h].used
  /\ blocks' = Released(blocks, h)
  /\ UNCHANGED brk

\* realloc to a smaller size: the tail is freed when it earns a block
Shrink(h, need) ==
  /\ h \in DOMAIN blocks /\ blocks[h].used
  /\ blocks[h].size - need >= MinBlock
  /\ blocks' = Released(Split(blocks, h, need), h + need)
  /\ UNCHANGED brk

\* realloc to a larger size: the free block behind is absorbed
Absorb(h, need) ==
  /\ h \in DOMAIN blocks /\ blocks[h].used /\ blocks[h].size < need
  /\ IsFree(blocks, End(blocks, h))
  /\ LET hi == End(blocks, End(blocks, h))
     IN  /\ hi - h >= need
         /\ blocks' = Retile(blocks, h, hi, Placed(h, hi, need))
  /\ UNCHANGED brk

\* realloc by way of a new block
Move(h, need) ==
  /\ h \in DOMAIN blocks /\ blocks[h].used
  /\ \/ /\ UNCHANGED brk
        /\ \E g \in DOMAIN blocks :
              Fits(blocks, g, need) /\ blocks' = Released(Place(blocks, g, need), h)
     \/ /\ NothingFits(need)
        /\ \E e \in brk + MinBlock .. Limit :
              /\ brk' = e
              /\ LET B == Grown(blocks, e)
                 IN  \E g \in DOMAIN B :
                       Fits(B, g, need) /\ blocks' = Released(Place(B, g, need), h)

BlockInit == blocks = [h \in {} |-> [size |-> 0, used |-> FALSE]] /\ brk = First

BlockNext ==
  \/ Setup
  \/ \E need \in Needs : Alloc(need) \/ GrowAlloc(need)
  \/ \E h \in DOMAIN blocks :
        \/ Release(h)
        \/ \E need \in Needs : Shrink(h, need) \/ Absorb(h, need) \/ Move(h, need)

BlockSpec == BlockInit /\ [][BlockNext]_blockVars

-----------------------------------------------------------------------------

\* The blocks lie end to end between lo and hi: none reaches into another, each
\* ends where another begins or at hi, and none but the first begins at lo.
Tiles(B, lo, hi) ==
  /\ \A h \in DOMAIN B :
        /\ h \in Int /\ B[h] \in [size : Nat \ {0}, used : BOOLEAN]
        /\ lo <= h /\ End(B, h) <= hi
        /\ End(B, h) = hi \/ End(B, h) \in DOMAIN B
  /\ \A g, h \in DOMAIN B : g < h => End(B, g) <= h
  /\ lo = hi \/ lo \in DOMAIN B

NoNeighboursFree(B) ==
  \A h \in DOMAIN B : IsFree(B, h) => ~IsFree(B, End(B, h))

HoldsLinks(B) == \A h \in DOMAIN B : B[h].size >= MinBlock

\* However requests, releases and resizes follow each other, the blocks tile
\* the region: no byte belongs to two blocks and none is lost.
BlocksTile == brk \in First..Limit /\ Tiles(blocks, First, brk)

\* No two neighbouring blocks are free: every release merges at once (the
\* "coalescing invariant" that heap_place relies on).
NoFreeNeighbours == NoNeighboursFree(blocks)

\* Every block can hold the tags and links it needs when it is freed.
BlocksHoldLinks == HoldsLinks(blocks)
=============================================================================
