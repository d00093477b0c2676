--------------------------- MODULE BlockHeapProofs --------------------------
(***************************************************************************)
(* The region of BlockHeap is always tiled by blocks, no two free blocks    *)
(* touch, and every block can hold its links, for every region, block size  *)
(* and set of requests.                                                     *)
(*                                                                          *)
(* Every operation puts a small tiling T in the place of the blocks between *)
(* two boundaries (Retile).  RetileGood says when that keeps the three      *)
(* facts; FreedGood and PlacedGood apply it to heap_coalesce and to         *)
(* heap_place, and each call is one or two of these.                        *)
(***************************************************************************)
EXTENDS BlockHeap, TLAPS

Good(B, e) == /\ e \in Int
              /\ Tiles(B, First, e)
              /\ NoNeighboursFree(B)
              /\ HoldsLinks(B)

\* Where a block ends there is a block, or the end of the region.
LEMMA EndIsBoundary ==
  ASSUME NEW B, NEW e, Good(B, e), NEW h \in DOMAIN B
  PROVE  /\ h \in Int /\ End(B, h) \in Int
         /\ First <= h /\ h < End(B, h) /\ End(B, h) <= e
         /\ End(B, h) = e \/ End(B, h) \in DOMAIN B
BY RegionAssumption DEF Good, Tiles, End

\* A tiling T of [lo, hi) takes the place of what B has there.
LEMMA RetileTiles ==
  ASSUME NEW B, NEW T, NEW F \in Int, NEW e \in Int, NEW lo \in Int, NEW hi \in Int,
         NEW e2 \in Int, e2 = (IF hi >= e THEN hi ELSE e),
         Tiles(B, F, e), Tiles(T, lo, hi), F <= lo, lo < hi,
         lo \in DOMAIN B \/ lo = e,
         hi \in DOMAIN B \/ hi >= e
  PROVE  Tiles(Retile(B, lo, hi, T), F, e2)
<1> DEFINE R == Retile(B, lo, hi, T)
           Old == {y \in DOMAIN B : y < lo \/ hi <= y}
<1>1. DOMAIN R = Old \cup DOMAIN T
  BY DEF Retile
<1>2. \A h \in DOMAIN T : R[h] = T[h] /\ End(R, h) = End(T, h)
  BY DEF Retile, End
<1>3. \A h \in Old : h \notin DOMAIN T /\ R[h] = B[h] /\ End(R, h) = End(B, h)
  BY DEF Retile, End, Tiles
<1>4. lo \in DOMAIN T
  BY DEF Tiles
<1>5. \A h \in DOMAIN T : /\ h \in Int /\ T[h] \in [size : Nat \ {0}, used : BOOLEAN]
                          /\ lo <= h /\ h < End(T, h) /\ End(T, h) <= hi
                          /\ End(T, h) = hi \/ End(T, h) \in DOMAIN T
  BY DEF Tiles, End
<1>6. \A h \in DOMAIN B : /\ h \in Int /\ B[h] \in [size : Nat \ {0}, used : BOOLEAN]
                          /\ F <= h /\ h < End(B, h) /\ End(B, h) <= e
                          /\ End(B, h) = e \/ End(B, h) \in DOMAIN B
  BY DEF Tiles, End
<1>7. \A g, h \in DOMAIN B : g < h => End(B, g) <= h
  BY DEF Tiles
<1>8. \A g, h \in DOMAIN T : g < h => End(T, g) <= h
  BY DEF Tiles
<1>9. \A h \in Old : h < lo => End(B, h) <= lo
  BY <1>6, <1>7
<1>10. \A h \in Old : ~(h < lo) => hi <= h /\ hi < e /\ hi \in DOMAIN B
  BY <1>6
<1>11. ASSUME NEW h \in DOMAIN T
       PROVE  /\ h \in Int /\ R[h] \in [size : Nat \ {0}, used : BOOLEAN]
              /\ F <= h /\ End(R, h) <= e2
              /\ End(R, h) = e2 \/ End(R, h) \in DOMAIN R
  <2>1. CASE End(T, h) = hi
    BY <2>1, <1>1, <1>2, <1>5
  <2>2. CASE End(T, h) # hi
    BY <2>2, <1>1, <1>2, <1>5
  <2> QED BY <2>1, <2>2
<1>12. ASSUME NEW h \in Old
       PROVE  /\ h \in Int /\ R[h] \in [size : Nat \ {0}, used : BOOLEAN]
              /\ F <= h /\ End(R, h) <= e2
              /\ End(R, h) = e2 \/ End(R, h) \in DOMAIN R
  <2>1. CASE h < lo
    <3>1. End(B, h) <= lo /\ End(R, h) = End(B, h) /\ End(B, h) \in Int
      BY <2>1, <1>3, <1>6, <1>9
    <3>2. CASE End(B, h) = lo
      BY <3>1, <3>2, <1>1, <1>3, <1>4, <1>6
    <3>3. CASE End(B, h) < lo
      BY <3>1, <3>3, <1>1, <1>3, <1>6
    <3> QED BY <3>1, <3>2, <3>3
  <2>2. CASE ~(h < lo)
    BY <2>2, <1>1, <1>3, <1>6, <1>10
  <2> QED BY <2>1, <2>2
<1>13. ASSUME NEW g \in DOMAIN R, NEW h \in DOMAIN R, g < h
       PROVE  End(R, g) <= h
  <2>1. CASE g \in Old /\ h \in Old
    BY <2>1, <1>3, <1>7, <1>13
  <2>2. CASE g \in Old /\ h \in DOMAIN T
    BY <2>2, <1>3, <1>5, <1>6, <1>9, <1>10, <1>13
  <2>3. CASE g \in DOMAIN T /\ h \in Old
    BY <2>3, <1>2, <1>5, <1>6, <1>10, <1>13
  <2>4. CASE g \in DOMAIN T /\ h \in DOMAIN T
    BY <2>4, <1>2, <1>8, <1>13
  <2> QED BY <2>1, <2>2, <2>3, <2>4, <1>1
<1>14. F \in DOMAIN R
  <2>1. CASE F = lo
    BY <2>1, <1>1, <1>4
  <2>2. CASE F # lo
    BY <2>2, <1>1, <1>6 DEF Tiles
  <2> QED BY <2>1, <2>2
<1> QED
  <2> HIDE DEF R, Old
  <2>1. \A h \in DOMAIN R : /\ h \in Int /\ R[h] \in [size : Nat \ {0}, used : BOOLEAN]
                            /\ F <= h /\ End(R, h) <= e2
                            /\ End(R, h) = e2 \/ End(R, h) \in DOMAIN R
    BY <1>1, <1>11, <1>12
  <2>2. Tiles(R, F, e2)
    BY <2>1, <1>13, <1>14 DEF Tiles
  <2> QED BY <2>2 DEF R

\* The same for all three facts: T's free blocks must not touch B's.
LEMMA RetileGood ==
  ASSUME NEW B, NEW T, NEW e, NEW lo \in Int, NEW hi \in Int,
         NEW e2 \in Int, e2 = (IF hi >= e THEN hi ELSE e),
         Good(B, e), Tiles(T, lo, hi), NoNeighboursFree(T), HoldsLinks(T),
         First <= lo, lo < hi,
         lo \in DOMAIN B \/ lo = e,
         hi \in DOMAIN B \/ hi >= e,
         IsFree(T, lo) => \A g \in DOMAIN B : IsFree(B, g) => End(B, g) # lo,
         (\E h \in DOMAIN T : IsFree(T, h) /\ End(T, h) = hi) => ~IsFree(B, hi)
  PROVE  Good(Retile(B, lo, hi, T), e2)
<1> DEFINE R == Retile(B, lo, hi, T)
<1>1. Tiles(R, First, e2)
  BY RetileTiles, RegionAssumption DEF Good
<1>2. /\ DOMAIN R = {y \in DOMAIN B : y < lo \/ hi <= y} \cup DOMAIN T
      /\ \A h \in DOMAIN T : R[h] = T[h]
      /\ \A h \in DOMAIN R : h \notin DOMAIN T => R[h] = B[h]
  BY DEF Retile
<1>3. HoldsLinks(R)
  BY <1>2 DEF Good, HoldsLinks
<1>4. \A h \in DOMAIN B : /\ h \in Int /\ h < End(B, h) /\ End(B, h) \in Int
                          /\ End(B, h) <= e
                          /\ End(B, h) = e \/ End(B, h) \in DOMAIN B
  BY EndIsBoundary
<1>5. \A h \in DOMAIN T : /\ h \in Int /\ lo <= h /\ h < End(T, h) /\ End(T, h) <= hi
                          /\ End(T, h) \in Int
  BY DEF Tiles, End
<1>6. \A g, h \in DOMAIN B : g < h => End(B, g) <= h
  BY DEF Good, Tiles
<1>7. lo \in DOMAIN T
  BY DEF Tiles
<1>8. ASSUME NEW h \in DOMAIN R, IsFree(R, h), IsFree(R, End(R, h))
      PROVE  FALSE
  <2>1. CASE h \in DOMAIN T
    <3>1. IsFree(T, h) /\ End(R, h) = End(T, h)
      BY <2>1, <1>2, <1>8 DEF IsFree, End
    <3>2. CASE End(T, h) = hi
      <4>1. hi \notin DOMAIN T
        BY <1>5
      <4>2. IsFree(B, hi)
        BY <3>1, <3>2, <4>1, <1>2, <1>8 DEF IsFree
      <4> QED BY <4>2, <3>1, <3>2, <2>1
    <3>3. CASE End(T, h) # hi
      <4>1. End(T, h) \in DOMAIN T
        BY <3>3, <2>1 DEF Tiles
      <4>2. IsFree(T, End(T, h))
        BY <4>1, <3>1, <1>2, <1>8 DEF IsFree
      <4> QED BY <4>2, <3>1, <2>1 DEF NoNeighboursFree
    <3> QED BY <3>2, <3>3
  <2>2. CASE h \notin DOMAIN T /\ h < lo
    <3>1. h \in DOMAIN B /\ IsFree(B, h) /\ End(R, h) = End(B, h)
      BY <2>2, <1>2, <1>8 DEF IsFree, End
    <3>2. End(B, h) <= lo
      BY <3>1, <2>2, <1>4, <1>6
    <3>3. CASE End(B, h) = lo
      <4>1. IsFree(T, lo)
        BY <3>3, <3>1, <1>2, <1>7, <1>8 DEF IsFree
      <4> QED BY <4>1, <3>1, <3>3
    <3>4. CASE End(B, h) < lo
      <4>1. End(B, h) \notin DOMAIN T
        BY <3>4, <3>1, <1>4, <1>5
      <4>2. IsFree(B, End(B, h))
        BY <4>1, <3>1, <1>2, <1>8 DEF IsFree
      <4> QED BY <4>2, <3>1 DEF Good, NoNeighboursFree
    <3> QED BY <3>1, <3>2, <3>3, <3>4, <1>4
  <2>3. CASE h \notin DOMAIN T /\ ~(h < lo)
    <3>1. h \in DOMAIN B /\ hi <= h /\ IsFree(B, h) /\ End(R, h) = End(B, h)
      BY <2>3, <1>2, <1>8 DEF IsFree, End
    <3>2. End(B, h) \notin DOMAIN T
      BY <3>1, <1>4, <1>5
    <3>3. IsFree(B, End(B, h))
      BY <3>2, <3>1, <1>2, <1>8 DEF IsFree
    <3> QED BY <3>3, <3>1 DEF Good, NoNeighboursFree
  <2> QED BY <2>1, <2>2, <2>3
<1>9. NoNeighboursFree(R)
  BY <1>8 DEF NoNeighboursFree
<1> QED BY <1>1, <1>3, <1>9 DEF Good

\* One block tiles its own range, and so do two behind one another.
LEMMA OneTiles ==
  ASSUME NEW T, NEW lo \in Int, NEW hi \in Int, lo < hi,
         NEW used \in BOOLEAN,
         DOMAIN T = {lo}, T[lo] = [size |-> hi - lo, used |-> used], End(T, lo) = hi
  PROVE  Tiles(T, lo, hi)
<1>1. T[lo] \in [size : Nat \ {0}, used : BOOLEAN]
  <2>1. hi - lo \in Nat \ {0}
    OBVIOUS
  <2> QED BY <2>1
<1>2. ASSUME NEW h \in DOMAIN T
      PROVE  /\ h \in Int /\ T[h] \in [size : Nat \ {0}, used : BOOLEAN]
             /\ lo <= h /\ End(T, h) <= hi
             /\ End(T, h) = hi \/ End(T, h) \in DOMAIN T
  <2>1. h = lo
    OBVIOUS
  <2>2. T[h] \in [size : Nat \ {0}, used : BOOLEAN] /\ End(T, h) = hi
    BY <2>1, <1>1, Zenon
  <2> QED BY <2>1, <2>2
<1>3. \A g, h \in DOMAIN T : g < h => End(T, g) <= h
  OBVIOUS
<1>4. lo \in DOMAIN T
  OBVIOUS
<1> QED BY <1>2, <1>3, <1>4 DEF Tiles

LEMMA TwoTile ==
  ASSUME NEW T, NEW lo \in Int, NEW mid \in Int, NEW hi \in Int, lo < mid, mid < hi,
         NEW used \in BOOLEAN,
         DOMAIN T = {lo, mid},
         T[lo] = [size |-> mid - lo, used |-> TRUE], End(T, lo) = mid,
         T[mid] = [size |-> hi - mid, used |-> used], End(T, mid) = hi
  PROVE  Tiles(T, lo, hi)
<1>1. mid - lo \in Nat \ {0} /\ hi - mid \in Nat \ {0}
  OBVIOUS
<1>2. ASSUME NEW h \in DOMAIN T
      PROVE  /\ h \in Int /\ T[h] \in [size : Nat \ {0}, used : BOOLEAN]
             /\ lo <= h /\ End(T, h) <= hi
             /\ End(T, h) = hi \/ End(T, h) \in DOMAIN T
  <2>1. CASE h = lo
    <3>1. T[h] \in [size : Nat \ {0}, used : BOOLEAN] /\ End(T, h) = mid
      <4>1. T[lo] \in [size : Nat \ {0}, used : BOOLEAN]
        BY <1>1
      <4> QED BY <4>1, <2>1, Zenon
    <3> QED BY <3>1, <2>1
  <2>2. CASE h = mid
    <3>1. T[h] \in [size : Nat \ {0}, used : BOOLEAN] /\ End(T, h) = hi
      <4>1. T[mid] \in [size : Nat \ {0}, used : BOOLEAN]
        BY <1>1
      <4> QED BY <4>1, <2>2, Zenon
    <3> QED BY <3>1, <2>2
  <2> QED BY <2>1, <2>2
<1>3. ASSUME NEW g \in DOMAIN T, NEW h \in DOMAIN T, g < h
      PROVE  End(T, g) <= h
  <2>1. g = lo /\ h = mid
    BY <1>3
  <2>2. End(T, g) = mid
    BY <2>1, Zenon
  <2> QED BY <2>1, <2>2
<1>4. lo \in DOMAIN T
  OBVIOUS
<1> QED BY <1>2, <1>3, <1>4 DEF Tiles

\* heap_coalesce: the region [lo, hi) becomes free, next to whatever is there.
LEMMA FreedGood ==
  ASSUME NEW B, NEW e, NEW lo \in Int, NEW hi \in Int,
         NEW e2 \in Int, e2 = (IF hi >= e THEN hi ELSE e),
         Good(B, e), First <= lo, lo + MinBlock <= hi,
         lo \in DOMAIN B \/ lo = e,
         hi \in DOMAIN B \/ hi >= e
  PROVE  Good(Freed(B, lo, hi), e2)
<1> DEFINE l == Lower(B, lo)
           u == Upper(B, hi)
           T == One(l, u, FALSE)
<1>0. MinBlock \in Nat \ {0} /\ First \in Nat
  BY RegionAssumption
<1>1. \/ l = lo /\ \A g \in DOMAIN B : IsFree(B, g) => End(B, g) # lo
      \/ l \in DOMAIN B /\ IsFree(B, l) /\ End(B, l) = lo
  BY DEF Lower
<1>2. l \in Int /\ First <= l /\ l <= lo /\ (l \in DOMAIN B \/ l = e)
  <2>1. CASE l = lo
    BY <2>1
  <2>2. CASE l \in DOMAIN B /\ IsFree(B, l) /\ End(B, l) = lo
    BY <2>2, EndIsBoundary
  <2> QED BY <1>1, <2>1, <2>2
<1>3. /\ u \in Int /\ hi <= u
      /\ u \in DOMAIN B \/ u >= e
      /\ e2 = (IF u >= e THEN u ELSE e)
      /\ ~IsFree(B, u)
  <2>1. CASE IsFree(B, hi)
    <3>1. u = End(B, hi) /\ hi \in DOMAIN B
      BY <2>1 DEF Upper, IsFree
    <3>2. ~IsFree(B, u)
      BY <2>1, <3>1 DEF Good, NoNeighboursFree
    <3> QED BY <3>1, <3>2, EndIsBoundary DEF Good
  <2>2. CASE ~IsFree(B, hi)
    BY <2>2 DEF Upper
  <2> QED BY <2>1, <2>2
<1> HIDE DEF l, u
<1>4. l < u /\ MinBlock <= u - l
  BY <1>0, <1>2, <1>3
<1>5. DOMAIN T = {l} /\ T[l] = [size |-> u - l, used |-> FALSE] /\ End(T, l) = u
  BY <1>2, <1>3 DEF One, End
<1> HIDE DEF T
<1>6. Tiles(T, l, u)
  BY <1>2, <1>3, <1>4, <1>5, OneTiles
<1>7. HoldsLinks(T)
  BY <1>4, <1>5 DEF HoldsLinks
<1>8. NoNeighboursFree(T)
  BY <1>4, <1>5, <1>2, <1>3 DEF NoNeighboursFree, IsFree
<1>9. \A g \in DOMAIN B : IsFree(B, g) => End(B, g) # l
  BY <1>1 DEF Good, NoNeighboursFree
<1>10. Good(Retile(B, l, u, T), e2)
  BY <1>2, <1>3, <1>4, <1>6, <1>7, <1>8, <1>9, RetileGood
<1> QED BY <1>10 DEF Freed, l, u, T

\* Two blocks of which the first is used.
LEMMA TwoGood ==
  ASSUME NEW B, NEW e, NEW lo \in Int, NEW mid \in Int, NEW hi \in Int,
         NEW used \in BOOLEAN,
         Good(B, e), First <= lo, lo + MinBlock <= mid, mid + MinBlock <= hi, hi <= e,
         lo \in DOMAIN B \/ lo = e,
         hi \in DOMAIN B \/ hi = e,
         used \/ ~IsFree(B, hi)
  PROVE  Good(Retile(B, lo, hi, Two(lo, mid, hi, used)), e)
<1> DEFINE T == Two(lo, mid, hi, used)
<1>0. MinBlock \in Nat \ {0} /\ First \in Nat /\ e \in Int
  BY RegionAssumption DEF Good
<1>1. lo < mid /\ mid < hi
  BY <1>0
<1>2. /\ DOMAIN T = {lo, mid}
      /\ T[lo] = [size |-> mid - lo, used |-> TRUE] /\ End(T, lo) = mid
      /\ T[mid] = [size |-> hi - mid, used |-> used] /\ End(T, mid) = hi
  BY <1>1 DEF Two, End
<1> HIDE DEF T
<1>3. Tiles(T, lo, hi)
  BY <1>1, <1>2, TwoTile
<1>4. HoldsLinks(T)
  BY <1>0, <1>2 DEF HoldsLinks
<1>5. ~IsFree(T, lo) /\ hi \notin DOMAIN T /\ (used => ~IsFree(T, mid))
  BY <1>1, <1>2 DEF IsFree
<1>6. NoNeighboursFree(T)
  BY <1>2, <1>5 DEF NoNeighboursFree, IsFree
<1>7. (\E h \in DOMAIN T : IsFree(T, h) /\ End(T, h) = hi) => ~IsFree(B, hi)
  BY <1>2, <1>5
<1>8. Good(Retile(B, lo, hi, T), e)
  BY <1>0, <1>1, <1>3, <1>4, <1>5, <1>6, <1>7, RetileGood
<1> QED BY <1>8 DEF T

\* heap_place over [lo, hi), where nothing free follows.
LEMMA PlacedGood ==
  ASSUME NEW B, NEW e, NEW lo \in Int, NEW hi \in Int, NEW need \in Needs,
         Good(B, e), First <= lo, lo + need <= hi, hi <= e,
         lo \in DOMAIN B \/ lo = e,
         hi \in DOMAIN B \/ hi = e,
         ~IsFree(B, hi)
  PROVE  Good(Retile(B, lo, hi, Placed(lo, hi, need)), e)
<1>0. MinBlock \in Nat \ {0} /\ First \in Nat /\ e \in Int /\ need \in Nat /\ need >= MinBlock
  BY RegionAssumption DEF Good
<1>1. CASE hi - lo - need >= MinBlock
  <2>1. lo + need \in Int /\ lo + MinBlock <= lo + need /\ lo + need + MinBlock <= hi
    BY <1>0, <1>1
  <2>2. ASSUME NEW used \in BOOLEAN
        PROVE  Good(Retile(B, lo, hi, Two(lo, lo + need, hi, used)), e)
    BY <2>1, TwoGood
  <2> QED BY <2>2, <1>1 DEF Placed
<1>2. CASE ~(hi - lo - need >= MinBlock)
  <2> DEFINE T == One(lo, hi, TRUE)
  <2>1. lo < hi
    BY <1>0
  <2>2. DOMAIN T = {lo} /\ T[lo] = [size |-> hi - lo, used |-> TRUE] /\ End(T, lo) = hi
    BY <2>1 DEF One, End
  <2> HIDE DEF T
  <2>3. Tiles(T, lo, hi)
    BY <2>1, <2>2, OneTiles
  <2>4. HoldsLinks(T)
    BY <1>0, <2>2 DEF HoldsLinks
  <2>5. \A h \in DOMAIN T : ~IsFree(T, h)
    BY <2>2 DEF IsFree
  <2>6. NoNeighboursFree(T)
    BY <2>5 DEF NoNeighboursFree
  <2>7. lo \in DOMAIN T
    BY <2>2
  <2>8. Good(Retile(B, lo, hi, T), e)
    BY <1>0, <2>1, <2>3, <2>4, <2>5, <2>6, <2>7, RetileGood
  <2> QED BY <2>8, <1>2 DEF Placed, T
<1> QED BY <1>1, <1>2

\* The three facts of BlockHeap are Good, next to the range of brk.
BlockInv == brk \in First..Limit /\ Good(blocks, brk)

\* A request takes a free block that fits.
LEMMA PlaceKeepsGood ==
  ASSUME NEW B, NEW e, NEW h \in DOMAIN B, NEW need \in Needs,
         Good(B, e), Fits(B, h, need)
  PROVE  Good(Place(B, h, need), e)
<1>1. need \in Nat /\ h \in Int /\ B[h].size \in Nat
  BY RegionAssumption DEF Good, Tiles
<1>2. h + need <= End(B, h)
  BY <1>1 DEF Fits, End
<1>3. ~IsFree(B, End(B, h))
  BY DEF Fits, Good, NoNeighboursFree
<1> QED BY <1>1, <1>2, <1>3, EndIsBoundary, PlacedGood DEF Place

\* free
LEMMA ReleaseKeepsGood ==
  ASSUME NEW B, NEW e, NEW h \in DOMAIN B, Good(B, e)
  PROVE  Good(Released(B, h), e)
<1>1. h \in Int /\ h + MinBlock <= End(B, h) /\ e \in Int
  BY RegionAssumption DEF Good, Tiles, HoldsLinks, End
<1>2. End(B, h) \in DOMAIN B \/ End(B, h) >= e
  BY EndIsBoundary, <1>1
<1>3. e = IF End(B, h) >= e THEN End(B, h) ELSE e
  BY EndIsBoundary, <1>1
<1> QED BY <1>1, <1>2, <1>3, EndIsBoundary, FreedGood DEF Released

\* heap_extend
LEMMA GrowKeepsGood ==
  ASSUME BlockInv, NEW e \in brk + MinBlock .. Limit
  PROVE  Good(Grown(blocks, e), e)
<1>1. brk \in Int /\ e \in Int /\ First <= brk /\ brk + MinBlock <= e /\ e >= brk
  BY RegionAssumption DEF BlockInv
<1> QED BY <1>1, FreedGood DEF Grown, BlockInv

\* Growing replaces no used block.
LEMMA GrownKeepsUsed ==
  ASSUME BlockInv, NEW e \in brk + MinBlock .. Limit,
         NEW h \in DOMAIN blocks, blocks[h].used
  PROVE  h \in DOMAIN Grown(blocks, e) /\ Grown(blocks, e)[h].used
<1> DEFINE l == Lower(blocks, brk)
           u == Upper(blocks, e)
<1>1. Good(blocks, brk) /\ brk \in Int /\ e \in Int /\ brk < e
  BY RegionAssumption DEF BlockInv
<1>2. h \in Int /\ h < End(blocks, h) /\ End(blocks, h) <= brk /\ End(blocks, h) \in Int
  BY <1>1, EndIsBoundary
<1>3. \/ l = brk
      \/ l \in DOMAIN blocks /\ IsFree(blocks, l) /\ End(blocks, l) = brk
  BY DEF Lower
<1>4. h < l
  <2>1. CASE l = brk
    BY <2>1, <1>1, <1>2
  <2>2. CASE l \in DOMAIN blocks /\ IsFree(blocks, l) /\ End(blocks, l) = brk
    <3>1. h # l
      BY <2>2 DEF IsFree
    <3>2. l \in Int /\ ~(l < h)
      BY <2>2, <1>1, <1>2, EndIsBoundary DEF Good, Tiles
    <3> QED BY <3>1, <3>2, <1>2
  <2> QED BY <1>3, <2>1, <2>2
<1> HIDE DEF l, u
<1>5. /\ h \in DOMAIN Retile(blocks, l, u, One(l, u, FALSE))
      /\ Retile(blocks, l, u, One(l, u, FALSE))[h] = blocks[h]
  <2>1. h # l
    BY <1>2, <1>3, <1>4, <1>1, EndIsBoundary
  <2> QED BY <1>4, <2>1 DEF Retile, One
<1> QED BY <1>5 DEF Grown, Freed, l, u

LEMMA BlockInitGood == BlockInit => BlockInv
<1> SUFFICES ASSUME BlockInit PROVE BlockInv
  OBVIOUS
<1>1. DOMAIN blocks = {} /\ brk = First
  BY DEF BlockInit
<1> QED BY <1>1, RegionAssumption
    DEF BlockInv, Good, Tiles, NoNeighboursFree, IsFree, HoldsLinks

\* Every call keeps the invariant: one step per action.
LEMMA BlockStep == BlockInv /\ [BlockNext]_blockVars => BlockInv'
<1> SUFFICES ASSUME BlockInv, [BlockNext]_blockVars PROVE BlockInv'
  OBVIOUS
<1>0. /\ Good(blocks, brk) /\ brk \in First..Limit /\ brk \in Int
      /\ First \in Nat /\ Limit \in Nat /\ MinBlock \in Nat \ {0}
  BY RegionAssumption DEF BlockInv
<1>1. ASSUME NEW e \in brk + MinBlock .. Limit
      PROVE  e \in First..Limit
  BY <1>0
<1>2. CASE Setup
  <2>1. PICK e \in First + MinBlock .. Limit : brk' = e /\ blocks' = Grown(blocks, e)
    BY <1>2 DEF Setup
  <2>2. e \in brk + MinBlock .. Limit
    BY <2>1, <1>2 DEF Setup
  <2> QED BY <2>1, <2>2, <1>1, GrowKeepsGood DEF BlockInv
<1>3. ASSUME NEW need \in Needs, Alloc(need) PROVE BlockInv'
  <2>1. PICK h \in DOMAIN blocks : Fits(blocks, h, need) /\ blocks' = Place(blocks, h, need)
    BY <1>3 DEF Alloc
  <2> QED BY <2>1, <1>0, <1>3, PlaceKeepsGood DEF Alloc, BlockInv
<1>4. ASSUME NEW need \in Needs, GrowAlloc(need) PROVE BlockInv'
  <2>1. PICK e \in brk + MinBlock .. Limit :
          /\ brk' = e
          /\ \E h \in DOMAIN Grown(blocks, e) :
                Fits(Grown(blocks, e), h, need) /\ blocks' = Place(Grown(blocks, e), h, need)
    BY <1>4 DEF GrowAlloc
  <2>2. Good(Grown(blocks, e), e)
    BY GrowKeepsGood
  <2> QED BY <2>1, <2>2, <1>1, PlaceKeepsGood DEF BlockInv
<1>5. ASSUME NEW h \in DOMAIN blocks, Release(h) PROVE BlockInv'
  BY <1>0, <1>5, ReleaseKeepsGood DEF Release, BlockInv
<1>6. ASSUME NEW h \in DOMAIN blocks, NEW need \in Needs, Shrink(h, need) PROVE BlockInv'
  <2> DEFINE B == Split(blocks, h, need)
  <2>1. /\ h \in Int /\ need \in Nat /\ need >= MinBlock
        /\ h + need + MinBlock <= End(blocks, h)
    BY <1>0, <1>6, RegionAssumption DEF Shrink, Good, Tiles, End
  <2>2. /\ First <= h /\ End(blocks, h) \in Int /\ End(blocks, h) <= brk
        /\ End(blocks, h) = brk \/ End(blocks, h) \in DOMAIN blocks
    BY <1>0, EndIsBoundary
  <2>3. ASSUME NEW used \in BOOLEAN, used
        PROVE  Good(Retile(blocks, h, End(blocks, h), Two(h, h + need, End(blocks, h), used)), brk)
    <3>1. h + need \in Int /\ h + MinBlock <= h + need
      BY <1>0, <2>1
    <3> QED BY <1>0, <2>1, <2>2, <2>3, <3>1, TwoGood
  <2>4. Good(B, brk)
    BY <2>3 DEF Split
  <2>5. h + need \in DOMAIN B
    BY DEF Split, Retile, Two
  <2> HIDE DEF B
  <2>6. Good(Released(B, h + need), brk)
    BY <2>4, <2>5, ReleaseKeepsGood
  <2>7. blocks' = Released(B, h + need) /\ UNCHANGED brk
    BY <1>6 DEF Shrink, B
  <2> QED BY <2>6, <2>7, <1>0 DEF BlockInv
<1>7. ASSUME NEW h \in DOMAIN blocks, NEW need \in Needs, Absorb(h, need) PROVE BlockInv'
  <2> DEFINE hi == End(blocks, End(blocks, h))
  <2>1. /\ IsFree(blocks, End(blocks, h)) /\ hi - h >= need /\ UNCHANGED brk
        /\ blocks' = Retile(blocks, h, hi, Placed(h, hi, need))
    BY <1>7 DEF Absorb
  <2>2. End(blocks, h) \in DOMAIN blocks /\ h \in Int /\ First <= h /\ need \in Nat
    BY <2>1, <1>0, EndIsBoundary, RegionAssumption DEF IsFree
  <2>3. hi \in Int /\ hi <= brk /\ (hi = brk \/ hi \in DOMAIN blocks)
    BY <2>2, <1>0, EndIsBoundary
  <2>4. ~IsFree(blocks, hi)
    BY <2>1, <2>2, <1>0 DEF Good, NoNeighboursFree
  <2> HIDE DEF hi
  <2>5. h + need <= hi
    BY <2>1, <2>2, <2>3
  <2>6. Good(Retile(blocks, h, hi, Placed(h, hi, need)), brk)
    BY <2>2, <2>3, <2>4, <2>5, <1>0, PlacedGood
  <2> QED BY <2>1, <2>6, <1>0 DEF BlockInv
<1>8. ASSUME NEW h \in DOMAIN blocks, NEW need \in Needs, Move(h, need) PROVE BlockInv'
  <2>1. ASSUME NEW B, NEW e \in First..Limit, Good(B, e), h \in DOMAIN B, B[h].used,
               NEW g \in DOMAIN B, Fits(B, g, need),
               brk' = e, blocks' = Released(Place(B, g, need), h)
        PROVE  BlockInv'
    <3>1. Good(Place(B, g, need), e)
      BY <2>1, PlaceKeepsGood
    <3>2. h # g
      BY <2>1 DEF Fits, IsFree
    <3>3. \/ h < g \/ End(B, g) <= h
      BY <2>1, <3>2, EndIsBoundary DEF Good, Tiles
    <3>4. h \in DOMAIN Place(B, g, need)
      BY <2>1, <3>3 DEF Place, Retile
    <3> QED BY <2>1, <3>1, <3>4, ReleaseKeepsGood DEF BlockInv
  <2>2. CASE /\ UNCHANGED brk
             /\ \E g \in DOMAIN blocks :
                   Fits(blocks, g, need) /\ blocks' = Released(Place(blocks, g, need), h)
    BY <2>1, <2>2, <1>0, <1>8 DEF Move
  <2>3. CASE \E e \in brk + MinBlock .. Limit :
               /\ brk' = e
               /\ \E g \in DOMAIN Grown(blocks, e) :
                     /\ Fits(Grown(blocks, e), g, need)
                     /\ blocks' = Released(Place(Grown(blocks, e), g, need), h)
    <3>1. PICK e \in brk + MinBlock .. Limit :
               /\ brk' = e
               /\ \E g \in DOMAIN Grown(blocks, e) :
                     /\ Fits(Grown(blocks, e), g, need)
                     /\ blocks' = Released(Place(Grown(blocks, e), g, need), h)
      BY <2>3
    <3>2. Good(Grown(blocks, e), e) /\ e \in First..Limit
      BY GrowKeepsGood, <1>1
    <3>3. h \in DOMAIN Grown(blocks, e) /\ Grown(blocks, e)[h].used
      BY <1>8, GrownKeepsUsed DEF Move
    <3> QED BY <2>1, <3>1, <3>2, <3>3
  <2> QED BY <1>8, <2>2, <2>3 DEF Move
<1>9. CASE UNCHANGED blockVars
  BY <1>9, <1>0 DEF blockVars, BlockInv
<1> QED BY <1>2, <1>3, <1>4, <1>5, <1>6, <1>7, <1>8, <1>9 DEF BlockNext

\* The invariant of the tiling: what heap_coalesce and heap_place rely on.
THEOREM BlockInvariant == BlockSpec => []BlockInv
<1> QED BY BlockInitGood, BlockStep, PTL DEF BlockSpec

\* The blocks always tile the region between first block and epilogue.
THEOREM RegionIsTiled == BlockSpec => []BlocksTile
<1>1. BlockInv => BlocksTile
  BY DEF BlockInv, Good, BlocksTile
<1> QED BY <1>1, BlockInvariant, PTL

\* The coalescing invariant of heap_place: no two neighbouring blocks are free.
THEOREM FreeBlocksAreMerged == BlockSpec => []NoFreeNeighbours
<1>1. BlockInv => NoFreeNeighbours
  BY DEF BlockInv, Good, NoFreeNeighbours
<1> QED BY <1>1, BlockInvariant, PTL

\* No block is too small for the links it holds when it is free.
THEOREM EveryBlockHoldsLinks == BlockSpec => []BlocksHoldLinks
<1>1. BlockInv => BlocksHoldLinks
  BY DEF BlockInv, Good, BlocksHoldLinks
<1> QED BY <1>1, BlockInvariant, PTL
=============================================================================
