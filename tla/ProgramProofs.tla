---------------------------- MODULE ProgramProofs ----------------------------
(***************************************************************************)
(* Proofs about the two-pass parse, for every program and every import     *)
(* graph: no alias launders the visibility of what it stands for; no       *)
(* accepted program has a type whose layout does not end; an accepted      *)
(* program is complete: each type a prescan reserved was defined, and each *)
(* function that shares its name with no other holds the body that stands  *)
(* at its own site; and a program is accepted exactly when it is well      *)
(* formed by a reading that never asks what comes first (initializers      *)
(* aside).                                                                 *)
(*                                                                         *)
(* The argument for aliases.  What stands behind a name is fixed when the  *)
(* name is registered: an entry keeps its kind, its file and its `public`  *)
(* (TablesGrow).  An alias stands for a builtin or for a type that is no   *)
(* alias, so the two gates of resolve_named_type are enough                *)
(* (ResolvedMayBeNamed).  The one type no gate has looked at, the receiver *)
(* of a method, is the type under declaration: it is declared where it was *)
(* reserved, because a type that is not defined yet has its first          *)
(* declaration still before it (ReservedInv).                              *)
(*                                                                         *)
(* The argument for the walk over the layouts, for every set of types and  *)
(* every containment graph.  The gray types are exactly the types on the   *)
(* walk's stack and each stores the next by value (StackIsAChain), so a    *)
(* type re-entered while gray is reached from itself.  A part a walk is    *)
(* done with is black, reported, or the type of the next activation        *)
(* (PartsAccountedFor); hence a black type's parts are reported or turned  *)
(* black before it did (BlackIsRanked), and the member of a set of         *)
(* unreported types that turned black first stores no other member.        *)
(*                                                                         *)
(* The argument for layouts.  The walk of module Cycles runs on the parts  *)
(* the finished tables give; whatever it reports stores itself, so some    *)
(* type stores it, so it is a declared type and the report an error.       *)
(*                                                                         *)
(* The argument for completeness.  A type yet to be defined has its first  *)
(* declaration still before the cursor (ReservedInv), and pass 1 ends when *)
(* nothing is.  Until the fill, whatever is set aside and whatever has     *)
(* been parsed belongs to a function of its name and site, and every       *)
(* function written with a body is set aside or parsed under its name      *)
(* (FilledInv); so where a name has one function only, the body found      *)
(* under it is the right one.                                              *)
(*                                                                         *)
(* The argument for the verdict of aliases.  The reading follows aliases   *)
(* by recursion, the parser registers them in rounds.  Whatever is         *)
(* registered is ranked: an alias of an alias came after it (AliasInv), so *)
(* following no more aliases than there are declarations reaches what the  *)
(* table says (StandsAsRegistered).  The other way, when the rounds end,   *)
(* nothing that is left would resolve; of the aliases left, one whose      *)
(* target takes the fewest aliases to follow has a target that is          *)
(* registered, and would resolve.  So where every type written may be      *)
(* named, none is left (NoneIsLeft).                                       *)
(*                                                                         *)
(* The argument that what is accepted is well formed.  What was found      *)
(* right about a declaration when the cursor passed it stays right:        *)
(* entries only gain their parts (Grow), so what resolved resolves, and    *)
(* means the same (HeadsInv).  The tables of functions and globals hold    *)
(* exactly what has been passed, and methods' functions under names of     *)
(* their own (FunctionsInv, GlobalsInv).  An initializer was judged by the *)
(* tables of its moment, a body by the full ones, and no body is lost on   *)
(* the way (BodiesInv).                                                    *)
(*                                                                         *)
(* The argument that what is well formed is accepted.  Of a well-formed    *)
(* program no declaration is refused (ItemIsPassed), no body fails         *)
(* (BodyIsParsed) and the walk over the layouts reports nothing: a type    *)
(* that stores itself is one of a set of types in which each stores a      *)
(* member (EndlessLayout), and what the tables store by value is what the  *)
(* reading says (PartsAreStored).                                          *)
(***************************************************************************)
EXTENDS Program, FiniteSetTheorems, SequenceTheorems, WellFoundedInduction, TLAPS

-----------------------------------------------------------------------------
(* The search for containment cycles, for every graph. *)

StackIsGray ==
  \A t \in Types : colors[t] = "gray" <=> \E i \in 1..Len(path) : path[i].node = t

NoTypeTwice ==
  \A i, j \in 1..Len(path) : path[i].node = path[j].node => i = j

StackIsAChain ==
  \A i \in 1..(Len(path) - 1) : path[i + 1].node \in contains[path[i].node]

TodoIsParts ==
  \A i \in 1..Len(path) : path[i].todo \subseteq contains[path[i].node]

PartsAccountedFor ==
  \A i \in 1..Len(path) : \A t \in contains[path[i].node] \ path[i].todo :
    \/ colors[t] = "black"
    \/ t \in cyclic
    \/ i < Len(path) /\ t = path[i + 1].node

BlackIsRanked ==
  \A t \in Types : colors[t] = "black" =>
    /\ rank[t] < clock
    /\ \A u \in contains[t] :
         u \in cyclic \/ (colors[u] = "black" /\ rank[u] < rank[t])

CycInv == /\ CycTypeOK
          /\ StackIsGray
          /\ NoTypeTwice
          /\ StackIsAChain
          /\ TodoIsParts
          /\ PartsAccountedFor
          /\ BlackIsRanked
          /\ OnlyCyclesReported

-----------------------------------------------------------------------------

\* From a type on the stack down to the innermost one: whatever set holds the
\* type's parts, and with each member its parts, holds every deeper type.
LEMMA DeeperTypesReached ==
  ASSUME CycTypeOK, StackIsAChain,
         NEW i \in 1..Len(path),
         NEW S \in SUBSET Types,
         contains[path[i].node] \subseteq S,
         \A u \in S : contains[u] \subseteq S
  PROVE  \A j \in (i + 1)..Len(path) : path[j].node \in S
PROOF
<1> DEFINE Missed == {j \in (i + 1)..Len(path) : path[j].node \notin S}
           Less   == {p \in Nat \X Nat : p[1] < p[2]}
<1>1. Len(path) \in Nat
  BY DEF CycTypeOK
<1>2. SUFFICES ASSUME Missed # {} PROVE FALSE
  OBVIOUS
<1>3. Missed \subseteq Nat
  BY <1>1
<1>4. IsWellFoundedOn(Less, Nat)
  BY NatLessThanWellFounded DEF OpToRel
<1> HIDE DEF Missed, Less
<1>5. PICK j \in Missed : \A k \in Missed : <<k, j>> \notin Less
  BY <1>2, <1>3, <1>4, WFMin
<1>6. j \in (i + 1)..Len(path) /\ path[j].node \notin S
  BY <1>5 DEF Missed
<1>7. j - 1 \in 1..(Len(path) - 1)
  BY <1>1, <1>6
<1>8. path[(j - 1) + 1].node \in contains[path[j - 1].node]
  BY <1>7 DEF StackIsAChain
<1>9. path[j].node \in contains[path[j - 1].node]
  BY <1>6, <1>8
<1>10. CASE j = i + 1
  BY <1>6, <1>9, <1>10
<1>11. CASE j # i + 1
  <2>1. j - 1 \in (i + 1)..Len(path)
    BY <1>1, <1>6, <1>11
  <2>2. <<j - 1, j>> \in Less
    BY <1>1, <1>6, <2>1 DEF Less
  <2>3. j - 1 \notin Missed
    BY <1>5, <2>2
  <2>4. path[j - 1].node \in S
    BY <2>1, <2>3 DEF Missed
  <2> QED
    BY <1>6, <1>9, <2>4
<1> QED
  BY <1>10, <1>11

\* A type on the stack that the innermost type stores by value stores itself.
LEMMA ReenteredStoresItself ==
  ASSUME CycTypeOK, StackIsAChain, TodoIsParts,
         NEW i \in 1..Len(path),
         path[i].node \in Innermost.todo
  PROVE  StoresItself(path[i].node)
PROOF
<1> SUFFICES ASSUME NEW S \in SUBSET Types,
                    contains[path[i].node] \subseteq S,
                    \A u \in S : contains[u] \subseteq S
             PROVE  path[i].node \in S
  BY DEF StoresItself
<1>1. Len(path) \in Nat /\ Len(path) \in 1..Len(path)
  BY DEF CycTypeOK
<1>2. path[i].node \in contains[path[Len(path)].node]
  BY <1>1 DEF TodoIsParts, Innermost
<1>3. CASE i = Len(path)
  BY <1>2, <1>3
<1>4. CASE i # Len(path)
  <2>1. Len(path) \in (i + 1)..Len(path)
    BY <1>1, <1>4
  <2>2. path[Len(path)].node \in S
    BY <2>1, DeeperTypesReached, SMTT(20)
  <2> QED
    BY <1>2, <2>2
<1> QED
  BY <1>3, <1>4

-----------------------------------------------------------------------------
\* Ending one part of the innermost activation changes its todo and no type.
LEMMA LookedOnlyShrinksTodo ==
  ASSUME CycTypeOK, path # <<>>, NEW t \in Types
  PROVE  /\ Looked(t) \in Seq(Visit)
         /\ Len(Looked(t)) = Len(path)
         /\ \A i \in 1..Len(path) :
              /\ Looked(t)[i].node = path[i].node
              /\ Looked(t)[i].todo = IF i = Len(path)
                                     THEN path[i].todo \ {t} ELSE path[i].todo
PROOF
<1>1. Len(path) \in Nat \ {0} /\ DOMAIN path = 1..Len(path)
  BY DEF CycTypeOK
<1>2. \A i \in 1..Len(path) : path[i] \in Visit
  BY DEF CycTypeOK
<1>3. path[Len(path)] \in Visit
  BY <1>1, <1>2
<1> DEFINE top == [path[Len(path)] EXCEPT !.todo = @ \ {t}]
<1>4. top \in Visit /\ top.node = path[Len(path)].node
      /\ top.todo = path[Len(path)].todo \ {t}
  BY <1>3 DEF Visit
<1> HIDE DEF top
<1>5. Looked(t) = [path EXCEPT ![Len(path)] = top]
  BY <1>1 DEF Looked, top
<1>6. Looked(t) \in Seq(Visit) /\ Len(Looked(t)) = Len(path)
  BY <1>1, <1>4, <1>5 DEF CycTypeOK
<1>7. \A i \in 1..Len(path) : Looked(t)[i] = IF i = Len(path) THEN top ELSE path[i]
  BY <1>1, <1>5
<1> QED
  BY <1>1, <1>4, <1>6, <1>7

\* A type entered while white, as a root or as a part of the innermost type.
LEMMA EnteringKeepsInv ==
  ASSUME CycInv, NEW t \in Types, Root(t) \/ Descend(t)
  PROVE  CycInv'
PROOF
<1> DEFINE below == IF path = <<>> THEN path ELSE Looked(t)
           frame == [node |-> t, todo |-> contains[t]]
<1>1. CycTypeOK /\ colors[t] = "white" /\ Len(path) \in Nat
      /\ UNCHANGED <<contains, cyclic, rank, clock>>
      /\ colors' = [colors EXCEPT ![t] = "gray"]
  BY DEF CycInv, CycTypeOK, Root, Descend, Entered
<1>2. below \in Seq(Visit) /\ Len(below) = Len(path)
  BY <1>1, LookedOnlyShrinksTodo DEF CycTypeOK
<1>3. \A i \in 1..Len(path) :
        /\ below[i].node = path[i].node
        /\ below[i].todo = IF i = Len(path) THEN path[i].todo \ {t} ELSE path[i].todo
  <2>1. CASE path = <<>>
    <3>1. Len(path) = 0
      BY <2>1
    <3> QED
      BY <3>1
  <2>2. CASE path # <<>>
    BY <1>1, <2>2, LookedOnlyShrinksTodo
  <2> QED
    BY <2>1, <2>2
<1>4. path' = Append(below, frame)
  BY DEF Root, Descend, Entered
<1>5. frame \in Visit /\ frame.node = t /\ frame.todo = contains[t]
  BY <1>1 DEF CycTypeOK, Visit
<1> HIDE DEF below, frame
<1>6. path' \in Seq(Visit) /\ Len(path') = Len(path) + 1
      /\ path'[Len(path) + 1] = frame
      /\ \A i \in 1..Len(path) : path'[i] = below[i]
  BY <1>1, <1>2, <1>4, <1>5
<1>7. \A i \in 1..Len(path) : path'[i].node = path[i].node
  BY <1>3, <1>6
<1>8. \A i \in 1..Len(path) : path[i].node \in Types /\ colors[path[i].node] = "gray"
  <2> TAKE i \in 1..Len(path)
  <2>1. path[i] \in Visit
    BY <1>1 DEF CycTypeOK
  <2> QED
    BY <2>1 DEF CycInv, StackIsGray, Visit
<1>9. \A u \in Types : colors'[u] = IF u = t THEN "gray" ELSE colors[u]
  BY <1>1 DEF CycTypeOK
<1>10. CycTypeOK'
  <2>1. colors' \in [Types -> Colour]
    BY <1>1 DEF CycTypeOK, Colour
  <2> QED
    BY <1>1, <1>6, <2>1 DEF CycTypeOK
<1>11. StackIsGray'
  <2> SUFFICES ASSUME NEW u \in Types
               PROVE  colors'[u] = "gray" <=> \E i \in 1..Len(path') : path'[i].node = u
    BY DEF StackIsGray
  <2>1. CASE u = t
    BY <1>1, <1>5, <1>6, <1>9, <2>1
  <2>2. CASE u # t
    <3>1. (\E i \in 1..Len(path') : path'[i].node = u)
            <=> \E i \in 1..Len(path) : path[i].node = u
      BY <1>1, <1>5, <1>6, <1>7, <2>2
    <3> QED
      BY <1>9, <2>2, <3>1 DEF CycInv, StackIsGray
  <2> QED
    BY <2>1, <2>2
<1>12. NoTypeTwice'
  <2> SUFFICES ASSUME NEW i \in 1..Len(path'), NEW j \in 1..Len(path'),
                      path'[i].node = path'[j].node
               PROVE  i = j
    BY DEF NoTypeTwice
  <2>1. \A k \in 1..Len(path) : path'[k].node # t
    BY <1>1, <1>7, <1>8
  <2>2. CASE i \in 1..Len(path) /\ j \in 1..Len(path)
    BY <1>7, <2>2 DEF CycInv, NoTypeTwice
  <2> QED
    BY <1>1, <1>5, <1>6, <2>1, <2>2
<1>13. StackIsAChain'
  <2> SUFFICES ASSUME NEW i \in 1..(Len(path') - 1)
               PROVE  path'[i + 1].node \in contains[path'[i].node]
    BY <1>1 DEF StackIsAChain
  <2>1. CASE i < Len(path)
    <3>1. i \in 1..(Len(path) - 1) /\ i \in 1..Len(path) /\ i + 1 \in 1..Len(path)
      BY <1>1, <1>6, <2>1
    <3> QED
      BY <1>7, <3>1 DEF CycInv, StackIsAChain
  <2>2. CASE i = Len(path)
    <3>1. i \in 1..Len(path) /\ t \in path[i].todo
      BY <1>1, <1>6, <2>2 DEF Root, Descend, Innermost
    <3>2. t \in contains[path[i].node]
      BY <3>1 DEF CycInv, TodoIsParts
    <3> QED
      BY <1>5, <1>6, <1>7, <2>2, <3>1, <3>2
  <2> QED
    BY <1>1, <1>6, <2>1, <2>2
<1>14. TodoIsParts'
  <2> SUFFICES ASSUME NEW i \in 1..Len(path')
               PROVE  path'[i].todo \subseteq contains[path'[i].node]
    BY <1>1 DEF TodoIsParts
  <2>1. CASE i \in 1..Len(path)
    BY <1>3, <1>6, <2>1 DEF CycInv, TodoIsParts
  <2> QED
    BY <1>1, <1>5, <1>6, <2>1
<1>15. PartsAccountedFor'
  <2> SUFFICES ASSUME NEW i \in 1..Len(path'),
                      NEW u \in contains[path'[i].node] \ path'[i].todo
               PROVE  \/ colors'[u] = "black"
                      \/ u \in cyclic
                      \/ i < Len(path') /\ u = path'[i + 1].node
    BY <1>1 DEF PartsAccountedFor
  <2>1. CASE i = Len(path) + 1
    BY <1>5, <1>6, <2>1
  <2>2. CASE i \in 1..Len(path) /\ u = t /\ i = Len(path)
    BY <1>1, <1>5, <1>6, <2>2
  <2>3. CASE i \in 1..Len(path) /\ ~(u = t /\ i = Len(path))
    <3>1. u \in contains[path[i].node] \ path[i].todo
      BY <1>3, <1>6, <2>3
    <3>2. u \in Types
      BY <1>1, <1>8, <2>3, <3>1 DEF CycTypeOK
    <3>3. \/ colors[u] = "black"
          \/ u \in cyclic
          \/ i < Len(path) /\ u = path[i + 1].node
      BY <2>3, <3>1 DEF CycInv, PartsAccountedFor
    <3>4. CASE colors[u] = "black"
      BY <1>1, <1>9, <3>2, <3>4
    <3>5. CASE i < Len(path) /\ u = path[i + 1].node
      <4>1. i + 1 \in 1..Len(path)
        BY <1>1, <2>3, <3>5
      <4> QED
        BY <1>1, <1>6, <1>7, <2>3, <3>5, <4>1
    <3> QED
      BY <3>3, <3>4, <3>5
  <2> QED
    BY <1>1, <1>6, <2>1, <2>2, <2>3
<1>16. BlackIsRanked'
  <2> SUFFICES ASSUME NEW u \in Types, colors'[u] = "black"
               PROVE  /\ rank[u] < clock
                      /\ \A v \in contains[u] :
                           v \in cyclic \/ (colors'[v] = "black" /\ rank[v] < rank[u])
    BY <1>1 DEF BlackIsRanked
  <2>1. colors[u] = "black"
    BY <1>9
  <2>2. contains[u] \subseteq Types
    BY <1>1 DEF CycTypeOK
  <2> QED
    BY <1>1, <1>9, <2>1, <2>2 DEF CycInv, BlackIsRanked
<1>17. OnlyCyclesReported'
  BY <1>1 DEF CycInv, OnlyCyclesReported, StoresItself
<1> QED
  BY <1>10, <1>11, <1>12, <1>13, <1>14, <1>15, <1>16, <1>17 DEF CycInv

\* A part already gray or black: visit returns at once.
LEMMA ReturningKeepsInv ==
  ASSUME CycInv, NEW t \in Types, Return(t)
  PROVE  CycInv'
PROOF
<1>1. /\ CycTypeOK /\ path # <<>> /\ t \in Innermost.todo /\ colors[t] # "white"
      /\ UNCHANGED <<contains, colors, rank, clock>>
      /\ path' = Looked(t)
      /\ cyclic \subseteq cyclic' /\ cyclic' \subseteq cyclic \cup {t}
      /\ (colors[t] = "gray") <=> (cyclic' = cyclic \cup {t} /\ Reenters(t))
  BY DEF CycInv, Return, Reenters
<1>2. Len(path) \in Nat \ {0} /\ Len(path) \in 1..Len(path)
  BY <1>1 DEF CycTypeOK
<1>3. /\ path' \in Seq(Visit) /\ Len(path') = Len(path)
      /\ \A i \in 1..Len(path) :
           /\ path'[i].node = path[i].node
           /\ path'[i].todo = IF i = Len(path) THEN path[i].todo \ {t} ELSE path[i].todo
  BY <1>1, LookedOnlyShrinksTodo
<1>4. CycTypeOK'
  BY <1>1, <1>3 DEF CycTypeOK
<1>5. StackIsGray'
  <2> SUFFICES ASSUME NEW u \in Types
               PROVE  colors'[u] = "gray" <=> \E i \in 1..Len(path') : path'[i].node = u
    BY DEF StackIsGray
  <2>1. (\E i \in 1..Len(path') : path'[i].node = u)
          <=> \E i \in 1..Len(path) : path[i].node = u
    BY <1>3
  <2>2. colors'[u] = colors[u]
    BY <1>1
  <2> QED
    BY <2>1, <2>2 DEF CycInv, StackIsGray
<1>6. NoTypeTwice'
  BY <1>1, <1>3 DEF CycInv, NoTypeTwice
<1>7. StackIsAChain'
  <2> SUFFICES ASSUME NEW i \in 1..(Len(path) - 1)
               PROVE  path'[i + 1].node \in contains[path'[i].node]
    BY <1>1, <1>3 DEF StackIsAChain
  <2>1. i \in 1..Len(path) /\ i + 1 \in 1..Len(path)
    BY <1>2
  <2> QED
    BY <1>3, <2>1 DEF CycInv, StackIsAChain
<1>8. TodoIsParts'
  <2> SUFFICES ASSUME NEW i \in 1..Len(path)
               PROVE  path'[i].todo \subseteq contains[path'[i].node]
    BY <1>1, <1>3 DEF TodoIsParts
  <2> QED
    BY <1>3 DEF CycInv, TodoIsParts
<1>9. PartsAccountedFor'
  <2> SUFFICES ASSUME NEW i \in 1..Len(path),
                      NEW u \in contains[path[i].node] \ path'[i].todo
               PROVE  \/ colors[u] = "black"
                      \/ u \in cyclic'
                      \/ i < Len(path) /\ u = path[i + 1].node
    <3>1. \A i \in 1..Len(path) : i < Len(path) => path'[i + 1].node = path[i + 1].node
      <4> SUFFICES ASSUME NEW i \in 1..Len(path), i < Len(path)
                   PROVE  path'[i + 1].node = path[i + 1].node
        OBVIOUS
      <4>1. i + 1 \in 1..Len(path)
        BY <1>2
      <4> QED
        BY <1>3, <4>1
    <3> QED
      BY <1>1, <1>3, <3>1 DEF PartsAccountedFor
  <2>1. CASE u = t
    <3>1. colors[t] \in Colour
      BY <1>1 DEF CycTypeOK
    <3>2. colors[t] = "gray" => t \in cyclic'
      BY <1>1
    <3> QED
      BY <1>1, <2>1, <3>1, <3>2 DEF Colour
  <2>2. CASE u # t
    <3>1. u \in contains[path[i].node] \ path[i].todo
      BY <1>3, <2>2
    <3> QED
      BY <1>1, <3>1 DEF CycInv, PartsAccountedFor
  <2> QED
    BY <2>1, <2>2
<1>10. BlackIsRanked'
  BY <1>1 DEF CycInv, BlackIsRanked
<1>11. OnlyCyclesReported'
  <2> SUFFICES ASSUME NEW u \in cyclic' PROVE StoresItself(u)
    BY <1>1 DEF OnlyCyclesReported, StoresItself
  <2>1. CASE u \in cyclic
    BY <2>1 DEF CycInv, OnlyCyclesReported
  <2>2. CASE u \notin cyclic
    <3>1. u = t /\ colors[t] = "gray"
      BY <1>1, <2>2 DEF CycInv, Return, Reenters
    <3>2. PICK i \in 1..Len(path) : path[i].node = t
      BY <3>1 DEF CycInv, StackIsGray
    <3>3. path[i].node \in Innermost.todo
      BY <1>1, <3>2
    <3>4. StoresItself(path[i].node)
      BY <3>3, ReenteredStoresItself DEF CycInv
    <3> QED
      BY <3>1, <3>2, <3>4
  <2> QED
    BY <2>1, <2>2
<1> QED
  BY <1>4, <1>5, <1>6, <1>7, <1>8, <1>9, <1>10, <1>11 DEF CycInv

\* The innermost type has been explored and turns black.
LEMMA FinishingKeepsInv ==
  ASSUME CycInv, Finish
  PROVE  CycInv'
PROOF
<1> DEFINE n == path[Len(path)].node
<1>1. /\ CycTypeOK /\ path # <<>> /\ path[Len(path)].todo = {}
      /\ UNCHANGED <<contains, cyclic>>
      /\ colors' = [colors EXCEPT ![n] = "black"]
      /\ rank' = [rank EXCEPT ![n] = clock]
      /\ clock' = clock + 1
      /\ path' = SubSeq(path, 1, Len(path) - 1)
  BY DEF CycInv, Finish, Innermost
<1>2. Len(path) \in Nat \ {0} /\ Len(path) \in 1..Len(path)
  BY <1>1 DEF CycTypeOK
<1>3. path[Len(path)] \in Visit
  BY <1>1, <1>2 DEF CycTypeOK
<1>4. n \in Types /\ colors[n] = "gray"
  BY <1>2, <1>3 DEF CycInv, StackIsGray, Visit
<1>5. /\ path' \in Seq(Visit) /\ Len(path') = Len(path) - 1
      /\ \A i \in 1..(Len(path) - 1) : path'[i] = path[i]
  <2> DEFINE m    == Len(path) - 1
             rest == SubSeq(path, 1, m)
  <2>1. m \in Nat /\ 1 \in Int /\ m \in Int /\ \A i \in 1..m : path[i] \in Visit
    BY <1>1, <1>2 DEF CycTypeOK
  <2>2. path' = rest
    BY <1>1
  <2> HIDE DEF m
  <2>3. /\ rest \in Seq(Visit)
        /\ Len(rest) = IF 1 <= m THEN m - 1 + 1 ELSE 0
        /\ \A i \in 1..(m - 1 + 1) : rest[i] = path[1 + i - 1]
    BY <2>1, SubSeqProperties
  <2> HIDE DEF rest
  <2>4. Len(rest) = m /\ \A i \in 1..m : rest[i] = path[i]
    BY <2>1, <2>3
  <2> QED
    BY <2>2, <2>3, <2>4 DEF m
<1>6. \A i \in 1..(Len(path) - 1) : path[i].node # n
  <2> SUFFICES ASSUME NEW i \in 1..(Len(path) - 1), path[i].node = n PROVE FALSE
    OBVIOUS
  <2>1. i \in 1..Len(path) /\ i # Len(path)
    BY <1>2
  <2> QED
    BY <1>2, <2>1 DEF CycInv, NoTypeTwice
<1> HIDE DEF n
<1>7. \A u \in Types : /\ colors'[u] = IF u = n THEN "black" ELSE colors[u]
                       /\ rank'[u] = IF u = n THEN clock ELSE rank[u]
  BY <1>1 DEF CycTypeOK
<1>8. CycTypeOK'
  <2>1. colors' \in [Types -> Colour]
    BY <1>1 DEF CycTypeOK, Colour
  <2>2. clock \in Nat /\ rank \in [Types -> Nat]
    BY <1>1 DEF CycTypeOK
  <2>3. clock' \in Nat
    BY <1>1, <2>2
  <2>4. rank' \in [Types -> Nat]
    BY <1>1, <2>2
  <2> QED
    BY <1>1, <1>5, <2>1, <2>3, <2>4 DEF CycTypeOK
<1>9. StackIsGray'
  <2> SUFFICES ASSUME NEW u \in Types
               PROVE  colors'[u] = "gray"
                        <=> \E i \in 1..(Len(path) - 1) : path[i].node = u
    BY <1>5 DEF StackIsGray
  <2>1. CASE u = n
    BY <1>6, <1>7, <2>1
  <2>2. CASE u # n
    <3>1. (\E i \in 1..Len(path) : path[i].node = u)
            <=> \E i \in 1..(Len(path) - 1) : path[i].node = u
      BY <1>2, <2>2 DEF n
    <3> QED
      BY <1>7, <2>2, <3>1 DEF CycInv, StackIsGray
  <2> QED
    BY <2>1, <2>2
<1>10. NoTypeTwice'
  <2> SUFFICES ASSUME NEW i \in 1..(Len(path) - 1), NEW j \in 1..(Len(path) - 1),
                      path[i].node = path[j].node
               PROVE  i = j
    BY <1>5 DEF NoTypeTwice
  <2>1. i \in 1..Len(path) /\ j \in 1..Len(path)
    BY <1>2
  <2> QED
    BY <2>1 DEF CycInv, NoTypeTwice
<1>11. StackIsAChain'
  <2> SUFFICES ASSUME NEW i \in 1..(Len(path') - 1)
               PROVE  path'[i + 1].node \in contains[path'[i].node]
    BY <1>1 DEF StackIsAChain
  <2>1. i \in 1..(Len(path) - 1) /\ i + 1 \in 1..(Len(path) - 1)
    BY <1>2, <1>5
  <2> QED
    BY <1>5, <2>1 DEF CycInv, StackIsAChain
<1>12. TodoIsParts'
  <2> SUFFICES ASSUME NEW i \in 1..(Len(path) - 1)
               PROVE  path[i].todo \subseteq contains[path[i].node]
    BY <1>1, <1>5 DEF TodoIsParts
  <2>1. i \in 1..Len(path)
    BY <1>2
  <2> QED
    BY <2>1 DEF CycInv, TodoIsParts
<1>13. PartsAccountedFor'
  <2> SUFFICES ASSUME NEW i \in 1..Len(path'),
                      NEW u \in contains'[path'[i].node] \ path'[i].todo
               PROVE  \/ colors'[u] = "black"
                      \/ u \in cyclic'
                      \/ i < Len(path') /\ u = path'[i + 1].node
    BY DEF PartsAccountedFor
  <2>1. i \in 1..(Len(path) - 1) /\ i \in 1..Len(path) /\ i + 1 \in 1..Len(path)
    BY <1>2, <1>5
  <2>2. u \in contains[path[i].node] \ path[i].todo
    BY <1>1, <1>5, <2>1
  <2>3. path[i] \in Visit
    BY <1>1, <2>1 DEF CycTypeOK
  <2>4. u \in Types
    BY <1>1, <2>2, <2>3 DEF CycTypeOK, Visit
  <2>5. \/ colors[u] = "black"
        \/ u \in cyclic
        \/ i < Len(path) /\ u = path[i + 1].node
    BY <2>1, <2>2 DEF CycInv, PartsAccountedFor
  <2>6. CASE colors[u] = "black"
    BY <1>7, <2>4, <2>6
  <2>7. CASE u \in cyclic
    BY <1>1, <2>7
  <2>8. CASE i + 1 = Len(path) /\ u = path[i + 1].node
    BY <1>7, <2>4, <2>8 DEF n
  <2>9. CASE i + 1 # Len(path) /\ u = path[i + 1].node
    <3>1. i + 1 \in 1..(Len(path) - 1)
      BY <1>2, <2>1, <2>9
    <3> QED
      BY <1>2, <1>5, <2>9, <3>1
  <2> QED
    BY <2>5, <2>6, <2>7, <2>8, <2>9
<1>14. BlackIsRanked'
  <2> SUFFICES ASSUME NEW u \in Types, colors'[u] = "black"
               PROVE  /\ rank'[u] < clock'
                      /\ \A v \in contains[u] :
                           v \in cyclic \/ (colors'[v] = "black" /\ rank'[v] < rank'[u])
    BY <1>1 DEF BlackIsRanked
  <2>1. contains[u] \subseteq Types /\ clock \in Nat /\ \A v \in Types : rank[v] \in Nat
    BY <1>1 DEF CycTypeOK
  <2>2. CASE u = n
    <3>1. \A v \in contains[n] : v \in cyclic \/ colors[v] = "black"
      BY <1>1, <1>2, <2>1 DEF CycInv, PartsAccountedFor, n
    <3>2. \A v \in contains[n] : v \in cyclic
            \/ (colors[v] = "black" /\ v # n /\ rank[v] < clock)
      BY <1>4, <2>1, <2>2, <3>1 DEF CycInv, BlackIsRanked
    <3> QED
      BY <1>1, <1>7, <2>1, <2>2, <3>2
  <2>3. CASE u # n
    <3>1. colors[u] = "black"
      BY <1>7, <2>3
    <3>2. /\ rank[u] < clock
          /\ \A v \in contains[u] :
               v \in cyclic \/ (colors[v] = "black" /\ rank[v] < rank[u])
      BY <3>1 DEF CycInv, BlackIsRanked
    <3>3. \A v \in contains[u] : colors[v] = "black" => v # n
      BY <1>4
    <3> QED
      BY <1>1, <1>7, <2>1, <2>3, <3>2, <3>3
  <2> QED
    BY <2>2, <2>3
<1>15. OnlyCyclesReported'
  BY <1>1 DEF CycInv, OnlyCyclesReported, StoresItself
<1> QED
  BY <1>8, <1>9, <1>10, <1>11, <1>12, <1>13, <1>14, <1>15 DEF CycInv

-----------------------------------------------------------------------------
\* The invariant holds before the walk's first step, and every step keeps it.
LEMMA CycStartsWell == CycInit => CycInv
PROOF
<1> SUFFICES ASSUME CycInit PROVE CycInv
  OBVIOUS
<1>1. CycTypeOK
  BY DEF CycInit, WalkStarts, CycTypeOK, Colour
<1>2. \A t \in Types : colors[t] = "white"
  BY DEF CycInit, WalkStarts
<1>3. path = <<>> /\ Len(path) = 0 /\ cyclic = {}
  BY DEF CycInit, WalkStarts
<1> QED
  BY <1>1, <1>2, <1>3
  DEF CycInv, StackIsGray, NoTypeTwice, StackIsAChain, TodoIsParts,
      PartsAccountedFor, BlackIsRanked, OnlyCyclesReported

LEMMA CycStepKeepsInv == CycInv /\ [CycNext]_cycVars => CycInv'
PROOF
<1> SUFFICES ASSUME CycInv, [CycNext]_cycVars PROVE CycInv'
  OBVIOUS
<1>1. ASSUME NEW t \in Types, Root(t) \/ Descend(t) PROVE CycInv'
  BY <1>1, EnteringKeepsInv
<1>2. ASSUME NEW t \in Types, Return(t) PROVE CycInv'
  BY <1>2, ReturningKeepsInv
<1>3. CASE Finish
  BY <1>3, FinishingKeepsInv
<1>4. CASE UNCHANGED cycVars
  BY <1>4
  DEF cycVars, CycInv, CycTypeOK, StackIsGray, NoTypeTwice, StackIsAChain,
      TodoIsParts, PartsAccountedFor, BlackIsRanked, OnlyCyclesReported, StoresItself
<1> QED
  BY <1>1, <1>2, <1>3, <1>4 DEF CycNext

\* The invariant of the walk (visit, find_byvalue_cycles), for every set of
\* types and every containment graph.
THEOREM CycInvariant == CycSpec => []CycInv
PROOF
  BY CycStartsWell, CycStepKeepsInv, PTL DEF CycSpec

\* With the walk over, take the member of a set of unreported types that
\* turned black first: its parts turned black before it or are reported, so
\* none of them is a member.
LEMMA FirstBlackIsGround == CycInv => NoCycleEscapes
PROOF
<1> SUFFICES ASSUME CycInv, Walked, NEW S \in SUBSET (Types \ cyclic), S # {}
             PROVE  Grounded(S)
  BY DEF NoCycleEscapes
<1> DEFINE Ranks == {rank[t] : t \in S}
           Less  == {p \in Nat \X Nat : p[1] < p[2]}
<1>1. Ranks \subseteq Nat /\ Ranks # {}
  BY DEF CycInv, CycTypeOK
<1>2. IsWellFoundedOn(Less, Nat)
  BY NatLessThanWellFounded DEF OpToRel
<1> HIDE DEF Ranks, Less
<1>3. PICK r \in Ranks : \A q \in Ranks : <<q, r>> \notin Less
  BY <1>1, <1>2, WFMin
<1>4. PICK t \in S : rank[t] = r
  BY <1>3 DEF Ranks
<1>5. \A u \in contains[t] : u \in cyclic \/ rank[u] < rank[t]
  BY <1>4 DEF CycInv, BlackIsRanked, Walked
<1>6. contains[t] \cap S = {}
  <2> SUFFICES ASSUME NEW u \in contains[t], u \in S PROVE FALSE
    OBVIOUS
  <2>1. rank[u] \in Ranks /\ rank[t] \in Ranks
    BY <1>4 DEF Ranks
  <2>2. rank[u] < rank[t]
    BY <1>5
  <2>3. <<rank[u], rank[t]>> \in Less
    BY <1>1, <2>1, <2>2 DEF Less
  <2> QED
    BY <1>3, <1>4, <2>1, <2>3
<1> QED
  BY <1>6 DEF Grounded

\* Once the walk of check_byvalue_containment_cycles is over, no by-value
\* cycle avoids the types it reported.
THEOREM CyclesAreCut == CycSpec => []NoCycleEscapes
PROOF
  BY CycInvariant, FirstBlackIsGround, PTL

\* The walk reports no type whose layout is finite.
THEOREM ReportsAreCycles == CycSpec => []OnlyCyclesReported
PROOF
<1>1. CycInv => OnlyCyclesReported
  BY DEF CycInv
<1> QED
  BY <1>1, CycInvariant, PTL

-----------------------------------------------------------------------------
(* Tables. *)


\* Declaration k is the first of the type n.
Reserves(k, n) ==
  /\ k \in DOMAIN text /\ text[k].form \in Nominal /\ text[k].name = n
  /\ \A i \in DOMAIN text : text[i].form \in Nominal /\ text[i].name = n => k <= i

IsEntry(e) ==
  /\ e = [kind |-> e.kind, file |-> e.file, public |-> e.public,
          defined |-> e.defined, target |-> e.target, parts |-> e.parts]
  /\ e.defined \in BOOLEAN

LEMMA EntryIsEntry ==
  ASSUME NEW a, NEW b, NEW c, NEW d \in BOOLEAN, NEW e, NEW f
  PROVE  LET r == [kind |-> a, file |-> b, public |-> c,
                   defined |-> d, target |-> e, parts |-> f]
         IN  /\ IsEntry(r) /\ r.kind = a /\ r.file = b /\ r.public = c
             /\ r.defined = d /\ r.target = e /\ r.parts = f
  BY DEF IsEntry

ReservedInv ==
  /\ text \in Texts
  /\ at \in Nat
  /\ phase = "names" => at = 1 /\ types = <<>> /\ functions = <<>> /\ globals = <<>>
  /\ sites \subseteq {i \in DOMAIN text : text[i].form = "alias"}
  /\ todo \subseteq sites
  /\ types = [t \in DOMAIN types |-> types[t]]
  /\ DOMAIN types \subseteq Types
  /\ phase # "names" =>
       \A i \in DOMAIN text : text[i].form \in Nominal => Registered(text[i].name)
  /\ \A t \in DOMAIN types : IsEntry(types[t])
  /\ \A t \in DOMAIN types : types[t].kind # "alias" =>
       \E k \in Nat : /\ Reserves(k, t)
                      /\ types[t].file = text[k].file
                      /\ types[t].defined \/ at <= k

\* The type m may stand in what file f declares.
MayName(m, f) ==
  \/ m.base \in Builtins
  \/ /\ Registered(m.base) /\ types[m.base].kind # "alias"
     /\ MayUse(f, types[m.base])

AllMayBeNamed(ms, f) == \A i \in DOMAIN ms : MayName(ms[i], f)

TypesVisible ==
  \A t \in DOMAIN types :
    /\ types[t].kind = "alias" => MayName(types[t].target, types[t].file)
    /\ AllMayBeNamed(types[t].parts, types[t].file)

SignaturesVisible ==
  \A n \in DOMAIN functions : AllMayBeNamed(functions[n].sig, functions[n].file)

GlobalsVisible == \A n \in DOMAIN globals : MayName(globals[n].type, globals[n].file)

TablesInv == ReservedInv /\ TypesVisible /\ SignaturesVisible /\ GlobalsVisible

-----------------------------------------------------------------------------
(* Least and greatest numbers. *)

LEMMA MinIsLeast ==
  ASSUME NEW S \in SUBSET Nat, S # {}
  PROVE  Min(S) \in S /\ \A y \in S : Min(S) <= y
<1> DEFINE Less == {p \in Nat \X Nat : p[1] < p[2]}
<1>1. IsWellFoundedOn(Less, Nat)
  BY NatLessThanWellFounded DEF OpToRel
<1> HIDE DEF Less
<1>2. PICK x \in S : \A y \in S : <<y, x>> \notin Less
  BY <1>1, WFMin
<1>3. \A y \in S : x <= y
  <2> SUFFICES ASSUME NEW y \in S, ~(x <= y) PROVE FALSE
    OBVIOUS
  <2>1. x \in Nat /\ y \in Nat /\ y < x
    OBVIOUS
  <2>2. <<y, x>> \in Less
    BY <2>1 DEF Less
  <2> QED BY <1>2, <2>2
<1> QED BY <1>3 DEF Min

LEMMA MaxIsMember ==
  ASSUME NEW n \in Nat, NEW S \in SUBSET (1..n), S # {}
  PROVE  Max(S) \in S
<1> DEFINE Gaps == {n - x : x \in S}
<1>1. Gaps \in SUBSET Nat /\ Gaps # {}
  <2>1. \A x \in S : x \in Nat /\ n - x \in Nat
    OBVIOUS
  <2> QED BY <2>1
<1> HIDE DEF Gaps
<1>2. Min(Gaps) \in Gaps /\ \A g \in Gaps : Min(Gaps) <= g
  BY <1>1, MinIsLeast
<1>3. PICK x \in S : n - x = Min(Gaps)
  BY <1>2 DEF Gaps
<1>4. \A y \in S : x >= y
  <2> SUFFICES ASSUME NEW y \in S PROVE x >= y
    OBVIOUS
  <2>1. n - y \in Gaps
    BY DEF Gaps
  <2> QED BY <1>2, <1>3, <2>1
<1> QED BY <1>4 DEF Max

-----------------------------------------------------------------------------
(* Names and gates. *)

\* What parse_type lets through may be named, alias or not.
LEMMA ResolvedMayBeNamed ==
  ASSUME ReservedInv, TypesVisible, NEW r \in Ref, NEW f, Resolves(r, f)
  PROVE  MayName(Meaning(r), f)
<1>1. r.to \in Types \cup Builtins
  BY DEF Ref
<1>2. CASE r.to \in Builtins
  <2>1. ~Registered(r.to)
    BY <1>2, ProgramAssumption DEF ReservedInv, Registered
  <2> QED BY <1>2, <2>1 DEF Meaning, MayName
<1>3. CASE r.to \notin Builtins /\ types[r.to].kind # "alias"
  <2>1. Registered(r.to) /\ TypeVisible(r.to, f)
    BY <1>3 DEF Resolves
  <2>2. Meaning(r).base = r.to
    BY <1>3 DEF Meaning
  <2> QED
    BY <1>3, <2>1, <2>2 DEF TypeVisible, ImportVisible, SameModule, MayName, MayUse, Sees
<1>4. CASE r.to \notin Builtins /\ types[r.to].kind = "alias"
  <2> DEFINE b == types[r.to].target.base
  <2>1. Registered(r.to) /\ (b \notin Builtins => TypeVisible(b, f))
    BY <1>4 DEF Resolves
  <2>2. Meaning(r).base = b
    BY <1>4, <2>1 DEF Meaning
  <2>3. b \notin Builtins => Registered(b) /\ types[b].kind # "alias"
    BY <1>4, <2>1 DEF TypesVisible, Registered, MayName
  <2> QED
    BY <2>1, <2>2, <2>3 DEF TypeVisible, ImportVisible, SameModule, MayName, MayUse, Sees
<1> QED BY <1>2, <1>3, <1>4

LEMMA AllResolvedMayBeNamed ==
  ASSUME ReservedInv, TypesVisible, NEW refs \in Seq(Ref), NEW f, AllResolve(refs, f)
  PROVE  AllMayBeNamed(Meanings(refs), f)
<1>1. \A i \in DOMAIN refs : refs[i] \in Ref
  OBVIOUS
<1> QED
  BY <1>1, ResolvedMayBeNamed DEF AllResolve, AllMayBeNamed, Meanings

\* The entries of before are still there, with their kind, file and `public`.
TablesGrow ==
  \A t \in DOMAIN types :
    /\ t \in DOMAIN types'
    /\ types'[t].kind = types[t].kind
    /\ types'[t].file = types[t].file
    /\ types'[t].public = types[t].public

LEMMA MayStillBeNamed ==
  ASSUME TablesGrow, NEW m, NEW f, MayName(m, f)
  PROVE  MayName(m, f)'
  BY DEF TablesGrow, MayName, Registered, MayUse, Sees

LEMMA AllMayStillBeNamed ==
  ASSUME TablesGrow, NEW ms, NEW f, AllMayBeNamed(ms, f)
  PROVE  AllMayBeNamed(ms, f)'
  BY MayStillBeNamed DEF AllMayBeNamed

\* Growing types leave the tables that do not change as visible as they were.
LEMMA OtherTablesKept ==
  ASSUME TablesInv, TablesGrow
  PROVE  /\ UNCHANGED functions => SignaturesVisible'
         /\ UNCHANGED globals => GlobalsVisible'
<1>1. ASSUME UNCHANGED functions PROVE SignaturesVisible'
  <2> SUFFICES ASSUME NEW n \in DOMAIN functions
               PROVE  AllMayBeNamed(functions[n].sig, functions[n].file)'
    BY <1>1 DEF SignaturesVisible
  <2>1. PICK e : e = functions[n]
    OBVIOUS
  <2>2. AllMayBeNamed(e.sig, e.file)
    BY <2>1 DEF TablesInv, SignaturesVisible
  <2>3. AllMayBeNamed(e.sig, e.file)'
    BY <2>2, AllMayStillBeNamed
  <2> QED BY <1>1, <2>1, <2>3 DEF AllMayBeNamed, MayName
<1>2. ASSUME UNCHANGED globals PROVE GlobalsVisible'
  <2> SUFFICES ASSUME NEW n \in DOMAIN globals
               PROVE  MayName(globals[n].type, globals[n].file)'
    BY <1>2 DEF GlobalsVisible
  <2>1. PICK e : e = globals[n]
    OBVIOUS
  <2>2. MayName(e.type, e.file)
    BY <2>1 DEF TablesInv, GlobalsVisible
  <2>3. MayName(e.type, e.file)'
    BY <2>2, MayStillBeNamed
  <2> QED BY <1>2, <2>1, <2>3 DEF MayName
<1> QED BY <1>1, <1>2

\* What is registered for a declared type that is yet to be defined was
\* registered for the declaration pass 1 has come to.
LEMMA ClaimedIsHere ==
  ASSUME ReservedInv, phase # "names", at \in DOMAIN text,
         Here.form \in Nominal, Claimable(Here)
  PROVE  /\ Registered(Here.name) /\ types[Here.name].kind = Here.form
         /\ types[Here.name].file = Here.file
<1>1. /\ Registered(Here.name) /\ types[Here.name].kind = Here.form
      /\ ~types[Here.name].defined
  BY DEF ReservedInv, Here, Claimable
<1>2. types[Here.name].kind # "alias"
  BY <1>1 DEF Nominal
<1>3. PICK k \in Nat : /\ Reserves(k, Here.name)
                       /\ types[Here.name].file = text[k].file
                       /\ types[Here.name].defined \/ at <= k
  BY <1>1, <1>2 DEF ReservedInv, Registered
<1>4. k <= at
  BY <1>3 DEF Reserves, Here
<1>5. k = at
  BY <1>1, <1>3, <1>4 DEF ReservedInv
<1> QED BY <1>1, <1>3, <1>5 DEF Here

LEMMA HereIsADeclaration ==
  ASSUME ReservedInv, at \in DOMAIN text
  PROVE  /\ Here \in Declaration
         /\ Here.refs \in Seq(Ref) /\ Here.methods \in Seq(Method)
<1>1. text \in Seq(Declaration)
  BY ProgramAssumption DEF ReservedInv
<1>2. Here \in Declaration
  BY <1>1 DEF Here
<1> QED BY <1>2 DEF Declaration

-----------------------------------------------------------------------------
(* Steps. *)

\* Steps that leave the tables alone.
LEMMA QuietKeepsTables ==
  ASSUME TablesInv, UNCHANGED <<text, at, types, functions, globals, sites>>,
         phase' = "names" <=> phase = "names", todo' \subseteq sites
  PROVE  TablesInv'
<1>1. ReservedInv'
  <2>1. \A k, t : Reserves(k, t)' <=> Reserves(k, t)
    BY DEF Reserves
  <2>2. \A t : Registered(t)' <=> Registered(t)
    BY DEF Registered
  <2>3. \A t \in DOMAIN types' : types'[t].kind # "alias" =>
          \E k \in Nat : /\ Reserves(k, t)'
                         /\ types'[t].file = text'[k].file
                         /\ types'[t].defined \/ at' <= k
    BY <2>1 DEF TablesInv, ReservedInv
  <2>4. types' = [t \in DOMAIN types' |-> types'[t]] /\ DOMAIN types' \subseteq Types
        /\ \A t \in DOMAIN types' : IsEntry(types'[t])
    BY DEF TablesInv, ReservedInv
  <2>5. phase' # "names" =>
          \A i \in DOMAIN text' : text'[i].form \in Nominal => text'[i].name \in DOMAIN types'
    BY DEF TablesInv, ReservedInv, Registered
  <2> QED BY <2>3, <2>4, <2>5 DEF TablesInv, ReservedInv, Registered
<1>2. TypesVisible'
  BY DEF TablesInv, TypesVisible, AllMayBeNamed, MayName, Registered, MayUse, Sees
<1>3. SignaturesVisible'
  BY DEF TablesInv, SignaturesVisible, AllMayBeNamed, MayName, Registered, MayUse, Sees
<1>4. GlobalsVisible'
  BY DEF TablesInv, GlobalsVisible, MayName, Registered, MayUse, Sees
<1> QED BY <1>1, <1>2, <1>3, <1>4 DEF TablesInv

\* prescan_type_names: an entry for each declared type, from its first declaration.
LEMMA ReservingKeepsTables ==
  ASSUME TablesInv, ReserveNames
  PROVE  TablesInv'
<1> DEFINE N == {text[i].name : i \in {j \in DOMAIN text : text[j].form \in Nominal}}
           D(n) == {i \in DOMAIN text : text[i].form \in Nominal /\ text[i].name = n}
           E(n) == [kind |-> text[Min(D(n))].form, file |-> text[Min(D(n))].file,
                    public |-> text[Min(D(n))].public, defined |-> FALSE,
                    target |-> NoTarget, parts |-> <<>>]
<1>1. /\ types' = [n \in N |-> E(n)]
      /\ phase = "names" /\ phase' = "aliases"
      /\ sites' = {i \in DOMAIN text : text[i].form = "alias"} /\ todo' = sites'
      /\ UNCHANGED <<text, at, functions, globals>>
  BY DEF ReserveNames
<1>2. text \in Seq(Declaration) /\ DOMAIN text \subseteq Nat
  BY ProgramAssumption DEF TablesInv, ReservedInv
<1>3. N \subseteq Types
  BY ProgramAssumption DEF TablesInv, ReservedInv
<1>4. ASSUME NEW n \in N
      PROVE  Min(D(n)) \in D(n) /\ \A i \in D(n) : Min(D(n)) <= i
  <2>1. D(n) \in SUBSET Nat /\ D(n) # {}
    BY <1>2
  <2> QED BY <2>1, MinIsLeast
<1> HIDE DEF D
<1>5. \A n \in N : types'[n] = E(n) /\ DOMAIN types' = N
  BY <1>1
<1>6. ASSUME NEW n \in N
      PROVE  /\ types'[n].kind # "alias" /\ types'[n].parts = <<>> /\ IsEntry(types'[n])
             /\ \E k \in Nat : /\ Reserves(k, n)'
                               /\ types'[n].file = text'[k].file /\ at' <= k
  <2>1. PICK k \in Nat : k = Min(D(n))
    BY <1>2, <1>4 DEF D
  <2>2. /\ k \in DOMAIN text /\ text[k].form \in Nominal /\ text[k].name = n
        /\ \A i \in DOMAIN text : text[i].form \in Nominal /\ text[i].name = n => k <= i
    BY <1>4, <2>1 DEF D
  <2>3. 1 <= k
    BY <1>2, <2>2
  <2>4. types'[n] = E(n)
    BY <1>5
  <2>5. types'[n].kind = text[k].form /\ types'[n].parts = <<>> /\ types'[n].file = text[k].file
    BY <2>1, <2>4
  <2>6. IsEntry(E(n))
    BY EntryIsEntry
  <2>7. Reserves(k, n)'
    BY <1>1, <2>2 DEF Reserves
  <2>8. types'[n].file = text'[k].file /\ at' <= k
    BY <1>1, <2>3, <2>5 DEF TablesInv, ReservedInv
  <2>9. types'[n].kind # "alias"
    BY <2>2, <2>5 DEF Nominal
  <2> QED BY <2>4, <2>5, <2>6, <2>7, <2>8, <2>9
<1> HIDE DEF E, N
<1>7. ReservedInv'
  <2>1. \A i \in DOMAIN text : text[i].form \in Nominal => text[i].name \in N
    BY DEF N
  <2>2. DOMAIN types' = N /\ types' = [t \in DOMAIN types' |-> types'[t]]
    BY <1>1
  <2> QED
    BY <1>1, <1>3, <1>6, <2>1, <2>2 DEF TablesInv, ReservedInv, Registered
<1>8. TypesVisible'
  <2>1. DOMAIN types' = N
    BY <1>1
  <2> QED BY <1>6, <2>1 DEF TypesVisible, AllMayBeNamed
<1>9. SignaturesVisible' /\ GlobalsVisible'
  <2>1. functions' = <<>> /\ globals' = <<>>
    BY <1>1 DEF TablesInv, ReservedInv
  <2> QED BY <2>1 DEF SignaturesVisible, GlobalsVisible
<1> QED BY <1>7, <1>8, <1>9 DEF TablesInv

\* An alias whose name is free and whose target resolves is registered.
LEMMA InstallingKeepsTables ==
  ASSUME TablesInv, phase # "names", phase' # "names",
         NEW i \in DOMAIN text, text[i].form = "alias", AliasParses(text[i]),
         types' = WithType(text[i].name, Alias(text[i])),
         UNCHANGED <<text, functions, globals>>,
         at' = at \/ (at' = at + 1 /\ text[at].form \notin Nominal),
         sites' \subseteq sites, todo' \subseteq sites'
  PROVE  TablesInv'
<1> DEFINE d == text[i]
           r == d.refs[1]
<1>1. text \in Seq(Declaration) /\ d \in Declaration /\ d.name \in Types /\ Len(d.refs) = 1
  BY ProgramAssumption DEF TablesInv, ReservedInv
<1>2. r \in Ref /\ Resolves(r, d.file)
  BY <1>1 DEF AliasParses, AllResolve, Declaration
<1>3. MayName(Meaning(r), d.file)
  BY <1>2, ResolvedMayBeNamed DEF TablesInv
<1>4. d.name \notin DOMAIN types
  BY DEF AliasParses, Registered
<1>5. /\ DOMAIN types' = DOMAIN types \cup {d.name}
      /\ types' = [t \in DOMAIN types' |-> types'[t]]
      /\ \A t \in DOMAIN types : types'[t] = types[t]
      /\ types'[d.name] = Alias(d)
  BY <1>4 DEF WithType
<1>6. TablesGrow
  BY <1>5 DEF TablesGrow
<1>7. /\ IsEntry(Alias(d)) /\ Alias(d).kind = "alias" /\ Alias(d).file = d.file
      /\ Alias(d).target = Meaning(r) /\ Alias(d).parts = <<>>
  BY EntryIsEntry DEF Alias
<1>8. ReservedInv'
  <2>1. \A k, t : Reserves(k, t)' <=> Reserves(k, t)
    BY DEF Reserves
  <2>2. ASSUME NEW t \in DOMAIN types', types'[t].kind # "alias"
        PROVE  \E k \in Nat : /\ Reserves(k, t)'
                              /\ types'[t].file = text'[k].file
                              /\ types'[t].defined \/ at' <= k
    <3>1. t \in DOMAIN types /\ types'[t] = types[t]
      BY <1>5, <1>7, <2>2
    <3>2. PICK k \in Nat : /\ Reserves(k, t) /\ types[t].file = text[k].file
                           /\ types[t].defined \/ at <= k
      BY <2>2, <3>1 DEF TablesInv, ReservedInv
    <3>3. at' <= k \/ types[t].defined
      BY <3>2 DEF Reserves, TablesInv, ReservedInv
    <3> QED BY <2>1, <3>1, <3>2, <3>3
  <2>3. \A t \in DOMAIN types' : IsEntry(types'[t])
    BY <1>5, <1>7 DEF TablesInv, ReservedInv
  <2>4. \A k \in DOMAIN text' : text'[k].form \in Nominal => text'[k].name \in DOMAIN types'
    BY <1>5 DEF TablesInv, ReservedInv, Registered
  <2>5. at' \in Nat /\ text' \in Texts /\ DOMAIN types' \subseteq Types
        /\ sites' \subseteq {k \in DOMAIN text' : text'[k].form = "alias"}
    BY <1>1, <1>5 DEF TablesInv, ReservedInv
  <2> QED BY <1>5, <2>2, <2>3, <2>4, <2>5 DEF ReservedInv, Registered
<1>9. TypesVisible'
  <2> SUFFICES ASSUME NEW t \in DOMAIN types'
               PROVE  /\ types'[t].kind = "alias" => MayName(types[t].target, types[t].file)'
                      /\ AllMayBeNamed(types[t].parts, types[t].file)'
    BY DEF TypesVisible
  <2>1. CASE t = d.name
    <3>1. PICK m, f : m = Meaning(r) /\ f = d.file
      OBVIOUS
    <3>2. MayName(m, f)'
      BY <1>3, <1>6, <3>1, MayStillBeNamed
    <3>3. types'[t].target = m /\ types'[t].file = f /\ types'[t].parts = <<>>
      BY <1>5, <1>7, <2>1, <3>1
    <3> QED BY <3>2, <3>3 DEF MayName, AllMayBeNamed
  <2>2. CASE t # d.name
    <3>1. t \in DOMAIN types /\ types'[t] = types[t]
      BY <1>5, <2>2
    <3>2. PICK e : e = types[t]
      OBVIOUS
    <3>3. (e.kind = "alias" => MayName(e.target, e.file)) /\ AllMayBeNamed(e.parts, e.file)
      BY <3>1, <3>2 DEF TablesInv, TypesVisible
    <3>4. (e.kind = "alias" => MayName(e.target, e.file)') /\ AllMayBeNamed(e.parts, e.file)'
      BY <1>6, <3>3, MayStillBeNamed, AllMayStillBeNamed
    <3> QED BY <3>1, <3>2, <3>4 DEF MayName, AllMayBeNamed
  <2> QED BY <2>1, <2>2
<1> QED BY <1>6, <1>8, <1>9, OtherTablesKept DEF TablesInv

\* The declaration pass 1 is at gives the type it was reserved for its parts.
LEMMA DefiningKeepsTypes ==
  ASSUME TablesInv, phase # "names", phase' # "names", at \in DOMAIN text,
         Here.form \in Nominal, Claimable(Here), AllResolve(Here.refs, Here.file),
         types' = Defined(Here), at' = at + 1, UNCHANGED <<text, sites, todo>>
  PROVE  ReservedInv' /\ TypesVisible' /\ TablesGrow
<1> DEFINE n == Here.name
           ps == Meanings(Here.refs)
           old == types[n]
           new == types'[n]
<1>1. Here \in Declaration /\ Here.refs \in Seq(Ref)
  BY HereIsADeclaration DEF TablesInv
<1>2. n \in DOMAIN types /\ old.kind = Here.form /\ old.file = Here.file /\ old.kind # "alias"
  BY ClaimedIsHere DEF TablesInv, Registered, Nominal
<1>3. AllMayBeNamed(ps, old.file)
  BY <1>1, <1>2, AllResolvedMayBeNamed DEF TablesInv
<1>4. /\ DOMAIN types' = DOMAIN types
      /\ types' = [t \in DOMAIN types' |-> types'[t]]
      /\ \A t \in DOMAIN types : t # n => types'[t] = types[t]
      /\ new = [old EXCEPT !.defined = TRUE, !.parts = ps]
  <2>1. types = [t \in DOMAIN types |-> types[t]]
    BY DEF TablesInv, ReservedInv
  <2> QED BY <1>2, <2>1 DEF Defined
<1>5. new = [kind |-> old.kind, file |-> old.file, public |-> old.public,
             defined |-> TRUE, target |-> old.target, parts |-> ps]
  <2>1. old = [kind |-> old.kind, file |-> old.file, public |-> old.public,
               defined |-> old.defined, target |-> old.target, parts |-> old.parts]
    BY <1>2 DEF TablesInv, ReservedInv, IsEntry
  <2> QED BY <1>4, <2>1
<1> HIDE DEF ps
<1>6. /\ IsEntry(new) /\ new.kind = old.kind /\ new.file = old.file
      /\ new.public = old.public /\ new.defined = TRUE /\ new.parts = ps
  <2>1. /\ new.kind = old.kind /\ new.file = old.file /\ new.public = old.public
        /\ new.target = old.target /\ new.parts = ps
    BY <1>5
  <2>2. new.defined = TRUE
    BY <1>5
  <2> HIDE DEF new, old
  <2>3. IsEntry(new)
    BY <1>5, <2>1, <2>2 DEF IsEntry
  <2> QED BY <2>1, <2>2, <2>3
<1>7. TablesGrow
  BY <1>2, <1>4, <1>6 DEF TablesGrow
<1>8. ReservedInv'
  <2>1. \A k, t : Reserves(k, t)' <=> Reserves(k, t)
    BY DEF Reserves
  <2>2. ASSUME NEW t \in DOMAIN types', types'[t].kind # "alias"
        PROVE  \E k \in Nat : /\ Reserves(k, t)'
                              /\ types'[t].file = text'[k].file
                              /\ types'[t].defined \/ at' <= k
    <3>1. t \in DOMAIN types /\ types'[t].file = types[t].file /\ types[t].kind # "alias"
      BY <1>4, <1>7, <2>2 DEF TablesGrow
    <3>2. PICK k \in Nat : /\ Reserves(k, t) /\ types[t].file = text[k].file
                           /\ types[t].defined \/ at <= k
      BY <3>1 DEF TablesInv, ReservedInv
    <3>3. CASE t = n
      BY <1>6, <2>1, <3>1, <3>2, <3>3
    <3>4. CASE t # n
      <4>1. types'[t] = types[t]
        BY <1>4, <3>1, <3>4
      <4>2. k # at
        BY <3>2, <3>4 DEF Reserves, Here
      <4>3. types'[t].defined \/ at' <= k
        BY <3>2, <4>1, <4>2 DEF TablesInv, ReservedInv
      <4> QED BY <2>1, <3>1, <3>2, <4>3
    <3> QED BY <3>3, <3>4
  <2>3. \A t \in DOMAIN types' : IsEntry(types'[t])
    BY <1>4, <1>6 DEF TablesInv, ReservedInv
  <2>4. \A k \in DOMAIN text' : text'[k].form \in Nominal => text'[k].name \in DOMAIN types'
    BY <1>4 DEF TablesInv, ReservedInv, Registered
  <2>5. at' \in Nat /\ text' \in Texts /\ DOMAIN types' \subseteq Types
        /\ sites' \subseteq {k \in DOMAIN text' : text'[k].form = "alias"}
        /\ todo' \subseteq sites'
    BY <1>4 DEF TablesInv, ReservedInv
  <2> QED BY <1>4, <2>2, <2>3, <2>4, <2>5 DEF ReservedInv, Registered
<1>9. TypesVisible'
  <2> SUFFICES ASSUME NEW t \in DOMAIN types'
               PROVE  /\ types'[t].kind = "alias" => MayName(types[t].target, types[t].file)'
                      /\ AllMayBeNamed(types[t].parts, types[t].file)'
    BY DEF TypesVisible
  <2>1. CASE t = n
    <3>1. PICK ms, f : ms = ps /\ f = old.file
      OBVIOUS
    <3>2. AllMayBeNamed(ms, f)'
      BY <1>3, <1>7, <3>1, AllMayStillBeNamed
    <3>3. types'[t].parts = ms /\ types'[t].file = f /\ types'[t].kind # "alias"
      BY <1>2, <1>6, <2>1, <3>1
    <3> QED BY <3>2, <3>3 DEF MayName, AllMayBeNamed
  <2>2. CASE t # n
    <3>1. t \in DOMAIN types /\ types'[t] = types[t]
      BY <1>4, <2>2
    <3>2. PICK e : e = types[t]
      OBVIOUS
    <3>3. (e.kind = "alias" => MayName(e.target, e.file)) /\ AllMayBeNamed(e.parts, e.file)
      BY <3>1, <3>2 DEF TablesInv, TypesVisible
    <3>4. (e.kind = "alias" => MayName(e.target, e.file)') /\ AllMayBeNamed(e.parts, e.file)'
      BY <1>7, <3>3, MayStillBeNamed, AllMayStillBeNamed
    <3> QED BY <3>1, <3>2, <3>4 DEF MayName, AllMayBeNamed
  <2> QED BY <2>1, <2>2
<1> QED BY <1>7, <1>8, <1>9

\* Registering symbols whose types may be named where they are declared.
LEMMA SymbolsKeepSignatures ==
  ASSUME TablesInv, TablesGrow, NEW n \in Nat, NEW ss, DOMAIN ss = 1..n,
         \A k \in 1..n : AllMayBeNamed(ss[k].sig, ss[k].file),
         functions' = WithFunctions(ss)
  PROVE  SignaturesVisible'
<1> DEFINE Same(m) == {i \in DOMAIN ss : ss[i].name = m}
           Names == {ss[i].name : i \in DOMAIN ss}
<1>1. /\ DOMAIN functions' = DOMAIN functions \cup Names
      /\ \A m \in DOMAIN functions' :
            functions'[m] = IF m \in Names THEN ss[Max(Same(m))] ELSE functions[m]
  BY DEF WithFunctions
<1>2. ASSUME NEW m \in DOMAIN functions'
      PROVE  AllMayBeNamed(functions[m].sig, functions[m].file)'
  <2>1. PICK e : e = functions'[m]
    OBVIOUS
  <2>2. CASE m \in Names
    <3>1. Same(m) \in SUBSET (1..n) /\ Same(m) # {}
      BY <2>2
    <3> HIDE DEF Same
    <3>2. Max(Same(m)) \in Same(m)
      BY <3>1, MaxIsMember
    <3>3. Max(Same(m)) \in 1..n
      BY <3>1, <3>2
    <3>4. e = ss[Max(Same(m))]
      BY <1>1, <2>1, <2>2
    <3> QED BY <3>3, <3>4, <2>1, AllMayStillBeNamed, ZenonT(30) DEF AllMayBeNamed, MayName
  <2>3. CASE m \notin Names
    <3>1. m \in DOMAIN functions /\ e = functions[m]
      BY <1>1, <2>1, <2>3
    <3>2. AllMayBeNamed(e.sig, e.file)
      BY <3>1 DEF TablesInv, SignaturesVisible
    <3>3. AllMayBeNamed(e.sig, e.file)'
      BY <3>2, AllMayStillBeNamed
    <3> QED BY <2>1, <3>3 DEF AllMayBeNamed, MayName
  <2> QED BY <2>2, <2>3
<1> QED BY <1>2 DEF SignaturesVisible

\* A declaration that is no type's leaves the types as they are.
LEMMA PassingKeepsTypes ==
  ASSUME TablesInv, phase # "names", phase' # "names", Here.form \notin Nominal,
         at' = at + 1, UNCHANGED <<text, types, sites, todo>>
  PROVE  ReservedInv' /\ TypesVisible' /\ TablesGrow
<1>1. ReservedInv'
  <2>1. \A k, t : Reserves(k, t)' <=> Reserves(k, t)
    BY DEF Reserves
  <2>2. ASSUME NEW t \in DOMAIN types', types'[t].kind # "alias"
        PROVE  \E k \in Nat : /\ Reserves(k, t)'
                              /\ types'[t].file = text'[k].file
                              /\ types'[t].defined \/ at' <= k
    <3>1. PICK k \in Nat : /\ Reserves(k, t) /\ types[t].file = text[k].file
                           /\ types[t].defined \/ at <= k
      BY <2>2 DEF TablesInv, ReservedInv
    <3>2. k # at
      BY <3>1 DEF Reserves, Here
    <3>3. types[t].defined \/ at' <= k
      BY <3>1, <3>2 DEF TablesInv, ReservedInv
    <3> QED BY <2>1, <3>1, <3>3
  <2>3. \A k \in DOMAIN text' : text'[k].form \in Nominal => text'[k].name \in DOMAIN types'
    BY DEF TablesInv, ReservedInv, Registered
  <2>4. /\ at' \in Nat /\ text' \in Texts /\ DOMAIN types' \subseteq Types
        /\ sites' \subseteq {k \in DOMAIN text' : text'[k].form = "alias"}
        /\ todo' \subseteq sites'
        /\ types' = [t \in DOMAIN types' |-> types'[t]]
        /\ \A t \in DOMAIN types' : IsEntry(types'[t])
    BY DEF TablesInv, ReservedInv
  <2> QED BY <2>2, <2>3, <2>4 DEF ReservedInv, Registered
<1>2. TypesVisible'
  BY DEF TablesInv, TypesVisible, AllMayBeNamed, MayName, Registered, MayUse, Sees
<1>3. TablesGrow
  BY DEF TablesGrow
<1> QED BY <1>1, <1>2, <1>3

LEMMA AbortKeepsTables ==
  ASSUME TablesInv, phase # "names", Abort
  PROVE  TablesInv'
<1>1. todo' \subseteq sites /\ phase' # "names"
  BY DEF Abort, TablesInv, ReservedInv
<1> QED BY <1>1, QuietKeepsTables DEF Abort

LEMMA ParseAliasKeepsTables ==
  ASSUME TablesInv, phase = "pass1", at \in DOMAIN text, ParseAlias
  PROVE  TablesInv'
<1>1. Here.form = "alias" /\ Here.form \notin Nominal /\ UNCHANGED <<functions, globals>>
  BY DEF ParseAlias, Nominal
<1>2. CASE Abort
  BY <1>2, AbortKeepsTables
<1>3. CASE Next1 /\ UNCHANGED types
  <2>1. ReservedInv' /\ TypesVisible' /\ TablesGrow
    BY <1>1, <1>3, PassingKeepsTypes DEF Next1
  <2> QED BY <1>1, <2>1, OtherTablesKept DEF TablesInv
<1>4. CASE Next1 /\ AliasParses(Here) /\ types' = WithType(Here.name, Alias(Here))
  <2>1. sites' \subseteq sites /\ todo' \subseteq sites' /\ phase' # "names"
    BY <1>4 DEF Next1, TablesInv, ReservedInv
  <2> QED BY <1>1, <1>4, <2>1, InstallingKeepsTables DEF Next1, Here
<1> QED BY <1>2, <1>3, <1>4 DEF ParseAlias

LEMMA ParseVariantsKeepsTables ==
  ASSUME TablesInv, phase = "pass1", at \in DOMAIN text, ParseVariants
  PROVE  TablesInv'
<1>1. Here.form \in Nominal /\ UNCHANGED <<functions, globals>>
  BY DEF ParseVariants, Nominal
<1>2. CASE Abort
  BY <1>2, AbortKeepsTables
<1>3. CASE Claimable(Here) /\ AllResolve(Here.refs, Here.file) /\ types' = Defined(Here) /\ Next1
  <2>1. ReservedInv' /\ TypesVisible' /\ TablesGrow
    BY <1>1, <1>3, DefiningKeepsTypes DEF Next1
  <2> QED BY <1>1, <2>1, OtherTablesKept DEF TablesInv
<1> QED BY <1>2, <1>3 DEF ParseVariants

LEMMA ParseFunctionKeepsTables ==
  ASSUME TablesInv, phase = "pass1", at \in DOMAIN text, ParseFunction
  PROVE  TablesInv'
<1>1. Here.form \notin Nominal /\ UNCHANGED <<types, globals>>
  BY DEF ParseFunction, Nominal
<1>2. CASE Abort
  BY <1>2, AbortKeepsTables
<1>3. CASE AllResolve(Here.refs, Here.file) /\ functions' = WithFunctions(<<Symbol(Here)>>) /\ Next1
  <2>1. ReservedInv' /\ TypesVisible' /\ TablesGrow
    BY <1>1, <1>3, PassingKeepsTypes DEF Next1
  <2>2. PICK ss : ss = <<Symbol(Here)>>
    OBVIOUS
  <2>3. AllMayBeNamed(Meanings(Here.refs), Here.file)
    BY <1>3, HereIsADeclaration, AllResolvedMayBeNamed DEF TablesInv
  <2>4. DOMAIN ss = 1..1 /\ ss[1].sig = Meanings(Here.refs) /\ ss[1].file = Here.file
    BY <2>2 DEF Symbol
  <2>5. \A k \in 1..1 : AllMayBeNamed(ss[k].sig, ss[k].file)
    BY <2>3, <2>4
  <2>6. SignaturesVisible'
    BY <1>3, <2>1, <2>2, <2>4, <2>5, SymbolsKeepSignatures
  <2> QED BY <1>1, <2>1, <2>6, OtherTablesKept DEF TablesInv
<1> QED BY <1>2, <1>3 DEF ParseFunction

LEMMA ParseGlobalKeepsTables ==
  ASSUME TablesInv, phase = "pass1", at \in DOMAIN text, ParseGlobal
  PROVE  TablesInv'
<1> DEFINE r == Here.refs[1]
<1>1. Here.form = "global" /\ Here.form \notin Nominal /\ UNCHANGED <<types, functions>>
  BY DEF ParseGlobal, Nominal
<1>2. CASE Abort
  BY <1>2, AbortKeepsTables
<1>3. CASE /\ AllResolve(Here.refs, Here.file) /\ Next1
           /\ globals' = [n \in DOMAIN globals \cup {Here.name} |->
                            IF n \in DOMAIN globals THEN globals[n]
                            ELSE [file |-> Here.file, public |-> Here.public,
                                  type |-> Meaning(r)]]
  <2>1. ReservedInv' /\ TypesVisible' /\ TablesGrow
    BY <1>1, <1>3, PassingKeepsTypes DEF Next1
  <2>2. Len(Here.refs) = 1
    BY <1>1, ProgramAssumption DEF TablesInv, ReservedInv, Here
  <2>3. r \in Ref /\ Resolves(r, Here.file)
    BY <1>3, <2>2, HereIsADeclaration DEF TablesInv, AllResolve
  <2>4. MayName(Meaning(r), Here.file)
    BY <2>3, ResolvedMayBeNamed DEF TablesInv
  <2>5. ASSUME NEW n \in DOMAIN globals'
        PROVE  MayName(globals[n].type, globals[n].file)'
    <3>1. PICK e : e = globals'[n]
      OBVIOUS
    <3>2. n \in DOMAIN globals => e = globals[n]
      BY <1>3, <3>1
    <3>3. n \notin DOMAIN globals => e.type = Meaning(r) /\ e.file = Here.file
      BY <1>3, <3>1
    <3>4. MayName(e.type, e.file)
      BY <2>4, <3>2, <3>3 DEF TablesInv, GlobalsVisible
    <3>5. MayName(e.type, e.file)'
      BY <2>1, <3>4, MayStillBeNamed
    <3> QED BY <3>1, <3>5 DEF MayName
  <2> QED BY <1>1, <2>1, <2>5, OtherTablesKept DEF TablesInv, GlobalsVisible
<1> QED BY <1>2, <1>3 DEF ParseGlobal

LEMMA ParseTypeKeepsTables ==
  ASSUME TablesInv, phase = "pass1", at \in DOMAIN text, ParseType
  PROVE  TablesInv'
<1> DEFINE ms == Methods(Here)
           syms == [k \in DOMAIN ms |-> Symbol(ms[k])]
<1>1. Here.form \in Nominal /\ Here.form = "type" /\ UNCHANGED globals
  BY DEF ParseType, Nominal
<1>2. CASE Abort
  BY <1>2, AbortKeepsTables
<1>3. CASE /\ Claimable(Here) /\ AllResolve(Here.refs, Here.file)
           /\ \A k \in DOMAIN ms : AllResolve(Here.methods[k].refs, Here.file)
           /\ types' = Defined(Here) /\ functions' = WithFunctions(syms) /\ Next1
  <2>1. ReservedInv' /\ TypesVisible' /\ TablesGrow
    BY <1>1, <1>3, DefiningKeepsTypes DEF Next1
  <2>2. Here.methods \in Seq(Method)
    BY HereIsADeclaration DEF TablesInv
  <2>3. PICK ss, n : ss = syms /\ n = Len(Here.methods)
    OBVIOUS
  <2>4. n \in Nat /\ DOMAIN ms = 1..n /\ DOMAIN ss = 1..n
    BY <2>2, <2>3 DEF Methods
  <2>5. ASSUME NEW k \in 1..n
        PROVE  AllMayBeNamed(ss[k].sig, ss[k].file)
    <3> DEFINE own == [to |-> Here.name, ptr |-> TRUE]
               rs == Here.methods[k].refs
    <3>1. rs \in Seq(Ref)
      <4>1. Here.methods[k] \in Method
        BY <2>2, <2>3
      <4> QED BY <4>1 DEF Method
    <3>2. ss[k] = Symbol(Lowered(Here, Here.methods[k]))
      BY <2>3, <2>4 DEF Methods
    <3>3. ss[k].sig = Meanings(<<own>> \o rs) /\ ss[k].file = Here.file
      BY <3>2 DEF Symbol, Lowered
    <3>4. MayName(Meaning(own), Here.file)
      <4>1. /\ Registered(Here.name) /\ types[Here.name].kind # "alias"
            /\ types[Here.name].file = Here.file
        BY <1>1, <1>3, ClaimedIsHere DEF TablesInv
      <4>2. Meaning(own).base = Here.name
        BY <4>1 DEF Meaning
      <4> QED BY <4>1, <4>2 DEF MayName, MayUse, Sees
    <3>5. AllMayBeNamed(Meanings(rs), Here.file)
      BY <1>3, <2>4, <3>1, AllResolvedMayBeNamed DEF TablesInv
    <3> HIDE DEF own, rs
    <3>6. DOMAIN (<<own>> \o rs) = 1..(1 + Len(rs)) /\ (<<own>> \o rs)[1] = own
          /\ \A i \in 2..(1 + Len(rs)) : (<<own>> \o rs)[i] = rs[i - 1]
      BY <3>1
    <3>7. ASSUME NEW i \in 1..(1 + Len(rs))
          PROVE  MayName(Meaning((<<own>> \o rs)[i]), Here.file)
      <4>1. CASE i = 1
        BY <3>4, <3>6, <4>1
      <4>2. CASE i # 1
        <5>1. i - 1 \in DOMAIN rs /\ i \in 2..(1 + Len(rs))
          BY <3>1, <4>2
        <5> QED BY <3>5, <3>6, <5>1 DEF AllMayBeNamed, Meanings
      <4> QED BY <4>1, <4>2
    <3> QED BY <3>3, <3>6, <3>7 DEF AllMayBeNamed, Meanings
  <2>6. SignaturesVisible'
    BY <1>3, <2>1, <2>3, <2>4, <2>5, SymbolsKeepSignatures
  <2> QED BY <1>1, <2>1, <2>6, OtherTablesKept DEF TablesInv
<1> QED BY <1>2, <1>3 DEF ParseType

-----------------------------------------------------------------------------
(* The theorem on aliases. *)

LEMMA TablesStart == Init => TablesInv
<1> SUFFICES ASSUME Init PROVE TablesInv
  OBVIOUS
<1>1. types = <<>> /\ functions = <<>> /\ globals = <<>> /\ DOMAIN types = {}
  BY DEF Init
<1>2. types = [t \in DOMAIN types |-> types[t]]
  BY <1>1
<1> QED
  BY <1>1, <1>2 DEF Init, TablesInv, ReservedInv, TypesVisible, SignaturesVisible, GlobalsVisible

LEMMA TablesStep == TablesInv /\ [Next]_vars => TablesInv'
<1> SUFFICES ASSUME TablesInv, [Next]_vars PROVE TablesInv'
  OBVIOUS
<1> USE DEF vars, parseVars, cycVars
<1>0. todo \subseteq sites
  BY DEF TablesInv, ReservedInv
<1>1. CASE ReserveNames
  BY <1>1, ReservingKeepsTables
<1>2. CASE TryAlias
  <2> DEFINE i == Min(todo)
             d == text[i]
  <2>1. todo \in SUBSET Nat /\ todo # {}
    <3>1. DOMAIN text \subseteq Nat
      BY ProgramAssumption DEF TablesInv, ReservedInv
    <3> QED BY <1>2, <3>1 DEF TryAlias, TablesInv, ReservedInv
  <2>2. i \in todo
    BY <2>1, MinIsLeast
  <2>3. i \in DOMAIN text /\ d.form = "alias" /\ d.form \notin Nominal
    BY <2>2 DEF TablesInv, ReservedInv, Nominal
  <2>4. phase # "names" /\ phase' # "names" /\ at' = at /\ UNCHANGED <<text, functions, globals>>
    BY <1>2 DEF TryAlias
  <2>5. CASE AliasParses(d)
    <3>1. types' = WithType(d.name, Alias(d)) /\ sites' = sites \ {i} /\ todo' = todo \ {i}
      BY <1>2, <2>5 DEF TryAlias, RetainsSite
    <3>2. sites' \subseteq sites /\ todo' \subseteq sites'
      BY <1>0, <3>1
    <3> HIDE DEF i
    <3> QED BY <2>3, <2>4, <2>5, <3>1, <3>2, InstallingKeepsTables
  <2>6. CASE ~AliasParses(d)
    <3>1. types' = types /\ sites' = sites /\ todo' \subseteq sites
      BY <1>0, <1>2, <2>6 DEF TryAlias, RetainsSite
    <3> QED BY <2>4, <3>1, QuietKeepsTables
  <2> QED BY <2>5, <2>6
<1>3. CASE EndRound
  <2>1. todo' \subseteq sites /\ phase # "names" /\ phase' # "names"
        /\ UNCHANGED <<text, at, types, functions, globals, sites>>
    BY <1>0, <1>3 DEF EndRound
  <2> QED BY <2>1, QuietKeepsTables
<1>4. CASE ParseItem
  BY <1>4, ParseAliasKeepsTables, ParseTypeKeepsTables, ParseVariantsKeepsTables,
     ParseFunctionKeepsTables, ParseGlobalKeepsTables DEF ParseItem
<1>5. CASE StartCycles \/ WalkCycles \/ ReportCycles \/ ParseBody \/ Fill
  <2>1. todo' \subseteq sites /\ phase # "names" /\ phase' # "names"
        /\ UNCHANGED <<text, at, types, functions, globals, sites>>
    BY <1>0, <1>5 DEF StartCycles, WalkCycles, ReportCycles, ParseBody, Fill
  <2> QED BY <2>1, QuietKeepsTables
<1>6. CASE UNCHANGED vars
  <2>1. todo' \subseteq sites /\ (phase' = "names" <=> phase = "names")
        /\ UNCHANGED <<text, at, types, functions, globals, sites>>
    BY <1>0, <1>6
  <2> QED BY <2>1, QuietKeepsTables
<1> QED BY <1>1, <1>2, <1>3, <1>4, <1>5, <1>6 DEF Next

\* What stands in the tables of the parse (ModuleSymbols) may be named where it
\* stands, for every program and every import graph.
THEOREM TablesInvariant == Spec => []TablesInv
  BY TablesStart, TablesStep, PTL DEF Spec

\* No alias launders the visibility of the type it stands for
\* (resolve_named_type), for every program and every import graph.
THEOREM AliasesDoNotLaunder == Spec => []NoLaundering
<1>1. TablesInv => NoLaundering
  <2> SUFFICES ASSUME TablesInv PROVE NoLaundering
    OBVIOUS
  <2>1. \A m, f : MayName(m, f) => m.base \in Builtins \/ MayUse(f, types[m.base])
    BY DEF MayName
  <2> QED
    BY <2>1 DEF NoLaundering, TablesInv, TypesVisible, SignaturesVisible, GlobalsVisible,
                AllMayBeNamed, Range
<1> QED BY <1>1, TablesInvariant, PTL

-----------------------------------------------------------------------------
(* Layouts. *)

\* No type of an accepted program stores itself, be it through others: the
\* code generator, which computes layouts recursively, comes to an end.
LayoutsEnd ==
  result = "accepted" => \A S \in SUBSET Types : S # {} => \E t \in S : Parts(t) \cap S = {}

LayoutInv ==
  /\ CycInv
  /\ phase \in {"names", "aliases", "pass1"} => WalkStarts
  /\ phase \in {"cycles", "pass2"} \/ result = "accepted" =>
       \A t \in Types : contains[t] = Parts(t)
  /\ phase = "pass2" \/ result = "accepted" => Walked /\ (errors = {} => cyclic = {})
  /\ result = "accepted" => phase = "done" /\ errors = {}

LEMMA PartsAreTypes ==
  ASSUME TablesInv, NEW t
  PROVE  /\ Parts(t) \subseteq Types
         /\ \A u \in Parts(t) : \E i \in DOMAIN text : text[i].form \in Nominal /\ text[i].name = u
<1> SUFFICES ASSUME NEW u \in Parts(t)
             PROVE  /\ u \in Types
                    /\ \E i \in DOMAIN text : text[i].form \in Nominal /\ text[i].name = u
  OBVIOUS
<1>1. u \in DOMAIN types /\ types[u].kind # "alias"
  BY DEF Parts
<1> QED BY <1>1 DEF TablesInv, ReservedInv, Reserves

\* What is reported is stored by some type.
LEMMA ReportedIsStored ==
  ASSUME CycTypeOK, NEW t \in Types, StoresItself(t)
  PROVE  \E u \in Types : t \in contains[u]
<1> SUFFICES ASSUME \A u \in Types : t \notin contains[u] PROVE FALSE
  OBVIOUS
<1> DEFINE S == Types \ {t}
<1>1. contains[t] \subseteq S /\ \A u \in S : contains[u] \subseteq S
  BY DEF CycTypeOK
<1> QED BY <1>1 DEF StoresItself

LEMMA LayoutStart == Init => LayoutInv
<1> SUFFICES ASSUME Init PROVE LayoutInv
  OBVIOUS
<1>1. CycInit
  BY DEF Init, CycInit
<1> QED BY <1>1, CycStartsWell DEF Init, LayoutInv

\* Steps that leave the walk and the types alone, and add errors at most.
LEMMA QuietKeepsLayouts ==
  ASSUME LayoutInv, UNCHANGED <<cycVars, types, phase, result>>,
         errors \subseteq errors', result = "accepted" => errors' = errors
  PROVE  LayoutInv'
<1>1. CycInv'
  BY CycStepKeepsInv DEF LayoutInv
<1>2. WalkStarts => WalkStarts'
  BY DEF WalkStarts, cycVars
<1>3. Walked => Walked'
  BY DEF Walked, cycVars
<1>4. \A t : Parts(t)' = Parts(t)
  BY DEF Parts, Registered
<1> QED BY <1>1, <1>2, <1>3, <1>4 DEF LayoutInv, cycVars

LEMMA LayoutStep == TablesInv /\ LayoutInv /\ [Next]_vars => LayoutInv'
<1> SUFFICES ASSUME TablesInv, LayoutInv, [Next]_vars PROVE LayoutInv'
  OBVIOUS
<1>1. CASE ReserveNames \/ TryAlias \/ EndRound
  <2>1. /\ UNCHANGED cycVars /\ errors' = errors /\ result' = result
        /\ phase \in {"names", "aliases"} /\ phase' \in {"aliases", "pass1"}
    BY <1>1 DEF ReserveNames, TryAlias, EndRound
  <2>2. CycInv' /\ WalkStarts'
    BY <2>1, CycStepKeepsInv DEF LayoutInv, WalkStarts, cycVars
  <2> QED BY <2>1, <2>2 DEF LayoutInv
<1>2. CASE ParseItem
  <2>1. phase = "pass1" /\ (Abort \/ Next1)
    BY <1>2 DEF ParseItem, ParseAlias, ParseType, ParseVariants, ParseFunction, ParseGlobal
  <2>2. /\ UNCHANGED cycVars
        /\ \/ phase' = "done" /\ result' = "rejected"
           \/ phase' = "pass1" /\ result' = result
    BY <2>1 DEF Abort, Next1
  <2>3. CycInv' /\ WalkStarts'
    BY <2>1, <2>2, CycStepKeepsInv DEF LayoutInv, WalkStarts, cycVars
  <2> QED BY <2>1, <2>2, <2>3 DEF LayoutInv
<1>3. CASE StartCycles
  <2>1. contains' = [t \in Types |-> Parts(t)] /\ phase = "pass1" /\ phase' = "cycles"
        /\ UNCHANGED <<types, result, colors, path, cyclic, rank, clock>>
    BY <1>3 DEF StartCycles
  <2>2. CycInit'
    <3>1. contains' \in [Types -> SUBSET Types]
      BY <2>1, PartsAreTypes
    <3>2. WalkStarts'
      BY <2>1 DEF LayoutInv, WalkStarts
    <3> QED BY <3>1, <3>2 DEF CycInit
  <2>3. CycInit' => CycInv'
    BY CycStartsWell, PTL
  <2>4. \A t \in Types : contains'[t] = Parts(t)'
    BY <2>1 DEF Parts, Registered
  <2> QED BY <2>1, <2>2, <2>3, <2>4 DEF LayoutInv
<1>4. CASE WalkCycles
  <2>1. phase = "cycles" /\ CycNext /\ UNCHANGED <<phase, types, result, errors>>
    BY <1>4 DEF WalkCycles, parseVars
  <2>2. CycInv'
    BY <2>1, CycStepKeepsInv DEF LayoutInv
  <2>3. contains' = contains
    BY <2>1 DEF CycNext, Root, Descend, Return, Finish
  <2>4. \A t \in Types : contains'[t] = Parts(t)'
    BY <2>1, <2>3 DEF LayoutInv, Parts, Registered
  <2> QED BY <2>1, <2>2, <2>4 DEF LayoutInv
<1>5. CASE ReportCycles
  <2>1. /\ phase = "cycles" /\ Walked /\ phase' = "pass2"
        /\ errors' = errors \cup {i \in DOMAIN text : text[i].form \in Nominal /\ text[i].name \in cyclic}
        /\ UNCHANGED <<types, result, cycVars>>
    BY <1>5 DEF ReportCycles
  <2>2. CycInv' /\ Walked' /\ cyclic' = cyclic /\ contains' = contains
    BY <2>1, CycStepKeepsInv DEF LayoutInv, Walked, cycVars
  <2>3. ASSUME errors' = {}, NEW t \in cyclic PROVE FALSE
    <3>1. t \in Types /\ StoresItself(t) /\ CycTypeOK
      BY DEF LayoutInv, CycInv, CycTypeOK, OnlyCyclesReported
    <3>2. PICK u \in Types : t \in contains[u]
      BY <3>1, ReportedIsStored
    <3>3. t \in Parts(u)
      BY <2>1, <3>2 DEF LayoutInv
    <3>4. PICK i \in DOMAIN text : text[i].form \in Nominal /\ text[i].name = t
      BY <3>3, PartsAreTypes
    <3> QED BY <2>1, <2>3, <3>4
  <2>4. \A t \in Types : contains'[t] = Parts(t)'
    BY <2>1, <2>2 DEF LayoutInv, Parts, Registered
  <2> QED BY <2>1, <2>2, <2>3, <2>4 DEF LayoutInv
<1>6. CASE ParseBody
  <2>1. /\ phase = "pass2" /\ errors \subseteq errors'
        /\ UNCHANGED <<phase, types, result, cycVars>>
    BY <1>6 DEF ParseBody
  <2> QED BY <2>1, QuietKeepsLayouts DEF LayoutInv
<1>7. CASE Fill
  <2>1. /\ phase = "pass2" /\ phase' = "done"
        /\ result' = IF errors = {} THEN "accepted" ELSE "rejected"
        /\ UNCHANGED <<types, errors, cycVars>>
    BY <1>7 DEF Fill
  <2>2. CycInv' /\ (Walked => Walked') /\ cyclic' = cyclic /\ contains' = contains
    BY <2>1, CycStepKeepsInv DEF LayoutInv, Walked, cycVars
  <2>3. \A t \in Types : contains'[t] = Parts(t)'
    BY <2>1, <2>2 DEF LayoutInv, Parts, Registered
  <2> QED BY <2>1, <2>2, <2>3 DEF LayoutInv
<1>8. CASE UNCHANGED vars
  BY <1>8, QuietKeepsLayouts DEF vars, parseVars
<1> QED BY <1>1, <1>2, <1>3, <1>4, <1>5, <1>6, <1>7, <1>8 DEF Next

\* The walk over the finished tables, and what becomes of its report
\* (do_parse_program), for every program.
THEOREM LayoutInvariant == Spec => [](TablesInv /\ LayoutInv)
<1>1. Init => TablesInv /\ LayoutInv
  BY TablesStart, LayoutStart
<1>2. TablesInv /\ LayoutInv /\ [Next]_vars => (TablesInv /\ LayoutInv)'
  BY TablesStep, LayoutStep
<1> QED BY <1>1, <1>2, PTL DEF Spec

\* In an accepted program every layout ends, for every program
\* (check_byvalue_containment_cycles and the verdict of parse_program).
THEOREM AcceptedLayoutsEnd == Spec => []LayoutsEnd
<1>1. LayoutInv => LayoutsEnd
  <2> SUFFICES ASSUME LayoutInv, result = "accepted", NEW S \in SUBSET Types, S # {}
               PROVE  \E t \in S : Parts(t) \cap S = {}
    BY DEF LayoutsEnd
  <2>1. Walked /\ cyclic = {} /\ NoCycleEscapes
    BY FirstBlackIsGround DEF LayoutInv
  <2>2. PICK t \in S : contains[t] \cap S = {}
    BY <2>1 DEF NoCycleEscapes, Grounded
  <2> QED BY <2>2 DEF LayoutInv
<1> QED BY <1>1, LayoutInvariant, PTL

\* No containment cycle escapes the parse's walk, whatever the tables it runs on.
THEOREM ParseFindsEveryCycle == Spec => []NoCycleEscapes
<1>1. LayoutInv => NoCycleEscapes
  BY FirstBlackIsGround DEF LayoutInv
<1> QED BY <1>1, LayoutInvariant, PTL

\* The parse reports no type whose layout ends.
THEOREM ParseReportsCycles == Spec => []OnlyCyclesReported
<1>1. LayoutInv => OnlyCyclesReported
  BY DEF LayoutInv, CycInv
<1> QED BY <1>1, LayoutInvariant, PTL
-----------------------------------------------------------------------------
(* Completeness. *)

Meant == [base : Types \cup Builtins, ptr : BOOLEAN]

Shapes ==
  \A t \in DOMAIN types :
    types[t] \in TypeShape /\ (types[t].kind = "alias" => types[t].defined)

ShapeInv ==
  /\ phase \in {"names", "aliases", "pass1", "cycles", "pass2", "done"}
  /\ at \in 1..(Len(text) + 1)
  /\ installed \subseteq DOMAIN text \ sites
  /\ phase = "names" => installed = {}
  /\ Shapes
  /\ result = "none" <=> phase # "done"
  /\ phase \in {"cycles", "pass2"} \/ result = "accepted" =>
       \A t \in DOMAIN types : types[t].defined

-----------------------------------------------------------------------------
(* Types. *)

LEMMA Declared ==
  ASSUME ReservedInv
  PROVE  /\ Len(text) \in Nat /\ DOMAIN text = 1..Len(text)
         /\ \A i \in DOMAIN text :
              /\ text[i].file \in Files /\ text[i].public \in BOOLEAN
              /\ text[i].refs \in Seq(Ref) /\ text[i].methods \in Seq(Method)
              /\ text[i].form = "alias" => Len(text[i].refs) = 1
<1>1. text \in Seq(Declaration)
  BY ProgramAssumption DEF ReservedInv
<1>2. Len(text) \in Nat /\ DOMAIN text = 1..Len(text)
  BY <1>1
<1>3. ASSUME NEW i \in DOMAIN text
      PROVE  /\ text[i].file \in Files /\ text[i].public \in BOOLEAN
             /\ text[i].refs \in Seq(Ref) /\ text[i].methods \in Seq(Method)
  <2>1. text[i] \in Declaration
    BY <1>1
  <2> QED BY <2>1 DEF Declaration
<1>4. \A i \in DOMAIN text : text[i].form = "alias" => Len(text[i].refs) = 1
  BY ProgramAssumption DEF ReservedInv
<1> QED BY <1>2, <1>3, <1>4

\* The meaning of a type expression that resolves is a type.
LEMMA MeaningIsMeant ==
  ASSUME TablesInv, Shapes, NEW r \in Ref, NEW f, Resolves(r, f)
  PROVE  Meaning(r) \in Meant
<1>1. r.to \in Types \cup Builtins /\ r.ptr \in BOOLEAN
  BY DEF Ref
<1>2. CASE Registered(r.to) /\ types[r.to].kind = "alias"
  <2> DEFINE m == types[r.to].target
  <2>1. types[r.to] \in TypeShape
    BY <1>2 DEF Shapes, Registered
  <2>2. m.ptr \in BOOLEAN
    BY <2>1 DEF TypeShape
  <2>3. MayName(m, types[r.to].file)
    BY <1>2 DEF TablesInv, TypesVisible, Registered
  <2>4. m.base \in Types \cup Builtins
    BY <2>3 DEF MayName, Registered, TablesInv, ReservedInv
  <2> QED BY <1>1, <1>2, <2>2, <2>4 DEF Meaning, Meant
<1>3. CASE ~(Registered(r.to) /\ types[r.to].kind = "alias")
  BY <1>1, <1>3 DEF Meaning, Meant
<1> QED BY <1>2, <1>3

LEMMA MeaningsAreMeant ==
  ASSUME TablesInv, Shapes, NEW refs \in Seq(Ref), NEW f, AllResolve(refs, f)
  PROVE  Meanings(refs) \in Seq(Meant)
<1>1. \A i \in DOMAIN refs : Meaning(refs[i]) \in Meant
  <2>1. \A i \in DOMAIN refs : refs[i] \in Ref
    OBVIOUS
  <2> QED BY <2>1, MeaningIsMeant DEF AllResolve
<1>2. Len(refs) \in Nat /\ DOMAIN refs = 1..Len(refs)
  OBVIOUS
<1> QED BY <1>1, <1>2 DEF Meanings

LEMMA ReservedShapes ==
  ASSUME TablesInv, ReserveNames
  PROVE  Shapes'
<1> DEFINE N == {text[i].name : i \in {j \in DOMAIN text : text[j].form \in Nominal}}
           D(n) == {i \in DOMAIN text : text[i].form \in Nominal /\ text[i].name = n}
           E(k) == [kind |-> text[k].form, file |-> text[k].file,
                    public |-> text[k].public, defined |-> FALSE,
                    target |-> NoTarget, parts |-> <<>>]
<1>1. types' = [n \in N |-> E(Min(D(n)))]
  BY DEF ReserveNames
<1>2. ASSUME NEW n \in N
      PROVE  types'[n] \in TypeShape /\ types'[n].kind # "alias"
  <2>1. D(n) \in SUBSET Nat /\ D(n) # {}
    BY Declared DEF TablesInv
  <2>2. Min(D(n)) \in D(n)
    BY <2>1, MinIsLeast
  <2>3. PICK k \in DOMAIN text : k = Min(D(n)) /\ text[k].form \in Nominal
    BY <2>2
  <2>4. types'[n] = E(k)
    BY <1>1, <2>3
  <2>5. text[k].file \in Files /\ text[k].public \in BOOLEAN
    BY Declared DEF TablesInv
  <2>6. E(k) \in TypeShape /\ E(k).kind # "alias"
    BY <2>3, <2>5 DEF TypeShape, Nominal, NoTarget
  <2> QED BY <2>4, <2>6
<1>3. DOMAIN types' = N
  BY <1>1
<1> QED BY <1>2, <1>3 DEF Shapes

LEMMA InstalledShapes ==
  ASSUME TablesInv, Shapes, NEW i \in DOMAIN text, text[i].form = "alias",
         AliasParses(text[i]), types' = WithType(text[i].name, Alias(text[i]))
  PROVE  Shapes'
<1> DEFINE d == text[i]
           r == d.refs[1]
<1>1. d.file \in Files /\ d.refs \in Seq(Ref) /\ Len(d.refs) = 1
  BY Declared DEF TablesInv
<1>2. r \in Ref /\ Resolves(r, d.file)
  BY <1>1 DEF AliasParses, AllResolve
<1>3. Meaning(r) \in Meant
  BY <1>2, MeaningIsMeant
<1>4. Alias(d) \in TypeShape /\ Alias(d).defined
  <2>1. Meaning(r) \in [base : Types \cup Builtins \cup {"-"}, ptr : BOOLEAN]
    BY <1>3 DEF Meant
  <2> QED BY <1>1, <2>1 DEF Alias, TypeShape, Nominal
<1> QED BY <1>4 DEF Shapes, WithType

LEMMA DefinedShapes ==
  ASSUME TablesInv, Shapes, at \in DOMAIN text, Claimable(Here), Registered(Here.name),
         AllResolve(Here.refs, Here.file), types' = Defined(Here)
  PROVE  Shapes'
<1> DEFINE n == Here.name
           ps == Meanings(Here.refs)
<1>1. ps \in Seq(Meant)
  BY HereIsADeclaration, MeaningsAreMeant DEF TablesInv
<1> HIDE DEF ps
<1>2. types[n] \in TypeShape
  BY DEF Shapes, Registered
<1>3. [types[n] EXCEPT !.defined = TRUE, !.parts = ps] \in TypeShape
  BY <1>1, <1>2 DEF TypeShape, Meant
<1>4. [types[n] EXCEPT !.defined = TRUE, !.parts = ps].defined
  BY <1>2 DEF TypeShape
<1>5. /\ DOMAIN types' = DOMAIN types
      /\ types'[n] = [types[n] EXCEPT !.defined = TRUE, !.parts = ps]
      /\ \A t \in DOMAIN types : t # n => types'[t] = types[t]
  <2>1. types = [t \in DOMAIN types |-> types[t]]
    BY DEF TablesInv, ReservedInv
  <2> QED BY <2>1 DEF Defined, Registered, ps
<1> QED BY <1>3, <1>4, <1>5 DEF Shapes

\* Steps that leave the types alone, and the phases that need them defined.
LEMMA QuietKeepsShapes ==
  ASSUME ShapeInv, UNCHANGED <<text, types>>, at' \in 1..(Len(text) + 1),
         installed' \subseteq DOMAIN text \ sites',
         \/ UNCHANGED <<phase, result>> /\ (phase = "names" => UNCHANGED installed)
         \/ phase \in {"aliases", "pass1"} /\ phase' = "pass1" /\ result' = "none"
         \/ phase' = "done" /\ result' = "rejected"
         \/ phase = "cycles" /\ phase' = "pass2" /\ UNCHANGED result
         \/ phase = "pass2" /\ phase' = "done" /\ result' \in {"accepted", "rejected"}
  PROVE  ShapeInv'
<1>1. Shapes'
  BY DEF ShapeInv, Shapes
<1> QED BY <1>1 DEF ShapeInv

LEMMA ShapeStart == Init => ShapeInv
<1> SUFFICES ASSUME Init PROVE ShapeInv
  OBVIOUS
<1>1. ReservedInv
  BY TablesStart DEF TablesInv
<1>2. DOMAIN types = {} /\ 1 \in 1..(Len(text) + 1)
  BY <1>1, Declared DEF Init
<1> QED BY <1>2 DEF Init, ShapeInv, Shapes

LEMMA ShapeStep == TablesInv /\ ShapeInv /\ [Next]_vars => ShapeInv'
<1> SUFFICES ASSUME TablesInv, ShapeInv, [Next]_vars PROVE ShapeInv'
  OBVIOUS
<1>0. /\ at \in 1..(Len(text) + 1) /\ installed \subseteq DOMAIN text \ sites
      /\ DOMAIN text = 1..Len(text) /\ Len(text) \in Nat
      /\ sites \subseteq DOMAIN text
  BY Declared DEF ShapeInv, TablesInv, ReservedInv
<1>1. CASE ReserveNames
  <2>1. Shapes'
    BY <1>1, ReservedShapes
  <2>2. /\ phase = "names" /\ phase' = "aliases" /\ UNCHANGED <<text, at, installed, result>>
        /\ sites' = {i \in DOMAIN text : text[i].form = "alias"}
    BY <1>1 DEF ReserveNames
  <2>3. installed = {}
    BY <2>2 DEF ShapeInv
  <2> QED BY <1>0, <2>1, <2>2, <2>3 DEF ShapeInv
<1>2. CASE TryAlias
  <2> DEFINE i == Min(todo)
             d == text[i]
  <2>1. todo \in SUBSET Nat /\ todo # {}
    BY <1>0, <1>2 DEF TryAlias, TablesInv, ReservedInv
  <2>2. i \in todo
    BY <2>1, MinIsLeast
  <2>3. i \in DOMAIN text /\ d.form = "alias" /\ i \in sites
    BY <2>2 DEF TablesInv, ReservedInv
  <2>4. phase = "aliases" /\ UNCHANGED <<phase, result, at, text>>
    BY <1>2 DEF TryAlias
  <2>5. CASE AliasParses(d)
    <3>1. /\ types' = WithType(d.name, Alias(d)) /\ sites' = sites \ {i}
          /\ installed' = installed \cup {i}
      BY <1>2, <2>5 DEF TryAlias, RetainsSite
    <3> HIDE DEF i
    <3>2. Shapes'
      BY <2>3, <2>5, <3>1, InstalledShapes DEF ShapeInv
    <3> QED BY <1>0, <2>3, <2>4, <3>1, <3>2 DEF ShapeInv
  <2>6. CASE ~AliasParses(d)
    <3>1. UNCHANGED <<types, installed, sites>>
      BY <1>2, <2>6 DEF TryAlias, RetainsSite
    <3> QED BY <1>0, <2>4, <3>1, QuietKeepsShapes
  <2> QED BY <2>5, <2>6
<1>3. CASE EndRound
  <2>1. /\ UNCHANGED <<text, at, types, installed, sites, result>> /\ phase = "aliases"
        /\ phase' = phase \/ phase' = "pass1"
    BY <1>3 DEF EndRound
  <2>2. result = "none"
    BY <2>1 DEF ShapeInv
  <2> QED BY <1>0, <2>1, <2>2, QuietKeepsShapes
<1>4. CASE ParseItem
  <2>1. phase = "pass1" /\ at \in DOMAIN text
    BY <1>4 DEF ParseItem
  <2>2. CASE Abort
    BY <1>0, <2>2, QuietKeepsShapes DEF Abort
  <2>3. CASE Next1
    <3>1. /\ at' \in 1..(Len(text) + 1) /\ UNCHANGED <<text, phase, result, installed, sites>>
      BY <1>0, <2>1, <2>3 DEF Next1
    <3>2. CASE UNCHANGED types
      BY <1>0, <3>1, <3>2, QuietKeepsShapes
    <3>3. CASE Shapes'
      BY <1>0, <2>1, <3>1, <3>3 DEF ShapeInv
    <3>4. CASE ParseAlias
      <4>1. CASE /\ AliasParses(Here) /\ Here.form = "alias"
                 /\ types' = WithType(Here.name, Alias(Here))
        BY <2>1, <3>3, <4>1, InstalledShapes DEF ShapeInv, Here
      <4> QED BY <2>1, <2>3, <3>2, <3>4, <4>1 DEF ParseAlias, Abort, Next1
    <3>5. CASE ParseType \/ ParseVariants
      <4>1. Here.form \in Nominal /\ Claimable(Here) /\ AllResolve(Here.refs, Here.file)
            /\ types' = Defined(Here)
        BY <2>1, <2>3, <3>5 DEF ParseType, ParseVariants, Abort, Next1, Nominal
      <4>2. Registered(Here.name)
        BY <2>1, <4>1, ClaimedIsHere DEF TablesInv
      <4> QED BY <2>1, <3>3, <4>1, <4>2, DefinedShapes DEF ShapeInv
    <3>6. CASE ParseFunction \/ ParseGlobal
      BY <3>2, <3>6 DEF ParseFunction, ParseGlobal
    <3> QED BY <1>4, <3>4, <3>5, <3>6 DEF ParseItem
  <2> QED
    BY <1>4, <2>2, <2>3
    DEF ParseItem, ParseAlias, ParseType, ParseVariants, ParseFunction, ParseGlobal
<1>5. CASE StartCycles
  <2>1. /\ phase = "pass1" /\ at \notin DOMAIN text /\ phase' = "cycles"
        /\ UNCHANGED <<text, at, types, installed, sites, result>>
    BY <1>5 DEF StartCycles
  <2>2. ASSUME NEW t \in DOMAIN types PROVE types[t].defined
    <3>1. CASE types[t].kind = "alias"
      BY <3>1 DEF ShapeInv, Shapes
    <3>2. CASE types[t].kind # "alias"
      <4>1. PICK k \in Nat : Reserves(k, t) /\ (types[t].defined \/ at <= k)
        BY <3>2 DEF TablesInv, ReservedInv
      <4>2. k \in 1..Len(text) /\ at = Len(text) + 1
        BY <1>0, <2>1, <4>1 DEF Reserves
      <4> QED BY <1>0, <4>1, <4>2
    <3> QED BY <3>1, <3>2
  <2>3. Shapes'
    BY <2>1 DEF ShapeInv, Shapes
  <2> QED BY <1>0, <2>1, <2>2, <2>3 DEF ShapeInv
<1>6. CASE WalkCycles \/ ParseBody
  <2>1. UNCHANGED <<text, at, types, installed, sites, phase, result>>
    BY <1>6 DEF WalkCycles, ParseBody, parseVars
  <2> QED BY <1>0, <2>1, QuietKeepsShapes
<1>7. CASE ReportCycles \/ Fill
  <2>1. UNCHANGED <<text, at, types, installed, sites>>
    BY <1>7 DEF ReportCycles, Fill
  <2>2. \/ phase = "cycles" /\ phase' = "pass2" /\ UNCHANGED result
        \/ phase = "pass2" /\ phase' = "done" /\ result' \in {"accepted", "rejected"}
    BY <1>7 DEF ReportCycles, Fill
  <2> QED BY <1>0, <2>1, <2>2, QuietKeepsShapes
<1>8. CASE UNCHANGED vars
  BY <1>0, <1>8, QuietKeepsShapes DEF vars, parseVars
<1> QED BY <1>1, <1>2, <1>3, <1>4, <1>5, <1>6, <1>7, <1>8 DEF Next

-----------------------------------------------------------------------------
(* Bodies. *)

IsSequence(s) == \E S : s \in Seq(S)

IsItem(e) ==
  /\ e = [name |-> e.name, site |-> e.site, body |-> e.body, kind |-> e.kind]
  /\ e.site \in Sites /\ e.body \in SUBSET Sites
  /\ e.kind \in {"aspect", "extern", "asm"}

\* e is the function whose body, of this name, stands at this site.
Owns(e, name, site) == e.kind = "aspect" /\ e.name = name /\ e.site = site

NothingFilled ==
  /\ \A k \in DOMAIN items : items[k].body = {}
  /\ \A j \in DOMAIN pending :
       \E k \in DOMAIN items : Owns(items[k], pending[j].name, pending[j].site)
  /\ \A n \in DOMAIN bodies : \E k \in DOMAIN items : Owns(items[k], n, bodies[n])
  /\ \A k \in DOMAIN items :
       items[k].kind = "aspect" =>
         \/ items[k].name \in DOMAIN bodies
         \/ \E j \in DOMAIN pending : pending[j].name = items[k].name

EachHasItsBody ==
  \A k \in DOMAIN items :
    (\A j \in DOMAIN items : items[j].name = items[k].name => j = k)
      => items[k].body = IF items[k].kind = "aspect" THEN {items[k].site} ELSE {}

FilledInv ==
  /\ IsSequence(items) /\ IsSequence(pending)
  /\ \A k \in DOMAIN items : IsItem(items[k])
  /\ \A n \in DOMAIN bodies : bodies[n] \in Sites
  /\ phase # "done" => NothingFilled
  /\ result = "accepted" => phase = "done" /\ EachHasItsBody

LEMMA Joined ==
  ASSUME NEW s, NEW t, IsSequence(s), IsSequence(t)
  PROVE  /\ IsSequence(s \o t)
         /\ Len(s) \in Nat /\ DOMAIN s = 1..Len(s)
         /\ Len(t) \in Nat /\ DOMAIN t = 1..Len(t)
         /\ DOMAIN (s \o t) = 1..(Len(s) + Len(t))
         /\ \A i \in 1..Len(s) : (s \o t)[i] = s[i]
         /\ \A i \in 1..Len(t) : (s \o t)[Len(s) + i] = t[i]
<1>1. PICK S, T : s \in Seq(S) /\ t \in Seq(T)
  BY DEF IsSequence
<1> DEFINE U == S \cup T
<1>2. s \in Seq(U) /\ t \in Seq(U)
  BY <1>1
<1> HIDE DEF U
<1>3. s \o t \in Seq(U) /\ Len(s \o t) = Len(s) + Len(t)
  BY <1>2
<1> QED BY <1>2, <1>3 DEF IsSequence

LEMMA OneMore ==
  ASSUME NEW s, NEW e, IsSequence(s)
  PROVE  Append(s, e) = s \o <<e>> /\ s = s \o << >>
<1>1. PICK S : s \in Seq(S)
  BY DEF IsSequence
<1> DEFINE U == S \cup {e}
<1>2. s \in Seq(U) /\ e \in U
  BY <1>1
<1> HIDE DEF U
<1> QED BY <1>2

LEMMA ListIsSequence ==
  ASSUME NEW n \in Nat, NEW s, s = [k \in 1..n |-> s[k]]
  PROVE  IsSequence(s) /\ Len(s) = n /\ DOMAIN s = 1..n
<1> DEFINE S == {s[k] : k \in 1..n}
<1>1. s \in [1..n -> S]
  OBVIOUS
<1>2. s \in Seq(S) /\ Len(s) = n
  BY <1>1
<1> QED BY <1>1, <1>2 DEF IsSequence

\* Functions join the program, and each body that is set aside has its function.
LEMMA AddingKeepsFilled ==
  ASSUME FilledInv, phase # "done", phase' # "done", result' # "accepted", UNCHANGED bodies,
         NEW is, NEW ps, IsSequence(is), IsSequence(ps),
         items' = items \o is, pending' = pending \o ps,
         \A k \in DOMAIN is : IsItem(is[k]) /\ is[k].body = {},
         \A j \in DOMAIN ps : \E k \in DOMAIN is : Owns(is[k], ps[j].name, ps[j].site),
         \A k \in DOMAIN is : is[k].kind = "aspect" => \E j \in DOMAIN ps : ps[j].name = is[k].name
  PROVE  FilledInv'
<1> DEFINE a == Len(items)
           b == Len(is)
           c == Len(pending)
           d == Len(ps)
<1>1. /\ IsSequence(items') /\ a \in Nat /\ b \in Nat
      /\ DOMAIN items = 1..a /\ DOMAIN is = 1..b /\ DOMAIN items' = 1..(a + b)
      /\ \A i \in 1..a : items'[i] = items[i]
      /\ \A i \in 1..b : items'[a + i] = is[i]
  BY Joined DEF FilledInv
<1>2. /\ IsSequence(pending') /\ c \in Nat /\ d \in Nat
      /\ DOMAIN pending = 1..c /\ DOMAIN ps = 1..d /\ DOMAIN pending' = 1..(c + d)
      /\ \A i \in 1..c : pending'[i] = pending[i]
      /\ \A i \in 1..d : pending'[c + i] = ps[i]
  BY Joined DEF FilledInv
<1> HIDE DEF a, b, c, d
<1>3. \A k \in DOMAIN items : k \in DOMAIN items' /\ items'[k] = items[k]
  BY <1>1
<1>4. \A k \in DOMAIN is : a + k \in DOMAIN items' /\ items'[a + k] = is[k]
  BY <1>1
<1>5. \A j \in DOMAIN pending : j \in DOMAIN pending' /\ pending'[j] = pending[j]
  BY <1>2
<1>6. \A j \in DOMAIN ps : c + j \in DOMAIN pending' /\ pending'[c + j] = ps[j]
  BY <1>2
<1>7. ASSUME NEW k \in DOMAIN items'
      PROVE  \/ k \in DOMAIN items /\ items'[k] = items[k]
             \/ \E i \in DOMAIN is : items'[k] = is[i]
  <2>1. CASE k <= a
    BY <1>1, <2>1
  <2>2. CASE k > a
    <3>1. k - a \in 1..b /\ k = a + (k - a)
      BY <1>1, <2>2
    <3> QED BY <1>1, <3>1
  <2> QED BY <1>1, <2>1, <2>2
<1>8. ASSUME NEW j \in DOMAIN pending'
      PROVE  \/ j \in DOMAIN pending /\ pending'[j] = pending[j]
             \/ \E i \in DOMAIN ps : pending'[j] = ps[i]
  <2>1. CASE j <= c
    BY <1>2, <2>1
  <2>2. CASE j > c
    <3>1. j - c \in 1..d /\ j = c + (j - c)
      BY <1>2, <2>2
    <3> QED BY <1>2, <3>1
  <2> QED BY <1>2, <2>1, <2>2
<1>9. \A k \in DOMAIN items' : IsItem(items'[k]) /\ items'[k].body = {}
  BY <1>7 DEF FilledInv, NothingFilled
<1>10. ASSUME NEW j \in DOMAIN pending'
       PROVE  \E k \in DOMAIN items' : Owns(items'[k], pending'[j].name, pending'[j].site)
  <2>1. CASE j \in DOMAIN pending /\ pending'[j] = pending[j]
    <3>1. PICK k \in DOMAIN items : Owns(items[k], pending[j].name, pending[j].site)
      BY <2>1 DEF FilledInv, NothingFilled
    <3> QED BY <1>3, <2>1, <3>1
  <2>2. CASE \E i \in DOMAIN ps : pending'[j] = ps[i]
    <3>1. PICK i \in DOMAIN ps : pending'[j] = ps[i]
      BY <2>2
    <3>2. PICK k \in DOMAIN is : Owns(is[k], ps[i].name, ps[i].site)
      OBVIOUS
    <3> QED BY <1>4, <3>1, <3>2
  <2> QED BY <1>8, <2>1, <2>2
<1>11. \A n \in DOMAIN bodies' : \E k \in DOMAIN items' : Owns(items'[k], n, bodies'[n])
  BY <1>3 DEF FilledInv, NothingFilled
<1>12. ASSUME NEW k \in DOMAIN items', items'[k].kind = "aspect"
       PROVE  \/ items'[k].name \in DOMAIN bodies'
              \/ \E j \in DOMAIN pending' : pending'[j].name = items'[k].name
  <2>1. CASE k \in DOMAIN items /\ items'[k] = items[k]
    <3>1. CASE items[k].name \in DOMAIN bodies
      BY <2>1, <3>1
    <3>2. CASE \E j \in DOMAIN pending : pending[j].name = items[k].name
      <4>1. PICK j \in DOMAIN pending : pending[j].name = items[k].name
        BY <3>2
      <4> QED BY <1>5, <2>1, <4>1
    <3> QED BY <1>12, <2>1, <3>1, <3>2 DEF FilledInv, NothingFilled
  <2>2. CASE \E i \in DOMAIN is : items'[k] = is[i]
    <3>1. PICK i \in DOMAIN is : items'[k] = is[i]
      BY <2>2
    <3>2. PICK j \in DOMAIN ps : ps[j].name = is[i].name
      BY <1>12, <3>1
    <3> QED BY <1>6, <3>1, <3>2
  <2> QED BY <1>7, <2>1, <2>2
<1> QED
  BY <1>1, <1>2, <1>9, <1>10, <1>11, <1>12 DEF FilledInv, NothingFilled

\* A body is parsed and kept under its name.
LEMMA ParsingKeepsFilled ==
  ASSUME FilledInv, ParseBody, phase = "pass2"
  PROVE  FilledInv'
<1> DEFINE p == Head(pending)
           c == Len(pending)
<1>1. /\ pending # <<>> /\ pending' = Tail(pending) /\ UNCHANGED <<items, phase, result>>
      /\ bodies' = [n \in DOMAIN bodies \cup {p.name} |-> IF n = p.name THEN p.site ELSE bodies[n]]
  BY DEF ParseBody
<1>2. PICK S : pending \in Seq(S)
  BY DEF FilledInv, IsSequence
<1>3. /\ c \in Nat /\ c >= 1 /\ DOMAIN pending = 1..c /\ p = pending[1]
      /\ pending' \in Seq(S) /\ DOMAIN pending' = 1..(c - 1)
      /\ \A j \in 1..(c - 1) : pending'[j] = pending[j + 1]
  BY <1>1, <1>2
<1> HIDE DEF c
<1>4. /\ DOMAIN bodies' = DOMAIN bodies \cup {p.name} /\ bodies'[p.name] = p.site
      /\ \A n \in DOMAIN bodies : n # p.name => bodies'[n] = bodies[n]
  BY <1>1
<1>5. PICK o \in DOMAIN items : Owns(items[o], p.name, p.site)
  BY <1>3 DEF FilledInv, NothingFilled
<1>6. ASSUME NEW j \in DOMAIN pending'
      PROVE  \E k \in DOMAIN items' : Owns(items'[k], pending'[j].name, pending'[j].site)
  <2>1. j + 1 \in DOMAIN pending /\ pending'[j] = pending[j + 1]
    BY <1>3
  <2> QED BY <1>1, <2>1 DEF FilledInv, NothingFilled
<1>7. ASSUME NEW n \in DOMAIN bodies'
      PROVE  (\E k \in DOMAIN items' : Owns(items'[k], n, bodies'[n])) /\ bodies'[n] \in Sites
  <2>1. CASE n = p.name
    BY <1>1, <1>4, <1>5, <2>1 DEF Owns, FilledInv, IsItem
  <2>2. CASE n # p.name
    BY <1>1, <1>4, <2>2 DEF FilledInv, NothingFilled
  <2> QED BY <2>1, <2>2
<1>8. ASSUME NEW k \in DOMAIN items', items'[k].kind = "aspect"
      PROVE  \/ items'[k].name \in DOMAIN bodies'
             \/ \E j \in DOMAIN pending' : pending'[j].name = items'[k].name
  <2>1. CASE items[k].name \in DOMAIN bodies
    BY <1>1, <1>4, <2>1
  <2>2. CASE items[k].name \notin DOMAIN bodies
    <3>1. PICK j \in DOMAIN pending : pending[j].name = items[k].name
      BY <1>1, <1>8, <2>2 DEF FilledInv, NothingFilled
    <3>2. CASE j = 1
      BY <1>1, <1>3, <1>4, <3>1, <3>2
    <3>3. CASE j # 1
      <4>1. j - 1 \in 1..(c - 1) /\ (j - 1) + 1 = j
        BY <1>3, <3>3
      <4> QED BY <1>1, <1>3, <3>1, <4>1
    <3> QED BY <3>2, <3>3
  <2> QED BY <2>1, <2>2
<1> QED
  BY <1>1, <1>3, <1>6, <1>7, <1>8 DEF FilledInv, NothingFilled, IsSequence

\* The fill gives the only function of a name the one body of that name.
LEMMA FillingKeepsFilled ==
  ASSUME FilledInv, Fill
  PROVE  FilledInv'
<1>1. /\ phase = "pass2" /\ pending = <<>> /\ phase' = "done" /\ UNCHANGED <<pending, bodies>>
      /\ items' = [k \in DOMAIN items |->
                     IF Takes(k) = {} THEN items[k]
                     ELSE [items[k] EXCEPT !.kind = "aspect", !.body = Takes(k)]]
  BY DEF Fill
<1>2. DOMAIN items' = DOMAIN items /\ NothingFilled
  BY <1>1 DEF FilledInv
<1>3. ASSUME NEW k \in DOMAIN items
      PROVE  /\ IsItem(items'[k]) /\ items'[k].name = items[k].name
             /\ items'[k].site = items[k].site
             /\ Takes(k) = {} => items'[k] = items[k]
             /\ Takes(k) # {} => items'[k].kind = "aspect" /\ items'[k].body = Takes(k)
  <2>1. items[k] = [name |-> items[k].name, site |-> items[k].site,
                    body |-> items[k].body, kind |-> items[k].kind] /\ items[k].site \in Sites
        /\ IsItem(items[k])
    BY DEF FilledInv, IsItem
  <2>2. Takes(k) \in SUBSET Sites
    BY DEF Takes, FilledInv
  <2>3. CASE Takes(k) = {}
    BY <1>1, <2>1, <2>3
  <2>4. CASE Takes(k) # {}
    <3>1. items'[k] = [name |-> items[k].name, site |-> items[k].site,
                       body |-> Takes(k), kind |-> "aspect"]
      BY <1>1, <2>1, <2>4
    <3> QED BY <2>1, <2>2, <2>4, <3>1 DEF IsItem
  <2> QED BY <2>3, <2>4
<1>4. EachHasItsBody'
  <2> SUFFICES ASSUME NEW k \in DOMAIN items,
                      \A j \in DOMAIN items : items[j].name = items[k].name => j = k
               PROVE  items'[k].body = IF items'[k].kind = "aspect" THEN {items'[k].site} ELSE {}
    BY <1>2, <1>3 DEF EachHasItsBody
  <2>1. DOMAIN items \subseteq Nat /\ DOMAIN items = 1..Len(items) /\ Len(items) \in Nat
    BY Joined DEF FilledInv
  <2>2. CASE items[k].kind = "aspect"
    <3>0. DOMAIN pending = {}
      <4>1. pending = <<>>
        BY <1>1
      <4>2. pending \in Seq({}) /\ Len(pending) = 0
        BY <4>1
      <4> QED BY <4>2
    <3>1. items[k].name \in DOMAIN bodies
      BY <1>2, <2>2, <3>0 DEF NothingFilled
    <3>2. bodies[items[k].name] = items[k].site
      BY <1>2, <3>1 DEF NothingFilled, Owns
    <3>3. \A j \in 1..(k - 1) : items[j].name # items[k].name
      BY <2>1
    <3>4. Takes(k) = {items[k].site}
      BY <3>1, <3>2, <3>3 DEF Takes
    <3> QED BY <1>3, <3>4
  <2>3. CASE items[k].kind # "aspect"
    <3>1. items[k].name \notin DOMAIN bodies
      BY <1>2, <2>3 DEF NothingFilled, Owns
    <3>2. Takes(k) = {}
      BY <3>1 DEF Takes
    <3> QED BY <1>2, <1>3, <2>3, <3>2 DEF NothingFilled
  <2> QED BY <2>2, <2>3
<1>5. IsSequence(items')
  <2>1. DOMAIN items' = 1..Len(items) /\ Len(items) \in Nat
    BY <1>2, Joined DEF FilledInv
  <2>2. items' = [k \in 1..Len(items) |-> items'[k]]
    BY <1>1, <2>1
  <2> QED BY <2>1, <2>2, ListIsSequence
<1> QED BY <1>1, <1>2, <1>3, <1>4, <1>5 DEF FilledInv

\* Steps that leave the functions and what is set aside of them alone.
LEMMA QuietKeepsFilled ==
  ASSUME FilledInv, UNCHANGED <<items, pending, bodies>>,
         \/ UNCHANGED <<phase, result>>
         \/ phase # "done" /\ phase' # "done" /\ UNCHANGED result
         \/ phase' = "done" /\ result' = "rejected"
  PROVE  FilledInv'
BY DEF FilledInv, NothingFilled, EachHasItsBody

LEMMA FilledStart == Init => FilledInv
<1> SUFFICES ASSUME Init PROVE FilledInv
  OBVIOUS
<1>1. items = <<>> /\ pending = <<>> /\ bodies = <<>> /\ phase = "names" /\ result = "none"
  BY DEF Init
<1>2. <<>> \in Seq({}) /\ DOMAIN <<>> = {}
  OBVIOUS
<1>3. IsSequence(items) /\ IsSequence(pending)
  BY <1>1, <1>2 DEF IsSequence
<1>4. DOMAIN items = {} /\ DOMAIN pending = {} /\ DOMAIN bodies = {}
  BY <1>1, <1>2
<1> QED BY <1>1, <1>3, <1>4 DEF FilledInv, NothingFilled

LEMMA ParseFunctionKeepsFilled ==
  ASSUME FilledInv, ParseFunction, phase = "pass1", at \in DOMAIN text, at \in Nat,
         Next1, result = "none"
  PROVE  FilledInv'
<1> DEFINE e == Item(Here, <<at, 0>>)
           b == Deferred(Here, <<at, 0>>)
<1>1. /\ Here.form \in {"fn", "extern", "asm"}
      /\ items' = Append(items, e)
      /\ pending' = IF Here.form = "fn" THEN Append(pending, b) ELSE pending
  BY DEF ParseFunction, Abort, Next1
<1>2. /\ IsItem(e) /\ e.body = {} /\ e.site = <<at, 0>> /\ e.name = Here.name
      /\ e.kind = "aspect" <=> Here.form = "fn"
      /\ b.site = <<at, 0>> /\ b.name = Here.name
  <2>1. <<at, 0>> \in Sites
    BY DEF Sites
  <2> QED BY <1>1, <2>1 DEF Item, IsItem, Deferred
<1> HIDE DEF e, b
<1>3. items' = items \o <<e>>
  BY <1>1, OneMore DEF FilledInv
<1>4. phase # "done" /\ phase' # "done" /\ result' # "accepted" /\ UNCHANGED bodies
  BY DEF Next1
<1>5. IsSequence(<<e>>) /\ IsSequence(<<b>>) /\ IsSequence(<<>>)
  <2>1. <<e>> \in Seq({e}) /\ <<b>> \in Seq({b}) /\ <<>> \in Seq({})
    OBVIOUS
  <2> QED BY <2>1 DEF IsSequence
<1>6. /\ DOMAIN <<e>> = {1} /\ <<e>>[1] = e /\ DOMAIN <<b>> = {1} /\ <<b>>[1] = b
      /\ DOMAIN <<>> = {}
  OBVIOUS
<1>7. CASE Here.form = "fn"
  <2>1. pending' = pending \o <<b>>
    BY <1>1, <1>7, OneMore DEF FilledInv
  <2>2. Owns(e, b.name, b.site)
    BY <1>2, <1>7 DEF Owns
  <2> QED BY <1>2, <1>3, <1>4, <1>5, <1>6, <2>1, <2>2, AddingKeepsFilled
<1>8. CASE Here.form # "fn"
  <2>1. pending' = pending \o <<>>
    BY <1>1, <1>8, OneMore DEF FilledInv
  <2> QED BY <1>2, <1>3, <1>4, <1>5, <1>6, <1>8, <2>1, AddingKeepsFilled
<1> QED BY <1>7, <1>8

LEMMA ParseTypeKeepsFilled ==
  ASSUME TablesInv, FilledInv, ParseType, phase = "pass1", at \in DOMAIN text, Next1,
         result = "none"
  PROVE  FilledInv'
<1> DEFINE ms == Methods(Here)
           is == [k \in DOMAIN ms |-> Item(ms[k], <<at, k>>)]
           ps == [k \in DOMAIN ms |-> Deferred(ms[k], <<at, k>>)]
           n  == Len(Here.methods)
<1>1. items' = items \o is /\ pending' = pending \o ps
  BY DEF ParseType, Abort, Next1
<1>2. n \in Nat /\ DOMAIN ms = 1..n /\ at \in Nat
  BY Declared DEF TablesInv, ReservedInv, Here, Methods
<1>3. ASSUME NEW k \in DOMAIN ms
      PROVE  /\ IsItem(is[k]) /\ is[k].body = {} /\ is[k].kind = "aspect"
             /\ Owns(is[k], ps[k].name, ps[k].site) /\ ps[k].name = is[k].name
  <2>1. ms[k].form = "fn"
    BY DEF Methods, Lowered
  <2>2. <<at, k>> \in Sites
    BY <1>2 DEF Sites
  <2>3. /\ is[k] = [name |-> ms[k].name, site |-> <<at, k>>, body |-> {}, kind |-> "aspect"]
        /\ ps[k].name = ms[k].name /\ ps[k].site = <<at, k>>
    BY <2>1 DEF Item, Deferred
  <2> QED BY <2>2, <2>3 DEF IsItem, Owns
<1>4. is = [k \in 1..n |-> is[k]] /\ ps = [k \in 1..n |-> ps[k]]
  BY <1>2
<1>5. DOMAIN is = DOMAIN ms /\ DOMAIN ps = DOMAIN ms
  OBVIOUS
<1> HIDE DEF ms, is, ps, n
<1>6. IsSequence(is) /\ IsSequence(ps)
  BY <1>2, <1>4, ListIsSequence
<1>7. phase # "done" /\ phase' # "done" /\ result' # "accepted" /\ UNCHANGED bodies
  BY DEF Next1
<1> QED BY <1>1, <1>3, <1>5, <1>6, <1>7, AddingKeepsFilled

LEMMA FilledStep == TablesInv /\ ShapeInv /\ FilledInv /\ [Next]_vars => FilledInv'
<1> SUFFICES ASSUME TablesInv, ShapeInv, FilledInv, [Next]_vars PROVE FilledInv'
  OBVIOUS
<1>1. CASE ReserveNames \/ TryAlias \/ EndRound \/ StartCycles \/ ReportCycles
  <2>1. /\ UNCHANGED <<items, pending, bodies, result>>
        /\ phase # "done" /\ phase' # "done"
    BY <1>1 DEF ReserveNames, TryAlias, EndRound, StartCycles, ReportCycles
  <2> QED BY <2>1, QuietKeepsFilled
<1>2. CASE ParseItem
  <2>1. phase = "pass1" /\ at \in DOMAIN text /\ at \in Nat /\ result = "none"
    BY <1>2 DEF ParseItem, TablesInv, ReservedInv, ShapeInv
  <2>2. CASE Abort
    <3>1. UNCHANGED <<items, pending, bodies>> /\ phase' = "done" /\ result' = "rejected"
      BY <2>2 DEF Abort
    <3> QED BY <3>1, QuietKeepsFilled
  <2>3. CASE Next1
    <3>1. CASE ParseAlias \/ ParseVariants \/ ParseGlobal
      <4>1. UNCHANGED <<items, pending, bodies, phase, result>>
        BY <2>3, <3>1 DEF ParseAlias, ParseVariants, ParseGlobal, Next1
      <4> QED BY <4>1, QuietKeepsFilled
    <3>2. CASE ParseFunction
      BY <2>1, <2>3, <3>2, ParseFunctionKeepsFilled
    <3>3. CASE ParseType
      BY <2>1, <2>3, <3>3, ParseTypeKeepsFilled
    <3> QED BY <1>2, <3>1, <3>2, <3>3 DEF ParseItem
  <2> QED
    BY <1>2, <2>2, <2>3
    DEF ParseItem, ParseAlias, ParseType, ParseVariants, ParseFunction, ParseGlobal
<1>3. CASE WalkCycles \/ UNCHANGED vars
  <2>1. UNCHANGED <<items, pending, bodies, phase, result>>
    BY <1>3 DEF WalkCycles, parseVars, vars
  <2> QED BY <2>1, QuietKeepsFilled
<1>4. CASE ParseBody
  BY <1>4, ParsingKeepsFilled DEF ParseBody
<1>5. CASE Fill
  BY <1>5, FillingKeepsFilled
<1> QED BY <1>1, <1>2, <1>3, <1>4, <1>5 DEF Next

-----------------------------------------------------------------------------
(* Theorems. *)

ProgramInv == TablesInv /\ LayoutInv /\ ShapeInv /\ FilledInv

\* Parsing keeps the tables, the layouts, the entries' shapes and the bodies
\* each as its invariant says (src/parser/program.rs).
THEOREM ProgramInvariant == Spec => []ProgramInv
<1>1. Init => ProgramInv
  BY TablesStart, LayoutStart, ShapeStart, FilledStart DEF ProgramInv
<1>2. ProgramInv /\ [Next]_vars => ProgramInv'
  BY TablesStep, LayoutStep, ShapeStep, FilledStep DEF ProgramInv
<1> QED BY <1>1, <1>2, PTL DEF Spec

\* The tables keep their shape, and an accepted program has every reserved type
\* defined and every function that shares its name with no other filled with the
\* body that stands at its own site (parse_pending_bodies and the fill).
THEOREM AcceptedPrograms == Spec => []AcceptedIsComplete
<1>1. ProgramInv => AcceptedIsComplete
  <2> SUFFICES ASSUME ProgramInv PROVE AcceptedIsComplete
    OBVIOUS
  <2>1. todo \subseteq sites /\ sites \subseteq DOMAIN text /\ DOMAIN types \subseteq Types
    BY DEF ProgramInv, TablesInv, ReservedInv
  <2>2. CycTypeOK
    BY DEF ProgramInv, LayoutInv, CycInv
  <2>3. \A k \in DOMAIN items : /\ items[k].site \in Sites
                                /\ items[k].kind \in {"aspect", "extern", "asm"}
                                /\ items[k].body \subseteq Sites
    BY DEF ProgramInv, FilledInv, IsItem
  <2>4. TypeOK
    BY <2>1, <2>2, <2>3 DEF TypeOK, ProgramInv, ShapeInv, Shapes, FilledInv
  <2>5. result = "accepted" => EachHasItsBody /\ \A t \in DOMAIN types : types[t].defined
    BY DEF ProgramInv, ShapeInv, FilledInv
  <2> QED BY <2>4, <2>5 DEF AcceptedIsComplete, EachHasItsBody
<1> QED BY <1>1, ProgramInvariant, PTL

-----------------------------------------------------------------------------
(* The verdict.                                                           *)

\* The entries of before are still there, with what names and gates ask of
\* them, and a type that was defined keeps its parts.
Grow ==
  \A t \in DOMAIN types :
    /\ t \in DOMAIN types'
    /\ types'[t].kind = types[t].kind /\ types'[t].file = types[t].file
    /\ types'[t].public = types[t].public /\ types'[t].target = types[t].target
    /\ types[t].defined => types'[t] = types[t]

-----------------------------------------------------------------------------
(* What resolved goes on resolving, and means the same. *)

LEMMA StillResolves ==
  ASSUME TablesInv, ReservedInv', Grow, NEW r, NEW f, Resolves(r, f)
  PROVE  Resolves(r, f)' /\ Meaning(r)' = Meaning(r)
<1>1. CASE r.to \in Builtins
  <2>1. ~Registered(r.to) /\ ~Registered(r.to)'
    BY <1>1, ProgramAssumption DEF TablesInv, ReservedInv, Registered
  <2> QED BY <1>1, <2>1 DEF Resolves, Meaning
<1>2. CASE r.to \notin Builtins
  <2>1. PICK t : t = r.to
    OBVIOUS
  <2>2. t \in DOMAIN types /\ t \in DOMAIN types' /\ TypeVisible(t, f)
    BY <1>2, <2>1 DEF Resolves, Registered, Grow
  <2>3. TypeVisible(t, f)'
    BY <2>2 DEF Grow, TypeVisible
  <2>4. CASE types[t].kind = "alias"
    <3>1. PICK b : b = types[t].target.base
      OBVIOUS
    <3>2. types'[t].kind = "alias" /\ types'[t].target = types[t].target
      BY <2>2, <2>4 DEF Grow
    <3>3. b \notin Builtins => b \in DOMAIN types /\ TypeVisible(b, f)
      <4>1. MayName(types[t].target, types[t].file)
        BY <2>2, <2>4 DEF TablesInv, TypesVisible
      <4> QED BY <1>2, <2>1, <2>2, <2>4, <3>1, <4>1 DEF MayName, Registered, Resolves
    <3>4. b \notin Builtins => TypeVisible(b, f)'
      BY <3>3 DEF Grow, TypeVisible
    <3> QED
      BY <2>1, <2>2, <2>3, <2>4, <3>1, <3>2, <3>4 DEF Resolves, Meaning, Registered
  <2>5. CASE types[t].kind # "alias"
    <3>1. types'[t].kind # "alias"
      BY <2>2, <2>5 DEF Grow
    <3> QED BY <2>1, <2>2, <2>3, <2>5, <3>1 DEF Resolves, Meaning, Registered
  <2> QED BY <2>4, <2>5
<1> QED BY <1>1, <1>2

LEMMA AllStillResolve ==
  ASSUME TablesInv, ReservedInv', Grow, NEW refs, NEW f, AllResolve(refs, f)
  PROVE  AllResolve(refs, f)' /\ Meanings(refs)' = Meanings(refs)
<1>1. \A i \in DOMAIN refs : Resolves(refs[i], f)' /\ Meaning(refs[i])' = Meaning(refs[i])
  BY StillResolves DEF AllResolve
<1> QED BY <1>1 DEF AllResolve, Meanings

\* Where no name is new, nothing resolves that did not.
LEMMA NothingNewResolves ==
  ASSUME TablesInv, Grow, DOMAIN types' = DOMAIN types, NEW r, NEW f, Resolves(r, f)'
  PROVE  Resolves(r, f)
<1>1. CASE r.to \in Builtins
  BY <1>1 DEF Resolves
<1>2. CASE r.to \notin Builtins
  <2>1. PICK t : t = r.to
    OBVIOUS
  <2>2. t \in DOMAIN types /\ TypeVisible(t, f)
    BY <1>2, <2>1 DEF Resolves, Registered, Grow, TypeVisible
  <2>3. CASE types[t].kind = "alias" /\ types[t].target.base \notin Builtins
    <3>1. PICK b : b = types[t].target.base
      OBVIOUS
    <3>2. b \in DOMAIN types
      <4>1. MayName(types[t].target, types[t].file)
        BY <2>2, <2>3 DEF TablesInv, TypesVisible
      <4> QED BY <2>3, <3>1, <4>1 DEF MayName, Registered
    <3>3. TypeVisible(b, f)'
      BY <1>2, <2>1, <2>2, <2>3, <3>1 DEF Resolves, Grow
    <3>4. TypeVisible(b, f)
      BY <3>2, <3>3 DEF Grow, TypeVisible
    <3> QED BY <2>1, <2>2, <3>1, <3>4 DEF Resolves, Registered
  <2> QED BY <2>1, <2>2, <2>3 DEF Resolves, Registered
<1> QED BY <1>1, <1>2

LEMMA NoNewAlias ==
  ASSUME TablesInv, Grow, DOMAIN types' = DOMAIN types, NEW d, AliasParses(d)'
  PROVE  AliasParses(d)
<1>1. \A i \in DOMAIN d.refs : Resolves(d.refs[i], d.file)
  BY NothingNewResolves DEF AliasParses, AllResolve
<1> QED BY <1>1 DEF AliasParses, AllResolve, Registered

-----------------------------------------------------------------------------
(* Aliases. *)

\* Site i has been registered as what its target stands for.
Installed(i) ==
  LET d == text[i]
      r == d.refs[1]
  IN  /\ d.form = "alias" /\ d.name \in DOMAIN types
      /\ types[d.name].kind = "alias" /\ types[d.name].file = d.file
      /\ Resolves(r, d.file) /\ types[d.name].target = Meaning(r)

IsAlias(t) == t \in DOMAIN types /\ types[t].kind = "alias"

\* Aliases of aliases come after them.
Ranked(d) ==
  \A i \in installed :
    /\ d[text[i].name] \in 1..Cardinality(installed)
    /\ IsAlias(text[i].refs[1].to) => d[text[i].refs[1].to] < d[text[i].name]

AliasInv ==
  /\ phase = "names" => sites = {} /\ installed = {}
  /\ phase # "names" => \A i \in DOMAIN text : text[i].form = "alias" => i \in sites \cup installed
  /\ \A i \in installed : Installed(i)
  /\ \A i, j \in installed : text[i].name = text[j].name => i = j
  /\ \A t \in DOMAIN types : types[t].kind = "alias" => \E i \in installed : text[i].name = t
  /\ \E d \in [DOMAIN types -> Nat] : Ranked(d)
  /\ before \in Nat
  /\ phase = "aliases" =>
       /\ Cardinality(sites) <= before
       /\ Cardinality(sites) = before => \A i \in sites \ todo : ~AliasParses(text[i])
  /\ phase \notin {"names", "aliases"} => \A i \in sites : ~AliasParses(text[i])

LEMMA SomeNumbers ==
  ASSUME ReservedInv, ShapeInv, NEW S \in SUBSET DOMAIN text
  PROVE  IsFiniteSet(S) /\ Cardinality(S) \in Nat /\ Cardinality(S) <= Len(text)
<1>1. Len(text) \in Nat /\ DOMAIN text = 1..Len(text)
  BY Declared
<1>2. IsFiniteSet(1..Len(text)) /\ Cardinality(1..Len(text)) = Len(text)
  BY SMTT(20), <1>1, FS_Interval
<1>3. IsFiniteSet(S) /\ Cardinality(S) <= Cardinality(1..Len(text))
  BY <1>1, <1>2, FS_Subset
<1> QED BY <1>2, <1>3, FS_CardinalityType

LEMMA InstalledStays ==
  ASSUME TablesInv, ReservedInv', Grow, UNCHANGED text, NEW i, Installed(i)
  PROVE  Installed(i)'
<1>1. PICK d, r : d = text[i] /\ r = d.refs[1]
  OBVIOUS
<1>2. Resolves(r, d.file) /\ d.name \in DOMAIN types
  BY <1>1 DEF Installed
<1>3. Resolves(r, d.file)' /\ Meaning(r)' = Meaning(r)
  BY <1>2, StillResolves
<1>4. /\ d.name \in DOMAIN types' /\ types'[d.name].kind = types[d.name].kind
      /\ types'[d.name].file = types[d.name].file
      /\ types'[d.name].target = types[d.name].target
  BY <1>2 DEF Grow
<1> QED BY <1>1, <1>3, <1>4 DEF Installed

LEMMA ReservedEntries ==
  ASSUME TablesInv, ReserveNames
  PROVE  /\ \A k, t : Reserves(k, t) =>
              /\ t \in DOMAIN types' /\ types'[t].kind = text[k].form
              /\ types'[t].file = text[k].file /\ types'[t].public = text[k].public
         /\ \A t \in DOMAIN types' : types'[t].kind \in Nominal /\ ~types'[t].defined
<1> DEFINE N == {text[i].name : i \in {j \in DOMAIN text : text[j].form \in Nominal}}
           D(n) == {i \in DOMAIN text : text[i].form \in Nominal /\ text[i].name = n}
           E(n) == [kind |-> text[Min(D(n))].form, file |-> text[Min(D(n))].file,
                    public |-> text[Min(D(n))].public, defined |-> FALSE,
                    target |-> NoTarget, parts |-> <<>>]
<1>1. types' = [n \in N |-> E(n)]
  BY DEF ReserveNames
<1>2. ASSUME NEW n \in N
      PROVE  Min(D(n)) \in D(n) /\ \A i \in D(n) : Min(D(n)) <= i
  <2>1. D(n) \in SUBSET Nat /\ D(n) # {}
    BY Declared DEF TablesInv
  <2> QED BY <2>1, MinIsLeast
<1>3. \A n \in N : types'[n] = E(n) /\ DOMAIN types' = N
  BY <1>1
<1>4. DOMAIN types' = N
  BY <1>1
<1>5. ASSUME NEW k, NEW t, Reserves(k, t)
      PROVE  /\ t \in DOMAIN types' /\ types'[t].kind = text[k].form
             /\ types'[t].file = text[k].file /\ types'[t].public = text[k].public
  <2>1. k \in D(t) /\ t \in N /\ \A i \in D(t) : k <= i
    BY <1>5 DEF Reserves
  <2>2. D(t) \subseteq Nat
    BY Declared DEF TablesInv
  <2>3. PICK m : m = Min(D(t))
    OBVIOUS
  <2>4. m \in D(t) /\ \A i \in D(t) : m <= i
    BY <1>2, <2>1, <2>3
  <2>5. k = m
    BY <2>1, <2>2, <2>4
  <2>6. types'[t] = E(t)
    BY <1>3, <2>1
  <2> QED BY <1>4, <2>1, <2>3, <2>5, <2>6
<1>6. ASSUME NEW t \in DOMAIN types' PROVE types'[t].kind \in Nominal /\ ~types'[t].defined
  <2>1. Min(D(t)) \in D(t) /\ types'[t] = E(t)
    BY <1>2, <1>3, <1>4
  <2> QED BY <2>1
<1> QED BY <1>5, <1>6

LEMMA ReservingStartsAliases ==
  ASSUME TablesInv, AliasInv, ReserveNames
  PROVE  AliasInv'
<1>1. /\ phase = "names" /\ phase' = "aliases" /\ UNCHANGED <<text, installed>>
      /\ sites' = {i \in DOMAIN text : text[i].form = "alias"} /\ todo' = sites'
      /\ before' = Cardinality(sites')
  BY DEF ReserveNames
<1>2. installed' = {}
  BY <1>1 DEF AliasInv
<1>3. \A t \in DOMAIN types' : types'[t].kind # "alias"
  BY ReservedEntries DEF Nominal
<1>4. \E d \in [DOMAIN types' -> Nat] : Ranked(d)'
  <2>1. [t \in DOMAIN types' |-> 0] \in [DOMAIN types' -> Nat]
    OBVIOUS
  <2> QED BY <1>2, <2>1 DEF Ranked
<1>5. IsFiniteSet(sites') /\ Cardinality(sites') \in Nat
  <2>1. sites' \in SUBSET DOMAIN text /\ DOMAIN text = 1..Len(text) /\ Len(text) \in Nat
    BY <1>1, Declared DEF TablesInv
  <2>2. IsFiniteSet(1..Len(text))
    BY <2>1, FS_Interval
  <2>3. IsFiniteSet(sites')
    BY <2>1, <2>2, FS_Subset
  <2> QED BY <2>3, FS_CardinalityType
<1>6. Cardinality(sites') <= before'
  BY <1>1, <1>5
<1>7. \A i \in DOMAIN text' : text'[i].form = "alias" => i \in sites' \cup installed'
  BY <1>1
<1> QED BY <1>1, <1>2, <1>3, <1>4, <1>5, <1>6, <1>7 DEF AliasInv

LEMMA InstallingKeepsAliases ==
  ASSUME TablesInv, ReservedInv', ShapeInv, AliasInv, TryAlias, NEW i \in todo,
         AliasParses(text[i]), types' = WithType(text[i].name, Alias(text[i])),
         sites' = sites \ {i}, todo' = todo \ {i}, installed' = installed \cup {i}
  PROVE  AliasInv'
<1>1. /\ phase = "aliases" /\ phase' = "aliases" /\ UNCHANGED <<text, before>>
  BY DEF TryAlias
<1>2. /\ i \in sites /\ i \in DOMAIN text /\ i \notin installed
      /\ text[i].form = "alias" /\ todo \subseteq sites /\ sites \subseteq DOMAIN text
  BY DEF TablesInv, ReservedInv, ShapeInv
<1>3. PICK d, r, n : d = text[i] /\ r = d.refs[1] /\ n = d.name
  OBVIOUS
<1>4. /\ n \notin DOMAIN types /\ Resolves(r, d.file)
      /\ Alias(d) = [kind |-> "alias", file |-> d.file, public |-> FALSE, defined |-> TRUE,
                     target |-> Meaning(r), parts |-> <<>>]
  <2>1. Len(d.refs) = 1 /\ d.refs \in Seq(Ref)
    BY <1>2, <1>3, Declared DEF TablesInv
  <2>2. 1 \in DOMAIN d.refs
    BY <2>1
  <2> QED BY <1>3, <2>2 DEF AliasParses, AllResolve, Registered, Alias
<1>5. /\ DOMAIN types' = DOMAIN types \cup {n} /\ types'[n] = Alias(d)
      /\ \A t \in DOMAIN types : types'[t] = types[t]
  BY <1>3, <1>4 DEF WithType
<1>6. Grow
  BY <1>5 DEF Grow
<1>7. Resolves(r, d.file)' /\ Meaning(r)' = Meaning(r)
  BY <1>4, <1>6, StillResolves
<1>8. Installed(i)'
  BY <1>1, <1>2, <1>3, <1>4, <1>5, <1>7 DEF Installed
<1>9. \A j \in installed : Installed(j)' /\ Installed(j)
  BY <1>1, <1>6, InstalledStays DEF AliasInv
<1>10. \A j \in installed : text[j].name \in DOMAIN types
  BY <1>9 DEF Installed
<1>11. Cardinality(installed) \in Nat /\ Cardinality(installed') = Cardinality(installed) + 1
  <2>1. installed \subseteq DOMAIN text
    BY DEF ShapeInv
  <2>2. IsFiniteSet(installed) /\ Cardinality(installed) \in Nat
    BY <2>1, SomeNumbers DEF TablesInv
  <2> QED BY <1>2, <2>2, FS_AddElement
<1>12. \E e \in [DOMAIN types' -> Nat] : Ranked(e)'
  <2>1. PICK e \in [DOMAIN types -> Nat] : Ranked(e)
    BY DEF AliasInv
  <2>2. PICK c \in Nat : c = Cardinality(installed)
    BY <1>11
  <2> DEFINE g == [t \in DOMAIN types' |-> IF t = n THEN c + 1 ELSE e[t]]
  <2>3. g \in [DOMAIN types' -> Nat]
    BY <1>5, <2>1, <2>2
  <2>4. g[n] = c + 1 /\ \A t \in DOMAIN types : g[t] = e[t]
    BY <1>4, <1>5
  <2> HIDE DEF g
  <2>5. Cardinality(installed') = c + 1
    BY <1>11, <2>2
  <2>6. ASSUME NEW j \in installed
        PROVE  /\ g[text[j].name] \in 1..(c + 1)
               /\ \A q : q = text[j].refs[1].to /\ IsAlias(q)' => g[q] < g[text[j].name]
    <3>1. PICK m, q : m = text[j].name /\ q = text[j].refs[1].to
      OBVIOUS
    <3>2. m \in DOMAIN types /\ e[m] \in 1..c /\ (IsAlias(q) => e[q] < e[m])
      BY <1>10, <2>1, <2>2, <3>1 DEF Ranked
    <3>3. ASSUME IsAlias(q)' PROVE IsAlias(q)
      <4>1. q \in Builtins \/ q \in DOMAIN types
        BY <1>9, <3>1 DEF Installed, Resolves, Registered
      <4>2. q \notin Builtins
        BY <3>3, ProgramAssumption DEF IsAlias, ReservedInv
      <4> QED BY SMTT(20), <1>5, <3>3, <4>1, <4>2 DEF IsAlias
    <3> QED BY <2>2, <2>4, <3>1, <3>2, <3>3 DEF IsAlias
  <2>7. /\ g[text[i].name] \in 1..(c + 1)
        /\ \A q : q = text[i].refs[1].to /\ IsAlias(q)' => g[q] < g[text[i].name]
    <3>1. PICK q : q = r.to
      OBVIOUS
    <3>2. ASSUME IsAlias(q)' PROVE g[q] < c + 1
      <4>1. q \in DOMAIN types
        <5>1. q \in Builtins \/ q \in DOMAIN types
          BY <1>4, <3>1 DEF Resolves, Registered
        <5> QED BY <3>2, <5>1, ProgramAssumption DEF IsAlias, ReservedInv
      <4>2. IsAlias(q)
        BY <1>5, <3>2, <4>1 DEF IsAlias
      <4>3. PICK j \in installed : text[j].name = q
        BY <4>2 DEF AliasInv, IsAlias
      <4>4. e[q] \in 1..c
        BY <2>1, <2>2, <4>3 DEF Ranked
      <4> QED BY <2>2, <2>4, <4>1, <4>4
    <3> QED BY <1>3, <2>2, <2>4, <3>1, <3>2
  <2> QED BY <1>1, <2>3, <2>5, <2>6, <2>7 DEF Ranked
<1>13. Cardinality(sites') <= before' /\ Cardinality(sites') # before'
  <2>1. IsFiniteSet(sites) /\ Cardinality(sites) \in Nat
    BY <1>2, SomeNumbers DEF TablesInv
  <2>2. Cardinality(sites') = Cardinality(sites) - 1
    BY <1>2, <2>1, FS_RemoveElement
  <2>3. Cardinality(sites) <= before
    BY <1>1 DEF AliasInv
  <2>4. before \in Nat
    BY DEF AliasInv
  <2> QED BY <1>1, <2>1, <2>2, <2>3, <2>4
<1>14. \A j, k \in installed' : text'[j].name = text'[k].name => j = k
  <2>1. \A j \in installed : text[j].name # n
    BY <1>4, <1>10
  <2> QED BY <1>1, <1>3, <2>1 DEF AliasInv
<1>15. \A t \in DOMAIN types' : types'[t].kind = "alias" => \E j \in installed' : text'[j].name = t
  BY <1>1, <1>3, <1>5 DEF AliasInv
<1>16. \A j \in DOMAIN text' : text'[j].form = "alias" => j \in sites' \cup installed'
  BY <1>1 DEF AliasInv
<1> QED BY <1>1, <1>8, <1>9, <1>12, <1>13, <1>14, <1>15, <1>16 DEF AliasInv

\* From pass 1 on, no name is new: a step at most gives a declared type its parts.
SameNames == Grow /\ DOMAIN types' = DOMAIN types

LEMMA DefiningGrows ==
  ASSUME TablesInv, phase # "names", at \in DOMAIN text, Here.form \in Nominal,
         Claimable(Here), types' = Defined(Here)
  PROVE  /\ SameNames
         /\ types'[Here.name].defined /\ types'[Here.name].parts = Meanings(Here.refs)
         /\ \A t \in DOMAIN types : t # Here.name => types'[t] = types[t]
<1>1. PICK n, ps, e : n = Here.name /\ ps = Meanings(Here.refs) /\ e = types[n]
  OBVIOUS
<1>2. n \in DOMAIN types /\ ~e.defined
  BY <1>1, ClaimedIsHere DEF TablesInv, Registered, Claimable
<1>3. e = [kind |-> e.kind, file |-> e.file, public |-> e.public,
           defined |-> e.defined, target |-> e.target, parts |-> e.parts]
  BY <1>1, <1>2 DEF TablesInv, ReservedInv, IsEntry
<1>4. PICK g : g = [e EXCEPT !.defined = TRUE, !.parts = ps]
  OBVIOUS
<1>5. /\ g.kind = e.kind /\ g.file = e.file /\ g.public = e.public /\ g.target = e.target
      /\ g.defined /\ g.parts = ps
  BY <1>3, <1>4
<1>6. /\ DOMAIN types' = DOMAIN types /\ types'[n] = g
      /\ \A t \in DOMAIN types : t # n => types'[t] = types[t]
  BY <1>1, <1>2, <1>4 DEF Defined
<1>7. Grow
  BY <1>1, <1>2, <1>5, <1>6 DEF Grow
<1> QED BY <1>1, <1>5, <1>6, <1>7 DEF SameNames

LEMMA UnchangedNames ==
  ASSUME UNCHANGED types PROVE SameNames
  BY DEF SameNames, Grow

\* What there is to say of a step of pass 1: it aborts, or it is what the form
\* of the declaration says.
LEMMA ItemStep ==
  ASSUME TablesInv, ShapeInv, AliasInv, ParseItem
  PROVE  /\ phase = "pass1" /\ at \in DOMAIN text /\ at \in Nat
         /\ UNCHANGED <<text, sites, installed>>
         /\ SameNames
         /\ \/ Abort /\ UNCHANGED types
            \/ /\ Next1
               /\ AllResolve(Here.refs, Here.file)
               /\ Here.form = "alias" => at \in installed
               /\ Here.form \in Nominal => Claimable(Here) /\ types' = Defined(Here)
               /\ Here.form \notin Nominal => UNCHANGED types
<1>1. phase = "pass1" /\ at \in DOMAIN text /\ at \in Nat
  BY DEF ParseItem, TablesInv, ReservedInv
<1>2. CASE Abort
  <2>1. UNCHANGED <<text, sites, installed, types>>
    BY <1>2 DEF Abort
  <2> QED BY <1>1, <1>2, <2>1, UnchangedNames
<1>3. CASE ~Abort
  <2>1. Next1 /\ UNCHANGED <<text, sites, installed>>
    BY <1>3 DEF ParseItem, ParseAlias, ParseType, ParseVariants, ParseFunction, ParseGlobal, Next1
  <2>2. CASE ParseAlias
    <3>1. Here.form = "alias" /\ Here.form \notin Nominal
      BY <2>2 DEF ParseAlias, Nominal
    <3>2. at \in installed
      <4> SUFFICES ASSUME at \notin installed PROVE FALSE
        OBVIOUS
      <4>1. at \in sites
        BY <1>1, <3>1 DEF AliasInv, Here
      <4>2. ~AliasParses(Here)
        BY <1>1, <4>1 DEF AliasInv, Here
      <4> QED BY <1>3, <2>2, <4>2 DEF ParseAlias
    <3>3. AllResolve(Here.refs, Here.file) /\ UNCHANGED types
      BY <1>3, <2>2, <3>2 DEF ParseAlias
    <3> QED BY <1>1, <2>1, <3>1, <3>2, <3>3, UnchangedNames
  <2>3. CASE ParseType \/ ParseVariants
    <3>1. /\ Here.form \in Nominal /\ Here.form # "alias" /\ types' = Defined(Here)
          /\ Claimable(Here) /\ AllResolve(Here.refs, Here.file)
      BY <1>3, <2>3 DEF ParseType, ParseVariants, Nominal
    <3>2. SameNames
      BY <1>1, <3>1, DefiningGrows
    <3> QED BY <1>1, <2>1, <3>1, <3>2
  <2>4. CASE ParseFunction \/ ParseGlobal
    <3>1. /\ Here.form \notin Nominal /\ Here.form # "alias" /\ UNCHANGED types
          /\ AllResolve(Here.refs, Here.file)
      BY <1>3, <2>4 DEF ParseFunction, ParseGlobal, Nominal
    <3> QED BY <1>1, <2>1, <3>1, UnchangedNames
  <2> QED BY <2>2, <2>3, <2>4 DEF ParseItem
<1> QED BY <1>2, <1>3

LEMMA LaterKeepsAliases ==
  ASSUME TablesInv, ReservedInv', AliasInv, SameNames, UNCHANGED <<text, sites, installed>>,
         before' = before,
         phase \notin {"names", "aliases"}, phase' \notin {"names", "aliases"}
  PROVE  AliasInv'
<1>1. \A i \in installed : Installed(i)'
  BY InstalledStays DEF AliasInv, SameNames
<1>2. \A i \in sites' : ~AliasParses(text[i])'
  <2>1. \A d : AliasParses(d)' => AliasParses(d)
    BY NoNewAlias DEF SameNames
  <2>2. \A d : \A i \in sites : d = text[i] => ~AliasParses(d)
    BY DEF AliasInv
  <2>3. \A i \in sites : \A d : d = text[i] => ~AliasParses(d)'
    BY <2>1, <2>2
  <2> QED BY <2>3 DEF AliasParses, Registered, AllResolve
<1>3. \E d \in [DOMAIN types' -> Nat] : Ranked(d)'
  <2>1. PICK d \in [DOMAIN types -> Nat] : Ranked(d)
    BY DEF AliasInv
  <2>2. \A t : IsAlias(t)' <=> IsAlias(t)
    BY DEF SameNames, Grow, IsAlias
  <2>3. Ranked(d)'
    BY <2>1, <2>2 DEF Ranked, IsAlias
  <2> QED BY <2>1, <2>3 DEF SameNames
<1>4. \A t \in DOMAIN types' : types'[t].kind = "alias" => \E i \in installed' : text'[i].name = t
  BY DEF AliasInv, SameNames, Grow
<1> QED BY <1>1, <1>2, <1>3, <1>4 DEF AliasInv

\* Steps that leave types and sites alone keep what is known of the aliases,
\* as long as what they say about a round still holds.
LEMMA RoundKeepsAliases ==
  ASSUME TablesInv, ReservedInv', AliasInv, UNCHANGED <<text, types, sites, installed>>,
         \/ UNCHANGED <<phase, before, todo>>
         \/ /\ phase = "aliases" /\ phase' = "aliases" /\ before' \in Nat
            /\ Cardinality(sites) <= before'
            /\ Cardinality(sites) = before' => \A i \in sites \ todo' : ~AliasParses(text[i])
         \/ /\ phase = "aliases" /\ phase' = "pass1" /\ before' = before
            /\ \A i \in sites : ~AliasParses(text[i])
  PROVE  AliasInv'
<1>1. \A i : Installed(i) => Installed(i)'
  BY UnchangedNames, InstalledStays DEF SameNames
<1>2. \A d : AliasParses(d)' => AliasParses(d)
  BY UnchangedNames, NoNewAlias DEF SameNames
<1>3. \A i : AliasParses(text[i])' => AliasParses(text[i])
  <2> SUFFICES ASSUME NEW i, AliasParses(text[i])' PROVE AliasParses(text[i])
    OBVIOUS
  <2>1. PICK d : d = text[i]
    OBVIOUS
  <2>2. AliasParses(d)'
    BY <2>1 DEF AliasParses, Registered, AllResolve
  <2> QED BY <1>2, <2>1, <2>2
<1>4. \E d \in [DOMAIN types' -> Nat] : Ranked(d)'
  <2>1. PICK d \in [DOMAIN types -> Nat] : Ranked(d)
    BY DEF AliasInv
  <2>2. Ranked(d)'
    BY <2>1 DEF Ranked, IsAlias
  <2> QED BY <2>2
<1> QED BY <1>1, <1>3, <1>4 DEF AliasInv

LEMMA AliasStart == Init => AliasInv
<1> SUFFICES ASSUME Init PROVE AliasInv
  OBVIOUS
<1>1. DOMAIN types = {} /\ installed = {} /\ sites = {} /\ phase = "names" /\ before = 0
  BY DEF Init
<1>2. \E d \in [DOMAIN types -> Nat] : Ranked(d)
  <2>1. [t \in DOMAIN types |-> 0] \in [DOMAIN types -> Nat]
    OBVIOUS
  <2> QED BY <1>1, <2>1 DEF Ranked
<1> QED BY <1>1, <1>2 DEF AliasInv

LEMMA AliasStep ==
  TablesInv /\ TablesInv' /\ ShapeInv /\ AliasInv /\ [Next]_vars => AliasInv'
<1> SUFFICES ASSUME TablesInv, TablesInv', ShapeInv, AliasInv, [Next]_vars PROVE AliasInv'
  OBVIOUS
<1>0. ReservedInv'
  BY DEF TablesInv
<1>1. CASE ReserveNames
  BY <1>1, ReservingStartsAliases
<1>2. CASE TryAlias
  <2>1. PICK i : i = Min(todo)
    OBVIOUS
  <2>2. i \in todo
    <3>1. todo \in SUBSET Nat /\ todo # {}
      BY <1>2, Declared DEF TryAlias, TablesInv, ReservedInv
    <3> QED BY <2>1, <3>1, MinIsLeast
  <2>3. CASE AliasParses(text[i])
    <3>1. /\ types' = WithType(text[i].name, Alias(text[i]))
          /\ sites' = sites \ {i} /\ todo' = todo \ {i} /\ installed' = installed \cup {i}
      BY <1>2, <2>1, <2>3 DEF TryAlias, RetainsSite
    <3> QED BY <1>0, <1>2, <2>2, <2>3, <3>1, InstallingKeepsAliases
  <2>4. CASE ~AliasParses(text[i])
    <3>1. /\ UNCHANGED <<text, types, sites, installed, before, phase>> /\ phase = "aliases"
          /\ todo' = todo \ {i}
      BY <1>2, <2>1, <2>4 DEF TryAlias, RetainsSite
    <3>2. \A j \in sites \ todo' : j = i \/ j \in sites \ todo
      BY <3>1
    <3>3. /\ before \in Nat /\ Cardinality(sites) <= before
          /\ Cardinality(sites) = before => \A j \in sites \ todo : ~AliasParses(text[j])
      BY <3>1 DEF AliasInv
    <3> QED BY <1>0, <2>4, <3>1, <3>2, <3>3, RoundKeepsAliases
  <2> QED BY <2>3, <2>4
<1>3. CASE EndRound
  <2>1. UNCHANGED <<text, types, sites, installed>> /\ phase = "aliases" /\ todo = {}
    BY <1>3 DEF EndRound
  <2>2. IsFiniteSet(sites) /\ Cardinality(sites) \in Nat
    BY SomeNumbers DEF TablesInv, ShapeInv, ReservedInv
  <2>3. CASE NoMoreRounds
    <3>1. phase' = "pass1" /\ before' = before
      BY <1>3, <2>3 DEF EndRound
    <3>2. \A i \in sites : ~AliasParses(text[i])
      BY <2>1, <2>3 DEF NoMoreRounds, AliasInv
    <3> QED BY <1>0, <2>1, <3>1, <3>2, RoundKeepsAliases
  <2>4. CASE ~NoMoreRounds
    <3>1. phase' = "aliases" /\ todo' = sites /\ before' = Cardinality(sites)
      BY <1>3, <2>1, <2>4 DEF EndRound
    <3> QED BY <1>0, <2>1, <2>2, <3>1, RoundKeepsAliases
  <2> QED BY <2>3, <2>4
<1>4. CASE ParseItem
  <2>1. /\ phase = "pass1" /\ SameNames /\ UNCHANGED <<text, sites, installed>>
        /\ Abort \/ Next1
    BY <1>4, ItemStep
  <2>2. before' = before /\ phase' \notin {"names", "aliases"}
    BY <2>1 DEF Abort, Next1
  <2> QED BY <1>0, <2>1, <2>2, LaterKeepsAliases
<1>5. CASE StartCycles \/ WalkCycles \/ ReportCycles \/ ParseBody \/ Fill
  <2>1. /\ UNCHANGED <<text, types, sites, installed, before>>
        /\ phase \notin {"names", "aliases"} /\ phase' \notin {"names", "aliases"}
    BY <1>5 DEF StartCycles, WalkCycles, ReportCycles, ParseBody, Fill, parseVars
  <2> QED BY <1>0, <2>1, UnchangedNames, LaterKeepsAliases
<1>6. CASE UNCHANGED vars
  <2>1. UNCHANGED <<text, types, sites, installed, before, phase, todo>>
    BY <1>6 DEF vars, parseVars
  <2> QED BY <1>0, <2>1, RoundKeepsAliases
<1> QED BY <1>1, <1>2, <1>3, <1>4, <1>5, <1>6 DEF Next

-----------------------------------------------------------------------------
(* What names stand for: the recursion unfolded. *)

\* One step of Stands: prev is what names stand for one alias earlier.
OneMoreAlias(p, k, prev) ==
  [n \in Types \cup Builtins |->
     IF n \in Builtins THEN [base |-> n, ptr |-> FALSE]
     ELSE IF Declares(p, TypeDecls(p), n) = {} THEN NoTarget
     ELSE LET d == The(p, TypeDecls(p), n)
          IN  IF d.form # "alias" THEN [base |-> n, ptr |-> FALSE]
              ELSE IF k = 0 THEN NoTarget
              ELSE LET r == d.refs[1]
                   IN  [base |-> prev[r.to].base, ptr |-> prev[r.to].ptr \/ r.ptr]]

\* f is the recursion up to n.
Chain(p, f, n) == f = [k \in 0..n |-> OneMoreAlias(p, k, f[k - 1])]

LEMMA NoAliasYet ==
  ASSUME NEW p, NEW x, NEW y PROVE OneMoreAlias(p, 0, x) = OneMoreAlias(p, 0, y)
  BY DEF OneMoreAlias

LEMMA LeastNat ==
  ASSUME NEW S \in SUBSET Nat, S # {}
  PROVE  \E k \in S : \A m \in S : k <= m
  BY MinIsLeast

LEMMA ChainsAgree ==
  ASSUME NEW p, NEW n \in Nat, NEW m \in Nat, NEW f, NEW g, Chain(p, f, n), Chain(p, g, m),
         NEW k \in Nat, k <= n, k <= m
  PROVE  f[k] = g[k]
<1> DEFINE Bad == {i \in Nat : i <= n /\ i <= m /\ f[i] # g[i]}
<1> SUFFICES ASSUME Bad # {} PROVE FALSE
  OBVIOUS
<1>1. Bad \in SUBSET Nat
  OBVIOUS
<1>2. PICK i \in Bad : \A j \in Bad : i <= j
  <2> HIDE DEF Bad
  <2> QED BY <1>1, LeastNat
<1>3. i \in 0..n /\ i \in 0..m /\ i \in Nat
  BY <1>2
<1>4. f[i] = OneMoreAlias(p, i, f[i - 1]) /\ g[i] = OneMoreAlias(p, i, g[i - 1])
  BY <1>3 DEF Chain
<1>5. CASE i = 0
  <2>1. OneMoreAlias(p, i, f[i - 1]) = OneMoreAlias(p, i, g[i - 1])
    BY <1>5, NoAliasYet
  <2> QED BY <1>2, <1>4, <2>1
<1>6. CASE i # 0
  <2>1. i - 1 \in Nat /\ ~(i <= i - 1) /\ i - 1 <= n /\ i - 1 <= m
    BY <1>3, <1>6
  <2>2. i - 1 \notin Bad
    BY <1>2, <2>1
  <2>3. f[i - 1] = g[i - 1]
    BY <2>1, <2>2
  <2> QED BY <1>2, <1>4, <2>3
<1> QED BY <1>5, <1>6

LEMMA ChainsExist ==
  ASSUME NEW p, NEW n \in Nat PROVE \E f : Chain(p, f, n)
<1> DEFINE Bad == {i \in Nat : ~ \E f : Chain(p, f, i)}
<1> SUFFICES ASSUME Bad # {} PROVE FALSE
  OBVIOUS
<1>1. Bad \in SUBSET Nat
  OBVIOUS
<1>2. PICK i \in Bad : \A j \in Bad : i <= j
  <2> HIDE DEF Bad
  <2> QED BY <1>1, LeastNat
<1>3. i \in Nat
  BY <1>2
<1>4. CASE i = 0
  <2> DEFINE f == [k \in 0..0 |-> OneMoreAlias(p, 0, 0)]
  <2>1. \A k \in 0..0 : k = 0
    OBVIOUS
  <2>2. \A k \in 0..0 : OneMoreAlias(p, k, f[k - 1]) = OneMoreAlias(p, 0, 0)
    BY <2>1, NoAliasYet
  <2>3. f = [k \in 0..0 |-> OneMoreAlias(p, k, f[k - 1])]
    BY <2>2
  <2>4. Chain(p, f, 0)
    <3> HIDE DEF f
    <3> QED BY <2>3 DEF Chain
  <2> QED BY <1>2, <1>4, <2>4
<1>5. CASE i # 0
  <2>1. PICK j \in Nat : j = i - 1
    BY <1>3, <1>5
  <2>2. j + 1 = i /\ ~(i <= j)
    BY <1>3, <2>1
  <2>3. PICK f : Chain(p, f, j)
    <3>1. j \notin Bad
      BY <1>2, <2>2
    <3> QED BY <3>1
  <2> DEFINE g == [k \in 0..i |-> IF k = i THEN OneMoreAlias(p, i, f[j]) ELSE f[k]]
  <2>4. \A k \in 0..j : f[k] = OneMoreAlias(p, k, f[k - 1])
    BY <2>3 DEF Chain
  <2>5. /\ \A k \in 0..i : k = i \/ k \in 0..j
        /\ \A k \in 0..j : k \in 0..i /\ k # i
        /\ \A k \in 0..j : k # 0 => k - 1 \in 0..j
        /\ j \in 0..j /\ i \in 0..i
    BY <1>3, <2>1, <2>2
  <2>6. \A k \in 0..j : g[k] = f[k]
    BY <2>5
  <2>7. g[i] = OneMoreAlias(p, i, f[j])
    BY <2>5
  <2>8. DOMAIN g = 0..i /\ g = [k \in 0..i |-> g[k]]
    OBVIOUS
  <2> HIDE DEF g
  <2>9. \A k \in 0..i : g[k] = OneMoreAlias(p, k, g[k - 1])
    <3> SUFFICES ASSUME NEW k \in 0..i PROVE g[k] = OneMoreAlias(p, k, g[k - 1])
      OBVIOUS
    <3>1. CASE k = i
      <4>1. g[k - 1] = f[j]
        BY <2>1, <2>5, <2>6, <3>1
      <4> QED BY <2>7, <3>1, <4>1
    <3>2. CASE k # i /\ k = 0
      <4>1. OneMoreAlias(p, k, g[k - 1]) = OneMoreAlias(p, k, f[k - 1])
        BY <3>2, NoAliasYet
      <4> QED BY <2>4, <2>5, <2>6, <3>2, <4>1
    <3>3. CASE k # i /\ k # 0
      <4>1. k \in 0..j /\ g[k - 1] = f[k - 1]
        BY <2>5, <2>6, <3>3
      <4> QED BY <2>4, <2>6, <4>1
    <3> QED BY <3>1, <3>2, <3>3
  <2>10. Chain(p, g, i)
    BY <2>8, <2>9 DEF Chain
  <2> QED BY <1>2, <2>10
<1> QED BY <1>4, <1>5

\* The recursion is what it says.
LEMMA StandsUnfolds ==
  ASSUME NEW p, NEW k \in Nat
  PROVE  Stands(p)[k] = OneMoreAlias(p, k, Stands(p)[k - 1])
<1> DEFINE F(i) == CHOOSE f : Chain(p, f, i)
           G == [i \in Nat |-> F(i)[i]]
<1>1. \A i \in Nat : Chain(p, F(i), i)
  BY ChainsExist
<1> HIDE DEF F
<1>2. ASSUME NEW i \in Nat PROVE G[i] = OneMoreAlias(p, i, G[i - 1])
  <2>1. Chain(p, F(i), i) /\ i \in 0..i /\ G[i] = F(i)[i]
    BY <1>1
  <2>2. F(i)[i] = OneMoreAlias(p, i, F(i)[i - 1])
    BY <2>1 DEF Chain
  <2>3. CASE i = 0
    <3>1. OneMoreAlias(p, i, F(i)[i - 1]) = OneMoreAlias(p, i, G[i - 1])
      BY <2>3, NoAliasYet
    <3> QED BY <2>1, <2>2, <3>1
  <2>4. CASE i # 0
    <3>1. PICK j \in Nat : j = i - 1 /\ j <= i /\ j <= j
      BY <2>4
    <3>2. F(i)[j] = F(j)[j]
      BY <1>1, <3>1, ChainsAgree
    <3>3. G[j] = F(j)[j]
      OBVIOUS
    <3> HIDE DEF G
    <3> QED BY <2>1, <2>2, <3>1, <3>2, <3>3
  <2> QED BY <2>3, <2>4
<1>3. G = [i \in Nat |-> OneMoreAlias(p, i, G[i - 1])]
  BY <1>2
<1> HIDE DEF G
<1>4. Stands(p) = CHOOSE s : s = [i \in Nat |-> OneMoreAlias(p, i, s[i - 1])]
  BY DEF Stands, OneMoreAlias
<1>5. Stands(p) = [i \in Nat |-> OneMoreAlias(p, i, Stands(p)[i - 1])]
  BY <1>3, <1>4
<1> HIDE DEF F
<1> QED BY <1>5

\* What a step of the recursion makes of n, case by case: o.
IsOneMore(p, k, prev, n, o) ==
  LET D == Declares(p, TypeDecls(p), n)
      d == The(p, TypeDecls(p), n)
      r == d.refs[1]
      s == prev[r.to]
  IN  /\ n \in Builtins => o = [base |-> n, ptr |-> FALSE]
      /\ n \notin Builtins /\ D = {} => o = NoTarget
      /\ n \notin Builtins /\ D # {} /\ d.form # "alias" => o = [base |-> n, ptr |-> FALSE]
      /\ n \notin Builtins /\ D # {} /\ d.form = "alias" /\ k = 0 => o = NoTarget
      /\ n \notin Builtins /\ D # {} /\ d.form = "alias" /\ k # 0 =>
           o = [base |-> s.base, ptr |-> s.ptr \/ r.ptr]

\* What a name stands for, following at most k aliases.
LEMMA StandsIs ==
  ASSUME NEW p, NEW k \in Nat, NEW n \in Types \cup Builtins
  PROVE  IsOneMore(p, k, Stands(p)[k - 1], n, Stands(p)[k][n])
<1>1. PICK f, g : f = Stands(p)[k] /\ g = Stands(p)[k - 1]
  OBVIOUS
<1>2. f = OneMoreAlias(p, k, g)
  BY <1>1, StandsUnfolds
<1>3. IsOneMore(p, k, g, n, f[n])
  <2> DEFINE D == Declares(p, TypeDecls(p), n)
             d == The(p, TypeDecls(p), n)
             r == d.refs[1]
             s == g[r.to]
             T == [base |-> s.base, ptr |-> s.ptr \/ r.ptr]
  <2>1. f[n] = IF n \in Builtins THEN [base |-> n, ptr |-> FALSE]
               ELSE IF D = {} THEN NoTarget
               ELSE IF d.form # "alias" THEN [base |-> n, ptr |-> FALSE]
               ELSE IF k = 0 THEN NoTarget ELSE T
    BY <1>2 DEF OneMoreAlias
  <2>2. IsOneMore(p, k, g, n, f[n]) <=>
          /\ n \in Builtins => f[n] = [base |-> n, ptr |-> FALSE]
          /\ n \notin Builtins /\ D = {} => f[n] = NoTarget
          /\ n \notin Builtins /\ D # {} /\ d.form # "alias" => f[n] = [base |-> n, ptr |-> FALSE]
          /\ n \notin Builtins /\ D # {} /\ d.form = "alias" /\ k = 0 => f[n] = NoTarget
          /\ n \notin Builtins /\ D # {} /\ d.form = "alias" /\ k # 0 => f[n] = T
    BY DEF IsOneMore
  <2> HIDE DEF D, d, T
  <2> QED BY <2>1, <2>2
<1> QED BY <1>1, <1>3

-----------------------------------------------------------------------------
(* Names, as the tables and as the order-free reading know them. *)

NamesApart == DistinctNames(text, TypeDecls(text))

\* The entry of a reserved name says what its declaration says, and is not
\* defined before the declaration has been parsed.
EntriesInv ==
  /\ phase = "aliases" => at = 1
  /\ phase # "names" => \A k, t : Reserves(k, t) =>
       /\ t \in DOMAIN types /\ types[t].kind = text[k].form
       /\ types[t].file = text[k].file /\ types[t].public = text[k].public
       /\ types[t].defined => k < at

NamesInv == TablesInv /\ ShapeInv /\ AliasInv /\ EntriesInv

LEMMA OneOfTheName ==
  ASSUME ReservedInv, NamesApart, NEW i \in TypeDecls(text)
  PROVE  /\ Declares(text, TypeDecls(text), text[i].name) = {i}
         /\ The(text, TypeDecls(text), text[i].name) = text[i]
         /\ text[i].form \in Nominal => Reserves(i, text[i].name)
<1>1. Declares(text, TypeDecls(text), text[i].name) = {i}
  BY DEF NamesApart, DistinctNames, Declares
<1>2. The(text, TypeDecls(text), text[i].name) = text[i]
  BY <1>1 DEF The
<1>3. ASSUME text[i].form \in Nominal PROVE Reserves(i, text[i].name)
  <2>1. i \in DOMAIN text /\ i \in Nat
    BY Declared DEF TypeDecls, Decls
  <2>2. \A j \in DOMAIN text : text[j].form \in Nominal => j \in TypeDecls(text)
    BY DEF TypeDecls, Decls
  <2>3. \A j \in DOMAIN text : text[j].form \in Nominal /\ text[j].name = text[i].name => j = i
    BY <2>2 DEF NamesApart, DistinctNames
  <2> QED BY <1>3, <2>1, <2>3 DEF Reserves
<1> QED BY <1>1, <1>2, <1>3

\* Who declared what is registered.
LEMMA WhoDeclared ==
  ASSUME NamesInv, NamesApart, phase # "names", NEW t \in DOMAIN types
  PROVE  \E i \in TypeDecls(text) :
           /\ text[i].name = t
           /\ types[t].kind = text[i].form /\ types[t].file = text[i].file
           /\ types[t].kind # "alias" => types[t].public = text[i].public /\ Reserves(i, t)
           /\ types[t].kind = "alias" => i \in installed
<1>1. CASE types[t].kind = "alias"
  <2>1. PICK i \in installed : text[i].name = t
    BY <1>1 DEF NamesInv, AliasInv
  <2>2. Installed(i)
    BY DEF NamesInv, AliasInv
  <2>3. text[i].form = "alias" /\ types[t].file = text[i].file
    BY <2>1, <2>2 DEF Installed
  <2>4. i \in DOMAIN text
    BY DEF NamesInv, ShapeInv
  <2> QED BY <1>1, <2>1, <2>3, <2>4 DEF TypeDecls, Decls
<1>2. CASE types[t].kind # "alias"
  <2>1. PICK k \in Nat : Reserves(k, t)
    BY <1>2 DEF NamesInv, TablesInv, ReservedInv
  <2>2. k \in TypeDecls(text) /\ text[k].name = t
    BY <2>1 DEF Reserves, TypeDecls, Decls
  <2> QED BY <1>2, <2>1, <2>2 DEF NamesInv, EntriesInv
<1> QED BY <1>1, <1>2

LEMMA RefsOf ==
  ASSUME ReservedInv, NEW i \in DOMAIN text
  PROVE  /\ \A k \in DOMAIN text[i].refs :
              /\ text[i].refs[k] \in Ref /\ text[i].refs[k].to \in Types \cup Builtins
              /\ text[i].refs[k].ptr \in BOOLEAN
         /\ text[i].form \in {"alias", "global"} => 1 \in DOMAIN text[i].refs
<1>1. text[i].refs \in Seq(Ref)
  BY Declared
<1>2. text[i].form \in {"alias", "global"} => Len(text[i].refs) = 1
  BY ProgramAssumption DEF ReservedInv
<1>3. \A k \in DOMAIN text[i].refs : text[i].refs[k] \in Ref
  BY <1>1
<1> QED BY <1>1, <1>2, <1>3 DEF Ref

\* A registered name stands for what the table says: an alias for its target,
\* any other type for itself.
Standing(t) == IF IsAlias(t) THEN types[t].target ELSE [base |-> t, ptr |-> FALSE]

LEMMA StandsAsRegistered ==
  ASSUME NamesInv, NamesApart, phase # "names", NEW t,
         t \in Builtins \/ Registered(t)
  PROVE  StandsFor(text, t) = Standing(t)
<1> DEFINE Good(k, u) == Stands(text)[k][u] = Standing(u)
<1>0. \A k \in Nat, u \in Types \cup Builtins :
        IsOneMore(text, k, Stands(text)[k - 1], u, Stands(text)[k][u])
  BY StandsIs
<1>1. PICK d \in [DOMAIN types -> Nat] : Ranked(d)
  BY DEF NamesInv, AliasInv
<1>2. ASSUME NEW u \in Builtins, NEW k \in Nat PROVE Good(k, u)
  <2>1. ~IsAlias(u)
    BY ProgramAssumption DEF NamesInv, TablesInv, ReservedInv, IsAlias
  <2>2. Stands(text)[k][u] = [base |-> u, ptr |-> FALSE]
    BY <1>0 DEF IsOneMore
  <2> QED BY <2>1, <2>2 DEF Standing
<1>3. ASSUME NEW u \in DOMAIN types, ~IsAlias(u), NEW k \in Nat PROVE Good(k, u)
  <2>1. u \in Types /\ u \notin Builtins
    BY ProgramAssumption DEF NamesInv, TablesInv, ReservedInv
  <2>2. PICK i \in TypeDecls(text) : text[i].name = u /\ types[u].kind = text[i].form
    BY WhoDeclared DEF NamesInv
  <2>3. Declares(text, TypeDecls(text), u) = {i} /\ The(text, TypeDecls(text), u) = text[i]
    BY <2>2, OneOfTheName DEF NamesInv, TablesInv
  <2>4. text[i].form # "alias"
    BY <1>3, <2>2 DEF IsAlias
  <2>5. Stands(text)[k][u] = [base |-> u, ptr |-> FALSE]
    BY <1>0, <2>1, <2>3, <2>4 DEF IsOneMore
  <2> QED BY <1>3, <2>5 DEF Standing
<1>4. ASSUME NEW u, IsAlias(u), NEW k \in Nat, k >= d[u],
             \A q : \A j \in Nat : IsAlias(q) /\ j < k /\ j >= d[q] => Good(j, q)
      PROVE  Good(k, u)
  <2>1. u \in Types /\ u \notin Builtins /\ u \in DOMAIN types
    BY <1>4, ProgramAssumption DEF NamesInv, TablesInv, ReservedInv, IsAlias
  <2>2. PICK i \in TypeDecls(text) : text[i].name = u /\ i \in installed
    BY <1>4, <2>1, WhoDeclared DEF NamesInv, IsAlias
  <2>3. Declares(text, TypeDecls(text), u) = {i} /\ The(text, TypeDecls(text), u) = text[i]
    BY <2>2, OneOfTheName DEF NamesInv, TablesInv
  <2>4. PICK r : r = text[i].refs[1]
    OBVIOUS
  <2>5. /\ text[i].form = "alias" /\ Resolves(r, text[i].file)
        /\ types[u].target = Meaning(r)
    BY <2>2, <2>4 DEF NamesInv, AliasInv, Installed
  <2>6. r.to \in Types \cup Builtins /\ r.ptr \in BOOLEAN
    BY <2>2, <2>4, <2>5, RefsOf DEF NamesInv, TablesInv, TypeDecls, Decls
  <2>7. d[u] \in Nat /\ 1 <= d[u] /\ (IsAlias(r.to) => d[r.to] < d[u])
    BY <1>1, <2>1, <2>2, <2>4 DEF Ranked
  <2>8. k # 0 /\ k - 1 \in Nat
    BY <1>4, <2>7
  <2>9. Good(k - 1, r.to)
    <3>1. CASE r.to \in Builtins
      BY <1>2, <2>8, <3>1
    <3>2. CASE r.to \notin Builtins
      <4>1. r.to \in DOMAIN types
        BY <2>5, <3>2 DEF Resolves, Registered
      <4>2. CASE IsAlias(r.to)
        <5>1. d[r.to] \in Nat
          BY <1>1, <4>1
        <5>2. k - 1 < k /\ k - 1 >= d[r.to]
          BY <1>4, <2>7, <2>8, <4>2, <5>1
        <5>3. \A q : \A j \in Nat : IsAlias(q) /\ j < k /\ j >= d[q] => Good(j, q)
          BY <1>4
        <5> QED BY <2>8, <4>2, <5>2, <5>3
      <4>3. CASE ~IsAlias(r.to)
        BY <1>3, <2>8, <4>1, <4>3
      <4> QED BY <4>2, <4>3
    <3> QED BY <3>1, <3>2
  <2>11. PICK s : s = Stands(text)[k - 1][r.to]
    OBVIOUS
  <2>12. Stands(text)[k][u] = [base |-> s.base, ptr |-> s.ptr \/ r.ptr]
    <3>1. PICK e, o, prev, D : /\ e = The(text, TypeDecls(text), u) /\ o = Stands(text)[k][u]
                               /\ prev = Stands(text)[k - 1] /\ D = Declares(text, TypeDecls(text), u)
      OBVIOUS
    <3>2. IsOneMore(text, k, prev, u, o) /\ e.form = "alias" /\ D # {}
      BY <1>0, <2>1, <2>3, <2>5, <3>1
    <3>4. o = [base |-> prev[e.refs[1].to].base,
               ptr |-> prev[e.refs[1].to].ptr \/ e.refs[1].ptr]
      <4>1. u \notin Builtins /\ D # {} /\ e.form = "alias" /\ k # 0 =>
             o = [base |-> prev[e.refs[1].to].base,
                  ptr |-> prev[e.refs[1].to].ptr \/ e.refs[1].ptr]
        BY <3>1, <3>2, Zenon DEF IsOneMore
      <4> QED BY <2>1, <2>8, <3>2, <4>1
    <3>3. e.refs[1] = r
      BY <2>3, <2>4, <3>1
    <3> QED BY <2>11, <3>1, <3>3, <3>4
  <2>13. s = Standing(r.to)
    BY <2>9, <2>11
  <2>14. Meaning(r) = [base |-> s.base, ptr |-> s.ptr \/ r.ptr]
    BY <2>6, <2>13 DEF Meaning, Standing, IsAlias, Registered
  <2> QED BY <1>4, <2>5, <2>12, <2>14 DEF Standing
<1> HIDE DEF Good
<1>5. ASSUME NEW u, IsAlias(u), NEW k \in Nat, k >= d[u] PROVE Good(k, u)
  <2> DEFINE Bad == {j \in Nat : \E q : IsAlias(q) /\ j >= d[q] /\ ~Good(j, q)}
  <2> SUFFICES ASSUME Bad # {} PROVE FALSE
    BY <1>5
  <2>1. Bad \in SUBSET Nat
    OBVIOUS
  <2>2. PICK j \in Bad : \A m \in Bad : j <= m
    <3> HIDE DEF Bad
    <3> QED BY <2>1, LeastNat
  <2>3. PICK q : IsAlias(q) /\ j >= d[q] /\ ~Good(j, q)
    BY <2>2
  <2>4. ASSUME NEW v, NEW m \in Nat, IsAlias(v), m < j, m >= d[v] PROVE Good(m, v)
    BY <2>1, <2>2, <2>4
  <2> QED BY <1>4, <2>1, <2>3, <2>4
<1>6. Len(text) \in Nat
  BY Declared DEF NamesInv, TablesInv
<1>7. IsAlias(t) => d[t] <= Len(text)
  <2> SUFFICES ASSUME IsAlias(t) PROVE d[t] <= Len(text)
    OBVIOUS
  <2>1. PICK i \in installed : text[i].name = t
    BY DEF IsAlias, NamesInv, AliasInv
  <2>2. d[t] \in 1..Cardinality(installed)
    BY <1>1, <2>1 DEF Ranked
  <2>3. installed \in SUBSET DOMAIN text
    BY DEF NamesInv, ShapeInv
  <2>4. Cardinality(installed) \in Nat /\ Cardinality(installed) <= Len(text)
    BY <2>3, SomeNumbers DEF NamesInv, TablesInv
  <2> QED BY <1>6, <2>2, <2>4
<1>8. IsAlias(t) => d[t] \in Nat
  BY <1>1 DEF IsAlias
<1>9. Good(Len(text), t)
  BY <1>2, <1>3, <1>5, <1>6, <1>7, <1>8 DEF IsAlias, Registered
<1> QED BY <1>9 DEF Good, StandsFor

-----------------------------------------------------------------------------
(* A type expression resolves when it may be named. *)

\* The gates ask of an entry what the reading asks of its declaration.
LEMMA GatesAgree ==
  ASSUME NamesInv, NamesApart, phase # "names", NEW t \in DOMAIN types, NEW f
  PROVE  LET d == The(text, TypeDecls(text), t)
         IN  /\ ImportVisible(types[t].file, f) <=> Sees(f, d.file)
             /\ types[t].kind # "alias" => (TypeVisible(t, f) <=> MayUse(f, d))
             /\ types[t].kind = "alias" => (TypeVisible(t, f) <=> Sees(f, d.file))
<1>1. PICK i \in TypeDecls(text) :
        /\ text[i].name = t /\ types[t].file = text[i].file
        /\ types[t].kind # "alias" => types[t].public = text[i].public
  BY WhoDeclared
<1>2. The(text, TypeDecls(text), t) = text[i]
  BY <1>1, OneOfTheName DEF NamesInv, TablesInv
<1> QED BY <1>1, <1>2 DEF ImportVisible, SameModule, Sees, MayUse, TypeVisible

LEMMA ResolvesAsNameable ==
  ASSUME NamesInv, NamesApart, phase # "names", NEW r, NEW f,
         r.to \in Builtins \/ Registered(r.to)
  PROVE  Resolves(r, f) <=> Nameable(text, r.to, f)
<1>1. PICK t : t = r.to
  OBVIOUS
<1>2. CASE t \in Builtins
  BY <1>1, <1>2 DEF Resolves, Nameable
<1>3. CASE t \notin Builtins
  <2>1. t \in DOMAIN types /\ t \in Types
    BY <1>1, <1>3 DEF Registered, NamesInv, TablesInv, ReservedInv
  <2>2. StandsFor(text, t) = Standing(t)
    BY <2>1, StandsAsRegistered DEF Registered
  <2>3. PICK d, b : d = The(text, TypeDecls(text), t) /\ b = Standing(t).base
    OBVIOUS
  <2>4. Nameable(text, t, f) <=>
          /\ b # "-" /\ Sees(f, d.file)
          /\ b \in Builtins \/ MayUse(f, The(text, TypeDecls(text), b))
    BY <1>3, <2>1, <2>2, <2>3 DEF Nameable
  <2>5. CASE types[t].kind # "alias"
    <3>1. b = t /\ b # "-"
      BY <2>1, <2>3, <2>5, NamesAssumption DEF Standing, IsAlias
    <3>2. TypeVisible(t, f) <=> MayUse(f, d)
      BY <2>1, <2>3, <2>5, GatesAgree
    <3>3. Resolves(r, f) <=> TypeVisible(t, f)
      BY <1>1, <1>3, <2>1, <2>5 DEF Resolves, Registered
    <3> QED BY <1>1, <1>3, <2>3, <2>4, <3>1, <3>2, <3>3 DEF MayUse
  <2>6. CASE types[t].kind = "alias"
    <3>1. b = types[t].target.base
      BY <2>1, <2>3, <2>6 DEF Standing, IsAlias
    <3>2. MayName(types[t].target, types[t].file)
      BY <2>1, <2>6 DEF NamesInv, TablesInv, TypesVisible
    <3>3. b \in Builtins \/ (b \in DOMAIN types /\ types[b].kind # "alias")
      BY <3>1, <3>2 DEF MayName, Registered
    <3>4. b # "-"
      BY <3>3, NamesAssumption DEF NamesInv, TablesInv, ReservedInv
    <3>5. TypeVisible(t, f) <=> Sees(f, d.file)
      BY <2>1, <2>3, <2>6, GatesAgree
    <3>6. b \notin Builtins => (TypeVisible(b, f) <=> MayUse(f, The(text, TypeDecls(text), b)))
      BY <3>3, GatesAgree
    <3>7. Resolves(r, f) <=> TypeVisible(t, f) /\ (b \notin Builtins => TypeVisible(b, f))
      BY <1>1, <1>3, <2>1, <2>6, <3>1 DEF Resolves, Registered
    <3> QED BY <1>1, <2>4, <3>4, <3>5, <3>6, <3>7
  <2> QED BY <2>5, <2>6
<1> QED BY <1>2, <1>3

\* What it yields is what the name stands for.
LEMMA MeansWhatItStandsFor ==
  ASSUME NamesInv, NamesApart, phase # "names", NEW r, r.ptr \in BOOLEAN,
         r.to \in Builtins \/ Registered(r.to)
  PROVE  /\ Meaning(r).base = StandsFor(text, r.to).base
         /\ Meaning(r).ptr <=> r.ptr \/ StandsFor(text, r.to).ptr
<1>1. StandsFor(text, r.to) = Standing(r.to)
  BY StandsAsRegistered
<1>2. CASE IsAlias(r.to)
  <2>1. types[r.to] \in TypeShape
    BY <1>2 DEF NamesInv, ShapeInv, Shapes, IsAlias
  <2>2. types[r.to].target.ptr \in BOOLEAN
    BY <2>1 DEF TypeShape
  <2> QED BY <1>1, <1>2, <2>2 DEF Meaning, Standing, IsAlias, Registered
<1>3. CASE ~IsAlias(r.to)
  BY <1>1, <1>3 DEF Meaning, Standing, IsAlias, Registered
<1> QED BY <1>2, <1>3

LEMMA ResolvedIsKnown ==
  ASSUME NEW r, NEW f, Resolves(r, f) PROVE r.to \in Builtins \/ Registered(r.to)
  BY DEF Resolves

\* No alias was left over.
AllInstalled == phase # "names" /\ sites = {}

LEMMA NameableIsKnown ==
  ASSUME NamesInv, NamesApart, AllInstalled, NEW n, NEW f, Nameable(text, n, f)
  PROVE  n \in Builtins \/ Registered(n)
<1> SUFFICES ASSUME n \notin Builtins PROVE Registered(n)
  OBVIOUS
<1>1. n \in Types /\ StandsFor(text, n).base # "-"
  BY DEF Nameable
<1>2. Len(text) \in Nat
  BY Declared DEF NamesInv, TablesInv
<1>3. Declares(text, TypeDecls(text), n) # {}
  <2>1. PICK o, prev : o = Stands(text)[Len(text)][n] /\ prev = Stands(text)[Len(text) - 1]
    OBVIOUS
  <2>2. IsOneMore(text, Len(text), prev, n, o)
    BY <1>1, <1>2, <2>1, StandsIs
  <2>3. Declares(text, TypeDecls(text), n) = {} => o = NoTarget
    BY <2>2 DEF IsOneMore
  <2> QED BY <1>1, <2>1, <2>3 DEF StandsFor, NoTarget
<1>4. PICK i \in TypeDecls(text) : text[i].name = n
  BY <1>3 DEF Declares
<1>5. i \in DOMAIN text /\ (text[i].form \in Nominal \/ text[i].form = "alias")
  BY DEF TypeDecls, Decls
<1>6. CASE text[i].form \in Nominal
  BY <1>4, <1>5, <1>6 DEF AllInstalled, NamesInv, TablesInv, ReservedInv
<1>7. CASE text[i].form = "alias"
  <2>1. Installed(i)
    BY <1>5, <1>7 DEF AllInstalled, NamesInv, AliasInv
  <2> QED BY <1>4, <2>1 DEF Installed, Registered
<1> QED BY <1>5, <1>6, <1>7

LEMMA NameableResolves ==
  ASSUME NamesInv, NamesApart, AllInstalled, NEW r, NEW f, Nameable(text, r.to, f)
  PROVE  Resolves(r, f)
<1>1. r.to \in Builtins \/ Registered(r.to)
  BY NameableIsKnown
<1> QED BY <1>1, ResolvesAsNameable DEF AllInstalled

LEMMA ResolvesIsNameable ==
  ASSUME NamesInv, NamesApart, phase # "names", NEW r, NEW f, Resolves(r, f)
  PROVE  Nameable(text, r.to, f)
  BY ResolvedIsKnown, ResolvesAsNameable

\* Where every type named may be named, no alias is left over: of those left,
\* one whose target takes the fewest aliases to follow has a target that
\* resolves.
LEMMA NoneIsLeft ==
  ASSUME NamesInv, NamesApart, phase \notin {"names", "aliases"},
         \A i \in DOMAIN text : AllNameable(text, text[i].refs, text[i].file)
  PROVE  AllInstalled
<1> DEFINE To(i) == text[i].refs[1].to
           K == {k \in Nat : \E i \in sites : Stands(text)[k][To(i)].base # "-"}
<1> SUFFICES ASSUME sites # {} PROVE FALSE
  BY DEF AllInstalled
<1>1. ASSUME NEW i \in sites
      PROVE  /\ i \in DOMAIN text /\ text[i].form = "alias" /\ i \in TypeDecls(text)
             /\ i \notin installed /\ 1 \in DOMAIN text[i].refs
             /\ To(i) \in Types \cup Builtins
             /\ Nameable(text, To(i), text[i].file)
             /\ ~Registered(text[i].name)
             /\ ~Resolves(text[i].refs[1], text[i].file)
  <2>1. i \in DOMAIN text /\ text[i].form = "alias"
    BY DEF NamesInv, TablesInv, ReservedInv
  <2>2. i \in TypeDecls(text) /\ i \notin installed
    BY <2>1 DEF TypeDecls, Decls, NamesInv, ShapeInv
  <2>3. 1 \in DOMAIN text[i].refs /\ To(i) \in Types \cup Builtins
    BY <2>1, RefsOf DEF NamesInv, TablesInv
  <2>4. Nameable(text, To(i), text[i].file)
    BY <2>1, <2>3 DEF AllNameable
  <2>5. ~Registered(text[i].name)
    <3> SUFFICES ASSUME Registered(text[i].name) PROVE FALSE
      OBVIOUS
    <3>1. PICK t \in DOMAIN types : t = text[i].name
      BY DEF Registered
    <3>2. PICK j \in TypeDecls(text) :
            /\ text[j].name = t /\ types[t].kind = text[j].form
            /\ types[t].kind = "alias" => j \in installed
      BY WhoDeclared
    <3>3. j = i
      BY <2>2, <3>1, <3>2 DEF NamesApart, DistinctNames
    <3> QED BY <2>1, <2>2, <3>2, <3>3
  <2>6. ~AliasParses(text[i])
    BY DEF NamesInv, AliasInv
  <2>7. DOMAIN text[i].refs = {1}
    <3>1. Len(text[i].refs) = 1 /\ text[i].refs \in Seq(Ref)
      BY <2>1, Declared DEF NamesInv, TablesInv
    <3> QED BY <3>1
  <2>8. ~Resolves(text[i].refs[1], text[i].file)
    BY <2>5, <2>6, <2>7 DEF AliasParses, AllResolve
  <2> QED BY <2>1, <2>2, <2>3, <2>4, <2>5, <2>8
<1>2. ASSUME NEW i \in sites
      PROVE  /\ To(i) \notin Builtins /\ ~Registered(To(i)) /\ To(i) \in Types
             /\ StandsFor(text, To(i)).base # "-"
  <2>1. ~(To(i) \in Builtins \/ Registered(To(i)))
    BY <1>1, ResolvesAsNameable
  <2> QED BY <1>1, <2>1 DEF Nameable
<1>3. Len(text) \in Nat
  BY Declared DEF NamesInv, TablesInv
<1>4. K \in SUBSET Nat /\ K # {}
  <2>1. PICK i \in sites : TRUE
    OBVIOUS
  <2>2. Len(text) \in K
    BY <1>2, <1>3, <2>1 DEF StandsFor
  <2> QED BY <2>2
<1>5. PICK k \in K : \A m \in K : k <= m
  <2> HIDE DEF K
  <2> QED BY <1>4, LeastNat
<1>6. PICK i \in sites : Stands(text)[k][To(i)].base # "-"
  BY <1>5
<1>7. k \in Nat
  BY <1>5
<1>8. PICK n, o, prev : n = To(i) /\ o = Stands(text)[k][n] /\ prev = Stands(text)[k - 1]
  OBVIOUS
<1>9. n \in Types /\ n \notin Builtins /\ ~Registered(n) /\ o.base # "-"
  BY <1>2, <1>6, <1>8
<1>10. IsOneMore(text, k, prev, n, o)
  BY <1>7, <1>8, <1>9, StandsIs
<1>11. PICK D, d : D = Declares(text, TypeDecls(text), n) /\ d = The(text, TypeDecls(text), n)
  OBVIOUS
<1>12. D # {}
  BY <1>9, <1>10, <1>11 DEF IsOneMore, NoTarget
<1>13. PICK j \in TypeDecls(text) : text[j].name = n
  BY <1>11, <1>12 DEF Declares
<1>14. d = text[j]
  BY <1>11, <1>13, OneOfTheName DEF NamesInv, TablesInv
<1>15. j \in DOMAIN text /\ (text[j].form \in Nominal \/ text[j].form = "alias")
  BY DEF TypeDecls, Decls
<1>16. text[j].form \notin Nominal
  BY <1>9, <1>13, <1>15 DEF NamesInv, TablesInv, ReservedInv
<1>17. j \in sites
  <2>1. j \in installed => Registered(n)
    BY <1>13 DEF NamesInv, AliasInv, Installed, Registered
  <2> QED BY <1>9, <1>15, <1>16, <2>1 DEF NamesInv, AliasInv
<1>18. d.form = "alias" /\ k # 0
  BY <1>9, <1>10, <1>11, <1>12, <1>14, <1>15, <1>16 DEF IsOneMore, NoTarget
<1>19. o.base = prev[d.refs[1].to].base
  <2>1. n \notin Builtins /\ D # {} /\ d.form = "alias" /\ k # 0 =>
          o = [base |-> prev[d.refs[1].to].base,
               ptr |-> prev[d.refs[1].to].ptr \/ d.refs[1].ptr]
    BY <1>10, <1>11, Zenon DEF IsOneMore
  <2>2. o = [base |-> prev[d.refs[1].to].base,
             ptr |-> prev[d.refs[1].to].ptr \/ d.refs[1].ptr]
    BY SMTT(20), <1>9, <1>12, <1>18, <2>1
  <2> QED BY <2>2
<1>20. Stands(text)[k - 1][To(j)].base # "-"
  BY <1>8, <1>9, <1>14, <1>19
<1>21. k - 1 \in Nat /\ ~(k <= k - 1)
  BY SMTT(20), <1>7, <1>18
<1>22. k - 1 \in K
  BY <1>17, <1>20, <1>21
<1> QED BY <1>5, <1>21, <1>22

-----------------------------------------------------------------------------
(* The entries of reserved names, step by step. *)

LEMMA ClaimedIsReserved ==
  ASSUME ReservedInv, phase # "names", at \in DOMAIN text,
         Here.form \in Nominal, Claimable(Here)
  PROVE  Reserves(at, Here.name)
<1>1. /\ Registered(Here.name) /\ types[Here.name].kind # "alias"
      /\ ~types[Here.name].defined
  BY ClaimedIsHere DEF Claimable, Nominal
<1>2. PICK k \in Nat : Reserves(k, Here.name) /\ (types[Here.name].defined \/ at <= k)
  BY <1>1 DEF ReservedInv, Registered
<1>3. k <= at
  BY <1>2 DEF Reserves, Here
<1>4. k = at
  BY <1>1, <1>2, <1>3 DEF ReservedInv
<1> QED BY <1>2, <1>4

LEMMA ReservedOnce ==
  ASSUME ReservedInv, NEW k, NEW m, NEW t, Reserves(k, t), Reserves(m, t) PROVE k = m
<1>1. k \in Nat /\ m \in Nat
  BY Declared DEF Reserves
<1> QED BY <1>1 DEF Reserves

LEMMA EntriesStart == Init => EntriesInv
  BY DEF Init, EntriesInv

LEMMA GrowingKeepsEntries ==
  ASSUME ReservedInv, EntriesInv, phase # "names", Grow, UNCHANGED text, at \in Nat,
         \/ /\ at' = at /\ (phase' = "aliases" => phase = "aliases")
            /\ \A t \in DOMAIN types : types'[t].defined => types[t].defined
         \/ /\ at' = at + 1 /\ phase' # "aliases"
            /\ \A t \in DOMAIN types : types'[t].defined => types[t].defined \/ Reserves(at, t)
  PROVE  EntriesInv'
<1>1. ASSUME NEW k, NEW t, Reserves(k, t)
      PROVE  /\ t \in DOMAIN types' /\ types'[t].kind = text[k].form
             /\ types'[t].file = text[k].file /\ types'[t].public = text[k].public
             /\ types'[t].defined => k < at'
  <2>1. /\ t \in DOMAIN types /\ types[t].kind = text[k].form
        /\ types[t].file = text[k].file /\ types[t].public = text[k].public
        /\ types[t].defined => k < at
    BY <1>1 DEF EntriesInv
  <2>2. k \in Nat
    BY <1>1, Declared DEF Reserves
  <2>3. Reserves(at, t) => k = at
    BY <1>1, ReservedOnce
  <2> QED BY <2>1, <2>2, <2>3 DEF Grow
<1>2. \A k, t : Reserves(k, t)' <=> Reserves(k, t)
  BY DEF Reserves
<1> QED BY <1>1, <1>2 DEF EntriesInv

LEMMA EntriesStep ==
  TablesInv /\ ShapeInv /\ AliasInv /\ EntriesInv /\ [Next]_vars => EntriesInv'
<1> SUFFICES ASSUME TablesInv, ShapeInv, AliasInv, EntriesInv, [Next]_vars PROVE EntriesInv'
  OBVIOUS
<1>0. ReservedInv /\ at \in Nat
  BY DEF TablesInv, ReservedInv
<1>1. CASE ReserveNames
  <2>1. phase = "names" /\ phase' = "aliases" /\ UNCHANGED <<at, text>>
    BY <1>1 DEF ReserveNames
  <2>2. at = 1
    BY <2>1 DEF TablesInv, ReservedInv
  <2>3. \A k, t : Reserves(k, t)' <=> Reserves(k, t)
    BY <2>1 DEF Reserves
  <2> QED BY <1>1, <2>1, <2>2, <2>3, ReservedEntries DEF EntriesInv
<1>2. CASE TryAlias
  <2>1. PICK d : d = text[Min(todo)]
    OBVIOUS
  <2>2. phase = "aliases" /\ UNCHANGED <<phase, at, text>>
    BY <1>2 DEF TryAlias
  <2>3. CASE AliasParses(d)
    <3>1. types' = WithType(d.name, Alias(d)) /\ d.name \notin DOMAIN types
      BY <1>2, <2>1, <2>3 DEF TryAlias, AliasParses, Registered
    <3>2. \A t \in DOMAIN types : t \in DOMAIN types' /\ types'[t] = types[t]
      BY <3>1 DEF WithType
    <3> QED BY <1>0, <2>2, <3>2, GrowingKeepsEntries DEF Grow
  <2>4. CASE ~AliasParses(d)
    <3>1. UNCHANGED types
      BY <1>2, <2>1, <2>4 DEF TryAlias
    <3> QED BY <1>0, <2>2, <3>1, UnchangedNames, GrowingKeepsEntries DEF SameNames
  <2> QED BY <2>3, <2>4
<1>3. CASE EndRound \/ StartCycles \/ WalkCycles \/ ReportCycles \/ ParseBody \/ Fill
  <2>1. /\ UNCHANGED <<types, at, text>> /\ phase # "names"
        /\ phase' = "aliases" => phase = "aliases"
    BY <1>3 DEF EndRound, StartCycles, WalkCycles, ReportCycles, ParseBody, Fill, parseVars
  <2> QED BY <1>0, <2>1, UnchangedNames, GrowingKeepsEntries DEF SameNames
<1>4. CASE ParseItem
  <2>1. /\ phase = "pass1" /\ at \in DOMAIN text /\ UNCHANGED text /\ SameNames
        /\ \/ Abort /\ UNCHANGED types
           \/ /\ Next1
              /\ Here.form \in Nominal => Claimable(Here) /\ types' = Defined(Here)
              /\ Here.form \notin Nominal => UNCHANGED types
    BY <1>4, ItemStep
  <2>2. CASE Abort /\ UNCHANGED types
    <3>1. at' = at /\ phase' = "done"
      BY <2>2 DEF Abort
    <3> QED BY <1>0, <2>1, <2>2, <3>1, GrowingKeepsEntries DEF SameNames
  <2>3. CASE Next1 /\ UNCHANGED types
    <3>1. at' = at + 1 /\ phase' = "pass1"
      BY <2>1, <2>3 DEF Next1
    <3> QED BY <1>0, <2>1, <2>3, <3>1, GrowingKeepsEntries DEF SameNames
  <2>4. CASE Next1 /\ Here.form \in Nominal /\ Claimable(Here) /\ types' = Defined(Here)
    <3>1. at' = at + 1 /\ phase' = "pass1"
      BY <2>1, <2>4 DEF Next1
    <3>2. Reserves(at, Here.name)
      BY <1>0, <2>1, <2>4, ClaimedIsReserved
    <3>3. \A t \in DOMAIN types : t # Here.name => types'[t] = types[t]
      BY <2>1, <2>4, DefiningGrows
    <3> QED BY <1>0, <2>1, <3>1, <3>2, <3>3, GrowingKeepsEntries DEF SameNames
  <2> QED BY <2>1, <2>2, <2>3, <2>4
<1>5. CASE UNCHANGED vars
  <2>1. UNCHANGED <<types, at, text, phase>>
    BY <1>5 DEF vars, parseVars
  <2>2. \A k, t : Reserves(k, t)' <=> Reserves(k, t)
    BY <2>1 DEF Reserves
  <2> QED BY <2>1, <2>2 DEF EntriesInv
<1> QED BY <1>1, <1>2, <1>3, <1>4, <1>5 DEF Next

-----------------------------------------------------------------------------
(* What pass 1 has found right about the declarations it has passed. *)

HeadPassed(i) ==
  LET d == text[i]
  IN  /\ AllResolve(d.refs, d.file)
      /\ d.form = "alias" => i \in installed
      /\ d.form \in Nominal => /\ Reserves(i, d.name) /\ types[d.name].defined
                               /\ types[d.name].parts = Meanings(d.refs)
      /\ d.form = "type" => \A k \in DOMAIN d.methods :
           /\ AllResolve(d.methods[k].refs, d.file)
           /\ \A j \in DOMAIN d.methods : d.methods[j].name = d.methods[k].name => j = k

HeadsInv ==
  phase \notin {"names", "aliases"} => \A i \in DOMAIN text : i < at => HeadPassed(i)

LEMMA HeadStays ==
  ASSUME NamesInv, TablesInv', phase # "names", Grow, UNCHANGED <<text, installed>>,
         NEW i, HeadPassed(i)
  PROVE  HeadPassed(i)'
<1>1. PICK d : d = text[i]
  OBVIOUS
<1>2. \A refs, f : AllResolve(refs, f) => AllResolve(refs, f)' /\ Meanings(refs)' = Meanings(refs)
  BY AllStillResolve DEF NamesInv, TablesInv
<1>3. /\ AllResolve(d.refs, d.file)
      /\ d.form = "alias" => i \in installed
      /\ d.form \in Nominal => /\ Reserves(i, d.name) /\ types[d.name].defined
                               /\ types[d.name].parts = Meanings(d.refs)
      /\ d.form = "type" => \A k \in DOMAIN d.methods :
           /\ AllResolve(d.methods[k].refs, d.file)
           /\ \A j \in DOMAIN d.methods : d.methods[j].name = d.methods[k].name => j = k
  BY <1>1 DEF HeadPassed
<1>4. AllResolve(d.refs, d.file)' /\ Meanings(d.refs)' = Meanings(d.refs)
  BY <1>2, <1>3
<1>5. ASSUME d.form \in Nominal
      PROVE  /\ Reserves(i, d.name)' /\ types'[d.name].defined
             /\ types'[d.name].parts = Meanings(d.refs)'
  <2>1. d.name \in DOMAIN types
    BY <1>3, <1>5 DEF NamesInv, EntriesInv
  <2>2. types'[d.name] = types[d.name]
    BY <1>3, <1>5, <2>1 DEF Grow
  <2>3. Reserves(i, d.name)'
    BY <1>3, <1>5 DEF Reserves
  <2> QED BY <1>3, <1>4, <1>5, <2>2, <2>3
<1>6. ASSUME d.form = "type"
      PROVE  \A k \in DOMAIN d.methods :
               /\ AllResolve(d.methods[k].refs, d.file)'
               /\ \A j \in DOMAIN d.methods : d.methods[j].name = d.methods[k].name => j = k
  BY <1>2, <1>3, <1>6
<1>7. d = text'[i] /\ installed' = installed
  BY <1>1
<1> QED BY <1>3, <1>4, <1>5, <1>6, <1>7 DEF HeadPassed, AllResolve, Meanings

LEMMA HeadHere ==
  ASSUME NamesInv, TablesInv', ParseItem, ~Abort, NEW i, i = at
  PROVE  HeadPassed(i)'
<1>1. /\ phase = "pass1" /\ at \in DOMAIN text /\ UNCHANGED <<text, installed>> /\ SameNames
      /\ AllResolve(Here.refs, Here.file)
      /\ Here.form = "alias" => at \in installed
      /\ Here.form \in Nominal => Claimable(Here) /\ types' = Defined(Here)
  BY ItemStep DEF NamesInv
<1>2. PICK d : d = Here
  OBVIOUS
<1>3. \A refs, f : AllResolve(refs, f) => AllResolve(refs, f)' /\ Meanings(refs)' = Meanings(refs)
  BY <1>1, AllStillResolve DEF NamesInv, TablesInv, SameNames
<1>4. AllResolve(d.refs, d.file)' /\ Meanings(d.refs)' = Meanings(d.refs)
  BY <1>1, <1>2, <1>3
<1>5. ASSUME d.form \in Nominal
      PROVE  /\ Reserves(i, d.name)' /\ types'[d.name].defined
             /\ types'[d.name].parts = Meanings(d.refs)'
  <2>1. Reserves(i, d.name)
    BY <1>1, <1>2, <1>5, ClaimedIsReserved DEF NamesInv, TablesInv
  <2>2. Reserves(i, d.name)'
    BY <1>1, <2>1 DEF Reserves
  <2>3. types'[d.name].defined /\ types'[d.name].parts = Meanings(d.refs)
    BY <1>1, <1>2, <1>5, DefiningGrows DEF NamesInv
  <2> QED BY <1>4, <2>2, <2>3
<1>6. ASSUME d.form = "type"
      PROVE  \A k \in DOMAIN d.methods :
               /\ AllResolve(d.methods[k].refs, d.file)'
               /\ \A j \in DOMAIN d.methods : d.methods[j].name = d.methods[k].name => j = k
  <2> DEFINE ms == Methods(d)
  <2>1. ParseType
    BY <1>2, <1>6 DEF ParseItem, ParseAlias, ParseVariants, ParseFunction, ParseGlobal
  <2>2. \A k \in DOMAIN ms : /\ AllResolve(d.methods[k].refs, d.file)
                             /\ \A j \in 1..(k - 1) : ms[j].name # ms[k].name
    BY <1>2, <2>1 DEF ParseType
  <2>3. DOMAIN ms = DOMAIN d.methods /\ \A k \in DOMAIN ms : ms[k].name = Mangled(d.name, d.methods[k].name)
    BY DEF Methods, Lowered
  <2>4. PICK n \in Nat : DOMAIN d.methods = 1..n
    BY <1>1, <1>2, HereIsADeclaration DEF NamesInv, TablesInv
  <2> HIDE DEF ms
  <2>5. \A k, j \in 1..n : j < k => d.methods[j].name # d.methods[k].name
    <3> SUFFICES ASSUME NEW k \in 1..n, NEW j \in 1..n, j < k
                 PROVE  d.methods[j].name # d.methods[k].name
      OBVIOUS
    <3>1. j \in 1..(k - 1)
      BY <2>4
    <3>2. ms[j].name # ms[k].name
      BY <2>2, <2>3, <2>4, <3>1
    <3> QED BY <2>3, <2>4, <3>2
  <2>6. \A k, j \in 1..n : d.methods[j].name = d.methods[k].name => j = k
    <3> SUFFICES ASSUME NEW k \in 1..n, NEW j \in 1..n, j # k
                 PROVE  d.methods[j].name # d.methods[k].name
      OBVIOUS
    <3>1. j < k \/ k < j
      BY <2>4
    <3> QED BY <2>5, <3>1
  <2>7. \A k \in DOMAIN d.methods : AllResolve(d.methods[k].refs, d.file)'
    BY <1>3, <2>2, <2>3
  <2> QED BY <2>4, <2>6, <2>7
<1>7. d = text'[i] /\ installed' = installed
  BY <1>1, <1>2 DEF Here
<1>8. d.form = "alias" => i \in installed
  BY <1>1, <1>2
<1> QED BY <1>4, <1>5, <1>6, <1>7, <1>8 DEF HeadPassed, AllResolve, Meanings

LEMMA HeadsStart == Init => HeadsInv
  BY DEF Init, HeadsInv

LEMMA HeadsStep ==
  NamesInv /\ TablesInv' /\ HeadsInv /\ [Next]_vars => HeadsInv'
<1> SUFFICES ASSUME NamesInv, TablesInv', HeadsInv, [Next]_vars PROVE HeadsInv'
  OBVIOUS
<1>1. CASE ReserveNames \/ TryAlias \/ EndRound
  <2>1. UNCHANGED <<text, at>>
    BY <1>1 DEF ReserveNames, TryAlias, EndRound
  <2>2. CASE phase' \in {"names", "aliases"}
    BY <2>2 DEF HeadsInv
  <2>3. CASE phase' \notin {"names", "aliases"}
    <3>1. phase = "aliases"
      BY <1>1, <2>3 DEF ReserveNames, TryAlias, EndRound
    <3>2. at = 1
      BY <3>1 DEF NamesInv, EntriesInv
    <3>3. \A i \in DOMAIN text : i \in Nat /\ 1 <= i
      BY Declared DEF NamesInv, TablesInv
    <3> QED BY <2>1, <3>2, <3>3 DEF HeadsInv
  <2> QED BY <2>2, <2>3
<1>2. CASE ParseItem
  <2>1. /\ phase = "pass1" /\ at \in DOMAIN text /\ at \in Nat /\ UNCHANGED <<text, installed>>
        /\ SameNames
        /\ Abort \/ Next1
    BY <1>2, ItemStep DEF NamesInv
  <2>2. \A i \in DOMAIN text : i < at => HeadPassed(i)'
    BY <2>1, HeadStays DEF HeadsInv, SameNames
  <2>3. CASE Abort
    <3>1. at' = at
      BY <2>3 DEF Abort
    <3> QED BY <2>1, <2>2, <3>1 DEF HeadsInv
  <2>4. CASE ~Abort
    <3>1. at' = at + 1
      BY <2>1, <2>4 DEF Next1
    <3>2. \A i : i = at => HeadPassed(i)'
      BY <1>2, <2>4, HeadHere
    <3>3. \A i \in DOMAIN text : i < at' => i < at \/ i = at
      <4>1. \A i \in DOMAIN text : i \in Nat
        BY Declared DEF NamesInv, TablesInv
      <4> QED BY <2>1, <3>1, <4>1
    <3> QED BY <2>1, <2>2, <3>2, <3>3 DEF HeadsInv
  <2> QED BY <2>3, <2>4
<1>3. CASE StartCycles \/ WalkCycles \/ ReportCycles \/ ParseBody \/ Fill \/ UNCHANGED vars
  <2>1. /\ UNCHANGED <<text, at, types, installed>>
        /\ phase' \notin {"names", "aliases"} => phase \notin {"names", "aliases"}
    BY <1>3 DEF StartCycles, WalkCycles, ReportCycles, ParseBody, Fill, parseVars, vars
  <2>2. CASE phase = "names"
    BY <2>1, <2>2 DEF HeadsInv
  <2>3. CASE phase # "names"
    <3>1. \A i : HeadPassed(i) => HeadPassed(i)'
      BY <2>1, <2>3, HeadStays, UnchangedNames DEF SameNames
    <3> QED BY <2>1, <3>1 DEF HeadsInv
  <2> QED BY <2>2, <2>3
<1> QED BY <1>1, <1>2, <1>3 DEF Next

-----------------------------------------------------------------------------
(* The tables hold what the declarations passed have declared. *)

FnsBefore(i)     == Upto(FnDecls(text), i)
GlobalsBefore(i) == Upto(GlobalDecls(text), i)

\* n is the name of a method's function.
IsMangled(n) ==
  \E i \in DOMAIN text : \E k \in DOMAIN text[i].methods :
    n = Mangled(text[i].name, text[i].methods[k].name)

\* ... of a type that has been passed.
IsMethodBefore(n, b) ==
  \E i \in DOMAIN text : /\ i < b /\ text[i].form = "type"
                         /\ \E k \in DOMAIN text[i].methods :
                              n = Mangled(text[i].name, text[i].methods[k].name)

FunctionsInv ==
  /\ \A i \in FnsBefore(at) :
       /\ text[i].name \in DOMAIN functions
       /\ functions[text[i].name].file = text[i].file
       /\ functions[text[i].name].public = text[i].public
       /\ functions[text[i].name].hasBody <=> text[i].form # "extern"
  /\ \A n \in DOMAIN functions :
       (\E i \in FnsBefore(at) : text[i].name = n) \/ IsMethodBefore(n, at)
  /\ DistinctNames(text, FnsBefore(at))

GlobalsInv ==
  /\ \A i \in GlobalsBefore(at) :
       /\ text[i].name \in DOMAIN globals
       /\ globals[text[i].name].file = text[i].file
       /\ globals[text[i].name].public = text[i].public
  /\ \A n \in DOMAIN globals : \E i \in GlobalsBefore(at) : text[i].name = n
  /\ DistinctNames(text, GlobalsBefore(at))

\* The step on: one declaration more.
LEMMA OneMoreBefore ==
  ASSUME ReservedInv, at' = at + 1, UNCHANGED text
  PROVE  /\ \A i : i \in FnsBefore(at)' <=> i \in FnsBefore(at) \/ (i = at /\ i \in FnDecls(text))
         /\ \A i : i \in GlobalsBefore(at)' <=>
                     i \in GlobalsBefore(at) \/ (i = at /\ i \in GlobalDecls(text))
<1>1. \A i \in DOMAIN text : i \in Nat /\ at \in Nat
  BY Declared DEF ReservedInv
<1>2. \A i \in DOMAIN text : i < at' <=> i < at \/ i = at
  BY <1>1
<1>3. FnDecls(text)' = FnDecls(text) /\ GlobalDecls(text)' = GlobalDecls(text)
  BY DEF FnDecls, GlobalDecls, Decls
<1> QED BY <1>2, <1>3 DEF FnsBefore, GlobalsBefore, Upto, FnDecls, GlobalDecls, Decls

LEMMA NoneBefore ==
  ASSUME ReservedInv, at = 1
  PROVE  FnsBefore(at) = {} /\ GlobalsBefore(at) = {}
<1>1. \A i \in DOMAIN text : i \in Nat /\ ~(i < at)
  BY Declared
<1> QED BY <1>1 DEF FnsBefore, GlobalsBefore, Upto, FnDecls, GlobalDecls, Decls

\* What is mangled is no name a program declares.
LEMMA MangledApart ==
  ASSUME ReservedInv, NEW n, IsMangled(n)
  PROVE  \A i \in DOMAIN text : text[i].name # n
  BY MangledAssumption DEF ReservedInv, IsMangled

LEMMA WithOneFunction ==
  ASSUME NEW s, functions' = WithFunctions(<<s>>)
  PROVE  /\ DOMAIN functions' = DOMAIN functions \cup {s.name}
         /\ functions'[s.name] = s
         /\ \A n \in DOMAIN functions : n # s.name => functions'[n] = functions[n]
<1> DEFINE ss == <<s>>
           names == {ss[i].name : i \in DOMAIN ss}
           last(n) == ss[Max({i \in DOMAIN ss : ss[i].name = n})]
<1>1. functions' = [n \in DOMAIN functions \cup names |-> IF n \in names THEN last(n) ELSE functions[n]]
  BY DEF WithFunctions
<1>2. DOMAIN ss = 1..1 /\ ss[1] = s /\ names = {s.name}
  OBVIOUS
<1>3. last(s.name) = s
  <2>1. PICK S : S = {i \in DOMAIN ss : ss[i].name = s.name}
    OBVIOUS
  <2>2. S \in SUBSET (1..1) /\ S # {}
    BY <1>2, <2>1
  <2>3. Max(S) \in S
    BY <2>2, MaxIsMember
  <2>4. \A m \in S : m = 1
    BY <2>2
  <2> QED BY <1>2, <2>1, <2>3, <2>4
<1> HIDE DEF last, names
<1> QED BY <1>1, <1>2, <1>3

LEMMA WithMoreFunctions ==
  ASSUME NEW ss, functions' = WithFunctions(ss)
  PROVE  LET names == {ss[i].name : i \in DOMAIN ss}
         IN  /\ DOMAIN functions' = DOMAIN functions \cup names
             /\ \A n \in DOMAIN functions : n \notin names => functions'[n] = functions[n]
  BY DEF WithFunctions

LEMMA FunctionStays ==
  ASSUME FunctionsInv, ReservedInv, ParseFunction, at \in DOMAIN text, ~Abort,
         NoRedeclaration(text), Next1
  PROVE  FunctionsInv'
<1> DEFINE n == Here.name
<1>1. /\ Here.form \in {"fn", "extern", "asm"} /\ ~Clashes(Symbol(Here))
      /\ functions' = WithFunctions(<<Symbol(Here)>>)
  BY DEF ParseFunction
<1>2. PICK s : s = Symbol(Here)
  OBVIOUS
<1>3. /\ s.name = n /\ s.file = Here.file /\ s.public = Here.public
      /\ s.hasBody <=> Here.form # "extern"
  BY <1>2 DEF Symbol
<1>4. /\ DOMAIN functions' = DOMAIN functions \cup {n} /\ functions'[n] = s
      /\ \A m \in DOMAIN functions : m # n => functions'[m] = functions[m]
  <2>1. functions' = WithFunctions(<<s>>)
    BY <1>1, <1>2
  <2> QED BY <1>3, <2>1, WithOneFunction
<1>5. at \in FnDecls(text) /\ UNCHANGED text /\ at' = at + 1
  BY <1>1 DEF FnDecls, Decls, Here, Next1
<1>6. \A i : i \in FnsBefore(at)' <=> i \in FnsBefore(at) \/ i = at
  BY <1>5, OneMoreBefore
<1>7. FnsBefore(at) \subseteq FnDecls(text)
  BY DEF FnsBefore, Upto
<1>8. \A i \in FnsBefore(at) : text[i].name # n
  <2> SUFFICES ASSUME NEW i \in FnsBefore(at), text[i].name = n PROVE FALSE
    OBVIOUS
  <2>1. i \in FnDecls(text) /\ i # at
    <3>1. i \in Nat /\ i < at
      BY Declared DEF FnsBefore, Upto, FnDecls, Decls
    <3> QED BY <1>7, <3>1 DEF ReservedInv
  <2>2. text[i].form # "extern" /\ Here.form # "extern"
    BY <1>5, <2>1 DEF NoRedeclaration, Here
  <2>3. n \in DOMAIN functions /\ functions[n].hasBody
    BY <2>2 DEF FunctionsInv
  <2> QED BY <1>1, <1>2, <1>3, <2>2, <2>3 DEF Clashes
<1>9. \A i \in FnsBefore(at)' :
        /\ text[i].name \in DOMAIN functions'
        /\ functions'[text[i].name].file = text[i].file
        /\ functions'[text[i].name].public = text[i].public
        /\ functions'[text[i].name].hasBody <=> text[i].form # "extern"
  <2> SUFFICES ASSUME NEW i \in FnsBefore(at)'
               PROVE  /\ text[i].name \in DOMAIN functions'
                      /\ functions'[text[i].name].file = text[i].file
                      /\ functions'[text[i].name].public = text[i].public
                      /\ functions'[text[i].name].hasBody <=> text[i].form # "extern"
    OBVIOUS
  <2>1. CASE i = at
    BY <1>3, <1>4, <2>1 DEF Here
  <2>2. CASE i \in FnsBefore(at)
    BY <1>4, <1>8, <2>2 DEF FunctionsInv
  <2> QED BY <1>6, <2>1, <2>2
<1>10. ASSUME NEW m \in DOMAIN functions'
       PROVE  (\E i \in FnsBefore(at)' : text[i].name = m) \/ IsMethodBefore(m, at)'
  <2>1. CASE m = n
    BY <1>6, <2>1 DEF Here
  <2>2. CASE m \in DOMAIN functions
    <3>1. CASE \E i \in FnsBefore(at) : text[i].name = m
      BY <1>6, <3>1
    <3>2. CASE IsMethodBefore(m, at)
      <4>1. \A i \in DOMAIN text : i < at => i < at'
        <5>1. \A i \in DOMAIN text : i \in Nat
          BY Declared
        <5> QED BY <1>5, <5>1 DEF ReservedInv
      <4> QED BY <1>5, <3>2, <4>1 DEF IsMethodBefore
    <3> QED BY <2>2, <3>1, <3>2 DEF FunctionsInv
  <2> QED BY <1>4, <2>1, <2>2
<1>11. \A i, j \in FnsBefore(at)' : text[i].name = text[j].name => i = j
  BY <1>6, <1>8 DEF FunctionsInv, DistinctNames, Here
<1> HIDE DEF n
<1> QED BY <1>5, <1>9, <1>10, <1>11 DEF FunctionsInv, DistinctNames

LEMMA MethodsStay ==
  ASSUME FunctionsInv, ReservedInv, ParseType, at \in DOMAIN text, ~Abort, Next1
  PROVE  FunctionsInv'
<1> DEFINE ms == Methods(Here)
           syms == [k \in DOMAIN ms |-> Symbol(ms[k])]
           names == {syms[k].name : k \in DOMAIN syms}
<1>1. Here.form = "type" /\ functions' = WithFunctions(syms)
  BY DEF ParseType
<1>2. /\ DOMAIN functions' = DOMAIN functions \cup names
      /\ \A m \in DOMAIN functions : m \notin names => functions'[m] = functions[m]
  BY SMTT(20), <1>1, WithMoreFunctions
<1>3. \A m \in names : \E k \in DOMAIN Here.methods : m = Mangled(Here.name, Here.methods[k].name)
  BY DEF Methods, Lowered, Symbol
<1> HIDE DEF names, syms, ms
<1>4. at \notin FnDecls(text) /\ UNCHANGED text /\ at' = at + 1
  BY <1>1 DEF FnDecls, Decls, Here, Next1
<1>5. \A i : i \in FnsBefore(at)' <=> i \in FnsBefore(at)
  BY <1>4, OneMoreBefore
<1>6. \A i \in FnsBefore(at) : text[i].name \notin names
  <2>1. \A m \in names : IsMangled(m)
    BY <1>3 DEF IsMangled, Here
  <2>2. \A i \in FnsBefore(at) : i \in DOMAIN text
    BY DEF FnsBefore, Upto, FnDecls, Decls
  <2> QED BY <2>1, <2>2, MangledApart
<1>7. \A i \in FnsBefore(at)' :
        /\ text[i].name \in DOMAIN functions'
        /\ functions'[text[i].name].file = text[i].file
        /\ functions'[text[i].name].public = text[i].public
        /\ functions'[text[i].name].hasBody <=> text[i].form # "extern"
  BY <1>2, <1>5, <1>6 DEF FunctionsInv
<1>8. \A i \in DOMAIN text : i < at \/ i = at => i < at'
  <2>1. \A i \in DOMAIN text : i \in Nat
    BY Declared
  <2> QED BY <1>4, <2>1 DEF ReservedInv
<1>9. ASSUME NEW m \in DOMAIN functions'
      PROVE  (\E i \in FnsBefore(at)' : text[i].name = m) \/ IsMethodBefore(m, at)'
  <2>1. CASE m \in names
    <3>1. PICK i : i = at
      OBVIOUS
    <3>2. i \in DOMAIN text' /\ i < at' /\ text'[i] = Here
      BY <1>4, <1>8, <3>1 DEF Here
    <3> QED BY <1>1, <1>3, <2>1, <3>2 DEF IsMethodBefore
  <2>2. CASE m \in DOMAIN functions
    <3>1. CASE \E i \in FnsBefore(at) : text[i].name = m
      BY <1>5, <3>1
    <3>2. CASE IsMethodBefore(m, at)
      BY <1>4, <1>8, <3>2 DEF IsMethodBefore
    <3> QED BY <2>2, <3>1, <3>2 DEF FunctionsInv
  <2> QED BY <1>2, <2>1, <2>2
<1>10. \A i, j \in FnsBefore(at)' : text[i].name = text[j].name => i = j
  BY <1>5 DEF FunctionsInv, DistinctNames
<1> QED BY <1>4, <1>7, <1>9, <1>10 DEF FunctionsInv, DistinctNames

\* Steps that leave the functions alone and pass no declaration of one.
LEMMA OthersKeepFunctions ==
  ASSUME FunctionsInv, ReservedInv, UNCHANGED <<text, functions>>,
         at' = at \/ (at' = at + 1 /\ at \notin FnDecls(text))
  PROVE  FunctionsInv'
<1>1. \A i : i \in FnsBefore(at)' <=> i \in FnsBefore(at)
  <2>1. CASE at' = at
    BY <2>1 DEF FnsBefore, Upto, FnDecls, Decls
  <2>2. CASE at' = at + 1 /\ at \notin FnDecls(text)
    BY <2>2, OneMoreBefore
  <2> QED BY <2>1, <2>2
<1>2. \A i \in DOMAIN text : i < at => i < at'
  <2>1. \A i \in DOMAIN text : i \in Nat
    BY Declared
  <2> QED BY <2>1 DEF ReservedInv
<1>3. \A n : IsMethodBefore(n, at) => IsMethodBefore(n, at)'
  BY <1>2 DEF IsMethodBefore
<1> QED BY <1>1, <1>3 DEF FunctionsInv, DistinctNames

LEMMA GlobalStays ==
  ASSUME GlobalsInv, ReservedInv, ParseGlobal, at \in DOMAIN text, ~Abort, Next1
  PROVE  GlobalsInv'
<1> DEFINE n == Here.name
<1>1. PICK v : v = [file |-> Here.file, public |-> Here.public, type |-> Meaning(Here.refs[1])]
  OBVIOUS
<1>2. /\ Here.form = "global" /\ n \notin DOMAIN globals
      /\ globals' = [m \in DOMAIN globals \cup {n} |-> IF m \in DOMAIN globals THEN globals[m] ELSE v]
  BY <1>1 DEF ParseGlobal
<1>3. /\ DOMAIN globals' = DOMAIN globals \cup {n} /\ globals'[n] = v
      /\ \A m \in DOMAIN globals : globals'[m] = globals[m] /\ m # n
  BY <1>2
<1>4. v.file = Here.file /\ v.public = Here.public
  BY <1>1
<1>5. at \in GlobalDecls(text) /\ UNCHANGED text /\ at' = at + 1
  BY <1>2 DEF GlobalDecls, Decls, Here, Next1
<1>6. \A i : i \in GlobalsBefore(at)' <=> i \in GlobalsBefore(at) \/ i = at
  BY <1>5, OneMoreBefore
<1>7. \A i \in GlobalsBefore(at) : text[i].name # n
  BY <1>2 DEF GlobalsInv
<1>8. ASSUME NEW i \in GlobalsBefore(at)'
      PROVE  /\ text[i].name \in DOMAIN globals'
             /\ globals'[text[i].name].file = text[i].file
             /\ globals'[text[i].name].public = text[i].public
  <2>1. CASE i = at
    BY <1>3, <1>4, <2>1 DEF Here
  <2>2. CASE i \in GlobalsBefore(at)
    BY <1>3, <2>2 DEF GlobalsInv
  <2> QED BY <1>6, <2>1, <2>2
<1>9. \A m \in DOMAIN globals' : \E i \in GlobalsBefore(at)' : text[i].name = m
  BY <1>3, <1>6 DEF GlobalsInv, Here
<1>10. \A i, j \in GlobalsBefore(at)' : text[i].name = text[j].name => i = j
  BY <1>6, <1>7 DEF GlobalsInv, DistinctNames, Here
<1> HIDE DEF n
<1> QED BY <1>5, <1>8, <1>9, <1>10 DEF GlobalsInv, DistinctNames

LEMMA OthersKeepGlobals ==
  ASSUME GlobalsInv, ReservedInv, UNCHANGED <<text, globals>>,
         at' = at \/ (at' = at + 1 /\ at \notin GlobalDecls(text))
  PROVE  GlobalsInv'
<1>1. \A i : i \in GlobalsBefore(at)' <=> i \in GlobalsBefore(at)
  <2>1. CASE at' = at
    BY <2>1 DEF GlobalsBefore, Upto, GlobalDecls, Decls
  <2>2. CASE at' = at + 1 /\ at \notin GlobalDecls(text)
    BY <2>2, OneMoreBefore
  <2> QED BY <2>1, <2>2
<1> QED BY <1>1 DEF GlobalsInv, DistinctNames

LEMMA TablesHoldStep ==
  ASSUME NamesInv, NoRedeclaration(text), FunctionsInv, GlobalsInv, [Next]_vars
  PROVE  FunctionsInv' /\ GlobalsInv'
<1>0. ReservedInv
  BY DEF NamesInv, TablesInv
<1>1. CASE ParseItem /\ ~Abort
  <2>1. at \in DOMAIN text /\ Next1 /\ at' = at + 1 /\ UNCHANGED text
    BY <1>1, ItemStep DEF NamesInv, Next1
  <2>2. CASE ParseFunction
    <3>1. UNCHANGED globals /\ at \notin GlobalDecls(text)
      BY <2>2 DEF ParseFunction, GlobalDecls, Decls, Here
    <3> QED BY <1>0, <1>1, <2>1, <2>2, <3>1, FunctionStays, OthersKeepGlobals
  <2>3. CASE ParseType
    <3>1. UNCHANGED globals /\ at \notin GlobalDecls(text)
      BY <2>3 DEF ParseType, GlobalDecls, Decls, Here
    <3> QED BY <1>0, <1>1, <2>1, <2>3, <3>1, MethodsStay, OthersKeepGlobals
  <2>4. CASE ParseGlobal
    <3>1. UNCHANGED functions /\ at \notin FnDecls(text)
      BY <2>4 DEF ParseGlobal, FnDecls, Decls, Here
    <3> QED BY <1>0, <1>1, <2>1, <2>4, <3>1, GlobalStays, OthersKeepFunctions
  <2>5. CASE ParseAlias \/ ParseVariants
    <3>1. UNCHANGED <<functions, globals>> /\ at \notin FnDecls(text) /\ at \notin GlobalDecls(text)
      BY <2>5 DEF ParseAlias, ParseVariants, FnDecls, GlobalDecls, Decls, Here
    <3> QED BY <1>0, <2>1, <3>1, OthersKeepFunctions, OthersKeepGlobals
  <2> QED BY <1>1, <2>2, <2>3, <2>4, <2>5 DEF ParseItem
<1>2. CASE ~ParseItem \/ Abort
  <2>1. UNCHANGED <<text, functions, globals, at>>
    BY <1>2 DEF Next, Abort, ReserveNames, TryAlias, EndRound, StartCycles, WalkCycles,
                ReportCycles, ParseBody, Fill, parseVars, vars
  <2> QED BY SMTT(20), <1>0, <2>1, OthersKeepFunctions, OthersKeepGlobals
<1> QED BY <1>1, <1>2

-----------------------------------------------------------------------------
(* Statements. *)

\* Usable, with what parse_type says of a type in place of what may be named.
Parses(s, f, Fs, Gs) ==
  IF s.op = "local" THEN Resolves([to |-> s.name, ptr |-> FALSE], f)
  ELSE IF Declares(text, Gs, s.name) # {} THEN s.op = "read" /\ MayUse(f, The(text, Gs, s.name))
  ELSE IF Declares(text, Fs, s.name) # {} THEN MayUse(f, The(text, Fs, s.name))
  ELSE s.op = "read"

AllParse(body, f, Fs, Gs) == \A k \in DOMAIN body : Parses(body[k], f, Fs, Gs)

LEMMA OneDeclares ==
  ASSUME NEW D, DistinctNames(text, D), NEW i \in D
  PROVE  Declares(text, D, text[i].name) # {} /\ The(text, D, text[i].name) = text[i]
<1>1. Declares(text, D, text[i].name) = {i}
  BY DEF DistinctNames, Declares
<1> QED BY <1>1 DEF The

\* With the tables as they are, a statement parses when it does by what has
\* been declared so far.
LEMMA StatementsAgree ==
  ASSUME FunctionsInv, GlobalsInv, ReservedInv, NEW s, NEW f, ~IsMangled(s.name)
  PROVE  StatementParses(s, f) <=> Parses(s, f, FnsBefore(at), GlobalsBefore(at))
<1> DEFINE n == s.name
           Fs == FnsBefore(at)
           Gs == GlobalsBefore(at)
<1>1. CASE s.op = "local"
  BY <1>1 DEF StatementParses, Parses
<1>2. CASE s.op # "local" /\ n \in DOMAIN globals
  <2>1. PICK i \in Gs : text[i].name = n
    BY <1>2 DEF GlobalsInv
  <2>2. Declares(text, Gs, n) # {} /\ The(text, Gs, n) = text[i]
    BY <2>1, OneDeclares DEF GlobalsInv
  <2>3. globals[n].file = text[i].file /\ globals[n].public = text[i].public
    BY <2>1 DEF GlobalsInv
  <2>4. NameVisible(globals[n], f) <=> MayUse(f, text[i])
    BY <2>3 DEF NameVisible, ImportVisible, SameModule, MayUse, Sees
  <2> HIDE DEF Fs, Gs
  <2> QED BY <1>2, <2>2, <2>4 DEF StatementParses, Parses, Gs
<1>3. CASE s.op # "local" /\ n \notin DOMAIN globals
  <2>1. Declares(text, Gs, n) = {}
    BY <1>3 DEF GlobalsInv, Declares
  <2>2. CASE n \in DOMAIN functions
    <3>1. ~IsMethodBefore(n, at)
      BY DEF IsMethodBefore, IsMangled
    <3>2. PICK i \in Fs : text[i].name = n
      BY <2>2, <3>1 DEF FunctionsInv
    <3>3. Declares(text, Fs, n) # {} /\ The(text, Fs, n) = text[i]
      BY <3>2, OneDeclares DEF FunctionsInv
    <3>4. functions[n].file = text[i].file /\ functions[n].public = text[i].public
      BY <3>2 DEF FunctionsInv
    <3>5. NameVisible(functions[n], f) <=> MayUse(f, text[i])
      BY <3>4 DEF NameVisible, ImportVisible, SameModule, MayUse, Sees
    <3> QED BY <1>3, <2>1, <2>2, <3>3, <3>5 DEF StatementParses, Parses
  <2>3. CASE n \notin DOMAIN functions
    <3>1. Declares(text, Fs, n) = {}
      BY <2>3 DEF FunctionsInv, Declares
    <3> QED BY <1>3, <2>1, <2>3, <3>1 DEF StatementParses, Parses
  <2> QED BY <2>2, <2>3
<1> QED BY <1>1, <1>2, <1>3

LEMMA ParsesStill ==
  ASSUME TablesInv, ReservedInv', Grow, UNCHANGED text,
         NEW body, NEW f, NEW Fs, NEW Gs, AllParse(body, f, Fs, Gs)
  PROVE  AllParse(body, f, Fs, Gs)'
<1> SUFFICES ASSUME NEW k \in DOMAIN body PROVE Parses(body[k], f, Fs, Gs)'
  BY DEF AllParse
<1>1. PICK s, r : s = body[k] /\ r = [to |-> s.name, ptr |-> FALSE]
  OBVIOUS
<1>2. Parses(s, f, Fs, Gs)
  BY <1>1 DEF AllParse
<1>3. Resolves(r, f) => Resolves(r, f)'
  BY StillResolves
<1>4. \A D, n : Declares(text, D, n)' = Declares(text, D, n) /\ The(text, D, n)' = The(text, D, n)
  BY DEF Declares, The
<1>5. \A d : MayUse(f, d)' <=> MayUse(f, d)
  BY DEF MayUse, Sees
<1>6. Parses(s, f, Fs, Gs)'
  BY <1>1, <1>2, <1>3, <1>4, <1>5 DEF Parses
<1> QED BY <1>1, <1>6

\* What parses may be used, and the other way when no alias is left over.
LEMMA ParsesAsUsable ==
  ASSUME NamesInv, NamesApart, phase # "names", NEW body, NEW f, NEW Fs, NEW Gs
  PROVE  /\ AllParse(body, f, Fs, Gs) => AllUsable(text, body, f, Fs, Gs)
         /\ AllInstalled /\ AllUsable(text, body, f, Fs, Gs) => AllParse(body, f, Fs, Gs)
<1>1. ASSUME NEW s
      PROVE  /\ Parses(s, f, Fs, Gs) => Usable(text, s, f, Fs, Gs)
             /\ AllInstalled /\ Usable(text, s, f, Fs, Gs) => Parses(s, f, Fs, Gs)
  <2>0. PICK r : r = [to |-> s.name, ptr |-> FALSE]
    OBVIOUS
  <2>1. r = [to |-> s.name, ptr |-> FALSE] /\ r.to = s.name
    BY <2>0
  <2>2. Resolves(r, f) => Nameable(text, r.to, f)
    BY ResolvesIsNameable
  <2>3. AllInstalled /\ Nameable(text, r.to, f) => Resolves(r, f)
    BY NameableResolves
  <2> QED BY <2>1, <2>2, <2>3 DEF Parses, Usable
<1> QED BY <1>1 DEF AllParse, AllUsable

-----------------------------------------------------------------------------
(* Bodies and initializers. *)

\* b is a body written in declaration i, which is of file f.
IsBody(i, f, b) ==
  /\ i \in DOMAIN text /\ f = text[i].file
  /\ \/ text[i].form = "fn" /\ b = text[i].body
     \/ /\ text[i].form = "type"
        /\ \E k \in DOMAIN text[i].methods : b = text[i].methods[k].body

LEMMA BodyUses ==
  ASSUME ReservedInv, NEW i, NEW f, NEW b, IsBody(i, f, b), NEW u \in DOMAIN b
  PROVE  ~IsMangled(b[u].name)
  BY MangledAssumption DEF ReservedInv, IsMangled, IsBody

LEMMA InitializerUses ==
  ASSUME ReservedInv, NEW i \in DOMAIN text, NEW u \in DOMAIN text[i].body
  PROVE  ~IsMangled(text[i].body[u].name)
  BY MangledAssumption DEF ReservedInv, IsMangled

InitializersInv ==
  \A i \in GlobalsBefore(at) :
    AllParse(text[i].body, text[i].file, FnsBefore(i), GlobalsBefore(i))

BodyParses(f, b) == AllParse(b, f, FnDecls(text), GlobalDecls(text))

BodiesInv ==
  /\ phase \in {"cycles", "pass2"} \/ result = "accepted" => at = Len(text) + 1
  /\ result = "accepted" => pending = <<>> /\ phase = "done"
  /\ \A j \in DOMAIN pending :
       \E i \in DOMAIN text : i < at /\ IsBody(i, pending[j].file, pending[j].body)
  /\ \A i \in DOMAIN text : \A f, b : i < at /\ IsBody(i, f, b) =>
       \/ \E j \in DOMAIN pending : pending[j].file = f /\ pending[j].body = b
       \/ phase \in {"pass2", "done"} /\ (errors = {} => BodyParses(f, b))

\* The program stays, and the verdict is given once.
LEMMA StepKeepsText ==
  ASSUME [Next]_vars
  PROVE  UNCHANGED text /\ (UNCHANGED result \/ result' \in {"accepted", "rejected"})
<1>1. CASE ParseItem
  BY <1>1 DEF ParseItem, ParseAlias, ParseType, ParseVariants, ParseFunction, ParseGlobal,
              Next1, Abort
<1>2. CASE \/ ReserveNames \/ TryAlias \/ EndRound \/ StartCycles \/ WalkCycles \/ ReportCycles
           \/ ParseBody \/ UNCHANGED vars
  BY <1>2 DEF ReserveNames, TryAlias, EndRound, StartCycles, WalkCycles, ReportCycles, ParseBody,
              parseVars, vars
<1>3. CASE Fill
  BY <1>3 DEF Fill
<1> QED BY <1>1, <1>2, <1>3 DEF Next

LEMMA InitializersStep ==
  ASSUME NamesInv, TablesInv', NoRedeclaration(text), FunctionsInv, GlobalsInv,
         InitializersInv, [Next]_vars
  PROVE  InitializersInv'
<1>0. ReservedInv /\ ReservedInv' /\ TablesInv
  BY DEF NamesInv, TablesInv
<1>1. UNCHANGED text
  BY StepKeepsText
<1>2. \A i : FnsBefore(i)' = FnsBefore(i) /\ GlobalsBefore(i)' = GlobalsBefore(i)
  BY <1>1 DEF FnsBefore, GlobalsBefore, Upto, FnDecls, GlobalDecls, Decls
<1>3. ASSUME Grow, NEW i, AllParse(text[i].body, text[i].file, FnsBefore(i), GlobalsBefore(i))
      PROVE  AllParse(text[i].body, text[i].file, FnsBefore(i), GlobalsBefore(i))'
  <2>1. PICK b, f, F, G : b = text[i].body /\ f = text[i].file /\ F = FnsBefore(i) /\ G = GlobalsBefore(i)
    OBVIOUS
  <2>2. AllParse(b, f, F, G)'
    BY <1>0, <1>1, <1>3, <2>1, ParsesStill
  <2>3. b = text'[i].body /\ f = text'[i].file /\ F = FnsBefore(i)' /\ G = GlobalsBefore(i)'
    BY <1>1, <1>2, <2>1
  <2> QED BY <2>2, <2>3 DEF AllParse, Parses
<1>4. CASE ParseItem /\ ~Abort
  <2>1. at \in DOMAIN text /\ at' = at + 1 /\ Grow
    BY <1>4, ItemStep DEF NamesInv, Next1, SameNames
  <2>2. PICK c : c = at
    OBVIOUS
  <2>3. \A i : i \in GlobalsBefore(at)' => i \in GlobalsBefore(at) \/ (i = c /\ c \in GlobalDecls(text))
    BY <1>0, <1>1, <2>1, <2>2, OneMoreBefore
  <2>4. ASSUME c \in GlobalDecls(text)
        PROVE  AllParse(text[c].body, text[c].file, FnsBefore(c), GlobalsBefore(c))
    <3>1. Here.form = "global"
      BY <2>2, <2>4 DEF GlobalDecls, Decls, Here
    <3>2. \A i \in DOMAIN Here.body : StatementParses(Here.body[i], Here.file)
      BY <1>4, <3>1 DEF ParseItem, ParseAlias, ParseType, ParseVariants, ParseFunction,
                        ParseGlobal, Nominal
    <3> SUFFICES ASSUME NEW u \in DOMAIN text[c].body
                 PROVE  Parses(text[c].body[u], text[c].file, FnsBefore(c), GlobalsBefore(c))
      BY DEF AllParse
    <3>3. StatementParses(text[c].body[u], text[c].file)
      BY <2>2, <3>2 DEF Here
    <3>4. ~IsMangled(text[c].body[u].name)
      BY <1>0, <2>1, <2>2, InitializerUses
    <3> QED BY <1>0, <2>2, <3>3, <3>4, StatementsAgree
  <2> QED BY <1>3, <2>1, <2>3, <2>4 DEF InitializersInv
<1>5. CASE ReserveNames \/ TryAlias \/ EndRound
  <2>1. at' = at /\ phase \in {"names", "aliases"}
    BY <1>5 DEF ReserveNames, TryAlias, EndRound
  <2>2. at = 1
    BY <2>1 DEF NamesInv, EntriesInv, TablesInv, ReservedInv
  <2>3. at' = 1
    BY <2>1, <2>2
  <2>4. GlobalsBefore(at)' = {}
    <3>1. GlobalsBefore(1) = {}
      <4>1. \A i \in DOMAIN text : i \in Nat /\ ~(i < 1)
        BY <1>0, Declared
      <4> QED BY <4>1 DEF GlobalsBefore, Upto, GlobalDecls, Decls
    <3>2. GlobalsBefore(at)' = GlobalsBefore(1)'
      BY <2>3 DEF GlobalsBefore
    <3> QED BY <1>2, <3>1, <3>2
  <2> QED BY <2>4 DEF InitializersInv
<1>6. CASE \/ ParseItem /\ Abort
           \/ StartCycles \/ WalkCycles \/ ReportCycles \/ ParseBody \/ Fill \/ UNCHANGED vars
  <2>1. UNCHANGED <<at, types>>
    <3>1. ASSUME ParseItem, Abort PROVE UNCHANGED <<at, types>>
      <4>1. UNCHANGED types
        <5>1. at' = at
          BY <3>1 DEF Abort
        <5>2. at \in Nat /\ ~Next1
          BY <1>0, <5>1 DEF ReservedInv, Next1
        <5> QED BY <3>1, <5>2, ItemStep DEF NamesInv
      <4> QED BY <3>1, <4>1 DEF Abort
    <3> QED BY <1>6, <3>1 DEF StartCycles, WalkCycles, ReportCycles, ParseBody, Fill, parseVars, vars
  <2>2. Grow
    BY <2>1, UnchangedNames DEF SameNames
  <2>3. GlobalsBefore(at)' = GlobalsBefore(at)
    BY <1>1, <2>1 DEF GlobalsBefore, Upto, GlobalDecls, Decls
  <2> QED BY <1>3, <2>2, <2>3 DEF InitializersInv
<1> QED BY <1>4, <1>5, <1>6 DEF Next

-----------------------------------------------------------------------------

LEMMA AddingBodies ==
  ASSUME ReservedInv, ReservedInv', FilledInv, BodiesInv, UNCHANGED <<text, phase, result>>,
         phase = "pass1", result = "none", at' = at + 1,
         NEW ps, IsSequence(ps), pending' = pending \o ps, NEW c, c = at, c \in DOMAIN text,
         \A j \in DOMAIN ps : IsBody(c, ps[j].file, ps[j].body),
         \A f, b : IsBody(c, f, b) => \E j \in DOMAIN ps : ps[j].file = f /\ ps[j].body = b
  PROVE  BodiesInv'
<1> DEFINE m == Len(pending)
           n == Len(ps)
<1>1. /\ m \in Nat /\ n \in Nat
      /\ DOMAIN pending = 1..m /\ DOMAIN ps = 1..n /\ DOMAIN pending' = (1..(m + n))
      /\ \A i \in 1..m : pending'[i] = pending[i]
      /\ \A i \in 1..n : pending'[m + i] = ps[i]
  BY Joined DEF FilledInv
<1> HIDE DEF m, n
<1>2. \A i, f, b : IsBody(i, f, b)' <=> IsBody(i, f, b)
  BY DEF IsBody
<1>3. \A i \in DOMAIN text : i < at' <=> i < at \/ i = c
  <2>1. \A i \in DOMAIN text : i \in Nat
    BY Declared
  <2> QED BY <2>1 DEF ReservedInv
<1>4. ASSUME NEW j \in DOMAIN pending'
      PROVE  \E i \in DOMAIN text : i < at' /\ IsBody(i, pending'[j].file, pending'[j].body)
  <2>1. CASE j <= m
    <3>1. j \in DOMAIN pending /\ pending'[j] = pending[j]
      BY <1>1, <2>1
    <3> QED BY <1>3, <3>1 DEF BodiesInv
  <2>2. CASE ~(j <= m)
    <3>1. j - m \in 1..n /\ m + (j - m) = j
      BY <1>1, <2>2
    <3>2. pending'[j] = ps[j - m]
      BY <1>1, <3>1
    <3>3. IsBody(c, pending'[j].file, pending'[j].body)
      BY <1>1, <3>1, <3>2
    <3> QED BY <1>3, <3>3
  <2> QED BY <2>1, <2>2
<1>5. ASSUME NEW i \in DOMAIN text, NEW f, NEW b, i < at', IsBody(i, f, b)
      PROVE  \E j \in DOMAIN pending' : pending'[j].file = f /\ pending'[j].body = b
  <2>1. CASE i < at
    <3>1. PICK j \in DOMAIN pending : pending[j].file = f /\ pending[j].body = b
      BY <1>5, <2>1 DEF BodiesInv
    <3>2. j \in DOMAIN pending' /\ pending'[j] = pending[j]
      BY <1>1
    <3> QED BY <3>1, <3>2
  <2>2. CASE i = c
    <3>1. PICK j \in DOMAIN ps : ps[j].file = f /\ ps[j].body = b
      BY <1>5, <2>2
    <3>2. j \in 1..n
      BY <1>1, <3>1
    <3>3. pending'[m + j] = ps[j]
      BY <1>1, <3>2
    <3>4. m + j \in 1..(m + n)
      BY <1>1, <3>2
    <3>5. m + j \in DOMAIN pending'
      BY <1>1, <3>4
    <3> QED BY <3>1, <3>3, <3>5
  <2> QED BY <1>3, <1>5, <2>1, <2>2
<1>6. phase' = "pass1" /\ result' = "none"
  OBVIOUS
<1>8. \A i \in DOMAIN text' : \A f, b : i < at' /\ IsBody(i, f, b)' =>
        \E j \in DOMAIN pending' : pending'[j].file = f /\ pending'[j].body = b
  BY <1>2, <1>5
<1>9. \A j \in DOMAIN pending' :
        \E i \in DOMAIN text' : i < at' /\ (IsBody(i, pending[j].file, pending[j].body))'
  BY <1>4 DEF IsBody
<1>10. \A i \in DOMAIN text' : \A f, b : i < at' /\ (IsBody(i, f, b))' =>
        \E j \in DOMAIN pending' : pending'[j].file = f /\ pending'[j].body = b
  BY <1>8
<1> QED BY <1>6, <1>9, <1>10 DEF BodiesInv

LEMMA FunctionBody ==
  ASSUME NamesInv, TablesInv', FilledInv, BodiesInv, ParseFunction, phase = "pass1",
         at \in DOMAIN text, ~Abort, Next1
  PROVE  BodiesInv'
<1> DEFINE e == Deferred(Here, <<at, 0>>)
<1>1. /\ UNCHANGED <<text, phase, result>> /\ at' = at + 1 /\ result = "none"
      /\ ReservedInv /\ ReservedInv'
  BY DEF Next1, NamesInv, ShapeInv, TablesInv
<1>2. PICK c : c = at
  OBVIOUS
<1>3. text[c] = Here /\ Here.form \in {"fn", "extern", "asm"}
  BY <1>2 DEF ParseFunction, Here
<1>4. CASE Here.form = "fn"
  <2>1. PICK p : p = e
    OBVIOUS
  <2>2. p.file = Here.file /\ p.body = Here.body
    BY <2>1 DEF Deferred
  <2>3. pending' = Append(pending, p)
    BY <1>4, <2>1 DEF ParseFunction
  <2>4. pending' = pending \o <<p>>
    BY <2>3, OneMore DEF FilledInv
  <2>5. IsSequence(<<p>>)
    <3>1. <<p>> \in Seq({p})
      OBVIOUS
    <3> QED BY <3>1 DEF IsSequence
  <2>60. PICK ps : ps = <<p>>
    OBVIOUS
  <2>6. DOMAIN ps = {1} /\ ps[1] = p /\ pending' = pending \o ps /\ IsSequence(ps)
    BY <2>4, <2>5, <2>60
  <2>7. \A f, b : IsBody(c, f, b) <=> f = p.file /\ b = p.body
    BY <1>2, <1>3, <1>4, <2>2 DEF IsBody
  <2>8. \A j \in DOMAIN ps : IsBody(c, ps[j].file, ps[j].body)
    BY <2>6, <2>7
  <2>9. \A f, b : IsBody(c, f, b) => \E j \in DOMAIN ps : ps[j].file = f /\ ps[j].body = b
    BY <2>6, <2>7
  <2> QED BY <1>1, <1>2, <2>6, <2>8, <2>9, AddingBodies
<1>5. CASE Here.form # "fn"
  <2>1. pending' = pending
    BY <1>5 DEF ParseFunction
  <2>2. PICK ps : ps = <<>>
    OBVIOUS
  <2>3. pending' = pending \o ps
    BY <2>1, <2>2, OneMore DEF FilledInv
  <2>4. IsSequence(ps) /\ DOMAIN ps = {}
    <3>1. ps \in Seq({}) /\ DOMAIN ps = {}
      BY <2>2
    <3> QED BY <3>1 DEF IsSequence
  <2>5. \A f, b : ~IsBody(c, f, b)
    BY <1>3, <1>5 DEF IsBody
  <2> QED BY <1>1, <1>2, <2>3, <2>4, <2>5, AddingBodies
<1> QED BY <1>4, <1>5

LEMMA MethodBodies ==
  ASSUME NamesInv, TablesInv', FilledInv, BodiesInv, ParseType, phase = "pass1",
         at \in DOMAIN text, ~Abort, Next1
  PROVE  BodiesInv'
<1>1. /\ UNCHANGED <<text, phase, result>> /\ at' = at + 1 /\ result = "none"
      /\ ReservedInv /\ ReservedInv'
  BY DEF Next1, NamesInv, ShapeInv, TablesInv
<1>2. PICK c, d : c = at /\ d = Here
  OBVIOUS
<1>3. text[c] = d /\ d.form = "type"
  BY <1>2 DEF ParseType, Here
<1>4. PICK n \in Nat : n = Len(d.methods) /\ DOMAIN d.methods = 1..n
  BY <1>1, <1>2, HereIsADeclaration
<1>5. PICK ms : ms = Methods(d)
  OBVIOUS
<1>6. DOMAIN ms = 1..n /\ \A k \in 1..n : ms[k].file = d.file /\ ms[k].body = d.methods[k].body
  BY <1>4, <1>5 DEF Methods, Lowered
<1>7. PICK ps : ps = [k \in DOMAIN ms |-> Deferred(ms[k], <<c, k>>)]
  OBVIOUS
<1>8. pending' = pending \o ps
  BY <1>2, <1>5, <1>7 DEF ParseType
<1>9. /\ ps = [k \in 1..n |-> ps[k]] /\ DOMAIN ps = 1..n
      /\ \A k \in 1..n : ps[k].file = d.file /\ ps[k].body = d.methods[k].body
  BY <1>6, <1>7 DEF Deferred
<1>10. IsSequence(ps)
  BY <1>9, ListIsSequence
<1>11. \A j \in DOMAIN ps : IsBody(c, ps[j].file, ps[j].body)
  BY <1>2, <1>3, <1>4, <1>9 DEF IsBody
<1>12. \A f, b : IsBody(c, f, b) => \E j \in DOMAIN ps : ps[j].file = f /\ ps[j].body = b
  <2> SUFFICES ASSUME NEW f, NEW b, IsBody(c, f, b)
               PROVE  \E j \in DOMAIN ps : ps[j].file = f /\ ps[j].body = b
    OBVIOUS
  <2>1. f = d.file /\ \E k \in DOMAIN d.methods : b = d.methods[k].body
    BY <1>3 DEF IsBody
  <2> QED BY <1>4, <1>9, <2>1
<1> QED BY <1>1, <1>2, <1>8, <1>10, <1>11, <1>12, AddingBodies

\* A declaration without bodies is passed.
LEMMA NoBodies ==
  ASSUME NamesInv, TablesInv', FilledInv, BodiesInv, UNCHANGED pending, phase = "pass1",
         at \in DOMAIN text, Here.form \notin {"fn", "type"}, Next1
  PROVE  BodiesInv'
<1>1. /\ UNCHANGED <<text, phase, result>> /\ at' = at + 1 /\ result = "none"
      /\ ReservedInv /\ ReservedInv'
  BY DEF Next1, NamesInv, ShapeInv, TablesInv
<1>2. PICK c : c = at
  OBVIOUS
<1>3. PICK ps : ps = <<>>
  OBVIOUS
<1>4. pending' = pending \o ps
  BY <1>3, OneMore DEF FilledInv
<1>5. IsSequence(ps) /\ DOMAIN ps = {}
  <2>1. ps \in Seq({}) /\ DOMAIN ps = {}
    BY <1>3
  <2> QED BY <2>1 DEF IsSequence
<1>6. \A f, b : ~IsBody(c, f, b)
  BY <1>2 DEF IsBody, Here
<1> QED BY <1>1, <1>2, <1>4, <1>5, <1>6, AddingBodies

LEMMA BodyParsesStill ==
  ASSUME TablesInv, ReservedInv', Grow, UNCHANGED text, NEW f, NEW b, BodyParses(f, b)
  PROVE  BodyParses(f, b)'
<1>1. PICK Fs, Gs : Fs = FnDecls(text) /\ Gs = GlobalDecls(text)
  OBVIOUS
<1>2. AllParse(b, f, Fs, Gs)'
  BY <1>1, ParsesStill DEF BodyParses
<1>3. Fs = FnDecls(text)' /\ Gs = GlobalDecls(text)'
  BY <1>1 DEF FnDecls, GlobalDecls, Decls
<1> QED BY <1>2, <1>3 DEF BodyParses, AllParse, Parses

\* Steps that set no body aside and parse none.
LEMMA OthersKeepBodies ==
  ASSUME TablesInv, TablesInv', BodiesInv, UNCHANGED <<text, at, pending>>,
         phase \in {"pass2", "done"} => Grow /\ phase' \in {"pass2", "done"},
         errors \subseteq errors',
         phase' \in {"cycles", "pass2"} \/ result' = "accepted" => at = Len(text) + 1,
         result' = "accepted" => pending = <<>> /\ phase' = "done"
  PROVE  BodiesInv'
<1>1. \A i, f, b : IsBody(i, f, b)' <=> IsBody(i, f, b)
  BY DEF IsBody
<1>2. \A j \in DOMAIN pending' :
        \E i \in DOMAIN text' : i < at' /\ (IsBody(i, pending[j].file, pending[j].body))'
  BY DEF BodiesInv, IsBody
<1>3. ASSUME NEW i \in DOMAIN text, NEW f, NEW b, i < at, IsBody(i, f, b),
             ~\E j \in DOMAIN pending : pending[j].file = f /\ pending[j].body = b
      PROVE  phase' \in {"pass2", "done"} /\ (errors' = {} => BodyParses(f, b)')
  <2>1. phase \in {"pass2", "done"} /\ (errors = {} => BodyParses(f, b))
    BY <1>3 DEF BodiesInv
  <2>2. phase' \in {"pass2", "done"} /\ Grow
    BY <2>1
  <2>3. BodyParses(f, b) => BodyParses(f, b)'
    BY <2>2, BodyParsesStill DEF TablesInv
  <2>4. errors' = {} => errors = {}
    OBVIOUS
  <2> QED BY <2>1, <2>2, <2>3, <2>4
<1>4. \A i \in DOMAIN text' : \A f, b : i < at' /\ IsBody(i, f, b)' =>
        \/ \E j \in DOMAIN pending' : pending'[j].file = f /\ pending'[j].body = b
        \/ phase' \in {"pass2", "done"} /\ (errors' = {} => BodyParses(f, b)')
  BY <1>1, <1>3
<1>5. /\ phase' \in {"cycles", "pass2"} \/ result' = "accepted" => at' = Len(text') + 1
      /\ result' = "accepted" => pending' = <<>> /\ phase' = "done"
  OBVIOUS
<1> QED BY <1>2, <1>4, <1>5 DEF BodiesInv

LEMMA AllBefore ==
  ASSUME ReservedInv, at = Len(text) + 1
  PROVE  FnsBefore(at) = FnDecls(text) /\ GlobalsBefore(at) = GlobalDecls(text)
<1>1. \A i \in DOMAIN text : i < at
  BY Declared
<1> QED BY <1>1 DEF FnsBefore, GlobalsBefore, Upto, FnDecls, GlobalDecls, Decls

\* A body is parsed.
LEMMA ParsingKeepsBodies ==
  ASSUME NamesInv, TablesInv', FilledInv, FunctionsInv, GlobalsInv, BodiesInv, ParseBody
  PROVE  BodiesInv'
<1>1. /\ ReservedInv /\ ReservedInv' /\ TablesInv /\ Grow /\ UNCHANGED <<text, at, phase, result>>
      /\ phase = "pass2" /\ result # "accepted" /\ at = Len(text) + 1
  BY UnchangedNames DEF ParseBody, NamesInv, TablesInv, SameNames, ShapeInv, BodiesInv
<1>2. PICK p : p = Head(pending)
  OBVIOUS
<1> DEFINE m == Len(pending)
<1>3. /\ m \in Nat \ {0} /\ DOMAIN pending = 1..m /\ p = pending[1]
      /\ DOMAIN pending' = 1..(m - 1) /\ \A j \in 1..(m - 1) : pending'[j] = pending[j + 1]
  <2>1. PICK S : pending \in Seq(S)
    BY DEF FilledInv, IsSequence
  <2>2. pending # <<>> /\ pending' = Tail(pending)
    BY DEF ParseBody
  <2> QED BY <1>2, <2>1, <2>2
<1> HIDE DEF m
<1>4. errors' = IF \A i \in DOMAIN p.body : StatementParses(p.body[i], p.file)
                THEN errors ELSE errors \cup {p.site[1]}
  BY <1>2 DEF ParseBody
<1>5. \A i, f, b : IsBody(i, f, b)' <=> IsBody(i, f, b)
  BY <1>1 DEF IsBody
<1>6. \A j \in DOMAIN pending' :
        \E i \in DOMAIN text' : i < at' /\ IsBody(i, pending[j + 1].file, pending[j + 1].body)
  BY <1>1, <1>3 DEF BodiesInv
<1>7. \A j \in DOMAIN pending' :
        \E i \in DOMAIN text' : i < at' /\ (IsBody(i, pending[j].file, pending[j].body))'
  BY <1>1, <1>3, <1>6 DEF IsBody
<1>8. ASSUME NEW i \in DOMAIN text, NEW f, NEW b, i < at, IsBody(i, f, b),
             ~\E j \in DOMAIN pending' : pending'[j].file = f /\ pending'[j].body = b,
             errors' = {}
      PROVE  BodyParses(f, b)
  <2>1. errors = {} /\ \A u \in DOMAIN p.body : StatementParses(p.body[u], p.file)
    BY <1>4, <1>8
  <2>2. CASE \E j \in DOMAIN pending : pending[j].file = f /\ pending[j].body = b
    <3>1. PICK j \in DOMAIN pending : pending[j].file = f /\ pending[j].body = b
      BY <2>2
    <3>2. j = 1
      <4> SUFFICES ASSUME j # 1 PROVE FALSE
        OBVIOUS
      <4>1. j - 1 \in 1..(m - 1) /\ (j - 1) + 1 = j
        BY <1>3
      <4>2. pending'[j - 1] = pending[j]
        BY <1>3, <4>1
      <4> QED BY <1>3, <1>8, <3>1, <4>1, <4>2
    <3>3. p.file = f /\ p.body = b
      BY <1>3, <3>1, <3>2
    <3>4. ASSUME NEW u \in DOMAIN b
          PROVE  Parses(b[u], f, FnDecls(text), GlobalDecls(text))
      <4>1. StatementParses(b[u], f)
        BY <2>1, <3>3
      <4>2. ~IsMangled(b[u].name)
        BY <1>1, <1>8, BodyUses
      <4>3. Parses(b[u], f, FnsBefore(at), GlobalsBefore(at))
        BY <1>1, <4>1, <4>2, StatementsAgree
      <4> QED BY <1>1, <4>3, AllBefore
    <3> QED BY <3>4 DEF BodyParses, AllParse
  <2>3. CASE ~\E j \in DOMAIN pending : pending[j].file = f /\ pending[j].body = b
    BY <1>8, <2>1, <2>3 DEF BodiesInv
  <2> QED BY <2>2, <2>3
<1>9. \A f, b : BodyParses(f, b) => BodyParses(f, b)'
  BY <1>1, BodyParsesStill
<1>10. \A i \in DOMAIN text' : \A f, b : i < at' /\ IsBody(i, f, b)' =>
        \/ \E j \in DOMAIN pending' : pending'[j].file = f /\ pending'[j].body = b
        \/ phase' \in {"pass2", "done"} /\ (errors' = {} => BodyParses(f, b)')
  BY <1>1, <1>5, <1>8, <1>9
<1>11. at' = Len(text') + 1 /\ result' # "accepted"
  BY <1>1
<1> QED BY <1>7, <1>10, <1>11 DEF BodiesInv

LEMMA BodiesStep ==
  ASSUME NamesInv, TablesInv', LayoutInv, FilledInv, FunctionsInv, GlobalsInv, BodiesInv,
         [Next]_vars
  PROVE  BodiesInv'
<1>0. TablesInv /\ ReservedInv
  BY DEF NamesInv, TablesInv
<1>1. CASE ParseItem /\ ~Abort
  <2>1. at \in DOMAIN text /\ Next1 /\ phase = "pass1"
    BY <1>1, ItemStep DEF NamesInv
  <2>2. CASE ParseFunction
    BY <1>1, <2>1, <2>2, FunctionBody
  <2>3. CASE ParseType
    BY <1>1, <2>1, <2>3, MethodBodies
  <2>4. CASE ParseGlobal \/ ParseAlias \/ ParseVariants
    <3>1. UNCHANGED pending /\ Here.form \notin {"fn", "type"}
      BY <2>4 DEF ParseGlobal, ParseAlias, ParseVariants
    <3> QED BY <2>1, <3>1, NoBodies
  <2> QED BY <1>1, <2>2, <2>3, <2>4 DEF ParseItem
<1>2. CASE ParseItem /\ Abort
  <2>1. phase = "pass1"
    BY <1>2 DEF ParseItem
  <2>2. /\ UNCHANGED <<text, at, pending>> /\ errors \subseteq errors'
        /\ phase' = "done" /\ result' = "rejected"
    BY <1>2 DEF Abort
  <2> QED BY <1>0, <2>1, <2>2, OthersKeepBodies
<1>3. CASE ReserveNames \/ TryAlias \/ EndRound
  <2>1. /\ UNCHANGED <<text, at, pending, errors, result>>
        /\ phase \in {"names", "aliases"} /\ phase' \in {"aliases", "pass1"}
    BY <1>3 DEF ReserveNames, TryAlias, EndRound
  <2>2. result = "none"
    BY <2>1 DEF NamesInv, ShapeInv
  <2> QED BY <1>0, <2>1, <2>2, OthersKeepBodies
<1>4. CASE StartCycles
  <2>1. /\ UNCHANGED <<text, at, pending, errors, result>>
        /\ phase = "pass1" /\ phase' = "cycles" /\ at \notin DOMAIN text
    BY <1>4 DEF StartCycles
  <2>2. result = "none" /\ at \in 1..(Len(text) + 1)
    BY <2>1 DEF NamesInv, ShapeInv
  <2>3. at = Len(text) + 1
    BY <1>0, <2>1, <2>2, Declared
  <2> QED BY <1>0, <2>1, <2>2, <2>3, OthersKeepBodies
<1>5. CASE WalkCycles \/ ReportCycles \/ UNCHANGED vars
  <2>1. /\ UNCHANGED <<text, at, types, pending, result>> /\ errors \subseteq errors'
        /\ UNCHANGED phase \/ (phase = "cycles" /\ phase' = "pass2")
    BY <1>5 DEF WalkCycles, ReportCycles, parseVars, vars
  <2>2. result = "accepted" => phase = "done"
    BY DEF BodiesInv
  <2>3. Grow
    BY <2>1, UnchangedNames DEF SameNames
  <2> QED BY <1>0, <2>1, <2>2, <2>3, OthersKeepBodies DEF BodiesInv
<1>6. CASE ParseBody
  BY <1>6, ParsingKeepsBodies
<1>7. CASE Fill
  <2>1. /\ UNCHANGED <<text, at, types, pending, errors>> /\ pending = <<>>
        /\ phase = "pass2" /\ phase' = "done"
    BY <1>7 DEF Fill
  <2>2. Grow
    BY <2>1, UnchangedNames DEF SameNames
  <2> QED BY <1>0, <2>1, <2>2, OthersKeepBodies DEF BodiesInv
<1> QED BY <1>1, <1>2, <1>3, <1>4, <1>5, <1>6, <1>7 DEF Next

\* At the start nothing has been passed.
LEMMA PassedStart ==
  ASSUME Init PROVE FunctionsInv /\ GlobalsInv /\ InitializersInv /\ BodiesInv
<1>1. ReservedInv /\ at = 1
  BY TablesStart DEF TablesInv, Init
<1>2. FnsBefore(at) = {} /\ GlobalsBefore(at) = {}
  BY <1>1, NoneBefore
<1>3. functions = <<>> /\ globals = <<>> /\ pending = <<>> /\ phase = "names" /\ result = "none"
  BY DEF Init
<1>4. DOMAIN functions = {} /\ DOMAIN globals = {} /\ DOMAIN pending = {}
  BY <1>3
<1>5. FunctionsInv /\ GlobalsInv
  BY <1>2, <1>4 DEF FunctionsInv, GlobalsInv, DistinctNames
<1>6. InitializersInv
  BY <1>2 DEF InitializersInv
<1>7. \A i \in DOMAIN text : ~(i < at)
  BY <1>1, Declared
<1> QED BY <1>3, <1>4, <1>5, <1>6, <1>7 DEF BodiesInv

-----------------------------------------------------------------------------
(* Layouts: what the tables store by value is what the reading says. *)

\* The end of the tokens has been reached.
AllPassed == phase \notin {"names", "aliases"} /\ at = Len(text) + 1

LayoutNames == {text[i].name : i \in Decls(text, {"type", "sum"})}

LEMMA PassedHeads ==
  ASSUME ReservedInv, HeadsInv, AllPassed, NEW i \in DOMAIN text
  PROVE  HeadPassed(i)
<1>1. i < at
  BY Declared DEF AllPassed
<1> QED BY <1>1 DEF HeadsInv, AllPassed

LEMMA LayoutEntries ==
  ASSUME NamesInv, NamesApart, phase # "names", NEW u
  PROVE  u \in LayoutNames <=> u \in DOMAIN types /\ types[u].kind \in {"type", "sum"}
<1>0. ReservedInv
  BY DEF NamesInv, TablesInv
<1>1. ASSUME u \in LayoutNames
      PROVE  u \in DOMAIN types /\ types[u].kind \in {"type", "sum"}
  <2>1. PICK i \in DOMAIN text : text[i].form \in {"type", "sum"} /\ u = text[i].name
    BY <1>1 DEF LayoutNames, Decls
  <2>2. i \in TypeDecls(text) /\ text[i].form \in Nominal
    BY <2>1 DEF TypeDecls, Decls, Nominal
  <2>3. Reserves(i, u)
    BY <1>0, <2>1, <2>2, OneOfTheName
  <2> QED BY <2>1, <2>3 DEF NamesInv, EntriesInv
<1>2. ASSUME u \in DOMAIN types, types[u].kind \in {"type", "sum"}
      PROVE  u \in LayoutNames
  <2>1. PICK i \in TypeDecls(text) : text[i].name = u /\ types[u].kind = text[i].form
    BY <1>2, WhoDeclared
  <2> QED BY <1>2, <2>1 DEF LayoutNames, TypeDecls, Decls
<1> QED BY <1>1, <1>2

LEMMA PartsAreStored ==
  ASSUME NamesInv, HeadsInv, NamesApart, AllPassed,
         NEW t \in LayoutNames, NEW u \in LayoutNames
  PROVE  u \in Parts(t) <=> u \in Stores(text, t)
<1>0. ReservedInv /\ phase # "names"
  BY DEF NamesInv, TablesInv, AllPassed
<1>1. PICK i \in DOMAIN text : text[i].form \in {"type", "sum"} /\ t = text[i].name
  BY DEF LayoutNames, Decls
<1>2. i \in TypeDecls(text) /\ text[i].form \in Nominal
  BY <1>1 DEF TypeDecls, Decls, Nominal
<1>3. The(text, TypeDecls(text), t) = text[i]
  BY <1>0, <1>1, <1>2, OneOfTheName
<1>4. /\ t \in DOMAIN types /\ types[t].kind \in {"type", "sum"}
      /\ u \in DOMAIN types /\ types[u].kind \in {"type", "sum"}
  BY <1>0, LayoutEntries
<1>5. PICK refs : refs = text[i].refs
  OBVIOUS
<1>6. types[t].parts = Meanings(refs) /\ AllResolve(refs, text[i].file)
  BY <1>0, <1>1, <1>2, <1>5, PassedHeads DEF HeadPassed
<1>7. ASSUME NEW k \in DOMAIN refs
      PROVE  /\ types[t].parts[k].base = StandsFor(text, refs[k].to).base
             /\ types[t].parts[k].ptr <=> refs[k].ptr \/ StandsFor(text, refs[k].to).ptr
  <2>1. PICK r : r = refs[k]
    OBVIOUS
  <2>2. r.ptr \in BOOLEAN /\ Resolves(r, text[i].file) /\ types[t].parts[k] = Meaning(r)
    BY <1>0, <1>5, <1>6, <2>1, RefsOf DEF AllResolve, Meanings
  <2>3. r.to \in Builtins \/ Registered(r.to)
    BY <2>2, ResolvedIsKnown
  <2> QED BY <1>0, <2>1, <2>2, <2>3, MeansWhatItStandsFor
<1>8. u \in Parts(t) <=> \E k \in DOMAIN refs : ~types[t].parts[k].ptr /\ types[t].parts[k].base = u
  <2>1. DOMAIN types[t].parts = DOMAIN refs
    BY <1>6 DEF Meanings
  <2> QED BY <1>4, <2>1 DEF Parts, Registered
<1>9. u \in Stores(text, t) <=>
        \E k \in DOMAIN refs : /\ ~refs[k].ptr /\ ~StandsFor(text, refs[k].to).ptr
                               /\ StandsFor(text, refs[k].to).base = u
  <2>1. Stores(text, t) = {StandsFor(text, r.to).base :
                             r \in {q \in Range(refs) : ~q.ptr /\ ~StandsFor(text, q.to).ptr}}
    BY <1>1, <1>3, <1>5 DEF Stores
  <2> QED BY <2>1 DEF Range
<1> QED BY <1>7, <1>8, <1>9

\* Of a type that stores itself there are others, or itself, that all store one
\* of them.
LEMMA EndlessLayout ==
  ASSUME CycTypeOK, NEW t \in Types, StoresItself(t)
  PROVE  \E C \in SUBSET Types : C # {} /\ \A u \in C : contains[u] \cap C # {}
<1> DEFINE Closed(S) == \A u \in S : contains[u] \subseteq S
           U == {w \in Types : \E S \in SUBSET Types : Closed(S) /\ w \in S /\ t \notin S}
           C == {u \in Types : ~(contains[u] \subseteq U)}
<1>1. U \in SUBSET Types /\ Closed(U) /\ t \notin U
  <2>1. ASSUME NEW u \in U, NEW v \in contains[u] PROVE v \in U
    <3>1. PICK S \in SUBSET Types : Closed(S) /\ u \in S /\ t \notin S
      OBVIOUS
    <3>2. v \in S
      BY <3>1
    <3> QED BY <3>1, <3>2
  <2> QED BY <2>1
<1>2. t \in C
  <2>1. contains[t] \subseteq U => t \in U
    BY <1>1 DEF StoresItself
  <2> QED BY <1>1, <2>1
<1>3. ASSUME NEW u \in C PROVE contains[u] \cap C # {}
  <2>1. PICK v \in contains[u] : v \notin U
    OBVIOUS
  <2>2. v \in Types
    BY DEF CycTypeOK
  <2>3. v \in C
    <3> SUFFICES ASSUME v \notin C PROVE FALSE
      OBVIOUS
    <3>1. contains[v] \subseteq U /\ v # t
      BY <1>2, <2>2
    <3> DEFINE V == U \cup {v}
    <3>2. V \in SUBSET Types /\ Closed(V) /\ v \in V /\ t \notin V
      BY <1>1, <2>2, <3>1
    <3> QED BY <2>1, <2>2, <3>2
  <2> QED BY <2>3
<1>4. C \in SUBSET Types /\ C # {}
  BY <1>2
<1> HIDE DEF C
<1> QED BY <1>3, <1>4

\* Where layouts are finite, the walk reports nothing.
LEMMA NothingToReport ==
  ASSUME NamesInv, HeadsInv, NamesApart, AllPassed, LayoutInv, FiniteLayouts(text),
         phase = "cycles"
  PROVE  cyclic = {}
<1> SUFFICES ASSUME NEW t \in cyclic PROVE FALSE
  OBVIOUS
<1>1. CycTypeOK /\ StoresItself(t) /\ t \in Types
  BY DEF LayoutInv, CycInv, CycTypeOK, OnlyCyclesReported
<1>2. PICK C \in SUBSET Types : C # {} /\ \A u \in C : contains[u] \cap C # {}
  BY <1>1, EndlessLayout
<1>3. \A u \in C : contains[u] = Parts(u)
  BY <1>2 DEF LayoutInv
<1>4. C \subseteq LayoutNames
  <2> SUFFICES ASSUME NEW u \in C PROVE u \in LayoutNames
    OBVIOUS
  <2>1. Parts(u) # {}
    BY <1>2, <1>3
  <2>2. u \in DOMAIN types /\ types[u].kind \in {"type", "sum"}
    BY <2>1 DEF Parts, Registered
  <2> QED BY <2>2, LayoutEntries DEF AllPassed
<1>5. PICK n \in C : Stores(text, n) \cap C = {}
  BY <1>2, <1>4 DEF FiniteLayouts, LayoutNames
<1>6. PICK u : u \in Parts(n) /\ u \in C
  BY <1>2, <1>3
<1>7. u \in Stores(text, n)
  BY <1>4, <1>6, PartsAreStored
<1> QED BY <1>5, <1>6, <1>7

\* Where the walk has found nothing, layouts are finite.
LEMMA EndingIsFinite ==
  ASSUME NamesInv, HeadsInv, NamesApart, AllPassed, LayoutInv, result = "accepted"
  PROVE  FiniteLayouts(text)
<1> SUFFICES ASSUME NEW S \in SUBSET LayoutNames, S # {}
             PROVE  \E n \in S : Stores(text, n) \cap S = {}
  BY DEF FiniteLayouts, LayoutNames
<1>1. S \in SUBSET Types
  BY LayoutEntries DEF NamesInv, TablesInv, ReservedInv, AllPassed
<1>2. Walked /\ cyclic = {} /\ NoCycleEscapes
  BY FirstBlackIsGround DEF LayoutInv
<1>3. PICK n \in S : contains[n] \cap S = {}
  BY <1>1, <1>2 DEF NoCycleEscapes, Grounded
<1>4. contains[n] = Parts(n)
  BY <1>1 DEF LayoutInv
<1>5. \A u \in S : u \in Stores(text, n) => u \in Parts(n)
  BY PartsAreStored
<1> QED BY <1>3, <1>4, <1>5

-----------------------------------------------------------------------------
(* Completeness: what is well formed is not rejected. *)

LEMMA TypesAreClaimable ==
  ASSUME NamesInv, NamesApart, phase = "pass1", at \in DOMAIN text, Here.form \in Nominal
  PROVE  Claimable(Here)
<1>0. ReservedInv
  BY DEF NamesInv, TablesInv
<1>1. at \in TypeDecls(text) /\ at \in Nat
  BY <1>0, Declared DEF TypeDecls, Decls, Here
<1>2. PICK i, t : i = at /\ t = text[i].name
  OBVIOUS
<1>3. Reserves(i, t)
  BY <1>0, <1>1, <1>2, OneOfTheName DEF Here
<1>4. /\ t \in DOMAIN types /\ types[t].kind = text[i].form
      /\ types[t].defined => i < at
  BY <1>3 DEF NamesInv, EntriesInv
<1>5. ~types[t].defined
  BY <1>1, <1>2, <1>4
<1> QED BY <1>2, <1>4, <1>5 DEF Claimable, Here

LEMMA NameableAllResolve ==
  ASSUME NamesInv, NamesApart, AllInstalled, NEW refs, NEW f, AllNameable(text, refs, f)
  PROVE  AllResolve(refs, f)
<1> SUFFICES ASSUME NEW k \in DOMAIN refs PROVE Resolves(refs[k], f)
  BY DEF AllResolve
<1>1. PICK r : r = refs[k]
  OBVIOUS
<1>2. Nameable(text, r.to, f)
  BY <1>1 DEF AllNameable
<1>3. Resolves(r, f)
  BY <1>2, NameableResolves
<1> QED BY <1>1, <1>3

\* No function of this name has been passed.
LEMMA NewFunction ==
  ASSUME NamesInv, FunctionsInv, WellFormed(text), at \in FnDecls(text)
  PROVE  Here.name \notin DOMAIN functions
<1>0. ReservedInv /\ at \in Nat /\ at \in DOMAIN text
  BY DEF NamesInv, TablesInv, ReservedInv, FnDecls, Decls
<1> SUFFICES ASSUME Here.name \in DOMAIN functions PROVE FALSE
  OBVIOUS
<1>1. CASE \E i \in FnsBefore(at) : text[i].name = Here.name
  <2>1. PICK i \in FnDecls(text) : i < at /\ text[i].name = Here.name
    BY <1>1 DEF FnsBefore, Upto
  <2>2. i = at
    BY <2>1 DEF WellFormed, DistinctNames, Here
  <2> QED BY <1>0, <2>1, <2>2
<1>2. CASE IsMethodBefore(Here.name, at)
  <2>1. IsMangled(Here.name)
    BY <1>2 DEF IsMethodBefore, IsMangled
  <2> QED BY <1>0, <2>1, MangledApart DEF Here
<1> QED BY <1>1, <1>2 DEF FunctionsInv

LEMMA NewMethod ==
  ASSUME NamesInv, FunctionsInv, WellFormed(text), at \in DOMAIN text, Here.form = "type",
         NEW k \in DOMAIN Here.methods
  PROVE  Mangled(Here.name, Here.methods[k].name) \notin DOMAIN functions
<1>0. ReservedInv /\ at \in Nat
  BY DEF NamesInv, TablesInv, ReservedInv
<1>1. PICK c, n : c = at /\ n = Mangled(text[c].name, text[c].methods[k].name)
  OBVIOUS
<1> SUFFICES ASSUME n \in DOMAIN functions PROVE FALSE
  BY <1>1 DEF Here
<1>2. IsMangled(n)
  BY <1>1 DEF IsMangled, Here
<1>3. CASE \E i \in FnsBefore(at) : text[i].name = n
  BY <1>0, <1>2, <1>3, MangledApart DEF FnsBefore, Upto, FnDecls, Decls
<1>4. CASE IsMethodBefore(n, at)
  <2>1. PICK i \in DOMAIN text :
          /\ i < at /\ text[i].form = "type"
          /\ \E l \in DOMAIN text[i].methods : n = Mangled(text[i].name, text[i].methods[l].name)
    BY <1>4 DEF IsMethodBefore
  <2>2. text[c].name = text[i].name
    <3>1. PICK l \in DOMAIN text[i].methods : n = Mangled(text[i].name, text[i].methods[l].name)
      BY <2>1
    <3>2. text \in Texts /\ c \in DOMAIN text /\ k \in DOMAIN text[c].methods
      BY <1>0, <1>1 DEF ReservedInv, Here
    <3>3. Mangled(text[c].name, text[c].methods[k].name) = Mangled(text[i].name, text[i].methods[l].name)
      BY <1>1, <3>1
    <3> QED BY <2>1, <3>1, <3>2, <3>3, MangledAssumption
  <2>3. i \in TypeDecls(text) /\ c \in TypeDecls(text)
    BY <1>1, <2>1 DEF TypeDecls, Decls, Nominal, Here
  <2>4. i = c
    BY <2>2, <2>3 DEF WellFormed, DistinctNames
  <2> QED BY <1>0, <1>1, <2>1, <2>4
<1> QED BY <1>3, <1>4 DEF FunctionsInv

\* Two methods of one type, one name.
LEMMA MethodsApart ==
  ASSUME NamesInv, WellFormed(text), at \in DOMAIN text, Here.form = "type",
         NEW k \in DOMAIN Here.methods, NEW j \in DOMAIN Here.methods,
         Mangled(Here.name, Here.methods[k].name) = Mangled(Here.name, Here.methods[j].name)
  PROVE  j = k
<1>1. PICK c : c = at
  OBVIOUS
<1>2. c \in Decls(text, {"type"}) /\ k \in DOMAIN text[c].methods /\ j \in DOMAIN text[c].methods
  BY <1>1 DEF Decls, Here
<1>3. text[c].methods[j].name = text[c].methods[k].name
  BY <1>1, <1>2, MangledAssumption DEF NamesInv, TablesInv, ReservedInv, Here, Decls
<1> QED BY <1>2, <1>3 DEF WellFormed

LEMMA TypeIsPassed ==
  ASSUME NamesInv, FunctionsInv, WellFormed(text), AllInstalled, phase = "pass1",
         at \in DOMAIN text, ParseType
  PROVE  Next1
<1>0. ReservedInv /\ NamesApart
  BY DEF NamesInv, TablesInv, WellFormed, NamesApart
<1>1. Here.form = "type" /\ Here.form \in Nominal
  BY DEF ParseType, Nominal
<1>2. Claimable(Here)
  BY <1>0, <1>1, TypesAreClaimable
<1>3. PICK c : c = at
  OBVIOUS
<1>4. c \in Decls(text, {"type"}) /\ Here = text[c]
  BY <1>1, <1>3 DEF Decls, Here
<1>5. AllResolve(Here.refs, Here.file)
  <2>1. AllNameable(text, text[c].refs, text[c].file)
    BY <1>3 DEF WellFormed
  <2> QED BY <1>0, <1>4, <2>1, NameableAllResolve
<1>6. PICK ms : ms = Methods(Here)
  OBVIOUS
<1>7. PICK syms : syms = [k \in DOMAIN ms |-> Symbol(ms[k])]
  OBVIOUS
<1>8. DOMAIN ms = DOMAIN Here.methods
  BY <1>6 DEF Methods
<1>9. \A k \in DOMAIN ms : /\ ms[k].name = Mangled(Here.name, Here.methods[k].name)
                           /\ syms[k].name = ms[k].name
  BY <1>6, <1>7, <1>8 DEF Methods, Lowered, Symbol
<1>10. ASSUME NEW k \in DOMAIN ms
       PROVE  /\ AllResolve(Here.methods[k].refs, Here.file)
              /\ ~Clashes(syms[k])
              /\ \A j \in 1..(k - 1) : ms[j].name # ms[k].name
  <2>1. AllNameable(text, text[c].methods[k].refs, text[c].file)
    BY <1>4, <1>8 DEF WellFormed
  <2>2. AllResolve(Here.methods[k].refs, Here.file)
    BY <1>0, <1>4, <2>1, NameableAllResolve
  <2>3. ~Clashes(syms[k])
    BY <1>1, <1>8, <1>9, NewMethod DEF Clashes
  <2>4. ASSUME NEW j \in 1..(k - 1), ms[j].name = ms[k].name PROVE FALSE
    <3>1. PICK n \in Nat : DOMAIN ms = 1..n
      <4>1. Here.methods \in Seq(Method)
        BY <1>0, HereIsADeclaration
      <4> QED BY <1>8, <4>1
    <3>2. j \in DOMAIN ms /\ j # k
      BY <3>1
    <3> QED BY <1>1, <1>8, <1>9, <2>4, <3>2, MethodsApart
  <2> QED BY <2>2, <2>3, <2>4
<1> QED BY <1>2, <1>5, <1>6, <1>7, <1>10 DEF ParseType

\* Of a well-formed program every declaration is passed.
LEMMA ItemIsPassed ==
  ASSUME NamesInv, FunctionsInv, GlobalsInv, WellFormed(text), ParseItem
  PROVE  Next1
<1>0. /\ ReservedInv /\ NamesApart /\ phase = "pass1" /\ at \in DOMAIN text /\ at \in Nat
      /\ AllInstalled
  <2>1. ReservedInv /\ NamesApart /\ phase = "pass1" /\ at \in DOMAIN text /\ at \in Nat
    BY DEF NamesInv, TablesInv, ReservedInv, WellFormed, NamesApart, ParseItem
  <2> QED BY <2>1, NoneIsLeft DEF WellFormed
<1>1. PICK c : c = at
  OBVIOUS
<1>2. AllResolve(Here.refs, Here.file)
  <2>1. AllNameable(text, text[c].refs, text[c].file)
    BY <1>0, <1>1 DEF WellFormed
  <2> QED BY <1>0, <1>1, <2>1, NameableAllResolve DEF Here
<1>3. CASE ParseAlias
  <2>1. at \in installed
    BY <1>0, <1>3 DEF ParseAlias, NamesInv, AliasInv, AllInstalled, Here
  <2> QED BY <1>2, <1>3, <2>1 DEF ParseAlias
<1>4. CASE ParseType
  BY <1>0, <1>4, TypeIsPassed
<1>5. CASE ParseVariants
  <2>1. Here.form \in Nominal
    BY <1>5 DEF ParseVariants, Nominal
  <2> QED BY <1>0, <1>2, <1>5, <2>1, TypesAreClaimable DEF ParseVariants
<1>6. CASE ParseFunction
  <2>1. at \in FnDecls(text)
    BY <1>0, <1>6 DEF ParseFunction, FnDecls, Decls, Here
  <2>2. Here.name \notin DOMAIN functions
    BY <2>1, NewFunction
  <2>3. ~Clashes(Symbol(Here))
    BY <2>2 DEF Clashes, Symbol
  <2> QED BY <1>2, <1>6, <2>3 DEF ParseFunction
<1>7. CASE ParseGlobal
  <2>1. c \in GlobalDecls(text) /\ Here = text[c]
    BY <1>0, <1>1, <1>7 DEF ParseGlobal, GlobalDecls, Decls, Here
  <2>2. AllUsable(text, text[c].body, text[c].file, FnsBefore(at), GlobalsBefore(at))
    BY <1>1, <2>1 DEF WellFormed, FnsBefore, GlobalsBefore
  <2>3. AllParse(text[c].body, text[c].file, FnsBefore(at), GlobalsBefore(at))
    BY <1>0, <2>2, ParsesAsUsable
  <2>4. ASSUME NEW u \in DOMAIN text[c].body PROVE StatementParses(text[c].body[u], text[c].file)
    <3>1. ~IsMangled(text[c].body[u].name)
      BY <1>0, <1>1, InitializerUses
    <3>2. Parses(text[c].body[u], text[c].file, FnsBefore(at), GlobalsBefore(at))
      BY <2>3 DEF AllParse
    <3> QED BY <1>0, <3>1, <3>2, StatementsAgree
  <2>5. Here.name \notin DOMAIN globals
    <3> SUFFICES ASSUME Here.name \in DOMAIN globals PROVE FALSE
      OBVIOUS
    <3>1. PICK i \in GlobalsBefore(at) : text[i].name = Here.name
      BY DEF GlobalsInv
    <3>2. i \in GlobalDecls(text) /\ i < at
      BY DEF GlobalsBefore, Upto
    <3>3. i = c
      BY <2>1, <3>1, <3>2 DEF WellFormed, DistinctNames
    <3> QED BY <1>0, <1>1, <3>2, <3>3
  <2> QED BY <1>2, <1>7, <2>1, <2>4, <2>5 DEF ParseGlobal
<1> QED BY <1>3, <1>4, <1>5, <1>6, <1>7 DEF ParseItem

\* Of a well-formed program every body parses.
LEMMA BodyIsParsed ==
  ASSUME NamesInv, FunctionsInv, GlobalsInv, BodiesInv, FilledInv, WellFormed(text), ParseBody
  PROVE  UNCHANGED errors
<1>0. /\ ReservedInv /\ NamesApart /\ phase = "pass2" /\ pending # <<>> /\ AllInstalled
      /\ at = Len(text) + 1
  <2>1. ReservedInv /\ NamesApart /\ phase = "pass2" /\ pending # <<>>
    BY DEF NamesInv, TablesInv, WellFormed, NamesApart, ParseBody
  <2> QED BY <2>1, NoneIsLeft DEF WellFormed, BodiesInv
<1>1. PICK p : p = Head(pending)
  OBVIOUS
<1>2. 1 \in DOMAIN pending /\ p = pending[1]
  <2>1. PICK S : pending \in Seq(S)
    BY DEF FilledInv, IsSequence
  <2> QED BY <1>0, <1>1, <2>1
<1>3. PICK i \in DOMAIN text : IsBody(i, p.file, p.body)
  BY <1>2 DEF BodiesInv
<1>4. AllUsable(text, p.body, p.file, FnDecls(text), GlobalDecls(text))
  BY <1>3 DEF IsBody, WellFormed, Decls
<1>5. AllParse(p.body, p.file, FnDecls(text), GlobalDecls(text))
  BY <1>0, <1>4, ParsesAsUsable
<1>6. ASSUME NEW u \in DOMAIN p.body PROVE StatementParses(p.body[u], p.file)
  <2>1. ~IsMangled(p.body[u].name)
    BY <1>0, <1>3, BodyUses
  <2>2. Parses(p.body[u], p.file, FnsBefore(at), GlobalsBefore(at))
    BY <1>0, <1>5, AllBefore DEF AllParse
  <2> QED BY <1>0, <2>1, <2>2, StatementsAgree
<1> QED BY <1>1, <1>6 DEF ParseBody

CompleteInv == WellFormed(text) => errors = {} /\ result # "rejected"

LEMMA CompleteStep ==
  ASSUME NamesInv, LayoutInv, FilledInv, HeadsInv, FunctionsInv, GlobalsInv, BodiesInv,
         CompleteInv, [Next]_vars
  PROVE  CompleteInv'
<1>0. UNCHANGED text
  BY StepKeepsText
<1>1. WellFormed(text)' <=> WellFormed(text)
  <2>1. text' = text
    BY <1>0
  <2> QED BY <2>1 DEF WellFormed, DistinctNames, TypeDecls, FnDecls, GlobalDecls, Decls, AllNameable,
       Nameable, StandsFor, The, Declares, Stands, Sees, MayUse, AllUsable, Usable, Upto,
       FiniteLayouts, Stores
<1> SUFFICES ASSUME WellFormed(text), errors = {}, result # "rejected"
             PROVE  errors' = {} /\ result' # "rejected"
  BY <1>1 DEF CompleteInv
<1>2. CASE ParseItem
  BY <1>2, ItemIsPassed DEF Next1
<1>3. CASE ReportCycles
  <2>1. phase = "cycles"
    BY <1>3 DEF ReportCycles
  <2>2. AllPassed /\ NamesApart /\ FiniteLayouts(text)
    BY <2>1 DEF AllPassed, BodiesInv, WellFormed, NamesApart
  <2>3. cyclic = {}
    BY <2>1, <2>2, NothingToReport
  <2> QED BY <1>3, <2>3 DEF ReportCycles
<1>4. CASE ParseBody
  <2>1. UNCHANGED <<errors, result>>
    BY <1>4, BodyIsParsed DEF ParseBody
  <2> QED BY <2>1
<1>5. CASE Fill
  BY <1>5 DEF Fill
<1>6. CASE ReserveNames \/ TryAlias \/ EndRound \/ StartCycles \/ WalkCycles \/ UNCHANGED vars
  <2>1. UNCHANGED <<errors, result>>
    BY <1>6 DEF ReserveNames, TryAlias, EndRound, StartCycles, WalkCycles, parseVars, vars
  <2> QED BY <2>1
<1> QED BY SMTT(20), <1>2, <1>3, <1>4, <1>5, <1>6 DEF Next

-----------------------------------------------------------------------------
(* Soundness: what is accepted is well formed. *)

LEMMA PassedNamesApart ==
  ASSUME NamesInv, HeadsInv, AllPassed PROVE NamesApart
<1>0. ReservedInv /\ phase # "names"
  BY DEF NamesInv, TablesInv, AllPassed
<1>1. ASSUME NEW i \in TypeDecls(text)
      PROVE  /\ i \in DOMAIN text /\ HeadPassed(i)
             /\ text[i].form = "alias" => i \in installed /\ types[text[i].name].kind = "alias"
             /\ text[i].form # "alias" => /\ Reserves(i, text[i].name)
                                          /\ types[text[i].name].kind # "alias"
  <2>1. i \in DOMAIN text /\ HeadPassed(i) /\ text[i].form \in Nominal \cup {"alias"}
    BY <1>0, PassedHeads DEF TypeDecls, Decls
  <2>2. CASE text[i].form = "alias"
    <3>1. i \in installed
      BY <2>1, <2>2 DEF HeadPassed
    <3>2. Installed(i)
      BY <3>1 DEF NamesInv, AliasInv
    <3> QED BY <2>1, <2>2, <3>1, <3>2 DEF Installed
  <2>3. CASE text[i].form # "alias"
    <3>1. Reserves(i, text[i].name)
      BY <2>1, <2>3 DEF HeadPassed
    <3>2. types[text[i].name].kind = text[i].form
      BY <1>0, <3>1 DEF NamesInv, EntriesInv
    <3> QED BY <2>1, <2>3, <3>1, <3>2
  <2> QED BY <2>2, <2>3
<1>2. ASSUME NEW i \in TypeDecls(text), NEW j \in TypeDecls(text), text[i].name = text[j].name
      PROVE  i = j
  <2>1. CASE text[i].form = "alias"
    <3>1. i \in installed /\ j \in installed
      BY <1>1, <1>2, <2>1
    <3> QED BY <1>2, <3>1 DEF NamesInv, AliasInv
  <2>2. CASE text[i].form # "alias"
    <3>1. Reserves(i, text[i].name) /\ Reserves(j, text[i].name)
      BY <1>1, <1>2, <2>2
    <3> QED BY <1>0, <3>1, ReservedOnce
  <2> QED BY <2>1, <2>2
<1> QED BY <1>2 DEF NamesApart, DistinctNames

LEMMA ResolvedAreNameable ==
  ASSUME NamesInv, NamesApart, phase # "names", NEW refs, NEW f, AllResolve(refs, f)
  PROVE  AllNameable(text, refs, f)
<1> SUFFICES ASSUME NEW k \in DOMAIN refs PROVE Nameable(text, refs[k].to, f)
  BY DEF AllNameable
<1>1. PICK r : r = refs[k]
  OBVIOUS
<1>2. Resolves(r, f)
  BY <1>1 DEF AllResolve
<1>3. Nameable(text, r.to, f)
  BY <1>2, ResolvesIsNameable
<1> QED BY <1>1, <1>3

LEMMA AcceptedIsWellFormed ==
  ASSUME NamesInv, LayoutInv, HeadsInv, FunctionsInv, GlobalsInv, InitializersInv, BodiesInv,
         result = "accepted"
  PROVE  WellFormed(text)
<1>1. /\ ReservedInv /\ phase = "done" /\ AllPassed /\ errors = {} /\ pending = <<>>
      /\ at = Len(text) + 1
  BY DEF NamesInv, TablesInv, LayoutInv, BodiesInv, AllPassed
<1>2. NamesApart
  BY <1>1, PassedNamesApart
<1>3. FnsBefore(at) = FnDecls(text) /\ GlobalsBefore(at) = GlobalDecls(text)
  BY <1>1, AllBefore
<1>4. DistinctNames(text, FnDecls(text)) /\ DistinctNames(text, GlobalDecls(text))
  BY <1>3 DEF FunctionsInv, GlobalsInv
<1>5. \A i \in DOMAIN text : HeadPassed(i) /\ i < at
  BY <1>1, PassedHeads, Declared
<1>6. ASSUME NEW i \in DOMAIN text PROVE AllNameable(text, text[i].refs, text[i].file)
  BY <1>1, <1>2, <1>5, ResolvedAreNameable DEF HeadPassed
<1>7. ASSUME NEW i, NEW f, NEW b, IsBody(i, f, b)
      PROVE  AllUsable(text, b, f, FnDecls(text), GlobalDecls(text))
  <2>1. i \in DOMAIN text /\ i < at
    BY <1>5, <1>7 DEF IsBody
  <2>2. DOMAIN pending = {}
    BY <1>1
  <2>3. BodyParses(f, b)
    BY <1>1, <1>7, <2>1, <2>2 DEF BodiesInv
  <2> QED BY <1>1, <1>2, <2>3, ParsesAsUsable DEF BodyParses
<1>8. ASSUME NEW i \in Decls(text, {"fn"})
      PROVE  AllUsable(text, text[i].body, text[i].file, FnDecls(text), GlobalDecls(text))
  <2>1. IsBody(i, text[i].file, text[i].body)
    BY DEF IsBody, Decls
  <2> QED BY <1>7, <2>1
<1>9. ASSUME NEW i \in GlobalDecls(text)
      PROVE  AllUsable(text, text[i].body, text[i].file,
                       Upto(FnDecls(text), i), Upto(GlobalDecls(text), i))
  <2>1. AllParse(text[i].body, text[i].file, FnsBefore(i), GlobalsBefore(i))
    BY <1>3 DEF InitializersInv
  <2> QED BY <1>1, <1>2, <2>1, ParsesAsUsable DEF FnsBefore, GlobalsBefore
<1>10. ASSUME NEW i \in Decls(text, {"type"}), NEW k \in DOMAIN text[i].methods
       PROVE  /\ AllNameable(text, text[i].methods[k].refs, text[i].file)
              /\ \A j \in DOMAIN text[i].methods :
                   text[i].methods[j].name = text[i].methods[k].name => j = k
              /\ AllUsable(text, text[i].methods[k].body, text[i].file,
                           FnDecls(text), GlobalDecls(text))
  <2>1. i \in DOMAIN text /\ text[i].form = "type" /\ HeadPassed(i)
    BY <1>5 DEF Decls
  <2>2. /\ AllResolve(text[i].methods[k].refs, text[i].file)
        /\ \A j \in DOMAIN text[i].methods :
             text[i].methods[j].name = text[i].methods[k].name => j = k
    BY <2>1 DEF HeadPassed
  <2>3. AllNameable(text, text[i].methods[k].refs, text[i].file)
    BY <1>1, <1>2, <2>2, ResolvedAreNameable
  <2>4. IsBody(i, text[i].file, text[i].methods[k].body)
    BY <2>1 DEF IsBody
  <2> QED BY <1>7, <2>2, <2>3, <2>4
<1>11. FiniteLayouts(text)
  BY <1>1, <1>2, EndingIsFinite
<1> QED BY <1>2, <1>4, <1>6, <1>8, <1>9, <1>10, <1>11 DEF WellFormed, NamesApart

-----------------------------------------------------------------------------
(* The verdict. *)

\* Where no function is declared `extern` and declared again, a pass over the
\* declarations leaves in the tables what they say, and finds nothing wrong
\* with what is well formed.
VerdictInv ==
  /\ ProgramInv
  /\ result \in {"none", "accepted", "rejected"}
  /\ AliasInv /\ EntriesInv /\ HeadsInv
  /\ NoRedeclaration(text) =>
       FunctionsInv /\ GlobalsInv /\ InitializersInv /\ BodiesInv /\ CompleteInv

LEMMA VerdictStart == Init => VerdictInv
<1> SUFFICES ASSUME Init PROVE VerdictInv
  OBVIOUS
<1>1. ProgramInv
  BY TablesStart, LayoutStart, ShapeStart, FilledStart DEF ProgramInv
<1>2. AliasInv /\ EntriesInv /\ HeadsInv
  BY AliasStart, EntriesStart, HeadsStart
<1>3. CompleteInv /\ result = "none"
  BY DEF CompleteInv, Init
<1> QED BY <1>1, <1>2, <1>3, PassedStart DEF VerdictInv

LEMMA VerdictStep == VerdictInv /\ [Next]_vars => VerdictInv'
<1> SUFFICES ASSUME VerdictInv, [Next]_vars PROVE VerdictInv'
  OBVIOUS
<1>1. ProgramInv'
  BY TablesStep, LayoutStep, ShapeStep, FilledStep DEF VerdictInv, ProgramInv
<1>2. NamesInv /\ TablesInv' /\ LayoutInv /\ FilledInv /\ HeadsInv
  BY <1>1 DEF VerdictInv, ProgramInv, NamesInv
<1>3. AliasInv' /\ EntriesInv' /\ HeadsInv'
  BY <1>2, AliasStep, EntriesStep, HeadsStep DEF NamesInv
<1>4. ASSUME NoRedeclaration(text)
      PROVE  FunctionsInv' /\ GlobalsInv' /\ InitializersInv' /\ BodiesInv' /\ CompleteInv'
  <2>1. FunctionsInv /\ GlobalsInv /\ InitializersInv /\ BodiesInv /\ CompleteInv
    BY <1>4 DEF VerdictInv
  <2>2. FunctionsInv' /\ GlobalsInv'
    BY <1>2, <1>4, <2>1, TablesHoldStep
  <2>3. InitializersInv'
    BY <1>2, <1>4, <2>1, InitializersStep
  <2>4. BodiesInv'
    BY <1>2, <2>1, BodiesStep
  <2>5. CompleteInv'
    BY <1>2, <2>1, CompleteStep
  <2> QED BY <2>2, <2>3, <2>4, <2>5
<1>5. UNCHANGED text
  BY StepKeepsText
<1>6. NoRedeclaration(text)' => NoRedeclaration(text)
  BY <1>5 DEF NoRedeclaration, FnDecls, Decls
<1>7. UNCHANGED result \/ result' \in {"accepted", "rejected"}
  BY StepKeepsText
<1> QED BY <1>1, <1>3, <1>4, <1>6, <1>7 DEF VerdictInv

\* The tables say what the declarations passed say: names, gates, functions,
\* globals, initializers and the bodies still to be parsed (the prescans,
\* pass 1 and pass 2 of do_parse_program), for every program.
THEOREM VerdictInvariant == Spec => []VerdictInv
<1> QED BY VerdictStart, VerdictStep, PTL DEF Spec

\* "Declaration order is thus non-semantic, with one exception": the parser
\* accepts a program exactly when it is well formed by the reading that never
\* asks what comes first, initializers aside, for every program, module graph
\* and number of declarations.
THEOREM VerdictsAreOrderFree == Spec => []VerdictIsOrderFree
<1>1. VerdictInv => VerdictIsOrderFree
  <2> SUFFICES ASSUME VerdictInv, phase = "done", NoRedeclaration(text)
               PROVE  result = "accepted" <=> WellFormed(text)
    BY DEF VerdictIsOrderFree
  <2>1. /\ NamesInv /\ LayoutInv /\ HeadsInv /\ FunctionsInv /\ GlobalsInv /\ InitializersInv
        /\ BodiesInv /\ CompleteInv /\ ShapeInv /\ result \in {"none", "accepted", "rejected"}
    BY DEF VerdictInv, ProgramInv, NamesInv
  <2>2. result = "accepted" => WellFormed(text)
    BY <2>1, AcceptedIsWellFormed
  <2>3. WellFormed(text) => result = "accepted"
    <3>1. result # "none"
      BY <2>1 DEF ShapeInv
    <3> QED BY <2>1, <3>1 DEF CompleteInv
  <2> QED BY <2>2, <2>3
<1> QED BY <1>1, VerdictInvariant, PTL
=============================================================================
