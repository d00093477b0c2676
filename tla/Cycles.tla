------------------------------- MODULE Cycles -------------------------------
(***************************************************************************)
(* The search for by-value containment cycles among type-structs and sums  *)
(* (src/parser/cycles.rs): a depth-first walk that colours a type gray     *)
(* while its layout is being explored and black when it has been, and      *)
(* reports every type it re-enters while gray.                             *)
(*                                                                         *)
(* `contains` is the edge function: the types whose values a value of the  *)
(* type stores.  The walk's call stack is `path`; each frame remembers the *)
(* by-value parts `visit` has not looked at yet.  The code takes roots and *)
(* parts in declaration order, the model in any order.                     *)
(*                                                                         *)
(* `rank` and `clock` are history variables: the order in which types turn *)
(* black.                                                                  *)
(***************************************************************************)
EXTENDS Naturals, Sequences

CONSTANT Types      \* the names a type-struct or sum can have

VARIABLES
  contains,   \* type -> the types it stores by value
  colors,     \* type -> "white" (no entry in the map), "gray" or "black"
  path,       \* the activations of visit, outermost first
  cyclic,     \* the types reported as closing a cycle
  rank,       \* history: when the type turned black
  clock       \* history: how many types have

cycVars == <<contains, colors, path, cyclic, rank, clock>>

Colour == {"white", "gray", "black"}
Visit  == [node : Types, todo : SUBSET Types]

-----------------------------------------------------------------------------

\* find_byvalue_cycles starts with no colours and nothing reported.
WalkStarts == /\ colors = [t \in Types |-> "white"]
              /\ path   = <<>>
              /\ cyclic = {}
              /\ rank   = [t \in Types |-> 0]
              /\ clock  = 0

CycInit == /\ contains \in [Types -> SUBSET Types]
           /\ WalkStarts

Innermost == path[Len(path)]

\* The activation of visit on the stack's top has looked at one more part.
Looked(t) == [path EXCEPT ![Len(path)].todo = @ \ {t}]

Entered(stack, t) ==
  /\ colors' = [colors EXCEPT ![t] = "gray"]
  /\ path'   = Append(stack, [node |-> t, todo |-> contains[t]])

\* The loop over the roots calls visit on a type no walk has reached.
Root(t) ==
  /\ path = <<>>
  /\ colors[t] = "white"
  /\ Entered(path, t)
  /\ UNCHANGED <<contains, cyclic, rank, clock>>

\* visit(next) for an unvisited part
Descend(t) ==
  /\ path # <<>>
  /\ t \in Innermost.todo
  /\ colors[t] = "white"
  /\ Entered(Looked(t), t)
  /\ UNCHANGED <<contains, cyclic, rank, clock>>

\* Slip: a part already explored counts as re-entered.
ReentersAny(t) == colors[t] \in {"gray", "black"}

\* Slip: only a type that contains itself directly counts.
ReentersSelf(t) == colors[t] = "gray" /\ t = Innermost.node

Reenters(t) == colors[t] = "gray"

\* visit(next) returns at once: the part is gray, which closes a cycle, or
\* black, which closes nothing.
Return(t) ==
  /\ path # <<>>
  /\ t \in Innermost.todo
  /\ colors[t] # "white"
  /\ path'   = Looked(t)
  /\ cyclic' = IF Reenters(t) THEN cyclic \cup {t} ELSE cyclic
  /\ UNCHANGED <<contains, colors, rank, clock>>

\* visit has called itself on every part: the type is fully explored.
Finish ==
  /\ path # <<>>
  /\ Innermost.todo = {}
  /\ colors' = [colors EXCEPT ![Innermost.node] = "black"]
  /\ rank'   = [rank EXCEPT ![Innermost.node] = clock]
  /\ clock'  = clock + 1
  /\ path'   = SubSeq(path, 1, Len(path) - 1)
  /\ UNCHANGED <<contains, cyclic>>

CycNext == \/ \E t \in Types : Root(t) \/ Descend(t) \/ Return(t)
           \/ Finish

CycSpec == CycInit /\ [][CycNext]_cycVars

-----------------------------------------------------------------------------
(* Properties *)

CycTypeOK ==
  /\ contains \in [Types -> SUBSET Types]
  /\ colors \in [Types -> Colour]
  /\ path \in Seq(Visit)
  /\ cyclic \in SUBSET Types
  /\ rank \in [Types -> Nat]
  /\ clock \in Nat

Walked == path = <<>> /\ \A t \in Types : colors[t] = "black"

\* A set of types is grounded when some member stores no other member (nor
\* itself) by value.  A cycle is a set that is not.
Grounded(S) == \E t \in S : contains[t] \cap S = {}

\* When the walk is over, every containment cycle goes through a reported
\* type: with nothing reported, computing layouts recursively (what the code
\* generator does next) comes to an end.
NoCycleEscapes ==
  Walked => \A S \in SUBSET (Types \ cyclic) : S # {} => Grounded(S)

\* t is among the types its own parts store, directly or through others:
\* every set that holds t's parts and the parts of its members holds t.
StoresItself(t) ==
  \A S \in SUBSET Types :
    /\ contains[t] \subseteq S
    /\ \A u \in S : contains[u] \subseteq S
    => t \in S

\* Only a type whose layout really is infinite is reported: sharing a part
\* (a diamond) or reaching an explored type again is no error.
OnlyCyclesReported == \A t \in cyclic : StoresItself(t)
=============================================================================
