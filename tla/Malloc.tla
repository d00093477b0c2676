------------------------------- MODULE Malloc -------------------------------
(***************************************************************************)
(* What std/mem promises its callers (src/lib/std/mem/generic.ap, the       *)
(* public functions): malloc, calloc, realloc and free over a store of      *)
(* memory objects.                                                          *)
(*                                                                          *)
(* An object is the sequence of 8-byte words the caller asked for, at a     *)
(* 16-byte aligned address.  Objects do not overlap; what a caller stored   *)
(* stays until the caller stores again or gives the object back; realloc    *)
(* carries the common prefix over; a request may be refused, and then       *)
(* nothing has changed.                                                     *)
(***************************************************************************)
EXTENDS Integers, Sequences

VARIABLE objects   \* address -> the words of the object there

Bytes(s) == 8 * Len(s)

\* In objs the object at p overlaps no other one and is aligned.
Apart(objs, p) ==
  /\ p # 0 /\ p % 16 = 0
  /\ \A q \in DOMAIN objs \ {p} : \/ p + Bytes(objs[p]) <= q
                                  \/ q + Bytes(objs[q]) <= p

SameExcept(P) == \A q \in (DOMAIN objects \cap DOMAIN objects') \ P :
                    objects'[q] = objects[q]

\* malloc, calloc
Allocate(p) ==
  /\ p \notin DOMAIN objects
  /\ DOMAIN objects' = DOMAIN objects \cup {p}
  /\ Apart(objects', p)
  /\ SameExcept({})

\* free
GiveBack(p) ==
  /\ p \in DOMAIN objects
  /\ DOMAIN objects' = DOMAIN objects \ {p}
  /\ SameExcept({})

\* realloc: in place when p = q
Resize(p, q) ==
  /\ p \in DOMAIN objects
  /\ q = p \/ q \notin DOMAIN objects
  /\ DOMAIN objects' = (DOMAIN objects \ {p}) \cup {q}
  /\ Apart(objects', q)
  /\ \A i \in 1..Len(objects[p]) :
        i <= Len(objects'[q]) => objects'[q][i] = objects[p][i]
  /\ SameExcept({p, q})

\* The caller writes to its own object.
Store(p) ==
  /\ p \in DOMAIN objects
  /\ DOMAIN objects' = DOMAIN objects
  /\ Len(objects'[p]) = Len(objects[p])
  /\ SameExcept({p})

MallocInit == DOMAIN objects = {}

MallocNext ==
  \/ \E p \in DOMAIN objects' : Allocate(p)
  \/ \E p \in DOMAIN objects : GiveBack(p) \/ Store(p)
  \/ \E p \in DOMAIN objects, q \in DOMAIN objects' : Resize(p, q)

MallocSpec == MallocInit /\ [][MallocNext]_objects
=============================================================================
