------------------------------- MODULE Sorting -------------------------------
(***************************************************************************)
(* The sort of std/sort, in place: quicksort_range splits a range around   *)
(* its middle element (Lomuto's partition) and calls itself on both sides, *)
(* short ranges are sorted by insertion.  One action per round of a loop.  *)
(*                                                                         *)
(* An element is its key, by which the comparator orders it, and an        *)
(* identity.  Indexes are u64; only the two that are stepped down can      *)
(* leave the array.                                                        *)
(***************************************************************************)
EXTENDS Integers, Sequences

CONSTANTS
    Arrays,     \* what callers sort: elements from index 0 on
    Cutoff,     \* ranges of up to this many elements are sorted by insertion (16)
    MaxU64      \* the greatest u64

\* The elements of an array can be told from each other.
ASSUME ArraysAssumption ==
    /\ Cutoff \in Nat \ {0} /\ MaxU64 \in Nat
    /\ \A a \in Arrays : \E n \in 0 .. MaxU64 :
          /\ a = [x \in 0 .. n - 1 |-> a[x]]
          /\ \A x \in 0 .. n - 1 : a[x].key \in Int
          /\ \A x, y \in 0 .. n - 1 : a[x] = a[y] => x = y

VARIABLES
    given,      \* history: the array as it was passed
    arr,        \* the array
    calls,      \* ranges [lo, hi] that the calls of quicksort_range still have to sort
    run         \* the loop in progress: [op, lo, hi, i, j], j also for `store`

sortVars == <<given, arr, calls, run>>

Cmp(a, b) == a.key - b.key
Swap(s, a, b) == [s EXCEPT ![a] = s[b], ![b] = s[a]]

\* x - 1, unsigned.
OneLess(x) == IF x = 0 THEN MaxU64 ELSE x - 1

Between == run.op = "between"
Go(op) == run' = [run EXCEPT !.op = op]

-----------------------------------------------------------------------------
(* The entry point. *)

SortBytes(n) ==
    /\ run.op = "start" /\ DOMAIN arr = 0 .. n - 1
    /\ calls' = IF n < 2 THEN <<>> ELSE <<[lo |-> 0, hi |-> OneLess(n)]>>
    /\ Go("between")
    /\ UNCHANGED <<given, arr>>

SortReturns == Between /\ calls = <<>> /\ Go("done") /\ UNCHANGED <<given, arr, calls>>

-----------------------------------------------------------------------------
(* A call of quicksort_range: what there is to do for its range. *)

Call == Head(calls)
Called == Between /\ calls # <<>> /\ calls' = Tail(calls)

NothingToSort == Called /\ Call.hi <= Call.lo /\ UNCHANGED <<given, arr, run>>

StartInsertion ==
    /\ Called /\ Call.lo < Call.hi /\ Call.hi - Call.lo < Cutoff
    /\ run' = [op |-> "insert", lo |-> Call.lo, hi |-> Call.hi, i |-> Call.lo + 1, j |-> Call.lo + 1]
    /\ UNCHANGED <<given, arr>>

\* The pivot goes to the end of the range.
StartPartition ==
    /\ Called /\ Call.lo < Call.hi /\ Call.hi - Call.lo >= Cutoff
    /\ arr' = Swap(arr, Call.lo + (Call.hi - Call.lo) \div 2, Call.hi)
    /\ run' = [op |-> "split", lo |-> Call.lo, hi |-> Call.hi, i |-> Call.lo, j |-> Call.lo]
    /\ UNCHANGED given

-----------------------------------------------------------------------------
(* insertion_range *)

Inserting == run.op = "insert" /\ run.i <= run.hi
Sinks == run.j > run.lo /\ Cmp(arr[run.j - 1], arr[run.j]) > 0

Sink ==
    /\ Inserting /\ Sinks
    /\ arr' = Swap(arr, run.j - 1, run.j)
    /\ run' = [run EXCEPT !.j = run.j - 1]
    /\ UNCHANGED <<given, calls>>

InsertNext ==
    /\ Inserting /\ ~Sinks
    /\ run' = [run EXCEPT !.i = run.i + 1, !.j = run.i + 1]
    /\ UNCHANGED <<given, arr, calls>>

Inserted ==
    /\ run.op = "insert" /\ run.i > run.hi
    /\ Go("between")
    /\ UNCHANGED <<given, arr, calls>>

-----------------------------------------------------------------------------
(* The partition: what is less than the pivot goes in front of `store`. *)

Splitting == run.op = "split" /\ run.i < run.hi
IsLess == Cmp(arr[run.i], arr[run.hi]) < 0

MoveToFront ==
    /\ Splitting /\ IsLess
    /\ arr' = Swap(arr, run.i, run.j)
    /\ run' = [run EXCEPT !.i = run.i + 1, !.j = run.j + 1]
    /\ UNCHANGED <<given, calls>>

LeaveBehind ==
    /\ Splitting /\ ~IsLess
    /\ run' = [run EXCEPT !.i = run.i + 1]
    /\ UNCHANGED <<given, arr, calls>>

\* The ranges before and behind the pivot.
Halves ==
    (IF run.j > run.lo THEN <<[lo |-> run.lo, hi |-> OneLess(run.j)]>> ELSE <<>>)
        \o <<[lo |-> run.j + 1, hi |-> run.hi]>>

\* Slip: the pivot is left at the end.
PivotLeftAtTheEnd == arr' = arr
PivotIsPlaced == arr' = Swap(arr, run.j, run.hi)

Partitioned ==
    /\ run.op = "split" /\ run.i >= run.hi
    /\ PivotIsPlaced
    /\ calls' = Halves \o calls
    /\ Go("between")
    /\ UNCHANGED given

-----------------------------------------------------------------------------

SortInit ==
    /\ given \in Arrays /\ arr = given /\ calls = <<>>
    /\ run = [op |-> "start", lo |-> 0, hi |-> 0, i |-> 0, j |-> 0]

SortNext ==
    \/ \E n \in 0 .. MaxU64 : SortBytes(n)
    \/ NothingToSort \/ StartInsertion \/ StartPartition
    \/ Sink \/ InsertNext \/ Inserted
    \/ MoveToFront \/ LeaveBehind \/ Partitioned
    \/ SortReturns

SortSpec == SortInit /\ [][SortNext]_sortVars

-----------------------------------------------------------------------------

\* Sorting leaves the same elements, each once, in the order of their keys,
\* whatever the order, the repetitions and the length they come in
\* (quicksort_range, insertion_range).
SortsInPlace ==
    run.op = "done" =>
        /\ DOMAIN arr = DOMAIN given
        /\ {arr[x] : x \in DOMAIN arr} = {given[x] : x \in DOMAIN given}
        /\ \A x, y \in DOMAIN arr : arr[x] = arr[y] => x = y
        /\ \A x, y \in DOMAIN arr : x < y => arr[x].key <= arr[y].key
=============================================================================
