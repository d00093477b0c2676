----------------------------- MODULE LibraryMC -----------------------------
(***************************************************************************)
(* The standard library's units side by side.  They share no state, so a   *)
(* behaviour uses one of them and leaves the others as they are.           *)
(***************************************************************************)
EXTENDS Collections, Output, Numbers, Sorting, BlockHeap, TLC

CONSTANT MaxLength      \* of the arrays sorted

VARIABLE unit           \* the unit this behaviour is about

libVars == <<unit, map, mapping, vec, list, str, text, outVars, numVars, sortVars, blockVars>>
mapVars == <<map, mapping>>
vecVars == <<vec, list>>
strVars == <<str, text>>

\* Six keys in one slot near the end; a slot each for eight; two runs that meet.
MCHashes ==
    {[k \in 1 .. 6 |-> 14], [k \in 1 .. 8 |-> k * 5],
     <<6, 14, 7, 7, 16, 8>>}

MCPrints == {<<<<>>>>, <<<<1, 2, 3, 4, 10>>>>, <<<<1, 2, 3>>, <<10>>>>, <<<<>>, <<10>>>>}

MCArrays ==
    UNION {{[i \in 0 .. n - 1 |-> [key |-> f[i + 1], id |-> i]] : f \in [1 .. n -> 1 .. 3]} :
               n \in 0 .. MaxLength}

Idle(except) ==
    /\ except # "map" => map = NewMap(8, CHOOSE h \in MCHashes : TRUE) /\ mapping = <<>>
    /\ except # "vec" => vec = NewVec(0) /\ list = <<>>
    /\ except # "str" => str = FromCString(<<>>) /\ text = <<>>
    /\ except # "print" =>
           /\ print = <<<<>>>> /\ chunk = 0 /\ done = 0
           /\ sent = <<>> /\ result = 0 /\ parity = 0
    /\ except # "call" => call = [op |-> "none", a |-> 0, b |-> 0, c |-> 0, r |-> Pending]
    /\ except # "render" => rendered = [n |-> 0, t |-> <<>>]
    /\ except # "sort" =>
           /\ given = <<>> /\ arr = <<>> /\ calls = <<>>
           /\ run = [op |-> "start", lo |-> 0, hi |-> 0, i |-> 0, j |-> 0]
    /\ except # "blocks" => BlockInit

Calls ==
    {[op |-> o, a |-> a, b |-> b, c |-> 0, r |-> Pending] :
         o \in {"gcd", "lcm", "pow"}, a \in Words, b \in 0 .. 20}
    \union {[op |-> "powi", a |-> a, b |-> b, c |-> 0, r |-> Pending] :
                a \in SignedWords, b \in 0 .. 20}
    \union {[op |-> "root", a |-> a, b |-> 0, c |-> 0, r |-> Pending] : a \in Words}
    \union {[op |-> "range", a |-> a, b |-> Signed(b), c |-> Signed(c), r |-> Pending] :
                a \in {1, Modulus - 1}, b, c \in Words}

LibInit ==
    \/ unit = "map" /\ MapInit /\ Idle(unit)
    \/ unit = "vec" /\ VecInit /\ Idle(unit)
    \/ unit = "str" /\ StrInit /\ Idle(unit)
    \/ unit = "print" /\ OutInit /\ Idle(unit)
    \/ unit = "call" /\ call \in Calls /\ Idle(unit)
    \/ unit = "render" /\ Idle(unit)
       /\ \E n \in Words \union (0 .. 1100) : rendered = [n |-> IF n < Modulus THEN Signed(n) ELSE n, t |-> <<>>]
    \/ unit = "sort" /\ SortInit /\ Idle(unit)
    \/ unit = "blocks" /\ BlockInit /\ Idle(unit)

LibNext ==
    /\ UNCHANGED unit
    /\ \/ unit = "map" /\ MapNext /\ UNCHANGED <<vecVars, strVars, outVars, numVars, sortVars, blockVars>>
       \/ unit = "vec" /\ VecNext /\ UNCHANGED <<mapVars, strVars, outVars, numVars, sortVars, blockVars>>
       \/ unit = "str" /\ StrNext /\ UNCHANGED <<mapVars, vecVars, outVars, numVars, sortVars, blockVars>>
       \/ unit = "print" /\ OutNext /\ UNCHANGED <<mapVars, vecVars, strVars, numVars, sortVars, blockVars>>
       \/ unit = "call" /\ Compute /\ UNCHANGED <<mapVars, vecVars, strVars, outVars, sortVars, blockVars>>
       \/ unit = "render" /\ Render /\ UNCHANGED <<mapVars, vecVars, strVars, outVars, sortVars, blockVars>>
       \/ unit = "sort" /\ SortNext /\ UNCHANGED <<mapVars, vecVars, strVars, outVars, numVars, blockVars>>
       \/ unit = "blocks" /\ BlockNext /\ UNCHANGED <<mapVars, vecVars, strVars, outVars, numVars, sortVars>>

\* The printer's loop goes on as long as the platform's writes return.
LibSpec == LibInit /\ [][LibNext]_libVars /\ WF_libVars(unit = "print" /\ LibNext)
=============================================================================
