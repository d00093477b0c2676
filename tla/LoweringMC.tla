----------------------------- MODULE LoweringMC -----------------------------
(***************************************************************************)
(* The two halves of what the code generator makes of values, side by      *)
(* side: a behaviour follows one expression of integers and bools, or one  *)
(* program's type-structs and sums, and leaves the other half as it is.    *)
(***************************************************************************)
EXTENDS ValuesMC, AggregatesMC

VARIABLE half       \* the half this behaviour is about

lowVars == <<half, valueVars, aggVars>>

LowInit ==
    \/ half = "memory" /\ AggInit
       /\ ParseInitializer(Lit(0), Bool)
    \/ half = "numbers" /\ (FlatInit \/ DeepInit)
       /\ RegisterSums(CHOOSE p \in Programs : Sums(p) = {}) /\ MemInit

LowNext ==
    /\ UNCHANGED half
    /\ \/ half = "memory" /\ AggNext /\ UNCHANGED valueVars
       \/ half = "numbers" /\ ValueNext /\ UNCHANGED aggVars

LowSpec == LowInit /\ [][LowNext]_lowVars
=============================================================================
