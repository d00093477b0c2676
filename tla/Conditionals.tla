---------------------------- MODULE Conditionals ----------------------------
(***************************************************************************)
(* The stack of open `$if` / `$ifdef` / `$ifndef` chains of the            *)
(* preprocessor (src/preprocessor/conditional.rs).                         *)
(*                                                                         *)
(* A directive line is abstracted to what steers the stack: the file it    *)
(* stands in and the truth `t` of its condition.  What the condition says  *)
(* (a definedness test or a constant expression) is the business of the    *)
(* define table; here the environment chooses it.                          *)
(*                                                                         *)
(* `tests` is a history field the code does not have: the truth of every   *)
(* branch condition of the chain so far, evaluated or not, an `$else`      *)
(* counting as TRUE.  It is what "the first branch whose condition is      *)
(* true" is stated against.                                                *)
(***************************************************************************)
EXTENDS Naturals, Sequences

CONSTANTS
  Files,      \* the source files a directive can stand in
  MaxDepth,   \* bound: chains open at once
  MaxTests    \* bound: branches of one chain

ASSUME BoundsAssumption == MaxDepth \in Nat /\ MaxTests \in Nat

VARIABLES
  frames,     \* the open chains, outermost first
  err         \* "none", or the PreprocessError that stopped the walk

condVars == <<frames, err>>

Branch == {"pending", "live", "done"}

\* The opening directive's name and its line are kept by the code for
\* diagnostics only; the file is what pins a chain to where it was opened.
Frame == [opened : Files, parentActive : BOOLEAN,
          state : Branch, elseSeen : BOOLEAN, tests : Seq(BOOLEAN)]

-----------------------------------------------------------------------------

\* Slip: a chain whose branch was taken counts as live until its `$endif`.
ActiveUntilEndif == frames # <<>> => /\ frames[Len(frames)].parentActive
                                     /\ frames[Len(frames)].state # "pending"

\* Tokens flow iff no chain is open or the innermost branch is live under an
\* active parent; only the top of the stack is consulted.
Active == frames # <<>> => /\ frames[Len(frames)].parentActive
                            /\ frames[Len(frames)].state = "live"

\* Slip: any open chain can be continued, the importer's too.
OwnsAnyTop(f) == frames # <<>>

\* The innermost chain is open and was opened by file f.
OwnsTop(f) == frames # <<>> /\ frames[Len(frames)].opened = f

\* The condition of an `$elseif*` decides something only in this case; in
\* every other case it is not even evaluated.
Evaluates == /\ frames[Len(frames)].parentActive
             /\ frames[Len(frames)].state = "pending"

NewFrame(f, t) ==
  [opened |-> f, parentActive |-> Active,
   state |-> IF Active /\ t THEN "live" ELSE "pending",
   elseSeen |-> FALSE, tests |-> <<t>>]

\* Slip: a live branch does not end at the next `$elseif`.
ContinuedStillLive(fr, t) ==
  [fr EXCEPT !.state = IF fr.parentActive /\ fr.state = "pending" /\ t
                       THEN "live" ELSE fr.state,
             !.tests = Append(fr.tests, t)]

Continued(fr, t) ==
  [fr EXCEPT !.state = CASE fr.parentActive /\ fr.state = "pending" /\ t -> "live"
                         [] fr.state = "live" -> "done"
                         [] OTHER             -> fr.state,
             !.tests = Append(fr.tests, t)]

Elsed(fr) ==
  [fr EXCEPT !.state = IF ~fr.parentActive THEN fr.state
                       ELSE IF fr.state = "pending" THEN "live" ELSE "done",
             !.elseSeen = TRUE,
             !.tests = Append(fr.tests, TRUE)]

-----------------------------------------------------------------------------
\* One action per directive.

\* `$ifdef NAME`, `$ifndef NAME`, `$if EXPR`
Open(f, t) ==
  /\ err = "none"
  /\ Len(frames) < MaxDepth
  /\ frames' = Append(frames, NewFrame(f, t))
  /\ UNCHANGED err

\* `$elseif EXPR`, `$elseifdef NAME`
ElseIf(f, t) ==
  /\ err = "none"
  /\ OwnsTop(f)
  /\ ~frames[Len(frames)].elseSeen
  /\ Len(frames[Len(frames)].tests) < MaxTests
  /\ frames' = [frames EXCEPT ![Len(frames)] = Continued(@, t)]
  /\ UNCHANGED err

\* `$else`
Else(f) ==
  /\ err = "none"
  /\ OwnsTop(f)
  /\ ~frames[Len(frames)].elseSeen
  /\ Len(frames[Len(frames)].tests) < MaxTests
  /\ frames' = [frames EXCEPT ![Len(frames)] = Elsed(@)]
  /\ UNCHANGED err

\* `$endif`
EndIf(f) ==
  /\ err = "none"
  /\ OwnsTop(f)
  /\ frames' = SubSeq(frames, 1, Len(frames) - 1)
  /\ UNCHANGED err

\* A continuation or `$endif` with no chain of this file to belong to.
Stray(f) ==
  /\ err = "none"
  /\ ~OwnsTop(f)
  /\ err' = "StrayConditional"
  /\ UNCHANGED frames

\* An `$elseif*` or a second `$else` behind the chain's `$else`.
AfterElse(f) ==
  /\ err = "none"
  /\ OwnsTop(f)
  /\ frames[Len(frames)].elseSeen
  /\ err' = "ConditionalAfterElse"
  /\ UNCHANGED frames

-----------------------------------------------------------------------------

CondInit == frames = <<>> /\ err = "none"

\* The walk ends at its first error.
Halted == err # "none" /\ UNCHANGED condVars

CondNext ==
  \/ \E f \in Files :
        \/ \E t \in BOOLEAN : Open(f, t)
        \/ \E t \in BOOLEAN : ElseIf(f, t)
        \/ Else(f)
        \/ EndIf(f)
        \/ Stray(f)
        \/ AfterElse(f)
  \/ Halted

CondSpec == CondInit /\ [][CondNext]_condVars

\* The part of the specification that only speaks of the stack: what the
\* preprocessor, which has more ways to fail, implements.
StackSpec == CondInit /\ [][CondNext]_frames

-----------------------------------------------------------------------------

CondTypeOK == frames \in Seq(Frame)

\* Every frame's parentActive folds in all the chains around it, so that
\* looking at the top of the stack alone (`ConditionalStack::active`) decides
\* whether every open chain is in its live branch.
ParentFoldsOuter ==
  \A i \in 1..Len(frames) :
     frames[i].parentActive <=> \A j \in 1..(i - 1) : frames[j].state = "live"

ActiveIffAllLive ==
  Active <=> \A i \in 1..Len(frames) : frames[i].state = "live"

FirstTrue(tests, k) == tests[k] /\ \A j \in 1..(k - 1) : ~tests[j]

\* "Exactly one branch is active: the first whose condition is true, or the
\* `$else`": under an active parent the current branch is live iff it is the
\* first true one, the chain is done iff an earlier one was true, and it is
\* pending iff none was; a chain opened in a skipped region stays pending
\* whatever its conditions say.
BranchOK(fr) ==
  IF fr.parentActive
  THEN /\ fr.state = "live" <=> FirstTrue(fr.tests, Len(fr.tests))
       /\ fr.state = "done" <=> \E j \in 1..(Len(fr.tests) - 1) : fr.tests[j]
  ELSE fr.state = "pending"

FirstTrueBranchWins == \A i \in 1..Len(frames) : BranchOK(frames[i])

\* A chain that reached "done" has no live branch until it is closed: a step
\* never reactivates it.
NoBranchAfterDone ==
  [][\A i \in 1..Len(frames) :
        (frames[i].state = "done" /\ i <= Len(frames'))
           => frames'[i].state = "done"]_frames
=============================================================================
