------------------------- MODULE PreprocessorProofs -------------------------
(***************************************************************************)
(* The preprocessor, for any set of files and names, every disk and every  *)
(* import cycle, in three parts.                                           *)
(*                                                                         *)
(* The chains.  The stack of conditional chains changes only at its top,   *)
(* so what a frame says about the frames below it (parentActive) and about *)
(* its own past (state against tests) can only be broken for the top       *)
(* frame, and each directive re-establishes it there.                      *)
(*                                                                         *)
(* The walk.  Three stacks move together: the files being walked, the      *)
(* imports being obeyed and the open chains.  Only the top file reads      *)
(* lines, so only chains above its baseline change; a file is entered at   *)
(* most once, so no open chain can belong to a file about to be entered;   *)
(* and an import is obeyed in live text only, so the chains below a        *)
(* baseline are live and stay as they are until the file is left.          *)
(*                                                                         *)
(* The outcome.  A walk that succeeds hands the parser whole modules, the  *)
(* exact import graph, and text in which every define was taken from where *)
(* it may be seen.  Modules are whole because a file of an imported module *)
(* is accounted for at any time: its verdict is final, or it is still to   *)
(* be loaded, or it is being walked on behalf of the import.  The verdict  *)
(* on a file that is still being walked is final too, because a file       *)
(* declares once.                                                          *)
(*                                                                         *)
(* A substitution is judged by what modules the files have in the end, but *)
(* made by what they had declared so far.  The two agree: only the top     *)
(* file declares, and before any text.  Whoever took a define of it while  *)
(* neither had declared was entered after it; so it is still above it on   *)
(* the stack, and the file is not on top, or it was left, and only a file  *)
(* that has declared is left without an error.                             *)
(***************************************************************************)
EXTENDS Preprocessor, FiniteSetTheorems, SequenceTheorems, WellFoundedInduction, TLAPS

-----------------------------------------------------------------------------
(* The conditional chains. *)

\* The inductive invariant: every property of the stack at once.
StackInv ==
  /\ CondTypeOK
  /\ \A i \in 1..Len(frames) : frames[i].tests # <<>>
  /\ ParentFoldsOuter
  /\ FirstTrueBranchWins

-----------------------------------------------------------------------------

\* Under the invariant the top frame alone tells whether all chains are live.
LEMMA TopDecides ==
  ASSUME CondTypeOK, ParentFoldsOuter
  PROVE  ActiveIffAllLive
<1>1. CASE frames = <<>>
  BY <1>1 DEF ActiveIffAllLive, Active
<1>2. CASE frames # <<>>
  <2> DEFINE n == Len(frames)
  <2>1. n \in Nat /\ n >= 1 /\ n \in 1..Len(frames)
    BY <1>2 DEF CondTypeOK
  <2>2. frames[n].parentActive <=> \A j \in 1..(n - 1) : frames[j].state = "live"
    BY <2>1 DEF ParentFoldsOuter
  <2>3. (\A i \in 1..n : frames[i].state = "live")
           <=> /\ \A j \in 1..(n - 1) : frames[j].state = "live"
               /\ frames[n].state = "live"
    BY <2>1
  <2>4. QED
    BY <1>2, <2>2, <2>3 DEF ActiveIffAllLive, Active
<1>3. QED
  BY <1>1, <1>2

\* Opening a chain: the new frame's parentActive is `active()` at that point.
LEMMA OpenKeepsInv ==
  ASSUME StackInv, NEW f \in Files, NEW t \in BOOLEAN, Open(f, t)
  PROVE  StackInv'
<1> DEFINE n == Len(frames)
           fr == NewFrame(f, t)
<1>1. n \in Nat /\ frames \in Seq(Frame)
  BY DEF StackInv, CondTypeOK
<1>2. Active \in BOOLEAN
  BY DEF Active, StackInv, CondTypeOK
<1>3. fr \in Frame
  BY <1>2 DEF NewFrame, Frame, Branch
<1>4. /\ frames' = Append(frames, fr)
      /\ frames' \in Seq(Frame)
      /\ Len(frames') = n + 1
      /\ frames'[n + 1] = fr
      /\ \A i \in 1..n : frames'[i] = frames[i]
  BY <1>1, <1>3 DEF Open
<1>5. CondTypeOK'
  BY <1>4 DEF CondTypeOK, StackInv, Open
<1>6. fr.tests = <<t>> /\ fr.tests # <<>> /\ Len(fr.tests) = 1 /\ fr.tests[1] = t
  BY DEF NewFrame
<1>7. \A i \in 1..Len(frames') : frames'[i].tests # <<>>
  <2>1. \A i \in 1..n : frames[i].tests # <<>>
    BY DEF StackInv
  <2>2. \A i \in 1..(n + 1) : i \in 1..n \/ i = n + 1
    BY <1>1
  <2>3. QED
    BY <1>4, <1>6, <2>1, <2>2
<1>8. ParentFoldsOuter'
  <2>1. fr.parentActive <=> \A j \in 1..n : frames[j].state = "live"
    BY TopDecides DEF StackInv, ActiveIffAllLive, NewFrame
  <2>2. QED
    BY <1>1, <1>4, <2>1 DEF ParentFoldsOuter, StackInv
<1>9. FirstTrueBranchWins'
  <2>1. BranchOK(fr)
    <3>1. fr.parentActive = Active
          /\ fr.state = IF Active /\ t THEN "live" ELSE "pending"
      BY DEF NewFrame
    <3>2. FirstTrue(fr.tests, 1) <=> t
      BY <1>6 DEF FirstTrue
    <3>3. ~ \E j \in 1..(Len(fr.tests) - 1) : fr.tests[j]
      BY <1>6
    <3>4. QED
      BY <1>6, <3>1, <3>2, <3>3 DEF BranchOK
  <2>2. \A i \in 1..n : BranchOK(frames[i])
    BY DEF StackInv, FirstTrueBranchWins
  <2>3. QED
    BY <1>1, <1>4, <2>1, <2>2 DEF FirstTrueBranchWins
<1>10. QED
  BY <1>5, <1>7, <1>8, <1>9 DEF StackInv

-----------------------------------------------------------------------------

\* A continuation rewrites the top frame in place, and the frame keeps the
\* parentActive it was opened with; so only its own branch state is at stake.
LEMMA TopUpdateKeepsInv ==
  ASSUME StackInv, frames # <<>>, NEW fr \in Frame,
         fr.parentActive = frames[Len(frames)].parentActive,
         fr.tests # <<>>, BranchOK(fr),
         frames' = [frames EXCEPT ![Len(frames)] = fr], err' = err
  PROVE  StackInv'
<1> DEFINE n == Len(frames)
<1>1. n \in Nat /\ n >= 1 /\ frames \in Seq(Frame)
  BY DEF StackInv, CondTypeOK
<1>2. /\ frames' \in Seq(Frame)
      /\ Len(frames') = n
      /\ frames'[n] = fr
      /\ \A i \in 1..n : i # n => frames'[i] = frames[i]
  BY <1>1
<1>3. CondTypeOK'
  BY <1>2 DEF StackInv, CondTypeOK
<1>4. \A i \in 1..Len(frames') : frames'[i].tests # <<>>
  <2>1. \A i \in 1..n : frames[i].tests # <<>>
    BY DEF StackInv
  <2>2. QED
    BY <1>2, <2>1
<1>5. ParentFoldsOuter'
  <2>1. ASSUME NEW i \in 1..n
        PROVE  frames'[i].parentActive
                 <=> \A j \in 1..(i - 1) : frames'[j].state = "live"
    <3>1. frames'[i].parentActive = frames[i].parentActive
      BY <1>2
    <3>2. \A j \in 1..(i - 1) : frames'[j] = frames[j]
      <4>1. \A j \in 1..(i - 1) : j \in 1..n /\ j # n
        BY <1>1
      <4>2. QED
        BY <1>2, <4>1
    <3>3. frames[i].parentActive
            <=> \A j \in 1..(i - 1) : frames[j].state = "live"
      BY DEF StackInv, ParentFoldsOuter
    <3>4. QED
      BY <3>1, <3>2, <3>3
  <2>2. QED
    BY <1>2, <2>1 DEF ParentFoldsOuter
<1>6. FirstTrueBranchWins'
  <2>1. \A i \in 1..n : BranchOK(frames[i])
    BY DEF StackInv, FirstTrueBranchWins
  <2>2. \A i \in 1..n : BranchOK(frames'[i])
    BY <1>2, <2>1
  <2>3. QED
    BY <1>2, <2>2 DEF FirstTrueBranchWins
<1>7. QED
  BY <1>3, <1>4, <1>5, <1>6 DEF StackInv

\* Where "the first true branch" stands after one more test.
LEMMA FirstTrueAfterAppend ==
  ASSUME NEW tests \in Seq(BOOLEAN), tests # <<>>, NEW t \in BOOLEAN
  PROVE  LET more == Append(tests, t)
             n    == Len(tests)
         IN  /\ n \in Nat /\ n >= 1
             /\ more \in Seq(BOOLEAN) /\ more # <<>> /\ Len(more) = n + 1
             /\ (\E j \in 1..(Len(more) - 1) : more[j])
                   <=> tests[n] \/ \E j \in 1..(n - 1) : tests[j]
             /\ FirstTrue(more, Len(more))
                   <=> t /\ ~tests[n] /\ ~\E j \in 1..(n - 1) : tests[j]
<1> DEFINE more == Append(tests, t)
           n    == Len(tests)
<1>1. n \in Nat /\ n >= 1
  OBVIOUS
<1>2. /\ more \in Seq(BOOLEAN) /\ more # <<>> /\ Len(more) = n + 1
      /\ more[n + 1] = t
      /\ \A j \in 1..n : more[j] = tests[j]
  OBVIOUS
<1>3. (\E j \in 1..n : tests[j]) <=> tests[n] \/ \E j \in 1..(n - 1) : tests[j]
  BY <1>1
<1>4. (\E j \in 1..(Len(more) - 1) : more[j]) <=> \E j \in 1..n : tests[j]
  BY <1>1, <1>2
<1>5. FirstTrue(more, n + 1) <=> t /\ ~\E j \in 1..n : tests[j]
  BY <1>1, <1>2 DEF FirstTrue
<1>6. QED
  BY <1>1, <1>2, <1>3, <1>4, <1>5

\* The same behind an `$else`, the test that is always true.
LEMMA FirstTrueAfterElse ==
  ASSUME NEW tests \in Seq(BOOLEAN), tests # <<>>
  PROVE  LET more == Append(tests, TRUE)
             n    == Len(tests)
         IN  /\ more \in Seq(BOOLEAN) /\ more # <<>>
             /\ (\E j \in 1..(Len(more) - 1) : more[j])
                   <=> tests[n] \/ \E j \in 1..(n - 1) : tests[j]
             /\ FirstTrue(more, Len(more))
                   <=> ~tests[n] /\ ~\E j \in 1..(n - 1) : tests[j]
<1>1. \A t \in BOOLEAN : t = TRUE =>
         LET more == Append(tests, t)
             n    == Len(tests)
         IN  /\ more \in Seq(BOOLEAN) /\ more # <<>>
             /\ (\E j \in 1..(Len(more) - 1) : more[j])
                   <=> tests[n] \/ \E j \in 1..(n - 1) : tests[j]
             /\ FirstTrue(more, Len(more))
                   <=> ~tests[n] /\ ~\E j \in 1..(n - 1) : tests[j]
  BY FirstTrueAfterAppend
<1>2. QED
  BY <1>1, TRUE \in BOOLEAN

\* `$elseif` and `$elseifdef`.
LEMMA ElseIfKeepsInv ==
  ASSUME StackInv, NEW f \in Files, NEW t \in BOOLEAN, ElseIf(f, t)
  PROVE  StackInv'
<1> DEFINE old == frames[Len(frames)]
           new == Continued(old, t)
<1>1. /\ frames # <<>>
      /\ Len(frames) \in 1..Len(frames)
      /\ old \in Frame
      /\ old.tests # <<>>
      /\ BranchOK(old)
  BY DEF ElseIf, OwnsTop, StackInv, CondTypeOK, FirstTrueBranchWins
<1>2. /\ new.parentActive = old.parentActive
      /\ new.tests = Append(old.tests, t)
      /\ new.state = CASE old.parentActive /\ old.state = "pending" /\ t -> "live"
                        [] old.state = "live" -> "done"
                        [] OTHER -> old.state
      /\ new.elseSeen = old.elseSeen /\ new.opened = old.opened
  BY <1>1 DEF Continued, Frame
<1>3. new \in Frame /\ new.tests # <<>>
  <2>1. old.tests \in Seq(BOOLEAN) /\ old.state \in Branch
    BY <1>1 DEF Frame
  <2>2. new.tests \in Seq(BOOLEAN) /\ new.tests # <<>>
    BY <1>1, <1>2, <2>1, FirstTrueAfterAppend
  <2>3. new.state \in Branch
    BY <1>2, <2>1 DEF Branch
  <2>4. new = [old EXCEPT !.state = new.state, !.tests = new.tests]
    BY <1>1 DEF Continued, Frame
  <2> HIDE DEF new
  <2>5. QED
    BY <1>1, <2>2, <2>3, <2>4 DEF Frame
<1>4. BranchOK(new)
  <2>1. old.tests \in Seq(BOOLEAN) /\ old.parentActive \in BOOLEAN
        /\ old.state \in {"pending", "live", "done"}
    BY <1>1 DEF Frame, Branch
  <2> DEFINE n == Len(old.tests)
             hit == old.tests[n]
             past == \E j \in 1..(n - 1) : old.tests[j]
  <2>2. /\ (\E j \in 1..(Len(new.tests) - 1) : new.tests[j]) <=> hit \/ past
        /\ FirstTrue(new.tests, Len(new.tests)) <=> t /\ ~hit /\ ~past
    BY <1>1, <1>2, <2>1, FirstTrueAfterAppend
  <2>3. FirstTrue(old.tests, n) <=> hit /\ ~past
    BY DEF FirstTrue
  <2>4. IF old.parentActive
        THEN (old.state = "live" <=> hit /\ ~past) /\ (old.state = "done" <=> past)
        ELSE old.state = "pending"
    BY <1>1, <2>3 DEF BranchOK
  <2> HIDE DEF n, hit, past, old, new
  <2>5. IF new.parentActive
        THEN (new.state = "live" <=> t /\ ~hit /\ ~past)
             /\ (new.state = "done" <=> hit \/ past)
        ELSE new.state = "pending"
    BY <1>2, <2>1, <2>4
  <2>6. QED
    BY <2>2, <2>5 DEF BranchOK
<1>5. frames' = [frames EXCEPT ![Len(frames)] = new] /\ err' = err
  BY DEF ElseIf
<1>6. QED
  BY <1>1, <1>2, <1>3, <1>4, <1>5, TopUpdateKeepsInv

\* `$else` counts as a branch whose condition is true.
LEMMA ElseKeepsInv ==
  ASSUME StackInv, NEW f \in Files, Else(f)
  PROVE  StackInv'
<1> DEFINE old == frames[Len(frames)]
           new == Elsed(old)
<1>1. /\ frames # <<>>
      /\ Len(frames) \in 1..Len(frames)
      /\ old \in Frame
      /\ old.tests # <<>>
      /\ BranchOK(old)
  BY DEF Else, OwnsTop, StackInv, CondTypeOK, FirstTrueBranchWins
<1>2. /\ new.parentActive = old.parentActive
      /\ new.tests = Append(old.tests, TRUE)
      /\ new.state = IF ~old.parentActive THEN old.state
                     ELSE IF old.state = "pending" THEN "live" ELSE "done"
  BY <1>1 DEF Elsed, Frame
<1>3. new \in Frame /\ new.tests # <<>>
  <2>1. old.tests \in Seq(BOOLEAN) /\ old.state \in Branch
    BY <1>1 DEF Frame
  <2>2. new.tests \in Seq(BOOLEAN) /\ new.tests # <<>>
    BY <1>1, <1>2, <2>1, FirstTrueAfterElse
  <2>3. new.state \in Branch
    BY <1>2, <2>1 DEF Branch
  <2>4. new = [old EXCEPT !.state = new.state, !.elseSeen = TRUE,
                          !.tests = new.tests]
    BY <1>1 DEF Elsed, Frame
  <2> HIDE DEF new
  <2>5. QED
    BY <1>1, <2>2, <2>3, <2>4 DEF Frame
<1>4. BranchOK(new)
  <2>1. old.tests \in Seq(BOOLEAN) /\ old.parentActive \in BOOLEAN
        /\ old.state \in {"pending", "live", "done"}
    BY <1>1 DEF Frame, Branch
  <2> DEFINE n == Len(old.tests)
             hit == old.tests[n]
             past == \E j \in 1..(n - 1) : old.tests[j]
  <2>2. /\ (\E j \in 1..(Len(new.tests) - 1) : new.tests[j]) <=> hit \/ past
        /\ FirstTrue(new.tests, Len(new.tests)) <=> ~hit /\ ~past
    BY <1>1, <1>2, <2>1, FirstTrueAfterElse
  <2>3. FirstTrue(old.tests, n) <=> hit /\ ~past
    BY DEF FirstTrue
  <2>4. IF old.parentActive
        THEN (old.state = "live" <=> hit /\ ~past) /\ (old.state = "done" <=> past)
        ELSE old.state = "pending"
    BY <1>1, <2>3 DEF BranchOK
  <2> HIDE DEF n, hit, past, old, new
  <2>5. IF new.parentActive
        THEN (new.state = "live" <=> ~hit /\ ~past)
             /\ (new.state = "done" <=> hit \/ past)
        ELSE new.state = "pending"
    <3>1. CASE ~old.parentActive
      BY <1>2, <2>4, <3>1
    <3>2. CASE old.parentActive /\ old.state = "pending"
      BY <1>2, <2>4, <3>2
    <3>3. CASE old.parentActive /\ old.state # "pending"
      BY <1>2, <2>1, <2>4, <3>3
    <3>4. QED
      BY <3>1, <3>2, <3>3
  <2>6. QED
    BY <2>2, <2>5 DEF BranchOK
<1>5. frames' = [frames EXCEPT ![Len(frames)] = new] /\ err' = err
  BY DEF Else
<1>6. QED
  BY <1>1, <1>2, <1>3, <1>4, <1>5, TopUpdateKeepsInv

\* What `Vec::pop` leaves.
LEMMA AllButLast ==
  ASSUME NEW S, NEW s \in Seq(S), s # <<>>
  PROVE  LET n    == Len(s)
             rest == SubSeq(s, 1, n - 1)
         IN  /\ rest \in Seq(S)
             /\ Len(rest) = n - 1
             /\ \A i \in 1..(n - 1) : rest[i] = s[i] /\ i \in 1..n
<1> DEFINE n == Len(s)
<1>1. n \in Nat /\ n >= 1 /\ n - 1 \in Int /\ 1 \in Int
  OBVIOUS
<1>2. \A i \in 1..(n - 1) : i \in 1..n /\ s[i] \in S
  BY <1>1
<1> HIDE DEF n
<1> DEFINE m    == n - 1
           rest == SubSeq(s, 1, m)
<1>3. m \in Int /\ m \in Nat
  BY <1>1
<1>4. \A i \in 1..m : s[i] \in S
  BY <1>2
<1> HIDE DEF m
<1>5. /\ rest \in Seq(S)
      /\ Len(rest) = IF 1 <= m THEN m - 1 + 1 ELSE 0
      /\ \A i \in 1..(m - 1 + 1) : rest[i] = s[1 + i - 1]
  BY <1>1, <1>3, <1>4, SubSeqProperties
<1> HIDE DEF rest
<1>6. Len(rest) = m /\ \A i \in 1..m : rest[i] = s[i]
  BY <1>3, <1>5
<1>7. QED
  BY <1>2, <1>5, <1>6 DEF m, n, rest

\* `$endif`: what is left of the stack was already right.
LEMMA EndIfKeepsInv ==
  ASSUME StackInv, NEW f \in Files, EndIf(f)
  PROVE  StackInv'
<1> DEFINE n == Len(frames)
<1>1. n \in Nat /\ n >= 1 /\ frames \in Seq(Frame)
  BY DEF EndIf, OwnsTop, StackInv, CondTypeOK
<1>2. /\ frames' \in Seq(Frame)
      /\ Len(frames') = n - 1
      /\ \A i \in 1..(n - 1) : frames'[i] = frames[i] /\ i \in 1..n
  <2>1. frames' = SubSeq(frames, 1, n - 1)
    BY DEF EndIf
  <2>2. QED
    BY <1>1, <2>1, AllButLast
<1>3. CondTypeOK'
  BY <1>2 DEF EndIf, StackInv, CondTypeOK
<1>4. \A i \in 1..Len(frames') : frames'[i].tests # <<>>
  <2>1. \A i \in 1..n : frames[i].tests # <<>>
    BY DEF StackInv
  <2>2. QED
    BY <1>2, <2>1
<1>5. ParentFoldsOuter'
  <2>1. ASSUME NEW i \in 1..(n - 1)
        PROVE  frames'[i].parentActive
                 <=> \A j \in 1..(i - 1) : frames'[j].state = "live"
    <3>1. \A j \in 1..(i - 1) : frames'[j] = frames[j]
      BY <1>1, <1>2
    <3>2. frames[i].parentActive
            <=> \A j \in 1..(i - 1) : frames[j].state = "live"
      BY <1>2 DEF StackInv, ParentFoldsOuter
    <3>3. QED
      BY <1>2, <3>1, <3>2
  <2>2. QED
    BY <1>2, <2>1 DEF ParentFoldsOuter
<1>6. FirstTrueBranchWins'
  <2>1. \A i \in 1..n : BranchOK(frames[i])
    BY DEF StackInv, FirstTrueBranchWins
  <2>2. QED
    BY <1>2, <2>1 DEF FirstTrueBranchWins
<1>7. QED
  BY <1>3, <1>4, <1>5, <1>6 DEF StackInv

-----------------------------------------------------------------------------

\* Every step of the walk, including the ones that only record an error.
LEMMA StepKeepsInv ==
  ASSUME StackInv, [CondNext]_frames
  PROVE  StackInv'
<1>1. ASSUME UNCHANGED frames PROVE StackInv'
  <2>1. CondTypeOK' /\ \A i \in 1..Len(frames') : frames'[i].tests # <<>>
    BY <1>1 DEF StackInv, CondTypeOK
  <2>2. ParentFoldsOuter' /\ FirstTrueBranchWins'
    BY <1>1 DEF StackInv, ParentFoldsOuter, FirstTrueBranchWins
  <2>3. QED
    BY <2>1, <2>2 DEF StackInv
<1>2. ASSUME NEW f \in Files, NEW t \in BOOLEAN, Open(f, t) PROVE StackInv'
  BY <1>2, OpenKeepsInv
<1>3. ASSUME NEW f \in Files, NEW t \in BOOLEAN, ElseIf(f, t) PROVE StackInv'
  BY <1>3, ElseIfKeepsInv
<1>4. ASSUME NEW f \in Files, Else(f) PROVE StackInv'
  BY <1>4, ElseKeepsInv
<1>5. ASSUME NEW f \in Files, EndIf(f) PROVE StackInv'
  BY <1>5, EndIfKeepsInv
<1>6. ASSUME NEW f \in Files, Stray(f) PROVE StackInv'
  BY <1>1, <1>6 DEF Stray
<1>7. ASSUME NEW f \in Files, AfterElse(f) PROVE StackInv'
  BY <1>1, <1>7 DEF AfterElse
<1>8. CASE Halted \/ UNCHANGED frames
  BY <1>1, <1>8 DEF Halted, condVars
<1>9. QED
  BY <1>2, <1>3, <1>4, <1>5, <1>6, <1>7, <1>8 DEF CondNext

\* The stack invariant holds in every reachable state of every system whose
\* steps change the stack only the way the directives do.
THEOREM StackInvariant == StackSpec => []StackInv
<1>1. CondInit => StackInv
  <2> SUFFICES ASSUME CondInit PROVE StackInv
    OBVIOUS
  <2>1. frames = <<>> /\ err = "none"
    BY DEF CondInit
  <2>2. Len(frames) = 0 /\ frames \in Seq(Frame) /\ 1..Len(frames) = {}
    BY <2>1
  <2>3. QED
    BY <2>1, <2>2 DEF StackInv, CondTypeOK, ParentFoldsOuter, FirstTrueBranchWins
<1>2. StackInv /\ [CondNext]_frames => StackInv'
  BY StepKeepsInv
<1>3. QED
  BY <1>1, <1>2, PTL DEF StackSpec

\* The stack alone is such a system.
LEMMA StackAlone == CondSpec => StackSpec
<1>1. [CondNext]_condVars => [CondNext]_frames
  BY DEF condVars
<1>2. QED
  BY <1>1, PTL DEF CondSpec, StackSpec

\* Types: the stack only ever holds well-formed frames.
THEOREM CondTypeCorrect == StackSpec => []CondTypeOK
<1>1. StackInv => CondTypeOK
  BY DEF StackInv
<1>2. QED
  BY <1>1, StackInvariant, PTL

\* `ConditionalStack::active` may look at the top frame alone: it is true
\* exactly when every open chain is in its live branch, however deep.
THEOREM ActiveIsAllLive == StackSpec => []ActiveIffAllLive
<1>1. StackInv => ActiveIffAllLive
  BY TopDecides DEF StackInv
<1>2. QED
  BY <1>1, StackInvariant, PTL

\* parent_active folds in every outer frame.
THEOREM ParentsFold == StackSpec => []ParentFoldsOuter
<1>1. StackInv => ParentFoldsOuter
  BY DEF StackInv
<1>2. QED
  BY <1>1, StackInvariant, PTL

\* Exactly one branch of a chain is active, the first whose condition is true
\* or the `$else`; chains in skipped text never activate.
THEOREM FirstTrueWins == StackSpec => []FirstTrueBranchWins
<1>1. StackInv => FirstTrueBranchWins
  BY DEF StackInv
<1>2. QED
  BY <1>1, StackInvariant, PTL

\* A chain whose live branch is behind it has no live branch again until it
\* is closed, whatever directive comes next.
THEOREM DoneIsFinal == StackSpec => NoBranchAfterDone
<1> DEFINE StaysDone == \A i \in 1..Len(frames) :
                      (frames[i].state = "done" /\ i <= Len(frames'))
                         => frames'[i].state = "done"
<1>1. ASSUME CondTypeOK, CondNext PROVE StaysDone
  <2> DEFINE n == Len(frames)
  <2>1. n \in Nat /\ frames \in Seq(Frame)
    BY <1>1 DEF CondTypeOK
  <2>2. ASSUME NEW f \in Files, NEW t \in BOOLEAN, Open(f, t) PROVE StaysDone
    BY <2>1, <2>2 DEF Open
  <2>3. ASSUME NEW fr, NEW f, OwnsTop(f), frames' = [frames EXCEPT ![n] = fr],
               frames[n].state = "done" => fr.state = "done"
        PROVE  StaysDone
    BY <2>1, <2>3 DEF OwnsTop
  <2>4. ASSUME NEW f \in Files, NEW t \in BOOLEAN, ElseIf(f, t) PROVE StaysDone
    <3>1. frames[n] \in Frame
      BY <2>1, <2>4 DEF ElseIf, OwnsTop
    <3>2. frames[n].state = "done" => Continued(frames[n], t).state = "done"
      BY <3>1 DEF Continued, Frame
    <3>3. QED
      BY <2>3, <2>4, <3>2 DEF ElseIf
  <2>5. ASSUME NEW f \in Files, Else(f) PROVE StaysDone
    <3>1. frames[n] \in Frame
      BY <2>1, <2>5 DEF Else, OwnsTop
    <3>2. frames[n].state = "done" => Elsed(frames[n]).state = "done"
      BY <3>1 DEF Elsed, Frame
    <3>3. QED
      BY <2>3, <2>5, <3>2 DEF Else
  <2>6. ASSUME NEW f \in Files, EndIf(f) PROVE StaysDone
    <3>1. /\ Len(frames') = n - 1
          /\ \A i \in 1..(n - 1) : frames'[i] = frames[i]
      BY <2>1, <2>6, AllButLast DEF EndIf, OwnsTop
    <3>2. QED
      BY <2>1, <3>1
  <2>7. CASE UNCHANGED frames
    BY <2>7
  <2>8. QED
    BY <1>1, <2>2, <2>4, <2>5, <2>6, <2>7
       DEF CondNext, Stray, AfterElse, Halted, condVars
<1>2. CondTypeOK /\ [CondNext]_frames => [StaysDone]_frames
  BY <1>1
<1>3. QED
  BY <1>2, CondTypeCorrect, PTL DEF StackSpec, NoBranchAfterDone

-----------------------------------------------------------------------------
(* The walk of the files. *)

\* Outside the walk of a file all chains are live.
IdleIsLive == (Len(loads) = Len(stack) /\ loads # <<>>)
                 => \A i \in 1..Len(frames) : frames[i].state = "live"

FilesAreSeen ==
  /\ \A k \in 1..Len(stack) : stack[k].file \in seen
  /\ \A i \in 1..Len(frames) : frames[i].opened \in seen

WalkedOnce ==
  \A j, k \in 1..Len(stack) : stack[j].file = stack[k].file => j = k

BasesNest ==
  \A k \in 1..Len(stack) :
     /\ stack[k].base <= Len(frames)
     /\ \A j \in 1..k : stack[j].base <= stack[k].base

\* The inductive invariant of the walk.
WalkInv ==
  /\ StackInv
  /\ stack \in Seq(Context) /\ loads \in Seq(Load) /\ seen \subseteq Files
  /\ Len(stack) \in {Len(loads), Len(loads) + 1}
  /\ Entry \notin seen => stack = <<>> /\ loads = <<>> /\ frames = <<>>
  /\ FilesAreSeen /\ WalkedOnce /\ BasesNest
  /\ ChainsFollowFiles /\ ImportersAreLive /\ IdleIsLive

-----------------------------------------------------------------------------
\* What `$import` finds on the disk.

\* The first root that offers a module exists when any does.
LEMMA FirstRootExists ==
  ASSUME NEW m \in Modules, Resolvable(m)
  PROVE  FirstRoot(m) \in 1..NumRoots /\ Offers(FirstRoot(m), m)
<1> DEFINE T == {r \in 1..NumRoots : Offers(r, m)}
           Less == {ss \in Nat \X Nat : ss[1] < ss[2]}
<1>0. NumRoots \in Nat
  BY DiskAssumption
<1>1. T \subseteq Nat /\ T # {}
  BY <1>0 DEF Resolvable
<1>2. IsWellFoundedOn(Less, Nat)
  BY NatLessThanWellFounded DEF OpToRel
<1>3. PICK r \in T : \A q \in T : <<q, r>> \notin Less
  <2> HIDE DEF T, Less
  <2> QED BY <1>1, <1>2, WFMin
<1>4. \A q \in T : ~(q < r)
  BY <1>1, <1>3
<1>5. /\ r \in 1..NumRoots /\ Offers(r, m)
      /\ \A q \in 1..(r - 1) : ~Offers(q, m)
  BY <1>0, <1>3, <1>4
<1> QED BY <1>5 DEF FirstRoot

\* What it loads for a module is a sequence of files.
LEMMA ModuleFilesAreFiles ==
  ASSUME NEW m \in Modules, Resolvable(m)
  PROVE  ModuleFiles(m) \in Seq(Files)
<1> DEFINE r == FirstRoot(m)
<1>1. r \in 1..NumRoots
  BY FirstRootExists
<1> HIDE DEF r
<1>2. FileForm[r][m] \subseteq Files /\ DirForm[r][m] \in Seq(Files)
  BY <1>1, DiskAssumption
<1>3. CASE FileForm[r][m] # {}
  <2>1. (CHOOSE f \in FileForm[r][m] : TRUE) \in Files
    BY <1>2, <1>3
  <2> QED BY <2>1, <1>3 DEF ModuleFiles, r
<1>4. CASE FileForm[r][m] = {}
  BY <1>2, <1>4 DEF ModuleFiles, r
<1> QED BY <1>3, <1>4

-----------------------------------------------------------------------------
\* The shapes of a step.

\* The files walked, and their baselines, are the same as before.
SameShape ==
  /\ stack' \in Seq(Context) /\ Len(stack') = Len(stack)
  /\ \A k \in 1..Len(stack) : /\ stack'[k].file = stack[k].file
                              /\ stack'[k].base = stack[k].base

\* While a file is walked the top of the stack is its context.
LEMMA TopIsContext ==
  ASSUME WalkInv, Walking
  PROVE  /\ Len(stack) \in Nat /\ Len(stack) >= 1 /\ Len(stack) \in 1..Len(stack)
         /\ Top = stack[Len(stack)]
         /\ Top \in Context /\ Top.file \in Files
         /\ Entry \in seen
<1>1. stack \in Seq(Context) /\ loads \in Seq(Load) /\ Len(stack) = Len(loads) + 1
  BY DEF WalkInv, Walking
<1>2. Len(stack) \in Nat /\ Len(stack) >= 1 /\ Len(stack) \in 1..Len(stack)
  BY <1>1
<1>3. Top \in Context
  BY <1>1, <1>2 DEF Top
<1>3a. Top.file \in Files
  BY <1>3 DEF Context
<1>4. Entry \in seen
  BY <1>2 DEF WalkInv
<1> QED BY <1>2, <1>3, <1>3a, <1>4 DEF Top

\* Every baseline is a depth the chain stack still reaches.
LEMMA BasesAreDepths ==
  ASSUME WalkInv
  PROVE  \A k \in 1..Len(stack) :
            stack[k] \in Context /\ stack[k].base \in Nat /\ stack[k].base <= Len(frames)
<1>1. ASSUME NEW k \in 1..Len(stack)
      PROVE  stack[k] \in Context /\ stack[k].base \in Nat /\ stack[k].base <= Len(frames)
  <2>1. stack[k] \in Context
    BY DEF WalkInv
  <2>2. stack[k].base \in Nat
    BY <2>1 DEF Context
  <2>3. stack[k].base <= Len(frames)
    BY DEF WalkInv, BasesNest
  <2> QED BY <2>1, <2>2, <2>3
<1> QED BY <1>1

\* Reading a line rewrites the top context in place.
LEMMA SetTopKeepsShape ==
  ASSUME WalkInv, Walking, NEW c \in Context, SetTop(c),
         c.file = Top.file, c.base = Top.base
  PROVE  SameShape
<1> DEFINE n == Len(stack)
           d == [c EXCEPT !.lines = c.lines + 1]
<1>1. n \in Nat /\ n \in 1..n /\ stack \in Seq(Context) /\ Top = stack[n]
  BY TopIsContext DEF WalkInv
<1>2. d \in Context /\ d.file = c.file /\ d.base = c.base
  <2> DEFINE more == c.lines + 1
  <2>1. more \in Nat
    BY DEF Context
  <2>2. d = [c EXCEPT !.lines = more]
    OBVIOUS
  <2> HIDE DEF more, d
  <2> QED BY <2>1, <2>2 DEF Context
<1>3. stack' = [stack EXCEPT ![n] = d]
  BY DEF SetTop
<1> HIDE DEF d, n
<1>4. /\ stack' \in Seq(Context) /\ Len(stack') = Len(stack)
      /\ \A k \in 1..Len(stack) : stack'[k] = IF k = n THEN d ELSE stack[k]
  BY <1>1, <1>2, <1>3, ExceptSeq DEF n
<1> QED BY <1>1, <1>2, <1>4 DEF SameShape, n

\* Only chains above the top file's baseline change, and they are its own.
AboveBaseline ==
  /\ Len(frames') >= Top.base
  /\ \A i \in 1..Len(frames') :
        IF i <= Top.base
        THEN /\ frames'[i].opened = frames[i].opened
             /\ frames'[i].state = frames[i].state
        ELSE frames'[i].opened = Top.file

\* A directive that steers the chains steers the reading file's own.
LEMMA DirectiveStaysAboveBaseline ==
  ASSUME WalkInv, Walking, NEW t \in BOOLEAN,
         \/ Open(Top.file, t) \/ ElseIf(Top.file, t)
         \/ Else(Top.file) \/ EndIf(Top.file)
  PROVE  AboveBaseline
<1> DEFINE n == Len(frames)
           f == Top.file
           b == Top.base
<1>1. n \in Nat /\ frames \in Seq(Frame)
  BY DEF WalkInv, StackInv, CondTypeOK
<1>2. Top \in Context
  BY TopIsContext
<1>3. b \in Nat
  BY <1>2 DEF Context
<1>4. b <= n /\ \A i \in 1..n : frames[i].opened = f <=> b < i
  BY TopIsContext DEF WalkInv, BasesNest, ChainsFollowFiles
<1> HIDE DEF b
<1>5. ASSUME Open(f, t) PROVE AboveBaseline
  <2>1. frames' = Append(frames, NewFrame(f, t)) /\ NewFrame(f, t).opened = f
    BY <1>5 DEF Open, NewFrame
  <2> HIDE DEF f
  <2>2. /\ Len(frames') = n + 1 /\ frames'[n + 1].opened = f
        /\ \A i \in 1..n : frames'[i] = frames[i]
    BY <1>1, <2>1
  <2>3. \A i \in 1..(n + 1) : i \in 1..n \/ (i = n + 1 /\ ~(i <= b))
    BY <1>1, <1>3, <1>4
  <2>4. \A i \in 1..(n + 1) :
           IF i <= b THEN frames'[i] = frames[i] ELSE frames'[i].opened = f
    BY <1>1, <1>3, <1>4, <2>2, <2>3
  <2> QED BY <1>1, <1>3, <1>4, <2>2, <2>4 DEF AboveBaseline, f, b
<1>6. ASSUME NEW fr, OwnsTop(f), frames' = [frames EXCEPT ![n] = fr],
             fr.opened = frames[n].opened
      PROVE  AboveBaseline
  <2>1. n \in 1..n /\ frames[n].opened = f
    BY <1>1, <1>6 DEF OwnsTop
  <2>2. b < n
    BY <1>4, <2>1
  <2> HIDE DEF f
  <2>3. /\ Len(frames') = n
        /\ \A i \in 1..n : frames'[i] = IF i = n THEN fr ELSE frames[i]
    BY <1>1, <1>6
  <2>4. \A i \in 1..n :
           IF i <= b THEN frames'[i] = frames[i] ELSE frames'[i].opened = f
    <3>1. fr.opened = f
      BY <1>6, <2>1
    <3>2. ~(n <= b)
      BY <1>1, <1>3, <2>2
    <3> QED BY <1>1, <1>3, <1>4, <2>3, <3>1, <3>2
  <2> QED BY <1>3, <1>4, <2>3, <2>4 DEF AboveBaseline, f, b
<1>7. ASSUME ElseIf(f, t) PROVE AboveBaseline
  <2>1. n \in 1..n /\ frames[n] \in Frame
    BY <1>1, <1>7 DEF ElseIf, OwnsTop
  <2>2. Continued(frames[n], t).opened = frames[n].opened
    BY <2>1 DEF Continued, Frame
  <2> QED BY <1>6, <1>7, <2>2 DEF ElseIf
<1>8. ASSUME Else(f) PROVE AboveBaseline
  <2>1. n \in 1..n /\ frames[n] \in Frame
    BY <1>1, <1>8 DEF Else, OwnsTop
  <2>2. Elsed(frames[n]).opened = frames[n].opened
    BY <2>1 DEF Elsed, Frame
  <2> QED BY <1>6, <1>8, <2>2 DEF Else
<1>9. ASSUME EndIf(f) PROVE AboveBaseline
  <2>1. n \in 1..n /\ frames[n].opened = f /\ frames # <<>>
    BY <1>1, <1>9 DEF EndIf, OwnsTop
  <2>2. b < n
    BY <1>4, <2>1
  <2>3. /\ Len(frames') = n - 1
        /\ \A i \in 1..(n - 1) : frames'[i] = frames[i] /\ i \in 1..n
    BY <1>1, <1>9, <2>1, AllButLast DEF EndIf
  <2> HIDE DEF f
  <2>4. \A i \in 1..(n - 1) :
           IF i <= b THEN frames'[i] = frames[i] ELSE frames'[i].opened = f
    BY <1>1, <1>3, <1>4, <2>3
  <2>5. Len(frames') >= b
    BY <1>1, <1>3, <2>2, <2>3
  <2> QED BY <2>3, <2>4, <2>5 DEF AboveBaseline, f, b
<1> QED BY <1>5, <1>7, <1>8, <1>9

-----------------------------------------------------------------------------
\* The kinds of steps, one lemma each.

\* A step that leaves the chains alone and neither enters nor leaves a file.
LEMMA QuietStep ==
  ASSUME WalkInv, SameShape, UNCHANGED frames,
         seen \subseteq seen', seen' \subseteq Files,
         loads' \in Seq(Load), Len(stack') \in {Len(loads'), Len(loads') + 1},
         Entry \in seen' \/ loads' = loads,
         (Len(loads') = Len(stack') /\ loads' # <<>>)
            => \A i \in 1..Len(frames) : frames[i].state = "live"
  PROVE  WalkInv'
<1>1. StackInv'
  BY StepKeepsInv DEF WalkInv
<1>2. Entry \notin seen' => stack' = <<>> /\ loads' = <<>> /\ frames' = <<>>
  BY DEF WalkInv, SameShape
<1>3. FilesAreSeen'
  BY DEF WalkInv, SameShape, FilesAreSeen
<1>4. WalkedOnce' /\ BasesNest'
  <2>1. Len(stack) \in Nat
    BY DEF WalkInv
  <2> QED BY <2>1 DEF WalkInv, SameShape, WalkedOnce, BasesNest
<1>5. ChainsFollowFiles'
  <2>1. Len(stack) \in Nat
    BY DEF WalkInv
  <2>2. \A k \in 1..Len(stack) : k < Len(stack) => k + 1 \in 1..Len(stack)
    BY <2>1
  <2> QED BY <2>1, <2>2 DEF WalkInv, SameShape, ChainsFollowFiles
<1>6. ImportersAreLive' /\ IdleIsLive'
  BY DEF WalkInv, SameShape, ImportersAreLive, IdleIsLive
<1> QED BY <1>1, <1>2, <1>3, <1>4, <1>5, <1>6 DEF WalkInv, SameShape

\* A directive of the top file that changes the chains.
LEMMA ChainStep ==
  ASSUME WalkInv, Walking, SameShape, AboveBaseline, StackInv',
         UNCHANGED <<seen, loads>>
  PROVE  WalkInv'
<1> DEFINE n == Len(stack)
           b == Top.base
<1>1. /\ n \in Nat /\ n \in 1..n /\ Top = stack[n] /\ Entry \in seen
      /\ Top.file \in seen
  BY TopIsContext DEF WalkInv, FilesAreSeen
<1>2. Len(frames') \in Nat /\ Len(frames) \in Nat
  BY DEF WalkInv, StackInv, CondTypeOK
<1>3. \A k \in 1..n : stack[k].base <= b /\ stack[k].base \in Nat
  BY <1>1, BasesAreDepths DEF WalkInv, BasesNest
<1>4. b <= Len(frames) /\ b <= Len(frames') /\ b \in Nat
  BY <1>1, <1>2, <1>3 DEF WalkInv, BasesNest, AboveBaseline
<1>5. \A i \in 1..Len(frames') :
         IF i <= b THEN /\ i \in 1..Len(frames)
                        /\ frames'[i].opened = frames[i].opened
                        /\ frames'[i].state = frames[i].state
                   ELSE frames'[i].opened = Top.file
  BY <1>2, <1>4 DEF AboveBaseline
<1> HIDE DEF b
<1>6. FilesAreSeen'
  BY <1>1, <1>5 DEF WalkInv, SameShape, FilesAreSeen
<1>7. WalkedOnce'
  BY <1>1 DEF WalkInv, SameShape, WalkedOnce
<1>8. BasesNest'
  <2>1. \A k \in 1..n : stack[k].base <= Len(frames')
    BY <1>2, <1>3, <1>4
  <2> QED BY <1>1, <2>1 DEF WalkInv, SameShape, BasesNest
<1>9. ImportersAreLive'
  <2>1. ASSUME NEW k \in 1..n, NEW i \in 1..Len(frames'), i <= stack[k].base
        PROVE  frames'[i].state = "live"
    <3>1. i <= b
      BY <1>3, <1>4, <2>1
    <3>2. frames[i].state = "live" /\ frames'[i].state = frames[i].state
      BY <1>5, <2>1, <3>1 DEF WalkInv, ImportersAreLive
    <3> QED BY <3>2
  <2> QED BY <2>1 DEF SameShape, ImportersAreLive
<1>10. ChainsFollowFiles'
  <2>1. ASSUME NEW k \in 1..n, NEW i \in 1..Len(frames')
        PROVE  frames'[i].opened = stack[k].file
                 <=> /\ stack[k].base < i
                     /\ k < n => i <= stack[k + 1].base
    <3>1. CASE i <= b
      <4>1. i \in 1..Len(frames) /\ frames'[i].opened = frames[i].opened
        BY <1>5, <3>1
      <4> QED BY <4>1 DEF WalkInv, ChainsFollowFiles
    <3>2. CASE ~(i <= b) /\ k = n
      <4>1. frames'[i].opened = Top.file
        BY <1>5, <3>2
      <4>2. b < i /\ ~(k < n)
        BY <1>1, <1>4, <3>2
      <4>3. stack[k].file = Top.file /\ stack[k].base = b
        BY <1>1, <3>2 DEF b
      <4> QED BY <4>1, <4>2, <4>3
    <3>3. CASE ~(i <= b) /\ k # n
      <4>1. frames'[i].opened = stack[n].file
        BY <1>1, <1>5, <3>3
      <4>2. stack[n].file # stack[k].file
        BY <1>1, <3>3 DEF WalkInv, WalkedOnce
      <4>3. k < n /\ k + 1 \in 1..n
        BY <1>1, <3>3
      <4>4. ~(i <= stack[k + 1].base)
        BY <1>3, <1>4, <3>3, <4>3
      <4> QED BY <4>1, <4>2, <4>3, <4>4
    <3> QED BY <3>1, <3>2, <3>3
  <2>2. \A k \in 1..n : k < n => k + 1 \in 1..n
    BY <1>1
  <2> QED BY <1>1, <2>1, <2>2 DEF SameShape, ChainsFollowFiles
<1>11. IdleIsLive'
  BY <1>1 DEF WalkInv, SameShape, Walking, IdleIsLive
<1>12. Entry \notin seen' => stack' = <<>> /\ loads' = <<>> /\ frames' = <<>>
  BY <1>1
<1> QED BY <1>6, <1>7, <1>8, <1>9, <1>10, <1>11, <1>12 DEF WalkInv, SameShape

\* Entering a file that was not seen before, from live text.
LEMMA EnterStep ==
  ASSUME WalkInv, NEW c \in Context, c.file \notin seen, c.base = Len(frames),
         stack' = Append(stack, c), seen' = seen \cup {c.file},
         UNCHANGED frames, Entry \in seen',
         loads' \in Seq(Load), Len(loads') = Len(loads), Len(stack) = Len(loads),
         \A i \in 1..Len(frames) : frames[i].state = "live"
  PROVE  WalkInv'
<1> DEFINE n == Len(stack)
<1>1. n \in Nat /\ stack \in Seq(Context) /\ Len(frames) \in Nat /\ c.file \in Files
  BY DEF WalkInv, StackInv, CondTypeOK, Context
<1>2. /\ stack' \in Seq(Context) /\ Len(stack') = n + 1 /\ stack'[n + 1] = c
      /\ \A k \in 1..n : stack'[k] = stack[k]
  BY <1>1
<1>3. \A k \in 1..(n + 1) : k \in 1..n \/ k = n + 1
  BY <1>1
<1>4. StackInv'
  BY StepKeepsInv DEF WalkInv
<1>5. FilesAreSeen'
  BY <1>2, <1>3 DEF WalkInv, FilesAreSeen
<1>6. WalkedOnce'
  <2>1. \A k \in 1..n : stack[k].file # c.file
    BY DEF WalkInv, FilesAreSeen
  <2> QED BY <1>2, <1>3, <2>1 DEF WalkInv, WalkedOnce
<1>7. \A k \in 1..n : stack[k].base <= Len(frames) /\ stack[k].base \in Nat
  BY BasesAreDepths
<1>8. BasesNest'
  <2>1. \A k \in 1..(n + 1) : stack'[k].base <= Len(frames)
    BY <1>1, <1>2, <1>3, <1>7
  <2>2. \A k \in 1..n : \A j \in 1..k : j \in 1..n /\ stack'[j].base <= stack'[k].base
    BY <1>1, <1>2 DEF WalkInv, BasesNest
  <2>3. \A j \in 1..(n + 1) : stack'[j].base <= stack'[n + 1].base
    BY <1>1, <1>2, <2>1
  <2> QED BY <1>2, <1>3, <2>1, <2>2, <2>3 DEF BasesNest
<1>9. ImportersAreLive' /\ IdleIsLive'
  BY <1>1, <1>2 DEF ImportersAreLive, IdleIsLive
<1>10. ChainsFollowFiles'
  <2>1. ASSUME NEW k \in 1..(n + 1), NEW i \in 1..Len(frames)
        PROVE  frames[i].opened = stack'[k].file
                 <=> /\ stack'[k].base < i
                     /\ k < n + 1 => i <= stack'[k + 1].base
    <3>1. CASE k = n + 1
      <4>1. frames[i].opened # c.file
        BY DEF WalkInv, FilesAreSeen
      <4> QED BY <1>1, <1>2, <3>1, <4>1
    <3>2. CASE k = n /\ k \in 1..n
      <4>1. frames[i].opened = stack[n].file <=> stack[n].base < i
        BY <1>1, <3>2 DEF WalkInv, ChainsFollowFiles
      <4>2. i <= stack'[n + 1].base
        BY <1>1, <1>2
      <4> QED BY <1>2, <3>2, <4>1, <4>2
    <3>3. CASE k < n
      <4>1. k \in 1..n /\ k + 1 \in 1..n
        BY <1>1, <3>3
      <4>2. stack'[k] = stack[k] /\ stack'[k + 1] = stack[k + 1]
        BY <1>2, <4>1
      <4> QED BY <1>1, <3>3, <4>1, <4>2 DEF WalkInv, ChainsFollowFiles
    <3> QED BY <1>1, <1>3, <3>1, <3>2, <3>3
  <2> QED BY <1>2, <2>1 DEF ChainsFollowFiles
<1> QED BY <1>1, <1>2, <1>4, <1>5, <1>6, <1>8, <1>9, <1>10 DEF WalkInv

\* Leaving a file all of whose own chains are closed.
LEMMA LeaveStep ==
  ASSUME WalkInv, Walking, ~(Len(frames) > Top.base),
         stack' = SubSeq(stack, 1, Len(stack) - 1),
         UNCHANGED <<frames, seen, loads>>
  PROVE  WalkInv'
<1> DEFINE n == Len(stack)
<1>1. /\ n \in Nat /\ n >= 1 /\ n \in 1..n /\ Top = stack[n] /\ Entry \in seen
      /\ stack \in Seq(Context) /\ stack # <<>> /\ Len(frames) \in Nat
  BY TopIsContext DEF WalkInv, StackInv, CondTypeOK
<1>2. /\ stack' \in Seq(Context) /\ Len(stack') = n - 1
      /\ \A k \in 1..(n - 1) : stack'[k] = stack[k] /\ k \in 1..n
  BY <1>1, AllButLast
<1>3. StackInv'
  BY StepKeepsInv DEF WalkInv
<1>4. Top.base = Len(frames)
  BY <1>1, BasesAreDepths
<1>5. FilesAreSeen' /\ WalkedOnce'
  BY <1>2 DEF WalkInv, FilesAreSeen, WalkedOnce
<1>6. BasesNest'
  <2>1. \A k \in 1..(n - 1) : \A j \in 1..k : j \in 1..(n - 1)
    BY <1>1
  <2> QED BY <1>2, <2>1 DEF WalkInv, BasesNest
<1>7. ImportersAreLive'
  BY <1>2 DEF WalkInv, ImportersAreLive
<1>8. IdleIsLive'
  BY <1>1, <1>4 DEF WalkInv, ImportersAreLive, IdleIsLive
<1>9. ChainsFollowFiles'
  <2>1. ASSUME NEW k \in 1..(n - 1), NEW i \in 1..Len(frames)
        PROVE  frames[i].opened = stack'[k].file
                 <=> /\ stack'[k].base < i
                     /\ k < n - 1 => i <= stack'[k + 1].base
    <3>1. k \in 1..n /\ k < n /\ stack'[k] = stack[k]
      BY <1>1, <1>2
    <3>2. frames[i].opened = stack[k].file
             <=> stack[k].base < i /\ i <= stack[k + 1].base
      BY <3>1 DEF WalkInv, ChainsFollowFiles
    <3>3. CASE k = n - 1
      <4>1. k + 1 = n /\ i <= stack[k + 1].base
        BY <1>1, <1>4, <3>3
      <4> QED BY <1>1, <3>1, <3>2, <3>3, <4>1
    <3>4. CASE k < n - 1
      <4>1. stack'[k + 1] = stack[k + 1]
        BY <1>1, <1>2, <3>4
      <4> QED BY <3>1, <3>2, <3>4, <4>1
    <3> QED BY <1>1, <3>3, <3>4
  <2> QED BY <1>2, <2>1 DEF ChainsFollowFiles
<1>10. Len(stack') = Len(loads') /\ loads' \in Seq(Load) /\ seen' \subseteq Files
  BY <1>1, <1>2 DEF WalkInv, Walking
<1> QED BY <1>1, <1>2, <1>3, <1>5, <1>6, <1>7, <1>8, <1>9, <1>10 DEF WalkInv

-----------------------------------------------------------------------------
\* Every step is one of these kinds.

\* Chains change only the way the directives of module Conditionals do.
LEMMA StepIsStackStep ==
  ASSUME WalkInv, [PreNext]_preVars
  PROVE  [CondNext]_frames
<1>1. ASSUME Walking PROVE Top.file \in Files
  BY <1>1, TopIsContext
<1>2. ASSUME NEW x, NEW want \in BOOLEAN, IfdefLine(x, want) PROVE CondNext
  <2>1. (Active /\ (IsDefined(x) <=> want)) \in BOOLEAN
    OBVIOUS
  <2>2. Top.file \in Files /\ Open(Top.file, Active /\ (IsDefined(x) <=> want))
    BY <1>1, <1>2 DEF IfdefLine, Reads, CondLine
  <2> QED BY <2>1, <2>2 DEF CondNext
<1>3. ASSUME NEW x, ElseifdefLine(x) PROVE CondNext
  <2>1. (Evaluates /\ IsDefined(x)) \in BOOLEAN
    OBVIOUS
  <2>2. Top.file \in Files /\ ElseIf(Top.file, Evaluates /\ IsDefined(x))
    BY <1>1, <1>3 DEF ElseifdefLine, Reads, CondLine
  <2> QED BY <2>1, <2>2 DEF CondNext
<1>4. ASSUME IfLine PROVE [CondNext]_frames
  <2>1. CASE \E t \in BOOLEAN : CondLine(Open(Top.file, t))
    BY <1>1, <1>4, <2>1 DEF IfLine, Reads, CondLine, CondNext
  <2>2. CASE CondLine(Fail("InvalidIfExpression"))
    BY <2>2 DEF CondLine, Fail
  <2> QED BY <1>4, <2>1, <2>2 DEF IfLine
<1>5. ASSUME ElseifLine PROVE [CondNext]_frames
  <2>1. CASE \E t \in BOOLEAN : CondLine(ElseIf(Top.file, t))
    BY <1>1, <1>5, <2>1 DEF ElseifLine, Reads, CondLine, CondNext
  <2>2. CASE CondLine(Fail("InvalidIfExpression"))
    BY <2>2 DEF CondLine, Fail
  <2> QED BY <1>5, <2>1, <2>2 DEF ElseifLine
<1>6. ASSUME ElseLine \/ EndifLine PROVE CondNext
  BY <1>1, <1>6 DEF ElseLine, EndifLine, Reads, CondLine, CondNext
<1>7. ASSUME BadCondLine PROVE UNCHANGED frames
  BY <1>7 DEF BadCondLine, CondLine, Stray, AfterElse, Fail
<1>8. ASSUME BadCliDefine \/ Start \/ LoadFile \/ LoadDone \/ EndFile
      PROVE  UNCHANGED frames
  BY <1>8 DEF BadCliDefine, Start, LoadFile, EnterFile, LoadDone, EndFile, LeaveFile, Fail
<1>9. ASSUME OpenBrace \/ CloseBrace \/ BadLine PROVE UNCHANGED frames
  BY <1>9 DEF OpenBrace, CloseBrace, BadLine, Fail
<1>10. ASSUME NEW m, ModuleLine(m) \/ ImportLine(m) PROVE UNCHANGED frames
  BY <1>10 DEF ModuleLine, ImportLine, Fail
<1>11. ASSUME NEW x, AddCliDefine(x) \/ DefineLine(x) \/ UndefineLine(x) \/ UseLine(x)
       PROVE  UNCHANGED frames
  BY <1>11 DEF AddCliDefine, DefineLine, UndefineLine, UseLine, Fail
<1>12. ASSUME Stopped \/ UNCHANGED preVars PROVE UNCHANGED frames
  BY <1>12 DEF Stopped, preVars
<1> QED BY <1>2, <1>3, <1>4, <1>5, <1>6, <1>7, <1>8, <1>9, <1>10, <1>11, <1>12
        DEF PreNext, PreStep

\* A line that stays in its file and leaves the chains and the loads alone.
LEMMA LineKeepsWalkInv ==
  ASSUME WalkInv, Walking, SameShape, UNCHANGED <<frames, seen, loads>>
  PROVE  WalkInv'
<1>1. Len(stack') \in {Len(loads'), Len(loads') + 1} /\ Len(loads') # Len(stack')
  BY TopIsContext DEF WalkInv, Walking, SameShape
<1> QED BY <1>1, QuietStep DEF WalkInv

\* A step that only fails, or only touches the tables.
LEMMA UnchangedKeepsWalkInv ==
  ASSUME WalkInv, UNCHANGED <<frames, stack, seen, loads>>
  PROVE  WalkInv'
<1>1. SameShape
  BY DEF WalkInv, SameShape
<1> QED BY <1>1, QuietStep DEF WalkInv, IdleIsLive

\* The loop over a module's files, and its end.
LEMMA LoadingStepKeepsWalkInv ==
  ASSUME WalkInv, LoadFile \/ LoadDone
  PROVE  WalkInv'
<1> DEFINE n == Len(loads)
           l == CurrentLoad
           f == Head(l.files)
<1>1. /\ n \in Nat /\ n >= 1 /\ n \in 1..n /\ loads \in Seq(Load) /\ loads # <<>>
      /\ Len(stack) = n /\ l = loads[n]
      /\ \A i \in 1..Len(frames) : frames[i].state = "live"
  BY DEF WalkInv, LoadFile, LoadDone, Loading, IdleIsLive, CurrentLoad
<1>2. l \in Load /\ l.files \in Seq(Files)
  <2>1. l \in Load
    BY <1>1
  <2> QED BY <2>1 DEF Load
<1>3. Entry \in seen
  BY <1>1 DEF WalkInv
<1>4. SameShape \/ stack' # stack
  BY DEF WalkInv, SameShape
<1>5. ASSUME LoadDone PROVE WalkInv'
  <2>1. /\ UNCHANGED <<frames, seen, stack>>
        /\ loads' = SubSeq(loads, 1, n - 1)
    BY <1>5 DEF LoadDone
  <2>2. loads' \in Seq(Load) /\ Len(loads') = n - 1
    BY <1>1, <2>1, AllButLast
  <2>3. Len(stack') = Len(loads') + 1
    <3>1. stack' = stack
      BY <2>1
    <3>2. Len(stack') = n
      BY <1>1, <3>1
    <3> QED BY <1>1, <2>2, <3>2
  <2> QED BY <1>1, <1>3, <1>4, <2>1, <2>2, <2>3, QuietStep DEF WalkInv
<1>6. ASSUME LoadFile PROVE WalkInv'
  <2>1. f \in Files
    BY <1>2, <1>6 DEF LoadFile
  <2>2. ASSUME SetLoad(Rest(l))
        PROVE  loads' \in Seq(Load) /\ Len(loads') = n
    <3>1. Tail(l.files) \in Seq(Files)
      BY <1>2, <1>6 DEF LoadFile
    <3>2. Rest(l) \in Load
      BY <1>2, <3>1 DEF Rest, Load
    <3>3. loads' = [loads EXCEPT ![n] = Rest(l)]
      BY <2>2 DEF SetLoad
    <3> QED BY <1>1, <3>2, <3>3, ExceptSeq
  <2>3. CASE f \notin seen /\ f \notin Unreadable
    <3> DEFINE c == [file |-> f, moduleSeen |-> FALSE, sawContent |-> FALSE,
                     imports |-> <<>>, brace |-> 0, base |-> Len(frames), lines |-> 0]
    <3>1. /\ seen' = seen \cup {f} /\ stack' = Append(stack, c)
          /\ UNCHANGED frames /\ SetLoad(Rest(l))
      BY <1>6, <2>3 DEF LoadFile, EnterFile
    <3>2. c \in Context /\ c.file = f /\ c.base = Len(frames)
      <4>1. Len(frames) \in Nat
        BY DEF WalkInv, StackInv, CondTypeOK
      <4> QED BY <2>1, <4>1 DEF Context
    <3> HIDE DEF c, f
    <3> QED BY <1>1, <1>3, <2>2, <2>3, <3>1, <3>2, EnterStep
  <2>4. CASE f \notin seen /\ f \in Unreadable
    <3>1. /\ seen' = seen \cup {f} /\ UNCHANGED <<frames, stack>>
          /\ SetLoad(Rest(l))
      BY <1>6, <2>4 DEF LoadFile, EnterFile
    <3>2. seen \subseteq seen' /\ seen' \subseteq Files /\ Entry \in seen'
      BY <1>3, <2>1, <3>1 DEF WalkInv
    <3> QED BY <1>1, <1>4, <2>2, <3>1, <3>2, QuietStep DEF WalkInv
  <2>5. CASE f \in seen
    <3>1. /\ UNCHANGED <<frames, stack, seen>>
          /\ SetLoad(Rest(l)) \/ UNCHANGED loads
      BY <1>6, <2>5 DEF LoadFile
    <3>2. loads' \in Seq(Load) /\ Len(loads') = n
      BY <1>1, <2>2, <3>1
    <3> QED BY <1>1, <1>3, <1>4, <3>1, <3>2, QuietStep DEF WalkInv
  <2> QED BY <2>3, <2>4, <2>5
<1> QED BY <1>5, <1>6

\* The entry file is entered with nothing open.
LEMMA StartKeepsWalkInv ==
  ASSUME WalkInv, Start
  PROVE  WalkInv'
<1>1. /\ Entry \in Files /\ Entry \notin seen /\ UNCHANGED <<frames, loads>>
      /\ seen' = seen \cup {Entry}
      /\ stack = <<>> /\ loads = <<>> /\ frames = <<>>
  BY DiskAssumption DEF Start, Seeding, EnterFile, WalkInv
<1>2. CASE Entry \in Unreadable
  <2>1. stack' = stack
    BY <1>2 DEF Start, EnterFile
  <2>2. SameShape
    BY <2>1 DEF WalkInv, SameShape
  <2> QED BY <1>1, <2>1, <2>2, QuietStep DEF WalkInv
<1>3. CASE Entry \notin Unreadable
  <2> DEFINE c == [file |-> Entry, moduleSeen |-> FALSE, sawContent |-> FALSE,
                   imports |-> <<>>, brace |-> 0, base |-> Len(frames), lines |-> 0]
  <2>1. stack' = Append(stack, c)
    BY <1>3 DEF Start, EnterFile
  <2>2. c \in Context /\ c.file = Entry /\ c.base = Len(frames)
    BY <1>1 DEF Context
  <2> HIDE DEF c
  <2> QED BY <1>1, <2>1, <2>2, EnterStep DEF WalkInv
<1> QED BY <1>2, <1>3

\* An `$import` is obeyed in live text, so all chains are live meanwhile.
LEMMA ImportKeepsWalkInv ==
  ASSUME WalkInv, NEW m \in Modules, ImportLine(m)
  PROVE  WalkInv'
<1> DEFINE list == IF m \in Elems(Top.imports) THEN Top.imports ELSE Append(Top.imports, m)
           c == [Top EXCEPT !.imports = list]
<1>1. Walking /\ Active /\ Top \in Context /\ Entry \in seen
  BY TopIsContext DEF ImportLine, Reads, AtTopLevel
<1>2. c \in Context /\ c.file = Top.file /\ c.base = Top.base
  <2>1. list \in Seq(Modules)
    BY <1>1 DEF Context
  <2> HIDE DEF list
  <2> QED BY <1>1, <2>1 DEF Context
<1>3. SameShape
  <2>1. SetTop(c)
    BY DEF ImportLine
  <2> HIDE DEF c
  <2> QED BY <1>1, <1>2, <2>1, SetTopKeepsShape
<1>4. \A i \in 1..Len(frames) : frames[i].state = "live"
  BY <1>1, TopDecides DEF WalkInv, StackInv, ActiveIffAllLive
<1>5. UNCHANGED <<frames, seen>>
  BY DEF ImportLine
<1>6. Len(loads) \in Nat /\ Len(stack') = Len(loads) + 1 /\ loads \in Seq(Load)
  BY <1>1, <1>3 DEF WalkInv, Walking, SameShape
<1>7. /\ loads' \in Seq(Load)
      /\ Len(loads') \in {Len(loads), Len(loads) + 1}
  <2>1. CASE UNCHANGED loads
    BY <1>6, <2>1
  <2>2. CASE /\ Resolvable(m)
             /\ loads' = Append(loads, [module |-> m, files |-> ModuleFiles(m)])
    <3>1. [module |-> m, files |-> ModuleFiles(m)] \in Load
      BY <2>2, ModuleFilesAreFiles DEF Load
    <3> QED BY <1>6, <2>2, <3>1
  <2> QED BY <2>1, <2>2 DEF ImportLine
<1>8. Len(stack') \in {Len(loads'), Len(loads') + 1}
  BY <1>6, <1>7
<1> QED BY <1>1, <1>3, <1>4, <1>5, <1>7, <1>8, QuietStep DEF WalkInv

\* A line that only touches the top file's own flags.
LEMMA FlagLineKeepsWalkInv ==
  ASSUME WalkInv, Walking, UNCHANGED <<frames, seen, loads>>,
         NEW c \in Context, c.file = Top.file, c.base = Top.base,
         SetTop(c) \/ UNCHANGED stack
  PROVE  WalkInv'
<1>1. CASE SetTop(c)
  BY <1>1, SetTopKeepsShape, LineKeepsWalkInv
<1>2. CASE UNCHANGED stack
  BY <1>2, UnchangedKeepsWalkInv
<1> QED BY <1>1, <1>2

\* Braces, uses, defines and `$module`.
LEMMA LineStepKeepsWalkInv ==
  ASSUME WalkInv,
         \/ OpenBrace \/ CloseBrace \/ BadLine
         \/ \E m \in Modules : ModuleLine(m)
         \/ \E x \in Names : DefineLine(x) \/ UndefineLine(x) \/ UseLine(x)
  PROVE  WalkInv'
<1>1. Walking /\ Top \in Context /\ Top.brace \in Nat
  <2>1. Walking
    BY DEF OpenBrace, CloseBrace, BadLine, ModuleLine, DefineLine, UndefineLine,
           UseLine, Reads
  <2>2. Top \in Context
    BY <2>1, TopIsContext
  <2> QED BY <2>1, <2>2 DEF Context
<1> DEFINE Used == [Top EXCEPT !.sawContent = TRUE]
           Declared == [Top EXCEPT !.moduleSeen = TRUE]
<1>2. /\ Used \in Context /\ Used.file = Top.file /\ Used.base = Top.base
      /\ Declared \in Context /\ Declared.file = Top.file /\ Declared.base = Top.base
  BY <1>1 DEF Context
<1>3. ASSUME NEW b \in Nat, SetTop([Top EXCEPT !.sawContent = TRUE, !.brace = b]),
             UNCHANGED <<frames, seen, loads>>
      PROVE  WalkInv'
  <2> DEFINE c == [Top EXCEPT !.sawContent = TRUE, !.brace = b]
  <2>1. c \in Context /\ c.file = Top.file /\ c.base = Top.base
    BY <1>1 DEF Context
  <2> HIDE DEF c
  <2>2. SetTop(c)
    BY <1>3 DEF c
  <2> QED BY <1>1, <1>3, <2>1, <2>2, FlagLineKeepsWalkInv
<1>4. ASSUME OpenBrace PROVE WalkInv'
  <2>1. Top.brace + 1 \in Nat
    BY <1>1
  <2> QED BY <1>3, <1>4, <2>1 DEF OpenBrace, driverVars
<1>5. ASSUME CloseBrace PROVE WalkInv'
  <2>1. OneLess(Top.brace) \in Nat
    BY <1>1 DEF OneLess
  <2> QED BY <1>3, <1>5, <2>1 DEF CloseBrace, driverVars
<1>6. ASSUME BadLine PROVE WalkInv'
  BY <1>6, UnchangedKeepsWalkInv DEF BadLine, Fail, driverVars
<1>7. ASSUME NEW m \in Modules, ModuleLine(m) PROVE WalkInv'
  <2>1. /\ UNCHANGED <<frames, seen, loads>>
        /\ SetTop(Declared) \/ UNCHANGED stack
    BY <1>7 DEF ModuleLine, Fail
  <2> HIDE DEF Declared
  <2> QED BY <1>1, <1>2, <2>1, FlagLineKeepsWalkInv
<1>8. ASSUME NEW x \in Names, DefineLine(x) \/ UndefineLine(x) PROVE WalkInv'
  <2>1. /\ UNCHANGED <<frames, seen, loads>>
        /\ SetTop(Top) \/ UNCHANGED stack
    BY <1>8 DEF DefineLine, UndefineLine, Fail, driverVars
  <2> QED BY <1>1, <2>1, FlagLineKeepsWalkInv
<1>9. ASSUME NEW x \in Names, UseLine(x) PROVE WalkInv'
  <2>1. UNCHANGED <<frames, seen, loads>> /\ SetTop(Used)
    BY <1>9 DEF UseLine, driverVars
  <2> HIDE DEF Used
  <2> QED BY <1>1, <1>2, <2>1, FlagLineKeepsWalkInv
<1> QED BY <1>4, <1>5, <1>6, <1>7, <1>8, <1>9

\* The conditional directives, their errors included.
LEMMA CondStepKeepsWalkInv ==
  ASSUME WalkInv, StackInv',
         \/ IfLine \/ ElseifLine \/ ElseLine \/ EndifLine \/ BadCondLine
         \/ \E x \in Names : \/ ElseifdefLine(x)
                            \/ \E want \in BOOLEAN : IfdefLine(x, want)
  PROVE  WalkInv'
<1>1. Walking /\ UNCHANGED <<seen, loads>>
  BY DEF IfLine, ElseifLine, ElseLine, EndifLine, BadCondLine, ElseifdefLine,
         IfdefLine, Reads, CondLine, driverVars
<1>2. Top \in Context
  BY <1>1, TopIsContext
<1>3. ASSUME NEW t \in BOOLEAN,
             \/ CondLine(Open(Top.file, t)) \/ CondLine(ElseIf(Top.file, t))
             \/ CondLine(Else(Top.file)) \/ CondLine(EndIf(Top.file))
      PROVE  WalkInv'
  <2>1. AboveBaseline
    BY <1>1, <1>3, DirectiveStaysAboveBaseline DEF CondLine
  <2>2. SetTop(Top)
    BY <1>3 DEF CondLine, Open, ElseIf, Else, EndIf
  <2>3. SameShape
    BY <1>1, <1>2, <2>2, SetTopKeepsShape
  <2> QED BY <1>1, <2>1, <2>3, ChainStep
<1>4. ASSUME NEW e, \/ CondLine(Fail(e)) \/ CondLine(Stray(Top.file))
                    \/ CondLine(AfterElse(Top.file))
      PROVE  WalkInv'
  <2>1. UNCHANGED frames /\ (SetTop(Top) \/ UNCHANGED stack)
    BY <1>4 DEF CondLine, Fail, Stray, AfterElse
  <2> QED BY <1>1, <1>2, <2>1, FlagLineKeepsWalkInv
<1>5. ASSUME IfLine PROVE WalkInv'
  BY <1>3, <1>4, <1>5 DEF IfLine
<1>6. ASSUME ElseifLine PROVE WalkInv'
  BY <1>3, <1>4, <1>6 DEF ElseifLine
<1>7. ASSUME ElseLine \/ EndifLine PROVE WalkInv'
  BY <1>3, <1>7, TRUE \in BOOLEAN DEF ElseLine, EndifLine
<1>8. ASSUME BadCondLine PROVE WalkInv'
  BY <1>4, <1>8 DEF BadCondLine
<1>9. ASSUME NEW x \in Names, ElseifdefLine(x) PROVE WalkInv'
  <2>1. (Evaluates /\ IsDefined(x)) \in BOOLEAN
    OBVIOUS
  <2>2. CondLine(ElseIf(Top.file, Evaluates /\ IsDefined(x)))
    BY <1>9 DEF ElseifdefLine
  <2> QED BY <1>3, <2>1, <2>2
<1>10. ASSUME NEW x \in Names, NEW want \in BOOLEAN, IfdefLine(x, want) PROVE WalkInv'
  <2>1. (Active /\ (IsDefined(x) <=> want)) \in BOOLEAN
    OBVIOUS
  <2>2. CondLine(Open(Top.file, Active /\ (IsDefined(x) <=> want)))
    BY <1>10 DEF IfdefLine
  <2> QED BY <1>3, <2>1, <2>2
<1> QED BY <1>5, <1>6, <1>7, <1>8, <1>9, <1>10

\* The end of a file: an unterminated chain is an error.
LEMMA EndFileKeepsWalkInv ==
  ASSUME WalkInv, EndFile
  PROVE  WalkInv'
<1>1. CASE Len(frames) > Top.base
  BY <1>1, UnchangedKeepsWalkInv DEF EndFile, Fail, driverVars
<1>2. CASE ~(Len(frames) > Top.base)
  BY <1>2, LeaveStep DEF EndFile, LeaveFile
<1> QED BY <1>1, <1>2

\* Every step of the driver.
LEMMA StepKeepsWalkInv ==
  ASSUME WalkInv, [PreNext]_preVars
  PROVE  WalkInv'
<1>1. StackInv'
  BY StepIsStackStep, StepKeepsInv DEF WalkInv
<1>2. ASSUME \/ BadCliDefine \/ Stopped \/ UNCHANGED preVars
             \/ \E x \in Names : AddCliDefine(x)
      PROVE  WalkInv'
  <2>1. UNCHANGED <<frames, stack, seen, loads>>
    BY <1>2 DEF BadCliDefine, AddCliDefine, Stopped, preVars, driverVars
  <2> QED BY <2>1, UnchangedKeepsWalkInv
<1>3. CASE PreStep
  BY <1>1, <1>2, <1>3, StartKeepsWalkInv, LoadingStepKeepsWalkInv, EndFileKeepsWalkInv,
     LineStepKeepsWalkInv, CondStepKeepsWalkInv, ImportKeepsWalkInv DEF PreStep
<1> QED BY <1>2, <1>3 DEF PreNext

-----------------------------------------------------------------------------

\* The stacks of files, imports and chains agree in every reachable state.
THEOREM WalkInvariant == PreSpec => []WalkInv
<1>1. PreInit => WalkInv
  <2> SUFFICES ASSUME PreInit PROVE WalkInv
    OBVIOUS
  <2>1. /\ frames = <<>> /\ stack = <<>> /\ loads = <<>> /\ seen = {}
    BY DEF PreInit, CondInit
  <2>2. /\ Len(frames) = 0 /\ Len(stack) = 0 /\ Len(loads) = 0
        /\ frames \in Seq(Frame) /\ stack \in Seq(Context) /\ loads \in Seq(Load)
        /\ 1..0 = {}
    BY <2>1
  <2>3. StackInv
    BY <2>2 DEF StackInv, CondTypeOK, ParentFoldsOuter, FirstTrueBranchWins
  <2> QED BY <2>1, <2>2, <2>3 DEF WalkInv, FilesAreSeen, WalkedOnce, BasesNest,
                                  ChainsFollowFiles, ImportersAreLive, IdleIsLive
<1>2. WalkInv /\ [PreNext]_preVars => WalkInv'
  BY StepKeepsWalkInv
<1> QED BY <1>1, <1>2, PTL DEF PreSpec

\* Chains never span files: a closing directive can only close a chain that
\* its own file opened, however imports and conditionals are interleaved.
THEOREM ChainsNeverSpanFiles == PreSpec => []ChainsFollowFiles
<1>1. WalkInv => ChainsFollowFiles
  BY DEF WalkInv
<1> QED BY <1>1, WalkInvariant, PTL

\* An imported file is walked in live text only.
THEOREM ImportsAreLive == PreSpec => []ImportersAreLive
<1>1. WalkInv => ImportersAreLive
  BY DEF WalkInv
<1> QED BY <1>1, WalkInvariant, PTL

\* The driver implements the stack of module Conditionals: whatever files it
\* enters and leaves, its chains change only as the directives say, so every
\* theorem about StackSpec holds of it.
THEOREM DriverKeepsStack == PreSpec => StackSpec
<1>1. PreInit => CondInit
  BY DEF PreInit
<1>2. WalkInv /\ [PreNext]_preVars => [CondNext]_frames
  BY StepIsStackStep
<1> QED BY <1>1, <1>2, WalkInvariant, PTL DEF PreSpec, StackSpec
-----------------------------------------------------------------------------
\* Files and imports nest.

\* What makes the nesting inductive: a module is marked before it is loaded, and
\* what is left to load is what it is made of.
LoadsAreMarked ==
  \A k \in 1..Len(loads) :
     /\ loads[k].module \in imported
     /\ Elems(loads[k].files) \subseteq Elems(ModuleFiles(loads[k].module))

NestInv == WalkInv /\ WalkNests /\ LoadsAreMarked

\* The same files are walked, and have not forgotten an import nor their `$module`.
SameWalk ==
  /\ Len(stack') = Len(stack)
  /\ \A k \in 1..Len(stack) : /\ stack'[k].file = stack[k].file
                              /\ stack[k].moduleSeen => stack'[k].moduleSeen
                              /\ Elems(stack[k].imports) \subseteq Elems(stack'[k].imports)

\* Appending adds to the elements.
LEMMA AppendGrows ==
  ASSUME NEW S, NEW s \in Seq(S), NEW e \in S
  PROVE  Elems(s) \subseteq Elems(Append(s, e)) /\ e \in Elems(Append(s, e))
<1>1. /\ Len(Append(s, e)) = Len(s) + 1 /\ Append(s, e)[Len(s) + 1] = e
      /\ Len(s) \in Nat
      /\ \A i \in 1..Len(s) : Append(s, e)[i] = s[i] /\ i \in 1..(Len(s) + 1)
  OBVIOUS
<1>2. Len(s) + 1 \in 1..(Len(s) + 1)
  BY <1>1
<1> QED BY <1>1, <1>2 DEF Elems

\* Taking the head off leaves no new elements.
LEMMA TailShrinks ==
  ASSUME NEW S, NEW s \in Seq(S), s # <<>>
  PROVE  Elems(Tail(s)) \subseteq Elems(s) /\ Head(s) \in Elems(s)
<1>1. /\ Len(s) \in Nat /\ Len(s) >= 1 /\ Head(s) = s[1]
      /\ Len(Tail(s)) = Len(s) - 1
      /\ \A i \in 1..(Len(s) - 1) : Tail(s)[i] = s[i + 1] /\ i + 1 \in 1..Len(s)
  OBVIOUS
<1> QED BY <1>1 DEF Elems

\* Reading a line rewrites the top context only.
LEMMA TopLineKeepsWalk ==
  ASSUME WalkInv, Walking, NEW c \in Context, SetTop(c), c.file = Top.file,
         Elems(Top.imports) \subseteq Elems(c.imports),
         Top.moduleSeen => c.moduleSeen
  PROVE  SameWalk
<1> DEFINE n == Len(stack)
           d == [c EXCEPT !.lines = c.lines + 1]
<1>1. n \in Nat /\ n \in 1..n /\ stack \in Seq(Context) /\ Top = stack[n]
  BY TopIsContext DEF WalkInv
<1>2. d.file = c.file /\ d.imports = c.imports /\ d.moduleSeen = c.moduleSeen
  BY DEF Context
<1>3. stack' = [stack EXCEPT ![n] = d]
  BY DEF SetTop
<1> HIDE DEF d, n
<1>4. /\ Len(stack') = n
      /\ \A k \in 1..n : stack'[k] = IF k = n THEN d ELSE stack[k]
  BY <1>1, <1>3 DEF n
<1> QED BY <1>1, <1>2, <1>4 DEF SameWalk, n

\* Every line but the first `$import` of a module leaves files and loads as
\* they are.
LEMMA LineKeepsWalk ==
  ASSUME WalkInv,
         \/ OpenBrace \/ CloseBrace \/ BadLine
         \/ IfLine \/ ElseifLine \/ ElseLine \/ EndifLine \/ BadCondLine
         \/ \E m \in Modules : ModuleLine(m) \/ ImportLine(m)
         \/ \E x \in Names :
               \/ DefineLine(x) \/ UndefineLine(x) \/ UseLine(x) \/ ElseifdefLine(x)
               \/ \E want \in BOOLEAN : IfdefLine(x, want)
  PROVE  SameWalk
<1>1. Walking
  BY DEF OpenBrace, CloseBrace, BadLine, IfLine, ElseifLine, ElseLine, EndifLine,
         BadCondLine, ModuleLine, ImportLine, DefineLine, UndefineLine, UseLine,
         ElseifdefLine, IfdefLine, Reads
<1>2. Top \in Context /\ Top.brace \in Nat /\ Top.imports \in Seq(Modules)
  <2>1. Top \in Context
    BY <1>1, TopIsContext
  <2> QED BY <2>1 DEF Context
<1>3. ASSUME UNCHANGED stack PROVE SameWalk
  BY <1>3 DEF SameWalk
<1>4. ASSUME SetTop(Top) PROVE SameWalk
  BY <1>1, <1>2, <1>4, TopLineKeepsWalk
<1>5. ASSUME NEW b \in Nat, SetTop([Top EXCEPT !.sawContent = TRUE, !.brace = b])
      PROVE  SameWalk
  <2> DEFINE c == [Top EXCEPT !.sawContent = TRUE, !.brace = b]
  <2>1. /\ c \in Context /\ c.file = Top.file /\ c.imports = Top.imports
        /\ Top.moduleSeen => c.moduleSeen
    BY <1>2 DEF Context
  <2>2. SetTop(c)
    BY <1>5
  <2> HIDE DEF c
  <2> QED BY <1>1, <2>1, <2>2, TopLineKeepsWalk
<1>6. ASSUME OpenBrace \/ CloseBrace PROVE SameWalk
  <2>1. Top.brace + 1 \in Nat /\ OneLess(Top.brace) \in Nat
    BY <1>2 DEF OneLess
  <2> QED BY <1>5, <1>6, <2>1 DEF OpenBrace, CloseBrace
<1>7. ASSUME NEW x, UseLine(x) PROVE SameWalk
  <2> DEFINE c == [Top EXCEPT !.sawContent = TRUE]
  <2>1. /\ c \in Context /\ c.file = Top.file /\ c.imports = Top.imports
        /\ Top.moduleSeen => c.moduleSeen
    BY <1>2 DEF Context
  <2>2. SetTop(c)
    BY <1>7 DEF UseLine
  <2> HIDE DEF c
  <2> QED BY <1>1, <2>1, <2>2, TopLineKeepsWalk
<1>8. ASSUME NEW m, ModuleLine(m) PROVE SameWalk
  <2> DEFINE c == [Top EXCEPT !.moduleSeen = TRUE]
  <2>1. /\ c \in Context /\ c.file = Top.file /\ c.imports = Top.imports
        /\ Top.moduleSeen => c.moduleSeen
    BY <1>2 DEF Context
  <2>2. SetTop(c) \/ UNCHANGED stack
    BY <1>8 DEF ModuleLine, Fail
  <2> HIDE DEF c
  <2> QED BY <1>1, <1>3, <2>1, <2>2, TopLineKeepsWalk
<1>9. ASSUME NEW m \in Modules, ImportLine(m) PROVE SameWalk
  <2> DEFINE list == IF m \in Elems(Top.imports) THEN Top.imports
                     ELSE Append(Top.imports, m)
             c == [Top EXCEPT !.imports = list]
  <2>1. list \in Seq(Modules) /\ Elems(Top.imports) \subseteq Elems(list)
    BY <1>2, AppendGrows
  <2>2. SetTop(c)
    BY <1>9 DEF ImportLine
  <2> HIDE DEF list
  <2>3. /\ c \in Context /\ c.file = Top.file /\ c.imports = list
        /\ c.moduleSeen = Top.moduleSeen
    BY <1>2, <2>1 DEF Context
  <2> HIDE DEF c
  <2> QED BY <1>1, <2>1, <2>2, <2>3, TopLineKeepsWalk
<1>10. ASSUME NEW x, DefineLine(x) \/ UndefineLine(x) PROVE SameWalk
  BY <1>3, <1>4, <1>10 DEF DefineLine, UndefineLine, Fail
<1>11. ASSUME BadLine PROVE SameWalk
  BY <1>3, <1>11 DEF BadLine, Fail
<1>13. ASSUME NEW x, ElseifdefLine(x) \/ \E want \in BOOLEAN : IfdefLine(x, want)
       PROVE  SameWalk
  BY <1>3, <1>4, <1>13 DEF ElseifdefLine, IfdefLine, CondLine
<1>14. ASSUME IfLine \/ ElseifLine \/ ElseLine \/ EndifLine \/ BadCondLine
       PROVE  SameWalk
  BY <1>3, <1>4, <1>14 DEF IfLine, ElseifLine, ElseLine, EndifLine, BadCondLine, CondLine
<1> QED BY <1>6, <1>7, <1>8, <1>9, <1>10, <1>11, <1>13, <1>14

\* A step that leaves files and loads as they are.
LEMMA QuietKeepsNest ==
  ASSUME NestInv, WalkInv', SameWalk, UNCHANGED loads, imported \subseteq imported'
  PROVE  NestInv'
<1>1. /\ Len(stack) \in Nat /\ Len(loads) \in Nat
      /\ Len(stack) \in {Len(loads), Len(loads) + 1}
  BY DEF NestInv, WalkInv
<1>2. LoadsAreMarked'
  BY DEF NestInv, LoadsAreMarked
<1>3. \A k \in 1..Len(loads) : k \in 1..Len(stack) /\ (k < Len(stack) => k + 1 \in 1..Len(stack))
  BY <1>1
<1>4. \A k \in 1..Len(loads) :
         /\ loads'[k].module \in Elems(stack'[k].imports)
         /\ k < Len(stack') => stack'[k + 1].file \in Elems(ModuleFiles(loads'[k].module))
  BY <1>3 DEF NestInv, WalkNests, SameWalk
<1>5. WalkNests'
  BY <1>4 DEF NestInv, WalkNests, WalkInv, WalkedOnce
<1> QED BY <1>2, <1>5 DEF NestInv

\* The first `$import` of a module, which starts to load it.
LEMMA FirstImportKeepsNest ==
  ASSUME NestInv, WalkInv', NEW m \in Modules, ImportLine(m), loads' # loads
  PROVE  NestInv'
<1> DEFINE n == Len(stack)
           load == [module |-> m, files |-> ModuleFiles(m)]
<1>1. /\ Walking /\ n \in Nat /\ n >= 1 /\ n \in 1..n /\ Top = stack[n] /\ Top \in Context
      /\ loads \in Seq(Load) /\ n = Len(loads) + 1
  BY TopIsContext DEF NestInv, WalkInv, Walking, ImportLine, Reads
<1>2. m \notin imported /\ loads' = Append(loads, load) /\ imported' = imported \cup {m}
  BY DEF ImportLine, Marked
<1>3. SameWalk
  BY LineKeepsWalk DEF NestInv
<1>4. m \in Elems(stack'[n].imports)
  <2> DEFINE list == IF m \in Elems(Top.imports) THEN Top.imports ELSE Append(Top.imports, m)
             c == [Top EXCEPT !.imports = list]
             d == [c EXCEPT !.lines = c.lines + 1]
  <2>1. m \in Elems(list)
    <3>1. Top.imports \in Seq(Modules)
      BY <1>1 DEF Context
    <3> QED BY <3>1, AppendGrows
  <2>2. stack' = [stack EXCEPT ![n] = d]
    BY DEF ImportLine, SetTop
  <2> HIDE DEF list
  <2>3. d.imports = list
    BY <1>1 DEF Context
  <2> HIDE DEF d
  <2>4. stack'[n] = d
    BY <1>1, <2>2 DEF NestInv, WalkInv
  <2> QED BY <2>1, <2>3, <2>4
<1> HIDE DEF load
<1>5. /\ Len(loads') = n /\ loads'[n] = load
      /\ \A k \in 1..(n - 1) : loads'[k] = loads[k] /\ k \in 1..Len(loads)
      /\ \A k \in 1..n : k \in 1..(n - 1) \/ k = n
  BY <1>1, <1>2
<1>6. load.module = m /\ load.files = ModuleFiles(m)
  BY DEF load
<1>7. LoadsAreMarked'
  BY <1>2, <1>5, <1>6 DEF NestInv, LoadsAreMarked
<1>8. \A j, k \in 1..n : loads'[j].module = loads'[k].module => j = k
  <2>1. \A k \in 1..(n - 1) : loads'[k].module # m
    BY <1>2, <1>5 DEF NestInv, LoadsAreMarked
  <2>2. \A j, k \in 1..(n - 1) : loads[j].module = loads[k].module => j = k
    BY <1>5 DEF NestInv, WalkNests
  <2>3. \A j, k \in 1..(n - 1) : loads'[j].module = loads'[k].module => j = k
    BY <1>5, <2>2
  <2>4. loads'[n].module = m
    BY <1>5, <1>6
  <2> HIDE DEF n
  <2> QED BY <1>5, <2>1, <2>3, <2>4
<1>9. \A k \in 1..n :
         /\ loads'[k].module \in Elems(stack'[k].imports)
         /\ k < Len(stack') => stack'[k + 1].file \in Elems(ModuleFiles(loads'[k].module))
  <2>1. \A k \in 1..(n - 1) : k < n /\ k + 1 \in 1..n /\ k \in 1..n
    BY <1>1
  <2>2. ASSUME NEW k \in 1..(n - 1)
        PROVE  /\ loads'[k].module \in Elems(stack'[k].imports)
               /\ stack'[k + 1].file \in Elems(ModuleFiles(loads'[k].module))
    <3>1. /\ loads[k].module \in Elems(stack[k].imports)
          /\ stack[k + 1].file \in Elems(ModuleFiles(loads[k].module))
      BY <1>5, <2>1 DEF NestInv, WalkNests
    <3> QED BY <1>3, <1>5, <2>1, <3>1 DEF SameWalk
  <2>3. loads'[n].module = m /\ ~(n < Len(stack'))
    BY <1>1, <1>3, <1>5, <1>6 DEF SameWalk
  <2> HIDE DEF n
  <2> QED BY <1>4, <1>5, <2>2, <2>3
<1>10. WalkNests'
  BY <1>5, <1>8, <1>9 DEF WalkNests, WalkInv, WalkedOnce
<1> QED BY <1>7, <1>10 DEF NestInv

\* The next file of a module: entered, unreadable, or seen before.
LEMMA LoadFileKeepsNest ==
  ASSUME NestInv, WalkInv', LoadFile
  PROVE  NestInv'
<1> DEFINE n == Len(loads)
           l == CurrentLoad
           f == Head(l.files)
<1>1. /\ n \in Nat /\ n >= 1 /\ n \in 1..n /\ loads \in Seq(Load) /\ Len(stack) = n
      /\ l = loads[n] /\ l \in Load /\ l.files # <<>> /\ stack \in Seq(Context)
  BY DEF NestInv, WalkInv, LoadFile, Loading, CurrentLoad
<1>2. /\ l.files \in Seq(Files) /\ Rest(l).module = l.module
      /\ Elems(Rest(l).files) \subseteq Elems(l.files) /\ f \in Elems(l.files)
  <2>1. l.files \in Seq(Files) /\ Rest(l).module = l.module /\ Rest(l).files = Tail(l.files)
    BY <1>1 DEF Load, Rest
  <2> QED BY <1>1, <2>1, TailShrinks
<1>3. f \in Elems(ModuleFiles(l.module)) /\ imported' = imported
  BY <1>1, <1>2 DEF NestInv, LoadsAreMarked, LoadFile, EnterFile
<1>4. /\ Len(loads') = n
      /\ \A k \in 1..n : /\ loads'[k].module = loads[k].module
                         /\ Elems(loads'[k].files) \subseteq Elems(loads[k].files)
  <2>1. CASE UNCHANGED loads
    BY <2>1
  <2>2. CASE SetLoad(Rest(l))
    <3>1. loads' = [loads EXCEPT ![n] = Rest(l)]
      BY <2>2 DEF SetLoad
    <3> HIDE DEF l
    <3> QED BY <1>1, <1>2, <3>1
  <2> QED BY <2>1, <2>2 DEF LoadFile
<1>5. LoadsAreMarked'
  BY <1>3, <1>4 DEF NestInv, LoadsAreMarked
<1>6. \/ stack' = stack
      \/ /\ Len(stack') = n + 1 /\ stack'[n + 1].file = f
         /\ \A k \in 1..n : stack'[k] = stack[k]
  <2> DEFINE c == [file |-> f, moduleSeen |-> FALSE, sawContent |-> FALSE,
                   imports |-> <<>>, brace |-> 0, base |-> Len(frames), lines |-> 0]
  <2>1. stack' = stack \/ stack' = Append(stack, c)
    BY DEF LoadFile, EnterFile
  <2>2. c.file = f
    OBVIOUS
  <2> HIDE DEF c
  <2> QED BY <1>1, <2>1, <2>2
<1>7. \A k \in 1..n :
         /\ loads'[k].module \in Elems(stack'[k].imports)
         /\ k < Len(stack') => stack'[k + 1].file \in Elems(ModuleFiles(loads'[k].module))
  <2> HIDE DEF f
  <2>1. ASSUME NEW k \in 1..n
        PROVE  /\ loads[k].module \in Elems(stack'[k].imports)
               /\ k < Len(stack') => stack'[k + 1].file \in Elems(ModuleFiles(loads[k].module))
    <3>1. CASE stack' = stack
      BY <2>1, <3>1 DEF NestInv, WalkNests
    <3>2. CASE /\ Len(stack') = n + 1 /\ stack'[n + 1].file = f
               /\ \A i \in 1..n : stack'[i] = stack[i]
      <4>1. CASE k = n
        BY <1>1, <1>3, <3>2, <4>1 DEF NestInv, WalkNests
      <4>2. CASE k < n
        <5>1. k + 1 \in 1..n
          BY <1>1, <4>2
        <5> QED BY <1>1, <2>1, <3>2, <4>2, <5>1 DEF NestInv, WalkNests
      <4> QED BY <1>1, <4>1, <4>2
    <3> QED BY <1>6, <3>1, <3>2
  <2> QED BY <1>4, <2>1
<1>8. \A j, k \in 1..n : loads'[j].module = loads'[k].module => j = k
  BY <1>4 DEF NestInv, WalkNests
<1>9. WalkNests'
  BY <1>4, <1>7, <1>8 DEF WalkNests, WalkInv, WalkedOnce
<1> QED BY <1>5, <1>9 DEF NestInv

\* A module is loaded.
LEMMA LoadDoneKeepsNest ==
  ASSUME NestInv, WalkInv', LoadDone
  PROVE  NestInv'
<1> DEFINE n == Len(loads)
<1>1. /\ n \in Nat /\ n >= 1 /\ loads \in Seq(Load) /\ loads # <<>> /\ Len(stack) = n
      /\ UNCHANGED <<stack, imported>> /\ loads' = SubSeq(loads, 1, n - 1)
  BY DEF NestInv, WalkInv, LoadDone, Loading
<1>2. /\ Len(loads') = n - 1
      /\ \A k \in 1..(n - 1) : loads'[k] = loads[k] /\ k \in 1..n
  BY <1>1, AllButLast
<1>3. LoadsAreMarked'
  BY <1>1, <1>2 DEF NestInv, LoadsAreMarked
<1>4. WalkNests'
  BY <1>1, <1>2 DEF NestInv, WalkNests, WalkInv
<1> QED BY <1>3, <1>4 DEF NestInv

\* The walk of a file ends.
LEMMA EndFileKeepsNest ==
  ASSUME NestInv, WalkInv', EndFile
  PROVE  NestInv'
<1> DEFINE n == Len(stack)
<1>1. /\ Walking /\ n \in Nat /\ n >= 1 /\ stack \in Seq(Context) /\ stack # <<>>
      /\ n = Len(loads) + 1 /\ Len(loads) \in Nat
  BY TopIsContext DEF NestInv, WalkInv, Walking, EndFile
<1>2. UNCHANGED <<loads, imported>>
  BY DEF EndFile, LeaveFile, driverVars
<1>3. CASE UNCHANGED stack
  BY <1>2, <1>3, QuietKeepsNest DEF SameWalk, NestInv
<1>4. CASE stack' = SubSeq(stack, 1, n - 1)
  <2>1. /\ Len(stack') = n - 1
        /\ \A k \in 1..(n - 1) : stack'[k] = stack[k] /\ k \in 1..n
    BY <1>1, <1>4, AllButLast
  <2>2. \A k \in 1..Len(loads) : k \in 1..(n - 1)
    BY <1>1
  <2>3. \A k \in 1..Len(loads) : k < n - 1 => k + 1 \in 1..(n - 1) /\ k < n
    BY <1>1
  <2>4. \A k \in 1..Len(loads) :
           /\ loads[k].module \in Elems(stack'[k].imports)
           /\ k < Len(stack') => stack'[k + 1].file \in Elems(ModuleFiles(loads[k].module))
    BY <2>1, <2>2, <2>3 DEF NestInv, WalkNests
  <2>5. WalkNests'
    BY <1>2, <2>4 DEF NestInv, WalkNests, WalkInv, WalkedOnce
  <2>6. LoadsAreMarked'
    BY <1>2 DEF NestInv, LoadsAreMarked
  <2> QED BY <2>5, <2>6 DEF NestInv
<1> QED BY <1>3, <1>4 DEF EndFile, LeaveFile, Fail

\* The entry file is walked on behalf of no import.
LEMMA StartKeepsNest ==
  ASSUME NestInv, WalkInv', Start
  PROVE  NestInv'
<1>1. loads = <<>> /\ loads' = <<>> /\ Len(<<>>) = 0 /\ 1..0 = {}
  BY DEF Start, Seeding, NestInv, WalkInv
<1> QED BY <1>1 DEF NestInv, WalkNests, LoadsAreMarked, WalkInv, WalkedOnce

\* The inductive invariant of nested imports.
THEOREM NestInvariant == PreSpec => []NestInv
<1>1. PreInit /\ WalkInv => NestInv
  <2>1. Len(<<>>) = 0 /\ 1..0 = {}
    OBVIOUS
  <2> QED BY <2>1 DEF PreInit, NestInv, WalkNests, LoadsAreMarked
<1>2. ASSUME NestInv, WalkInv', [PreNext]_preVars PROVE NestInv'
  <2>1. ASSUME SameWalk, UNCHANGED loads, imported \subseteq imported' PROVE NestInv'
    BY <1>2, <2>1, QuietKeepsNest
  <2>2. ASSUME UNCHANGED <<stack, loads, imported>> PROVE NestInv'
    BY <2>1, <2>2 DEF SameWalk
  <2>3. ASSUME NEW m \in Modules, ImportLine(m) PROVE NestInv'
    <3>1. SameWalk /\ imported \subseteq imported'
      BY <1>2, <2>3, LineKeepsWalk DEF NestInv, ImportLine, Marked
    <3> QED BY <1>2, <2>1, <2>3, <3>1, FirstImportKeepsNest
  <2>4. ASSUME \/ OpenBrace \/ CloseBrace \/ BadLine
               \/ IfLine \/ ElseifLine \/ ElseLine \/ EndifLine \/ BadCondLine
               \/ \E m \in Modules : ModuleLine(m)
               \/ \E x \in Names :
                     \/ DefineLine(x) \/ UndefineLine(x) \/ UseLine(x) \/ ElseifdefLine(x)
                     \/ \E want \in BOOLEAN : IfdefLine(x, want)
        PROVE  NestInv'
    <3>1. SameWalk
      BY <1>2, <2>4, LineKeepsWalk DEF NestInv
    <3>2. UNCHANGED <<loads, imported>>
      BY <2>4 DEF OpenBrace, CloseBrace, BadLine, IfLine, ElseifLine, ElseLine, EndifLine,
                  BadCondLine, ModuleLine, DefineLine, UndefineLine, UseLine,
                  ElseifdefLine, IfdefLine, CondLine, driverVars
    <3> QED BY <2>1, <3>1, <3>2
  <2>5. ASSUME \/ BadCliDefine \/ Stopped \/ UNCHANGED preVars
               \/ \E x \in Names : AddCliDefine(x)
        PROVE  NestInv'
    BY <2>2, <2>5 DEF BadCliDefine, AddCliDefine, Stopped, preVars, driverVars
  <2>6. ASSUME Start \/ LoadFile \/ LoadDone \/ EndFile PROVE NestInv'
    BY <1>2, <2>6, StartKeepsNest, LoadFileKeepsNest, LoadDoneKeepsNest, EndFileKeepsNest
  <2> QED BY <1>2, <2>3, <2>4, <2>5, <2>6 DEF PreNext, PreStep
<1> QED BY <1>1, <1>2, WalkInvariant, PTL DEF PreSpec

\* However the imports are circular, no file is walked and no module loaded
\* inside its own walk, and every file is walked on behalf of the import below
\* it: `load_and_verify_module` marks before it descends.
THEOREM ImportsAlwaysNest == PreSpec => []WalkNests
<1>1. NestInv => WalkNests
  BY DEF NestInv
<1> QED BY <1>1, NestInvariant, PTL

-----------------------------------------------------------------------------
(* What a walk that succeeds hands over. *)

\* Only a file that was walked past its `$module` has declared anything.
DeclaredOnce ==
  /\ \A f \in Files : f \notin seen => fileModule[f] = Anonymous
  /\ \A k \in 1..Len(stack) :
        fileModule[stack[k].file] # Anonymous => stack[k].moduleSeen

\* File f of module m is yet to be judged.
Pending(m, f) ==
  \E k \in 1..Len(loads) :
     /\ loads[k].module = m
     /\ \/ f \in Elems(loads[k].files)
        \/ k < Len(stack) /\ stack[k + 1].file = f

\* No file of an imported module is forgotten.
AccountedFor ==
  \A m \in imported : \A f \in Elems(ModuleFiles(m)) :
     \/ f \in seen /\ fileModule[f] = m
     \/ Pending(m, f)

\* No file comes from elsewhere.
Wanted ==
  /\ stack # <<>> => stack[1].file = Entry
  /\ \A f \in seen :
        \/ f = Entry
        \/ fileModule[f] \in imported
        \/ \E k \in 1..Len(stack) : stack[k].file = f

CompleteInv ==
  /\ NestInv
  /\ fileModule \in [Files -> Homes] /\ imported \subseteq Modules
  /\ DeclaredOnce
  /\ err = "none" => AccountedFor /\ Wanted

\* A step that loads nothing and declares nothing.
LEMMA QuietKeepsComplete ==
  ASSUME CompleteInv, NestInv', SameWalk,
         UNCHANGED <<loads, imported, seen, fileModule>>, err' = "none" => err = "none"
  PROVE  CompleteInv'
<1>1. Len(stack) \in Nat /\ stack \in Seq(Context) /\ stack' \in Seq(Context)
  BY DEF CompleteInv, NestInv, WalkInv
<1>2. DeclaredOnce'
  BY DEF CompleteInv, DeclaredOnce, SameWalk
<1>3. \A m, f : Pending(m, f) => Pending(m, f)'
  <2>1. \A k \in Nat : k >= 1 /\ k < Len(stack) => k + 1 \in 1..Len(stack)
    BY <1>1
  <2> QED BY <2>1 DEF Pending, SameWalk
<1>4. AccountedFor => AccountedFor'
  BY <1>3 DEF AccountedFor
<1>5. Wanted => Wanted'
  <2>1. stack' # <<>> => stack # <<>> /\ 1 \in 1..Len(stack)
    BY <1>1 DEF SameWalk
  <2> QED BY <2>1 DEF Wanted, SameWalk
<1> QED BY <1>2, <1>4, <1>5 DEF CompleteInv

\* Nothing is promised of a walk that failed.
LEMMA FailureKeepsComplete ==
  ASSUME CompleteInv, NestInv', err' # "none", UNCHANGED <<stack, fileModule>>,
         seen \subseteq seen', imported' \subseteq Modules
  PROVE  CompleteInv'
BY DEF CompleteInv, DeclaredOnce

\* `$module`: the file had declared nothing, so no verdict on it is overturned.
LEMMA ModuleKeepsComplete ==
  ASSUME CompleteInv, NestInv', NEW h \in Modules, ModuleLine(h)
  PROVE  CompleteInv'
<1> DEFINE n == Len(stack)
           c == [Top EXCEPT !.moduleSeen = TRUE]
<1>1. /\ Walking /\ Top \in Context /\ Top.file \in Files /\ n \in 1..n /\ Top = stack[n]
      /\ WalkInv /\ stack \in Seq(Context) /\ n \in Nat
  BY TopIsContext DEF ModuleLine, Reads, CompleteInv, NestInv, WalkInv
<1>2. CASE Top.moduleSeen \/ Top.sawContent
  <2>1. err' # "none" /\ UNCHANGED <<stack, fileModule, seen, imported>>
    BY <1>2 DEF ModuleLine, Fail
  <2> QED BY <2>1, FailureKeepsComplete DEF CompleteInv
<1>3. CASE ~(Top.moduleSeen \/ Top.sawContent)
  <2>1. /\ fileModule' = [fileModule EXCEPT ![Top.file] = h] /\ SetTop(c)
        /\ UNCHANGED <<err, seen, imported, loads>>
    BY <1>3 DEF ModuleLine
  <2>2. SameWalk
    BY <1>1, LineKeepsWalk
  <2>3. Anonymous \notin Modules /\ fileModule[Top.file] = Anonymous
    BY <1>1, <1>3, DiskAssumption DEF CompleteInv, DeclaredOnce
  <2>4. stack'[n].moduleSeen
    <3> DEFINE d == [c EXCEPT !.lines = c.lines + 1]
    <3>1. d.moduleSeen
      BY <1>1 DEF Context
    <3>2. stack' = [stack EXCEPT ![n] = d]
      BY <2>1 DEF SetTop
    <3> HIDE DEF d
    <3> QED BY <1>1, <3>1, <3>2
  <2>5. DeclaredOnce'
    <3>1. Top.file \in seen /\ \A k \in 1..n : k # n => stack[k].file # Top.file
      BY <1>1 DEF WalkInv, FilesAreSeen, WalkedOnce
    <3>2. ASSUME NEW k \in 1..n, fileModule'[stack'[k].file] # Anonymous
          PROVE  stack'[k].moduleSeen
      <4>1. CASE k = n
        BY <2>4, <4>1
      <4>2. CASE k # n
        <5>1. fileModule'[stack[k].file] = fileModule[stack[k].file]
          BY <2>1, <3>1, <4>2 DEF CompleteInv
        <5> QED BY <2>2, <3>2, <5>1 DEF CompleteInv, DeclaredOnce, SameWalk
      <4> QED BY <4>1, <4>2
    <3>3. \A f \in Files : f \notin seen => fileModule'[f] = Anonymous
      BY <2>1, <3>1 DEF CompleteInv, DeclaredOnce
    <3> HIDE DEF n, c
    <3> QED BY <2>1, <2>2, <3>2, <3>3 DEF DeclaredOnce, SameWalk, n
  <2>6. \A m, f : Pending(m, f) => Pending(m, f)'
    <3>1. \A k \in Nat : k >= 1 /\ k < n => k + 1 \in 1..n
      BY <1>1
    <3> QED BY <2>1, <2>2, <3>1 DEF Pending, SameWalk
  <2>7. \A f \in Files : fileModule[f] \in Modules => fileModule'[f] = fileModule[f]
    BY <2>1, <2>3 DEF CompleteInv
  <2>8. AccountedFor => AccountedFor'
    <3>1. imported \subseteq Modules /\ seen \subseteq Files
      BY <1>1 DEF CompleteInv, WalkInv
    <3> QED BY <2>1, <2>6, <2>7, <3>1 DEF AccountedFor
  <2>9. Wanted => Wanted'
    <3>1. imported \subseteq Modules /\ seen \subseteq Files
      BY <1>1 DEF CompleteInv, WalkInv
    <3>2. stack' # <<>> => stack # <<>> /\ 1 \in 1..n
      BY <1>1
    <3> QED BY <2>1, <2>2, <2>7, <3>1, <3>2 DEF Wanted, SameWalk
  <2>10. fileModule' \in [Files -> Homes]
    BY <1>1, <2>1 DEF CompleteInv, Homes
  <2> HIDE DEF n, c
  <2> QED BY <2>1, <2>5, <2>8, <2>9, <2>10 DEF CompleteInv
<1> QED BY <1>2, <1>3

\* `$import`: all files of a new module are still to be loaded.
LEMMA ImportKeepsComplete ==
  ASSUME CompleteInv, NestInv', NEW h \in Modules, ImportLine(h)
  PROVE  CompleteInv'
<1> DEFINE n == Len(stack)
<1>1. /\ Walking /\ WalkInv /\ n \in Nat /\ n >= 1 /\ n = Len(loads) + 1
      /\ loads \in Seq(Load) /\ stack \in Seq(Context) /\ err = "none"
  BY TopIsContext DEF ImportLine, Reads, Walking, CompleteInv, NestInv, WalkInv
<1>2. SameWalk
  BY <1>1, LineKeepsWalk
<1>3. imported' = imported \cup {h} /\ UNCHANGED <<seen, fileModule>>
  BY DEF ImportLine, Marked
<1>4. CASE h \in imported
  <2>1. UNCHANGED <<err, loads, imported>>
    BY <1>3, <1>4 DEF ImportLine
  <2> QED BY <1>2, <1>3, <2>1, QuietKeepsComplete
<1>5. CASE h \notin imported
  <2>1. DeclaredOnce'
    BY <1>2, <1>3 DEF CompleteInv, DeclaredOnce, SameWalk
  <2>2. ASSUME err' = "none" PROVE AccountedFor' /\ Wanted'
    <3> DEFINE load == [module |-> h, files |-> ModuleFiles(h)]
    <3>1. loads' = Append(loads, load)
      BY <1>5, <2>2 DEF ImportLine
    <3>2. load.module = h /\ load.files = ModuleFiles(h)
      OBVIOUS
    <3> HIDE DEF load
    <3>3. /\ Len(loads') = n /\ loads'[n] = load /\ n \in 1..n
          /\ \A k \in 1..Len(loads) : loads'[k] = loads[k] /\ k \in 1..n
      BY <1>1, <3>1
    <3>4. \A m, f : Pending(m, f) => Pending(m, f)'
      <4>1. \A k \in Nat : k >= 1 /\ k < n => k + 1 \in 1..n
        BY <1>1
      <4> QED BY <1>2, <3>3, <4>1 DEF Pending, SameWalk
    <3>5. \A f \in Elems(ModuleFiles(h)) : Pending(h, f)'
      BY <3>2, <3>3 DEF Pending
    <3>6. AccountedFor'
      <4>1. AccountedFor
        BY <1>1 DEF CompleteInv
      <4> QED BY <1>3, <3>4, <3>5, <4>1 DEF AccountedFor
    <3>7. Wanted'
      <4>1. Wanted /\ stack # <<>> /\ 1 \in 1..n
        BY <1>1 DEF CompleteInv
      <4> QED BY <1>2, <1>3, <4>1 DEF Wanted, SameWalk
    <3> QED BY <3>6, <3>7
  <2> QED BY <1>3, <2>1, <2>2 DEF CompleteInv
<1> QED BY <1>4, <1>5
\* The next file of a module leaves the list to be walked, or is judged at once.
LEMMA LoadFileKeepsComplete ==
  ASSUME CompleteInv, NestInv', LoadFile
  PROVE  CompleteInv'
<1> DEFINE n == Len(loads)
           l == CurrentLoad
           f == Head(l.files)
<1>1. /\ n \in Nat /\ n >= 1 /\ n \in 1..n /\ loads \in Seq(Load) /\ Len(stack) = n
      /\ l = loads[n] /\ l \in Load /\ l.files # <<>> /\ stack \in Seq(Context)
      /\ err = "none" /\ AccountedFor /\ Wanted /\ WalkInv
  BY DEF CompleteInv, NestInv, WalkInv, LoadFile, Loading, CurrentLoad
<1>2. l.files \in Seq(Files) /\ Rest(l).module = l.module /\ Rest(l).files = Tail(l.files)
  BY <1>1 DEF Load, Rest
<1>3. f \in Files /\ \A g \in Elems(l.files) : g = f \/ g \in Elems(Rest(l).files)
  <2>1. ASSUME NEW i \in 1..Len(l.files)
        PROVE  l.files[i] = f \/ l.files[i] \in Elems(Tail(l.files))
    <3>1. CASE i = 1
      BY <1>1, <1>2, <3>1
    <3>2. CASE i > 1
      <4>1. i - 1 \in 1..Len(Tail(l.files)) /\ Tail(l.files)[i - 1] = l.files[i]
        BY <1>1, <1>2, <3>2
      <4> QED BY <4>1 DEF Elems
    <3> QED BY <1>2, <3>1, <3>2
  <2>2. f \in Files
    BY <1>1, <1>2
  <2> QED BY <1>2, <2>1, <2>2 DEF Elems
<1>4. UNCHANGED <<fileModule, imported>>
  BY DEF LoadFile, EnterFile
<1>5. ASSUME SetLoad(Rest(l)),
             \A k \in 1..n : stack'[k].file = stack[k].file,
             Len(stack') >= n, Len(stack') \in Nat,
             NEW m, NEW g, Pending(m, g)
      PROVE  Pending(m, g)' \/ (m = l.module /\ g = f)
  <2>1. loads' = [loads EXCEPT ![n] = Rest(l)]
    BY <1>5 DEF SetLoad
  <2> HIDE DEF l, f
  <2>2. /\ Len(loads') = n
        /\ \A k \in 1..n : loads'[k] = IF k = n THEN Rest(l) ELSE loads[k]
    BY <1>1, <2>1
  <2>3. PICK k \in 1..n : /\ loads[k].module = m
                          /\ g \in Elems(loads[k].files)
                                \/ (k < Len(stack) /\ stack[k + 1].file = g)
    BY <1>5 DEF Pending
  <2>4. CASE k = n
    <3>1. m = l.module /\ g \in Elems(l.files) /\ loads'[n] = Rest(l)
      <4>1. ~(n < Len(stack)) /\ loads[n] = l
        BY <1>1
      <4> HIDE DEF n
      <4> QED BY <1>1, <2>2, <2>3, <2>4, <4>1
    <3>2. g = f \/ g \in Elems(loads'[n].files)
      BY <1>3, <3>1
    <3> QED BY <1>1, <1>2, <2>2, <3>1, <3>2 DEF Pending
  <2>5. CASE k < n
    <3>1. k + 1 \in 1..n /\ k < Len(stack') /\ loads'[k] = loads[k]
      BY <1>1, <1>5, <2>2, <2>5
    <3> QED BY <1>1, <1>5, <2>2, <2>3, <3>1 DEF Pending
  <2>6. k = n \/ k < n
    BY <1>1
  <2> QED BY <2>4, <2>5, <2>6
<1>6. CASE f \notin seen /\ f \notin Unreadable
  <2> DEFINE c == [file |-> f, moduleSeen |-> FALSE, sawContent |-> FALSE,
                   imports |-> <<>>, brace |-> 0, base |-> Len(frames), lines |-> 0]
  <2>1. /\ seen' = seen \cup {f} /\ stack' = Append(stack, c) /\ SetLoad(Rest(l))
    BY <1>6 DEF LoadFile, EnterFile
  <2>2. c.file = f /\ fileModule[f] = Anonymous
    BY <1>3, <1>6 DEF CompleteInv, DeclaredOnce
  <2> HIDE DEF c, f, l
  <2>3. /\ Len(stack') = n + 1 /\ stack'[n + 1] = c
        /\ \A k \in 1..n : stack'[k] = stack[k] /\ k \in 1..(n + 1)
        /\ \A k \in 1..(n + 1) : k \in 1..n \/ k = n + 1
        /\ n + 1 \in 1..(n + 1) /\ stack' # <<>>
    BY <1>1, <2>1
  <2>4. DeclaredOnce'
    BY <1>1, <1>4, <2>1, <2>2, <2>3 DEF CompleteInv, DeclaredOnce
  <2>5. ASSUME NEW m, NEW g, m = l.module, g = f PROVE Pending(m, g)'
    <3>1. /\ loads' = [loads EXCEPT ![n] = Rest(l)]
      BY <2>1 DEF SetLoad
    <3>2. Len(loads') = n /\ loads'[n] = Rest(l)
      BY <1>1, <3>1
    <3>3. n < Len(stack')
      BY <1>1, <2>3
    <3> QED BY <1>1, <1>2, <2>2, <2>3, <2>5, <3>2, <3>3 DEF Pending
  <2>6. AccountedFor'
    <3>1. \A m, g : Pending(m, g) => Pending(m, g)'
      BY <1>1, <1>5, <2>1, <2>3, <2>5
    <3> QED BY <1>1, <1>4, <2>1, <3>1 DEF AccountedFor
  <2>7. Wanted'
    <3>1. stack # <<>> /\ 1 \in 1..n
      BY <1>1
    <3>2. \E k \in 1..Len(stack') : stack'[k].file = f
      BY <2>2, <2>3
    <3>3. \A g \in seen : (\E k \in 1..n : stack[k].file = g)
                             => \E k \in 1..Len(stack') : stack'[k].file = g
      BY <2>3
    <3>4. stack'[1].file = Entry
      BY <1>1, <2>3, <3>1 DEF Wanted
    <3> QED BY <1>1, <1>4, <2>1, <3>2, <3>3, <3>4 DEF Wanted
  <2> QED BY <1>4, <2>4, <2>6, <2>7 DEF CompleteInv
<1>7. CASE f \notin seen /\ f \in Unreadable
  <2>1. err' # "none" /\ stack' = stack /\ seen \subseteq seen'
    BY <1>7 DEF LoadFile, EnterFile
  <2> QED BY <1>4, <2>1, FailureKeepsComplete DEF CompleteInv
<1>8. CASE f \in seen /\ fileModule[f] # l.module
  <2>1. err' # "none" /\ UNCHANGED <<stack, seen>>
    BY <1>8 DEF LoadFile
  <2> QED BY <1>4, <2>1, FailureKeepsComplete DEF CompleteInv
<1>9. CASE f \in seen /\ fileModule[f] = l.module
  <2>1. SetLoad(Rest(l)) /\ UNCHANGED <<stack, seen, err>>
    BY <1>9 DEF LoadFile
  <2>2. Len(stack') >= n /\ Len(stack') \in Nat /\ stack' = stack
    BY <1>1, <2>1
  <2>3. AccountedFor'
    <3> HIDE DEF l, f
    <3>1. \A m, g : Pending(m, g) => Pending(m, g)' \/ (m = l.module /\ g = f)
      BY <1>5, <2>1, <2>2
    <3> QED BY <1>1, <1>4, <1>9, <2>1, <3>1 DEF AccountedFor
  <2>4. Wanted' /\ DeclaredOnce'
    BY <1>1, <1>4, <2>1 DEF Wanted, CompleteInv, DeclaredOnce
  <2> QED BY <1>4, <2>3, <2>4 DEF CompleteInv
<1> QED BY <1>6, <1>7, <1>8, <1>9

\* A module whose list is empty has no file left to be judged.
LEMMA LoadDoneKeepsComplete ==
  ASSUME CompleteInv, NestInv', LoadDone
  PROVE  CompleteInv'
<1> DEFINE n == Len(loads)
<1>1. /\ n \in Nat /\ n >= 1 /\ n \in 1..n /\ loads \in Seq(Load) /\ loads # <<>>
      /\ Len(stack) = n /\ loads[n].files = <<>> /\ loads' = SubSeq(loads, 1, n - 1)
      /\ err = "none" /\ UNCHANGED <<err, stack, seen, fileModule, imported>>
  BY DEF CompleteInv, NestInv, WalkInv, LoadDone, Loading, CurrentLoad
<1>2. /\ Len(loads') = n - 1
      /\ \A k \in 1..(n - 1) : loads'[k] = loads[k]
  BY <1>1, AllButLast
<1>3. ASSUME NEW m, NEW f, Pending(m, f) PROVE Pending(m, f)'
  <2>1. PICK k \in 1..n : /\ loads[k].module = m
                          /\ f \in Elems(loads[k].files)
                                \/ (k < Len(stack) /\ stack[k + 1].file = f)
    BY <1>3 DEF Pending
  <2>2. k # n
    <3>1. Elems(<<>>) = {}
      BY DEF Elems
    <3> QED BY <1>1, <2>1, <3>1
  <2>3. k \in 1..(n - 1)
    BY <1>1, <2>2
  <2> QED BY <1>1, <1>2, <2>1, <2>3 DEF Pending
<1>4. AccountedFor' /\ Wanted' /\ DeclaredOnce'
  BY <1>1, <1>3 DEF CompleteInv, AccountedFor, Wanted, DeclaredOnce
<1> QED BY <1>1, <1>4 DEF CompleteInv

\* The end of a file that is judged favourably.
LEMMA LeaveKeepsComplete ==
  ASSUME CompleteInv, NestInv', Walking, LeaveFile, err' = "none"
  PROVE  CompleteInv'
<1> DEFINE n == Len(stack)
<1>1. /\ n \in Nat /\ n >= 1 /\ n \in 1..n /\ stack \in Seq(Context) /\ stack # <<>>
      /\ n = Len(loads) + 1 /\ loads \in Seq(Load) /\ WalkInv /\ Top = stack[n]
      /\ Top.file \in Files /\ Top.file \in seen
      /\ err = "none" /\ AccountedFor /\ Wanted
      /\ UNCHANGED <<seen, fileModule, imported, loads>>
      /\ stack' = SubSeq(stack, 1, n - 1)
  BY TopIsContext DEF CompleteInv, NestInv, WalkInv, FilesAreSeen, Walking, LeaveFile
<1>2. /\ Len(stack') = n - 1
      /\ \A k \in 1..(n - 1) : stack'[k] = stack[k] /\ k \in 1..n
      /\ \A k \in 1..n : k \in 1..(n - 1) \/ k = n
  BY <1>1, AllButLast
<1>3. n > 1 => loads[n - 1].module = fileModule[Top.file] /\ n - 1 \in 1..Len(loads)
  <2>1. ASSUME n > 1 PROVE loads # <<>> /\ CurrentLoad = loads[n - 1]
    BY <1>1, <2>1 DEF CurrentLoad
  <2> QED BY <1>1, <2>1 DEF LeaveFile, Verdict
<1>4. DeclaredOnce'
  BY <1>1, <1>2 DEF CompleteInv, DeclaredOnce
<1>5. ASSUME NEW m, NEW f, Pending(m, f)
      PROVE  Pending(m, f)' \/ (f \in seen /\ fileModule[f] = m)
  <2>1. PICK k \in 1..Len(loads) :
           /\ loads[k].module = m
           /\ f \in Elems(loads[k].files) \/ (k < n /\ stack[k + 1].file = f)
    BY <1>5 DEF Pending
  <2>2. CASE f \in Elems(loads[k].files)
    BY <1>1, <2>1, <2>2 DEF Pending
  <2>3. CASE k < n - 1 /\ stack[k + 1].file = f
    <3>1. k + 1 \in 1..(n - 1)
      BY <1>1, <2>1, <2>3
    <3> QED BY <1>1, <1>2, <2>1, <2>3, <3>1 DEF Pending
  <2>4. CASE k = n - 1 /\ stack[k + 1].file = f
    <3>1. k + 1 = n /\ n > 1
      BY <1>1, <2>1, <2>4
    <3> QED BY <1>1, <1>3, <2>1, <2>4, <3>1
  <2> QED BY <1>1, <2>1, <2>2, <2>3, <2>4
<1>6. AccountedFor'
  BY <1>1, <1>5 DEF AccountedFor
<1>7. Top.file = Entry \/ fileModule[Top.file] \in imported
  <2>1. CASE n = 1
    BY <1>1, <2>1 DEF Wanted
  <2>2. CASE n > 1
    <3>1. loads[n - 1].module \in imported
      BY <1>3, <2>2 DEF CompleteInv, NestInv, LoadsAreMarked
    <3> QED BY <1>3, <2>2, <3>1
  <2> QED BY <1>1, <2>1, <2>2
<1>8. Wanted'
  <2>1. stack' # <<>> => 1 \in 1..(n - 1)
    BY <1>1, <1>2
  <2>2. ASSUME NEW f \in seen, NEW k \in 1..n, stack[k].file = f
        PROVE  f = Top.file \/ \E j \in 1..(n - 1) : stack'[j].file = f
    BY <1>1, <1>2, <2>2
  <2>3. stack' # <<>> => stack'[1].file = Entry
    BY <1>1, <1>2, <2>1 DEF Wanted
  <2> QED BY <1>1, <1>2, <1>7, <2>2, <2>3 DEF Wanted
<1> QED BY <1>1, <1>4, <1>6, <1>8 DEF CompleteInv
\* The end of a file, its failures included.
LEMMA EndFileKeepsComplete ==
  ASSUME CompleteInv, NestInv', EndFile
  PROVE  CompleteInv'
<1>1. UNCHANGED <<fileModule, seen, imported>> /\ Walking
  BY DEF EndFile, LeaveFile, driverVars
<1>2. CASE UNCHANGED stack /\ err' # "none"
  BY <1>1, <1>2, FailureKeepsComplete DEF CompleteInv
<1>3. CASE LeaveFile /\ err' = "none"
  BY <1>1, <1>3, LeaveKeepsComplete
<1>4. CASE LeaveFile /\ err' # "none"
  <2>1. /\ Len(stack) \in Nat /\ Len(stack) >= 1 /\ stack \in Seq(Context) /\ stack # <<>>
        /\ stack' = SubSeq(stack, 1, Len(stack) - 1)
    BY <1>1, <1>4, TopIsContext DEF CompleteInv, NestInv, WalkInv, LeaveFile
  <2>2. /\ Len(stack') = Len(stack) - 1
        /\ \A k \in 1..(Len(stack) - 1) : stack'[k] = stack[k] /\ k \in 1..Len(stack)
    BY <2>1, AllButLast
  <2>3. DeclaredOnce'
    BY <1>1, <2>2 DEF CompleteInv, DeclaredOnce
  <2> QED BY <1>1, <1>4, <2>3 DEF CompleteInv
<1> QED BY <1>2, <1>3, <1>4 DEF EndFile, Fail

\* The entry file comes first.
LEMMA StartKeepsComplete ==
  ASSUME CompleteInv, NestInv', Start
  PROVE  CompleteInv'
<1>1. /\ Entry \in Files /\ Entry \notin seen /\ stack = <<>> /\ loads = <<>>
      /\ seen' = seen \cup {Entry} /\ err = "none"
      /\ UNCHANGED <<loads, fileModule, imported>>
  BY DiskAssumption DEF Start, Seeding, EnterFile, CompleteInv, NestInv, WalkInv
<1>2. CASE Entry \in Unreadable
  <2>1. err' # "none" /\ UNCHANGED stack
    BY <1>2 DEF Start, EnterFile
  <2> QED BY <1>1, <2>1, FailureKeepsComplete DEF CompleteInv
<1>3. CASE Entry \notin Unreadable
  <2> DEFINE c == [file |-> Entry, moduleSeen |-> FALSE, sawContent |-> FALSE,
                   imports |-> <<>>, brace |-> 0, base |-> Len(frames), lines |-> 0]
  <2>1. stack' = Append(stack, c)
    BY <1>3 DEF Start, EnterFile
  <2>2. c.file = Entry /\ fileModule[Entry] = Anonymous
    BY <1>1 DEF CompleteInv, DeclaredOnce
  <2> HIDE DEF c
  <2>3. Len(stack') = 1 /\ stack'[1] = c
    BY <1>1, <2>1
  <2>4. DeclaredOnce'
    BY <1>1, <2>2, <2>3 DEF CompleteInv, DeclaredOnce
  <2>5. \A m, f : ~Pending(m, f)
    BY <1>1 DEF Pending
  <2>6. AccountedFor'
    BY <1>1, <2>5 DEF CompleteInv, AccountedFor
  <2>7. Wanted'
    BY <1>1, <2>2, <2>3 DEF CompleteInv, Wanted
  <2> QED BY <1>1, <2>4, <2>6, <2>7 DEF CompleteInv
<1> QED BY <1>2, <1>3

\* No step breaks the account.
THEOREM CompleteInvariant == PreSpec => []CompleteInv
<1>1. PreInit /\ NestInv => CompleteInv
  <2> SUFFICES ASSUME PreInit, NestInv PROVE CompleteInv
    OBVIOUS
  <2>1. /\ fileModule = [f \in Files |-> Anonymous] /\ stack = <<>> /\ Len(<<>>) = 0
        /\ imported = {} /\ seen = {}
    BY DEF PreInit
  <2> QED BY <2>1 DEF CompleteInv, DeclaredOnce, AccountedFor, Wanted, Homes
<1>2. ASSUME CompleteInv, NestInv', [PreNext]_preVars PROVE CompleteInv'
  <2>1. ASSUME SameWalk, UNCHANGED <<loads, imported, seen, fileModule>>,
               err' = "none" => err = "none"
        PROVE  CompleteInv'
    BY <1>2, <2>1, QuietKeepsComplete
  <2>2. ASSUME \/ OpenBrace \/ CloseBrace \/ BadLine
               \/ IfLine \/ ElseifLine \/ ElseLine \/ EndifLine \/ BadCondLine
               \/ \E x \in Names :
                     \/ DefineLine(x) \/ UndefineLine(x) \/ UseLine(x) \/ ElseifdefLine(x)
                     \/ \E want \in BOOLEAN : IfdefLine(x, want)
        PROVE  CompleteInv'
    <3>1. SameWalk
      BY <1>2, <2>2, LineKeepsWalk DEF CompleteInv, NestInv
    <3>2. UNCHANGED <<loads, imported, seen, fileModule>>
      BY <2>2 DEF OpenBrace, CloseBrace, BadLine, IfLine, ElseifLine, ElseLine, EndifLine,
                  BadCondLine, DefineLine, UndefineLine, UseLine,
                  ElseifdefLine, IfdefLine, CondLine, driverVars
    <3>3. err = "none"
      BY <2>2 DEF OpenBrace, CloseBrace, BadLine, IfLine, ElseifLine, ElseLine, EndifLine,
                  BadCondLine, DefineLine, UndefineLine, UseLine,
                  ElseifdefLine, IfdefLine, Reads, Walking
    <3> QED BY <2>1, <3>1, <3>2, <3>3
  <2>3. ASSUME \/ BadCliDefine \/ Stopped \/ UNCHANGED preVars
               \/ \E x \in Names : AddCliDefine(x)
        PROVE  CompleteInv'
    <3>1. /\ UNCHANGED <<stack, loads, imported, seen, fileModule>>
          /\ err' = "none" => err = "none"
      BY <2>3 DEF BadCliDefine, AddCliDefine, Seeding, Stopped, preVars, driverVars
    <3> QED BY <2>1, <3>1 DEF SameWalk
  <2>4. ASSUME Start \/ LoadFile \/ LoadDone \/ EndFile PROVE CompleteInv'
    BY <1>2, <2>4, StartKeepsComplete, LoadFileKeepsComplete, LoadDoneKeepsComplete,
       EndFileKeepsComplete
  <2>5. ASSUME NEW m \in Modules, ModuleLine(m) \/ ImportLine(m) PROVE CompleteInv'
    BY <1>2, <2>5, ModuleKeepsComplete, ImportKeepsComplete
  <2> QED BY <1>2, <2>2, <2>3, <2>4, <2>5 DEF PreNext, PreStep
<1> QED BY <1>1, <1>2, NestInvariant, PTL DEF PreSpec

\* A walk that succeeds has read the whole of every imported module, every file
\* of it says so, and nothing else was read: for every disk, however often the
\* imports lead back to files that are still being walked.
THEOREM WholeModules == PreSpec => []ModulesAreWhole
<1>1. CompleteInv => ModulesAreWhole
  <2> SUFFICES ASSUME CompleteInv, Done PROVE ModulesAreWhole
    BY DEF ModulesAreWhole
  <2>1. stack = <<>> /\ loads \in Seq(Load) /\ Len(stack) \in {Len(loads), Len(loads) + 1}
        /\ err = "none"
    BY DEF Done, CompleteInv, NestInv, WalkInv
  <2>2. Len(stack) = 0 /\ Len(loads) = 0
    BY <2>1
  <2>3. \A m, f : ~Pending(m, f)
    BY <2>2 DEF Pending
  <2> QED BY <2>1, <2>2, <2>3 DEF CompleteInv, AccountedFor, Wanted, ModulesAreWhole
<1> QED BY <1>1, CompleteInvariant, PTL

-----------------------------------------------------------------------------
(* Sequences. *)

\* A set of naturals that is not empty has a least element.
LEMMA LeastNat ==
  ASSUME NEW N, N \subseteq Nat, N # {}
  PROVE  \E n \in N : \A m \in N : n <= m
<1> DEFINE Less == OpToRel(<, Nat)
<1>1. IsWellFoundedOn(Less, Nat)
  BY NatLessThanWellFounded DEF OpToRel
<1> HIDE DEF Less
<1>2. PICK n \in N : \A m \in N : <<m, n>> \notin Less
  BY <1>1, WFMin
<1>3. ASSUME NEW m \in N PROVE ~(m < n)
  <2>1. m \in Nat /\ n \in Nat
    OBVIOUS
  <2>2. m < n => <<m, n>> \in Less
    BY <2>1 DEF Less, OpToRel
  <2> QED BY <1>2, <2>2
<1> QED BY <1>3

\* No element twice.
NoDup(s) == \A j, k \in 1..Len(s) : s[j] = s[k] => j = k

\* What a filter makes of the first n members of s.
KeptIs(s, T, S, n, t) ==
  /\ t \in Seq(S)
  /\ \A x : x \in Elems(t) <=> \E i \in 1..n : s[i] = x /\ x \in T
  /\ NoDup(s) => NoDup(t)
  /\ (\A i \in 1..n : s[i] \in T) => t = SubSeq(s, 1, n)

\* One member more.
LEMMA KeptGoesOn ==
  ASSUME NEW S, NEW s \in Seq(S), NEW T, NEW n \in 1..Len(s), NEW t,
         KeptIs(s, T, S, n - 1, t)
  PROVE  KeptIs(s, T, S, n, IF s[n] \in T THEN Append(t, s[n]) ELSE t)
<1>1. n \in Nat /\ n >= 1 /\ t \in Seq(S) /\ s[n] \in S /\ Len(s) \in Nat /\ n <= Len(s)
  BY DEF KeptIs
<1>2. \A i \in 1..n : i \in 1..(n - 1) \/ i = n
  BY <1>1
<1>2a. n \in 1..n /\ \A i \in 1..(n - 1) : i \in 1..n /\ i # n /\ i \in 1..Len(s)
  BY <1>1
<1>3. CASE s[n] \notin T
  BY <1>1, <1>2, <1>2a, <1>3 DEF KeptIs
<1>4. CASE s[n] \in T
  <2> DEFINE u == Append(t, s[n])
             l == Len(t)
  <2>1. /\ u \in Seq(S) /\ Len(u) = l + 1 /\ u[l + 1] = s[n] /\ l \in Nat
        /\ \A j \in 1..l : u[j] = t[j]
    BY <1>1
  <2>2. \A j \in 1..(l + 1) : j \in 1..l \/ j = l + 1
    BY <2>1
  <2>3. \A j \in 1..l : j \in 1..(l + 1) /\ l + 1 \in 1..(l + 1)
    BY <2>1
  <2>3a. l + 1 \in 1..(l + 1)
    BY <2>1
  <2> HIDE DEF u
  <2>4. \A x : x \in Elems(u) <=> x \in Elems(t) \/ x = s[n]
    <3> HIDE DEF l
    <3>1. Elems(t) = {t[j] : j \in 1..l}
      BY DEF Elems, l
    <3>2. Elems(u) = {u[j] : j \in 1..(l + 1)}
      BY <2>1 DEF Elems
    <3> QED BY <2>1, <2>2, <2>3, <2>3a, <3>1, <3>2
  <2>5. \A x : x \in Elems(u) <=> \E i \in 1..n : s[i] = x /\ x \in T
    BY <1>2, <1>2a, <1>4, <2>4 DEF KeptIs
  <2>6. ASSUME NoDup(s) PROVE NoDup(u)
    <3>1. s[n] \notin Elems(t)
      BY <1>2a, <2>6, <1>1 DEF KeptIs, NoDup
    <3>2. \A j \in 1..l : t[j] # s[n]
      BY <3>1 DEF Elems
    <3>3. \A j, k \in 1..l : t[j] = t[k] => j = k
      BY <2>6 DEF KeptIs, NoDup
    <3> HIDE DEF l
    <3> QED BY <2>1, <2>2, <3>2, <3>3 DEF NoDup
  <2>7. ASSUME \A i \in 1..n : s[i] \in T PROVE u = SubSeq(s, 1, n)
    <3>1. t = SubSeq(s, 1, n - 1)
      BY <1>2a, <2>7 DEF KeptIs
    <3> QED BY <1>1, <3>1 DEF u
  <2>8. u = IF s[n] \in T THEN Append(t, s[n]) ELSE t
    BY <1>4 DEF u
  <2> QED BY <2>1, <2>5, <2>6, <2>7, <2>8 DEF KeptIs
<1> QED BY <1>3, <1>4

\* A filter keeps the members that are in T: in their order, as often as they occur.
LEMMA KeptFacts ==
  ASSUME NEW S, NEW s \in Seq(S), NEW T
  PROVE  /\ Kept(s, T) \in Seq(S)
         /\ Elems(Kept(s, T)) = Elems(s) \cap T
         /\ NoDup(s) => NoDup(Kept(s, T))
         /\ Elems(s) \subseteq T => Kept(s, T) = s
<1> DEFINE N == Len(s)
           Def(f, n) == f = [i \in 0..n |-> IF i = 0 THEN <<>>
                                            ELSE IF s[i] \in T THEN Append(f[i - 1], s[i])
                                            ELSE f[i - 1]]
           Good(n) == /\ \E f : Def(f, n)
                      /\ \A f : Def(f, n) => KeptIs(s, T, S, n, f[n])
           Bad == {n \in 0..N : ~Good(n)}
<1>1. N \in Nat
  OBVIOUS
<1>2. Good(0)
  <2>1. Def([i \in 0..0 |-> <<>>], 0)
    OBVIOUS
  <2>2. ASSUME NEW f, Def(f, 0) PROVE f[0] = <<>>
    BY <2>2
  <2>3. KeptIs(s, T, S, 0, <<>>)
    <3>1. <<>> \in Seq(S) /\ Len(<<>>) = 0
      OBVIOUS
    <3>2. Elems(<<>>) = {} /\ NoDup(<<>>)
      BY <3>1 DEF Elems, NoDup
    <3>3. SubSeq(s, 1, 0) = <<>>
      OBVIOUS
    <3> QED BY <3>1, <3>2, <3>3 DEF KeptIs
  <2> QED BY <2>1, <2>2, <2>3
<1>3. ASSUME NEW n \in 1..N, Good(n - 1) PROVE Good(n)
  <2>1. /\ n \in Nat /\ n >= 1 /\ n - 1 \in 0..(n - 1) /\ n \in 0..n
        /\ \A i \in 0..n : i \in 0..(n - 1) \/ i = n
        /\ \A i \in 0..(n - 1) : i \in 0..n /\ i # n
        /\ \A i \in 0..n : i # 0 => i - 1 \in 0..(n - 1)
    BY <1>1
  <2>2. \E f : Def(f, n)
    <3>1. PICK f : Def(f, n - 1)
      BY <1>3
    <3> DEFINE last == IF s[n] \in T THEN Append(f[n - 1], s[n]) ELSE f[n - 1]
               g == [i \in 0..n |-> IF i = n THEN last ELSE f[i]]
    <3>2. Def(g, n)
      <4>1. \A i \in 0..n : i # 0 => g[i - 1] = f[i - 1]
        BY <2>1
      <4>2. \A i \in 0..(n - 1) :
               f[i] = IF i = 0 THEN <<>>
                      ELSE IF s[i] \in T THEN Append(f[i - 1], s[i]) ELSE f[i - 1]
        BY <3>1
      <4>3. \A i \in 0..n :
               g[i] = IF i = 0 THEN <<>>
                      ELSE IF s[i] \in T THEN Append(g[i - 1], s[i]) ELSE g[i - 1]
        BY <2>1, <4>1, <4>2
      <4>4. g = [i \in 0..n |-> g[i]]
        OBVIOUS
      <4> HIDE DEF g
      <4> QED BY <4>3, <4>4
    <3> QED BY <3>2
  <2>3. ASSUME NEW f, Def(f, n) PROVE KeptIs(s, T, S, n, f[n])
    <3> DEFINE g == [i \in 0..(n - 1) |-> f[i]]
    <3>1. \A i \in 0..n : f[i] = IF i = 0 THEN <<>>
                                 ELSE IF s[i] \in T THEN Append(f[i - 1], s[i]) ELSE f[i - 1]
      BY <2>3
    <3>2. Def(g, n - 1)
      <4>1. \A i \in 0..(n - 1) : i # 0 => g[i - 1] = f[i - 1]
        BY <2>1
      <4> QED BY <2>1, <3>1, <4>1
    <3>3. KeptIs(s, T, S, n - 1, f[n - 1])
      <4>1. KeptIs(s, T, S, n - 1, g[n - 1])
        BY <1>3, <3>2
      <4> QED BY <2>1, <4>1
    <3>4. f[n] = IF s[n] \in T THEN Append(f[n - 1], s[n]) ELSE f[n - 1]
      BY <2>1, <3>1
    <3> QED BY <3>3, <3>4, KeptGoesOn
  <2> QED BY <2>2, <2>3
<1>4. Bad = {}
  <2> SUFFICES ASSUME Bad # {} PROVE FALSE
    OBVIOUS
  <2>1. Bad \subseteq Nat
    BY <1>1
  <2> HIDE DEF Good
  <2>2. PICK n \in Bad : \A m \in Bad : n <= m
    <3> HIDE DEF Bad
    <3> QED BY <2>1, LeastNat
  <2>3. n \in 1..N
    BY <1>1, <1>2, <2>2
  <2>4. n - 1 \in 0..N /\ ~(n <= n - 1)
    BY <1>1, <2>3
  <2>5. Good(n - 1)
    BY <2>2, <2>4
  <2> QED BY <1>3, <2>2, <2>3, <2>5
<1>5. Good(N)
  <2> HIDE DEF Good
  <2> QED BY <1>1, <1>4
<1>6. KeptIs(s, T, S, N, Kept(s, T))
  <2> DEFINE F == CHOOSE f : Def(f, N)
  <2>1. Def(F, N)
    <3> HIDE DEF Def
    <3> QED BY <1>5
  <2>2. Kept(s, T) = F[N]
    BY DEF Kept
  <2> HIDE DEF F, Def
  <2> QED BY <1>5, <2>1, <2>2
<1>7. SubSeq(s, 1, N) = s
  OBVIOUS
<1>8. Elems(Kept(s, T)) = Elems(s) \cap T
  BY <1>6 DEF KeptIs, Elems
<1>9. Elems(s) \subseteq T => \A i \in 1..N : s[i] \in T
  BY DEF Elems
<1> QED BY <1>6, <1>7, <1>8, <1>9 DEF KeptIs

\* A sequence without repetitions is as long as it has elements.
LEMMA NoDupCounts ==
  ASSUME NEW S, NEW s \in Seq(S), NoDup(s)
  PROVE  Len(s) = Cardinality(Elems(s))
<1> DEFINE f == [i \in 1..Len(s) |-> s[i]]
<1>1. f \in Bijection(1..Len(s), Elems(s))
  BY DEF Bijection, Injection, Surjection, IsInjective, Elems, NoDup
<1>2. ExistsBijection(1..Len(s), Elems(s))
  BY <1>1 DEF ExistsBijection
<1>3. Len(s) \in Nat
  OBVIOUS
<1> QED BY <1>2, <1>3, FS_CountingElements

\* New members behind the old ones.
LEMMA JoinedFacts ==
  ASSUME NEW S, NEW s \in Seq(S), NEW t \in Seq(S)
  PROVE  /\ s \o t \in Seq(S)
         /\ Elems(s \o t) = Elems(s) \cup Elems(t)
         /\ NoDup(s) /\ NoDup(t) /\ Elems(s) \cap Elems(t) = {} => NoDup(s \o t)
<1> DEFINE u == s \o t
           l == Len(s)
           m == Len(t)
<1>1. /\ u \in Seq(S) /\ Len(u) = l + m /\ l \in Nat /\ m \in Nat
      /\ \A i \in 1..l : u[i] = s[i]
      /\ \A i \in 1..m : u[l + i] = t[i]
  OBVIOUS
<1>2. Elems(s) = {s[i] : i \in 1..l} /\ Elems(t) = {t[i] : i \in 1..m}
  BY DEF Elems
<1> HIDE DEF u, l, m
<1>3. Elems(u) = {u[i] : i \in 1..(l + m)}
  BY <1>1 DEF Elems
<1>4. \A i \in 1..(l + m) : i \in 1..l \/ (i - l \in 1..m /\ l + (i - l) = i)
  BY <1>1
<1>5. (\A i \in 1..l : i \in 1..(l + m)) /\ (\A i \in 1..m : l + i \in 1..(l + m))
  BY <1>1
<1>6. \A i \in 1..(l + m) : i \in 1..l \/ (i - l \in 1..m /\ u[i] = t[i - l])
  BY <1>1, <1>4
<1>7. Elems(u) = Elems(s) \cup Elems(t)
  BY <1>1, <1>2, <1>3, <1>5, <1>6
<1>8. ASSUME NoDup(s), NoDup(t), Elems(s) \cap Elems(t) = {} PROVE NoDup(u)
  <2> SUFFICES ASSUME NEW j \in 1..(l + m), NEW k \in 1..(l + m), u[j] = u[k] PROVE j = k
    BY <1>1 DEF NoDup
  <2>1. CASE j \in 1..l /\ k \in 1..l
    BY <1>1, <1>8, <2>1 DEF NoDup, l
  <2>2. CASE j \notin 1..l /\ k \notin 1..l
    <3>1. j - l = k - l
      BY <1>6, <1>8, <2>2 DEF NoDup, m
    <3> QED BY <1>1, <3>1
  <2>3. CASE j \in 1..l <=> k \notin 1..l
    BY <1>1, <1>2, <1>6, <1>8, <2>3
  <2> QED BY <2>1, <2>2, <2>3
<1> QED BY <1>1, <1>7, <1>8 DEF u

-----------------------------------------------------------------------------
(* The define table. *)

\* A global define has its name for itself; a file's define is of a file that
\* was entered.
DefsInv ==
  /\ defs \in [Names -> Seq(Origin)]
  /\ \A x \in Names :
        /\ \A o \in Elems(defs[x]) : Global(o) \/ o \in seen
        /\ (\E o \in Elems(defs[x]) : Global(o)) => Len(defs[x]) = 1

\* Three operations change the table.
LEMMA DefsChange ==
  ASSUME [PreNext]_preVars
  PROVE  \/ UNCHANGED defs
         \/ \E x \in Names : AddCliDefine(x) \/ DefineLine(x) \/ UndefineLine(x)
BY DEF PreNext, PreStep, Stopped, preVars, driverVars, BadCliDefine, Start, EnterFile, LoadFile,
       LoadDone, EndFile, LeaveFile, OpenBrace, CloseBrace, BadLine, IfLine, ElseifLine, ElseLine,
       EndifLine, BadCondLine, CondLine, ModuleLine, ImportLine, UseLine, ElseifdefLine, IfdefLine

\* No file is forgotten.
LEMMA SeenGrows ==
  ASSUME [PreNext]_preVars
  PROVE  seen \subseteq seen'
BY DEF PreNext, PreStep, Stopped, preVars, driverVars, BadCliDefine, Start, EnterFile, LoadFile,
       LoadDone, EndFile, LeaveFile, OpenBrace, CloseBrace, BadLine, IfLine, ElseifLine, ElseLine,
       EndifLine, BadCondLine, CondLine, ModuleLine, ImportLine, UseLine, ElseifdefLine, IfdefLine,
       AddCliDefine, DefineLine, UndefineLine

\* The table after an `$undefine`.
LEMMA Undefined ==
  ASSUME DefsInv, NEW x \in Names, UndefineLine(x)
  PROVE  /\ defs' \in [Names -> Seq(Origin)]
         /\ \A y \in Names : y # x => defs'[y] = defs[y]
         /\ Elems(defs'[x]) = {o \in Elems(defs[x]) : Spared(o)}
         /\ (\E o \in Elems(defs[x]) : Global(o)) => defs'[x] = defs[x]
<1> DEFINE T == {o \in Origin : Spared(o)}
           s == defs[x]
<1>1. defs' = [defs EXCEPT ![x] = Kept(defs[x], T)]
  BY DEF UndefineLine
<1>2. s \in Seq(Origin)
  BY DEF DefsInv
<1> HIDE DEF T, s
<1>3. /\ Kept(s, T) \in Seq(Origin) /\ Elems(Kept(s, T)) = Elems(s) \cap T
      /\ Elems(s) \subseteq T => Kept(s, T) = s
  BY <1>2, KeptFacts
<1>4. defs' \in [Names -> Seq(Origin)] /\ defs'[x] = Kept(s, T)
      /\ \A y \in Names : y # x => defs'[y] = defs[y]
  BY <1>1, <1>3 DEF DefsInv, s
<1>5. Elems(s) \subseteq Origin
  BY <1>2 DEF Elems
<1>6. ASSUME \E o \in Elems(s) : Global(o) PROVE Elems(s) \subseteq T
  <2>1. Len(s) = 1
    BY <1>6 DEF DefsInv, s
  <2>2. \A o, p \in Elems(s) : o = p
    BY <2>1 DEF Elems
  <2> QED BY <1>5, <1>6, <2>2 DEF T, Spared
<1> QED BY <1>3, <1>4, <1>5, <1>6 DEF T, s

\* The table after a `$define` or a `-D` that was accepted.
LEMMA Defined ==
  ASSUME DefsInv, NEW x \in Names, NEW o \in Origin,
         defs' = [defs EXCEPT ![x] = Append(@, o)]
  PROVE  /\ defs' \in [Names -> Seq(Origin)]
         /\ \A y \in Names : y # x => defs'[y] = defs[y]
         /\ Elems(defs'[x]) = Elems(defs[x]) \cup {o}
         /\ Len(defs'[x]) = Len(defs[x]) + 1
         /\ defs[x] \in Seq(Origin)
<1> DEFINE s == defs[x]
           t == Append(s, o)
<1>1. s \in Seq(Origin) /\ Len(s) \in Nat
  BY DEF DefsInv
<1>2. /\ t \in Seq(Origin) /\ Len(t) = Len(s) + 1 /\ t[Len(s) + 1] = o
      /\ \A i \in 1..Len(s) : t[i] = s[i]
  BY <1>1
<1>3. defs'[x] = t /\ defs' \in [Names -> Seq(Origin)]
      /\ \A y \in Names : y # x => defs'[y] = defs[y]
  BY <1>2 DEF DefsInv
<1> HIDE DEF s, t
<1>4. \A i \in 1..(Len(s) + 1) : i \in 1..Len(s) \/ i = Len(s) + 1
  BY <1>1
<1>5. Len(s) + 1 \in 1..(Len(s) + 1) /\ \A i \in 1..Len(s) : i \in 1..(Len(s) + 1)
  BY <1>1
<1>6. Elems(t) = Elems(s) \cup {o}
  BY <1>2, <1>4, <1>5 DEF Elems
<1> QED BY <1>1, <1>2, <1>3, <1>6 DEF s

\* A name that is defined has a first define that is seen.
LEMMA LookupSees ==
  ASSUME DefsInv, NEW x \in Names, IsDefined(x)
  PROVE  Lookup(x) \in Elems(defs[x]) /\ Sees(Lookup(x))
<1> DEFINE P(i) == Sees(defs[x][i])
           N == {i \in 1..Len(defs[x]) : P(i)}
<1>1. N # {} /\ N \subseteq Nat
  BY DEF IsDefined
<1>2. PICK i \in N : \A j \in N : i <= j
  <2> HIDE DEF N
  <2> QED BY <1>1, LeastNat
<1>3. defs[x] \in Seq(Origin) /\ Len(defs[x]) \in Nat
  BY DEF DefsInv
<1>4. i \in 1..Len(defs[x]) /\ Sees(defs[x][i]) /\ \A j \in 1..(i - 1) : ~Sees(defs[x][j])
  BY <1>2, <1>3
<1>5. \E k \in 1..Len(defs[x]) : Lookup(x) = defs[x][k] /\ Sees(defs[x][k])
  BY <1>4 DEF Lookup
<1> QED BY <1>5 DEF Elems

\* A step keeps the table in order, and does not touch a global define.
LEMMA DefsKept ==
  ASSUME WalkInv, DefsInv, [PreNext]_preVars
  PROVE  /\ DefsInv'
         /\ \A x \in Names : (\E o \in Elems(defs[x]) : Global(o)) => defs'[x] = defs[x]
<1>1. seen \subseteq seen'
  BY SeenGrows
<1>2. CASE UNCHANGED defs
  BY <1>1, <1>2 DEF DefsInv
<1>3. ASSUME NEW x \in Names, AddCliDefine(x), ~UNCHANGED defs
      PROVE  /\ DefsInv'
             /\ \A y \in Names : (\E o \in Elems(defs[y]) : Global(o)) => defs'[y] = defs[y]
  <2>1. defs[x] = <<>> /\ defs' = [defs EXCEPT ![x] = Append(@, "cli")]
    BY <1>3 DEF AddCliDefine
  <2>2. "cli" \in Origin /\ Global("cli")
    BY DEF Origin, Global
  <2>3. Elems(defs[x]) = {} /\ Len(defs[x]) = 0
    BY <2>1 DEF Elems
  <2>4. /\ defs' \in [Names -> Seq(Origin)]
        /\ \A y \in Names : y # x => defs'[y] = defs[y]
        /\ Elems(defs'[x]) = Elems(defs[x]) \cup {"cli"}
        /\ Len(defs'[x]) = Len(defs[x]) + 1
    BY <2>1, <2>2, Defined
  <2>5. Elems(defs'[x]) = {"cli"} /\ Len(defs'[x]) = 1
    BY <2>3, <2>4
  <2> QED BY <1>1, <2>2, <2>3, <2>4, <2>5 DEF DefsInv
<1>4. ASSUME NEW x \in Names, DefineLine(x), ~UNCHANGED defs
      PROVE  /\ DefsInv'
             /\ \A y \in Names : (\E o \in Elems(defs[y]) : Global(o)) => defs'[y] = defs[y]
  <2>1. /\ Walking /\ defs' = [defs EXCEPT ![x] = Append(@, Top.file)]
        /\ \A o \in Elems(defs[x]) : ~Collides(Top.file, o)
    BY <1>4 DEF DefineLine, Reads
  <2>2. Top.file \in Origin /\ Top.file \in seen
    BY <2>1, TopIsContext DEF Origin, WalkInv, FilesAreSeen
  <2>3. \A o \in Elems(defs[x]) : ~Global(o) /\ ~Global(Top.file)
    BY <2>1 DEF Collides
  <2>4. /\ defs' \in [Names -> Seq(Origin)]
        /\ \A y \in Names : y # x => defs'[y] = defs[y]
        /\ Elems(defs'[x]) = Elems(defs[x]) \cup {Top.file}
        /\ Len(defs'[x]) = Len(defs[x]) + 1
        /\ defs[x] \in Seq(Origin)
    BY <2>1, <2>2, Defined
  <2>5. Global(Top.file) => Elems(defs[x]) = {}
    BY <2>3
  <2>6. Elems(defs[x]) = {} => Len(defs[x]) = 0
    <3>1. Len(defs[x]) \in Nat
      BY <2>4
    <3>2. Len(defs[x]) # 0 => 1 \in 1..Len(defs[x])
      BY <3>1
    <3> QED BY <3>2 DEF Elems
  <2>7. (\E o \in Elems(defs'[x]) : Global(o)) => Len(defs'[x]) = 1
    <3>1. (\E o \in Elems(defs'[x]) : Global(o)) => Global(Top.file)
      BY <2>3, <2>4
    <3>2. Global(Top.file) => Len(defs'[x]) = 0 + 1
      BY <2>4, <2>5, <2>6
    <3> QED BY <3>1, <3>2
  <2>8. \A o \in Elems(defs'[x]) : Global(o) \/ o \in seen'
    BY <1>1, <2>2, <2>4 DEF DefsInv
  <2>9. DefsInv'
    BY <1>1, <2>4, <2>7, <2>8 DEF DefsInv
  <2>10. ~(\E o \in Elems(defs[x]) : Global(o))
    BY <2>3
  <2> QED BY <2>4, <2>9, <2>10
<1>5. ASSUME NEW x \in Names, UndefineLine(x)
      PROVE  /\ DefsInv'
             /\ \A y \in Names : (\E o \in Elems(defs[y]) : Global(o)) => defs'[y] = defs[y]
  BY <1>1, <1>5, Undefined DEF DefsInv
<1> QED BY <1>2, <1>3, <1>4, <1>5, DefsChange

-----------------------------------------------------------------------------
(* The import graph and the substitutions. *)

\* The file was entered and left again.
Finished(f) == f \in seen /\ \A k \in 1..Len(stack) : stack[k].file # f

\* A file on the stack has noted each module it imported, once.
ImportsNoted ==
  /\ importLines \subseteq seen \X Modules
  /\ \A k \in 1..Len(stack) :
        /\ stack[k].imports \in Seq(Modules) /\ NoDup(stack[k].imports)
        /\ \A m : m \in Elems(stack[k].imports) <=> <<stack[k].file, m>> \in importLines

\* The graph says of the finished files what they imported.
GraphSoFar ==
  /\ \A h : h \in DOMAIN edges <=> \E f : Finished(f) /\ fileModule[f] = h
  /\ \A h \in DOMAIN edges :
        /\ edges[h] \in Seq(Modules) /\ NoDup(edges[h])
        /\ \A m : m \in Elems(edges[h])
                    <=> \E f : Finished(f) /\ fileModule[f] = h /\ <<f, m>> \in importLines

\* The origin of a substitution is still seen from the file that made it. A file
\* that is walked was entered before the user and has not declared since.
StillSeen(u) ==
  /\ u.origin \in seen /\ u.file \in seen
  /\ \A k \in 1..Len(stack) : stack[k].file = u.file =>
        /\ stack[k].sawContent
        /\ \A j \in 1..Len(stack) : stack[j].file = u.origin => j <= k
        /\ \/ fileModule[u.origin] = fileModule[u.file]
           \/ fileModule[u.origin] \in Elems(stack[k].imports)
  /\ Finished(u.file) =>
        \/ fileModule[u.origin] = fileModule[u.file]
        \/ /\ fileModule[u.file] \in DOMAIN edges
           /\ fileModule[u.origin] \in Elems(edges[fileModule[u.file]])

UsesHold == \A u \in uses : Global(u.origin) \/ StillSeen(u)

\* The walk goes on over the same files, and forgets nothing it saw of them.
SameImports ==
  /\ Len(stack') = Len(stack)
  /\ \A k \in 1..Len(stack) : /\ stack'[k].file = stack[k].file
                              /\ stack'[k].imports = stack[k].imports
                              /\ stack[k].sawContent => stack'[k].sawContent

\* Reading a line rewrites the top context only.
LEMMA TopLineKeepsImports ==
  ASSUME WalkInv, Walking, NEW c \in Context, SetTop(c), c.file = Top.file,
         c.imports = Top.imports, Top.sawContent => c.sawContent
  PROVE  SameImports /\ stack'[Len(stack)].sawContent = c.sawContent
<1> DEFINE n == Len(stack)
           d == [c EXCEPT !.lines = c.lines + 1]
<1>1. n \in Nat /\ n \in 1..n /\ stack \in Seq(Context) /\ Top = stack[n]
  BY TopIsContext DEF WalkInv
<1>2. d.file = c.file /\ d.imports = c.imports /\ d.sawContent = c.sawContent
  BY DEF Context
<1>3. stack' = [stack EXCEPT ![n] = d]
  BY DEF SetTop
<1> HIDE DEF d, n
<1>4. /\ Len(stack') = n
      /\ \A k \in 1..n : stack'[k] = IF k = n THEN d ELSE stack[k]
  BY <1>1, <1>3 DEF n
<1> QED BY <1>1, <1>2, <1>4 DEF SameImports, n

\* Every line but an `$import` keeps the imports.
LEMMA LineKeepsImports ==
  ASSUME WalkInv,
         \/ OpenBrace \/ CloseBrace \/ BadLine
         \/ IfLine \/ ElseifLine \/ ElseLine \/ EndifLine \/ BadCondLine
         \/ \E m \in Modules : ModuleLine(m)
         \/ \E x \in Names :
               \/ DefineLine(x) \/ UndefineLine(x) \/ UseLine(x) \/ ElseifdefLine(x)
               \/ \E want \in BOOLEAN : IfdefLine(x, want)
  PROVE  SameImports
<1>1. Walking
  BY DEF OpenBrace, CloseBrace, BadLine, IfLine, ElseifLine, ElseLine, EndifLine,
         BadCondLine, ModuleLine, DefineLine, UndefineLine, UseLine,
         ElseifdefLine, IfdefLine, Reads
<1>2. Top \in Context /\ Top.brace \in Nat
  <2>1. Top \in Context
    BY <1>1, TopIsContext
  <2> QED BY <2>1 DEF Context
<1>3. ASSUME UNCHANGED stack PROVE SameImports
  BY <1>3 DEF SameImports
<1>4. ASSUME SetTop(Top) PROVE SameImports
  BY <1>1, <1>2, <1>4, TopLineKeepsImports
<1>5. ASSUME NEW c, SetTop(c), c \in Context, c.file = Top.file, c.imports = Top.imports,
             Top.sawContent => c.sawContent
      PROVE  SameImports
  BY <1>1, <1>5, TopLineKeepsImports
<1>6. ASSUME OpenBrace \/ CloseBrace PROVE SameImports
  <2>1. PICK b \in Nat : SetTop([Top EXCEPT !.sawContent = TRUE, !.brace = b])
    <3>1. Top.brace + 1 \in Nat /\ OneLess(Top.brace) \in Nat
      BY <1>2 DEF OneLess
    <3> QED BY <1>6, <3>1 DEF OpenBrace, CloseBrace
  <2> DEFINE c == [Top EXCEPT !.sawContent = TRUE, !.brace = b]
  <2>2. c \in Context /\ c.file = Top.file /\ c.imports = Top.imports /\ c.sawContent
    BY <1>2 DEF Context
  <2>3. SetTop(c)
    BY <2>1
  <2> HIDE DEF c
  <2> QED BY <1>5, <2>2, <2>3
<1>7. ASSUME NEW x, UseLine(x) PROVE SameImports
  <2> DEFINE c == [Top EXCEPT !.sawContent = TRUE]
  <2>1. c \in Context /\ c.file = Top.file /\ c.imports = Top.imports /\ c.sawContent
    BY <1>2 DEF Context
  <2>2. SetTop(c)
    BY <1>7 DEF UseLine
  <2> HIDE DEF c
  <2> QED BY <1>5, <2>1, <2>2
<1>8. ASSUME NEW m, ModuleLine(m) PROVE SameImports
  <2> DEFINE c == [Top EXCEPT !.moduleSeen = TRUE]
  <2>1. /\ c \in Context /\ c.file = Top.file /\ c.imports = Top.imports
        /\ Top.sawContent => c.sawContent
    BY <1>2 DEF Context
  <2>2. SetTop(c) \/ UNCHANGED stack
    BY <1>8 DEF ModuleLine, Fail
  <2> HIDE DEF c
  <2> QED BY <1>3, <1>5, <2>1, <2>2
<1>9. ASSUME NEW x, DefineLine(x) \/ UndefineLine(x) PROVE SameImports
  BY <1>3, <1>4, <1>9 DEF DefineLine, UndefineLine, Fail
<1>10. ASSUME BadLine PROVE SameImports
  BY <1>3, <1>10 DEF BadLine, Fail
<1>11. ASSUME NEW x, ElseifdefLine(x) \/ \E want \in BOOLEAN : IfdefLine(x, want)
       PROVE  SameImports
  BY <1>3, <1>4, <1>11 DEF ElseifdefLine, IfdefLine, CondLine
<1>12. ASSUME IfLine \/ ElseifLine \/ ElseLine \/ EndifLine \/ BadCondLine
       PROVE  SameImports
  BY <1>3, <1>4, <1>12 DEF IfLine, ElseifLine, ElseLine, EndifLine, BadCondLine, CondLine
<1> QED BY <1>6, <1>7, <1>8, <1>9, <1>10, <1>11, <1>12

\* What the invariant promises while the walk goes on.
GraphInv == ImportsNoted /\ GraphSoFar /\ UsesHold

\* A line that imports, declares and uses nothing.
LEMMA QuietKeepsGraph ==
  ASSUME SameImports, GraphInv, Len(stack) \in Nat,
         UNCHANGED <<seen, fileModule, edges, uses, importLines>>
  PROVE  GraphInv'
<1>1. \A f : Finished(f)' <=> Finished(f)
  BY DEF Finished, SameImports
<1>2. ImportsNoted'
  BY DEF GraphInv, ImportsNoted, SameImports
<1>3. GraphSoFar'
  BY <1>1 DEF GraphInv, GraphSoFar
<1>4. ASSUME NEW u \in uses, StillSeen(u) PROVE StillSeen(u)'
  BY <1>1, <1>4 DEF StillSeen, SameImports
<1> QED BY <1>2, <1>3, <1>4 DEF GraphInv, UsesHold

\* A substitution takes what the file sees now.
LEMMA UseKeepsGraph ==
  ASSUME WalkInv, DefsInv, GraphInv, NEW x \in Names, UseLine(x)
  PROVE  GraphInv'
<1> DEFINE n == Len(stack)
<1>0. PICK u : u = [file |-> Top.file, name |-> x, origin |-> Lookup(x)]
  OBVIOUS
<1>1. /\ Walking /\ n \in Nat /\ n \in 1..n /\ Top = stack[n] /\ Top \in Context
      /\ Top.file \in seen
  BY TopIsContext DEF UseLine, Reads, WalkInv, FilesAreSeen
<1>2. SameImports /\ stack'[n].sawContent
  <2> DEFINE c == [Top EXCEPT !.sawContent = TRUE]
  <2>1. c \in Context /\ c.file = Top.file /\ c.imports = Top.imports /\ c.sawContent
    BY <1>1 DEF Context
  <2>2. SetTop(c)
    BY DEF UseLine
  <2> HIDE DEF c
  <2> QED BY <1>1, <2>1, <2>2, TopLineKeepsImports
<1>3. UNCHANGED <<seen, fileModule, edges, importLines>>
  BY DEF UseLine, driverVars
<1>4. \A f : Finished(f)' <=> Finished(f)
  BY <1>2, <1>3 DEF Finished, SameImports
<1>5. ImportsNoted'
  BY <1>2, <1>3 DEF GraphInv, ImportsNoted, SameImports
<1>6. GraphSoFar'
  BY <1>3, <1>4 DEF GraphInv, GraphSoFar
<1>7. ASSUME NEW v \in uses, StillSeen(v) PROVE StillSeen(v)'
  BY <1>2, <1>3, <1>4, <1>7 DEF StillSeen, SameImports
<1>8. ASSUME IsDefined(x), ~Global(u.origin) PROVE StillSeen(u)'
  <2>0. u.file = Top.file /\ u.origin = Lookup(x)
    BY <1>0
  <2>1. Lookup(x) \in Elems(defs[x]) /\ Sees(Lookup(x))
    BY <1>8, LookupSees
  <2>2. Lookup(x) \in seen
    BY <1>8, <2>0, <2>1 DEF DefsInv
  <2>3. \/ fileModule[Lookup(x)] = fileModule[Top.file]
        \/ fileModule[Lookup(x)] \in Elems(Top.imports)
    BY <1>8, <2>0, <2>1 DEF Sees
  <2>4. u.file = Top.file /\ u.origin = Lookup(x)
    BY <2>0
  <2>5. ~Finished(u.file)
    BY <1>1, <2>4 DEF Finished
  <2>6. ASSUME NEW k \in 1..n, stack[k].file = u.file PROVE k = n
    BY <1>1, <2>4, <2>6 DEF WalkInv, WalkedOnce
  <2> HIDE DEF n
  <2>7. \A k \in 1..n : stack'[k].file = u.file =>
           /\ stack'[k].sawContent
           /\ \A j \in 1..n : stack'[j].file = u.origin => j <= k
           /\ \/ fileModule[u.origin] = fileModule[u.file]
              \/ fileModule[u.origin] \in Elems(stack'[k].imports)
    <3> SUFFICES ASSUME NEW k \in 1..n, stack'[k].file = u.file
                 PROVE  /\ stack'[k].sawContent
                        /\ \A j \in 1..n : j <= k
                        /\ \/ fileModule[u.origin] = fileModule[u.file]
                           \/ fileModule[u.origin] \in Elems(stack'[k].imports)
      OBVIOUS
    <3>1. k = n
      BY <1>2, <2>6 DEF SameImports, n
    <3>2. stack'[k].imports = Top.imports
      BY <1>1, <1>2, <3>1 DEF SameImports, n
    <3> QED BY <1>1, <1>2, <2>3, <2>4, <3>1, <3>2 DEF n
  <2>8. Len(stack') = n
    BY <1>2 DEF SameImports, n
  <2> QED BY <1>1, <1>3, <1>4, <2>2, <2>4, <2>5, <2>7, <2>8 DEF StillSeen
<1>9. uses' = IF IsDefined(x) THEN uses \cup {u} ELSE uses
  BY <1>0 DEF UseLine
<1>10. UsesHold'
  BY <1>7, <1>8, <1>9 DEF GraphInv, UsesHold, Global
<1> QED BY <1>5, <1>6, <1>10 DEF GraphInv

\* `$module`: who used a define of this file before stands above it on the stack,
\* or left it with a module of its own; so no one loses sight of a define.
LEMMA ModuleKeepsGraph ==
  ASSUME CompleteInv, Wanted, GraphInv, NEW h \in Modules, ModuleLine(h)
  PROVE  GraphInv'
<1> DEFINE n == Len(stack)
           t == Top.file
<1>1. /\ Walking /\ n \in Nat /\ n \in 1..n /\ Top = stack[n] /\ Top \in Context /\ WalkInv
      /\ t \in Files
  BY TopIsContext DEF ModuleLine, Reads, CompleteInv, NestInv
<1>2. SameImports
  BY <1>1, LineKeepsImports
<1>3. UNCHANGED <<seen, edges, uses, importLines>>
  BY DEF ModuleLine
<1>4. CASE UNCHANGED fileModule
  BY <1>1, <1>2, <1>3, <1>4, QuietKeepsGraph
<1>5. CASE ~UNCHANGED fileModule
  <2>1. fileModule' = [fileModule EXCEPT ![t] = h] /\ ~Top.moduleSeen /\ ~Top.sawContent
    BY <1>5 DEF ModuleLine
  <2>2. fileModule[t] = Anonymous /\ Anonymous \notin Modules
    BY <1>1, <2>1, DiskAssumption DEF CompleteInv, DeclaredOnce
  <2>3. \A f \in seen : f # t => fileModule'[f] = fileModule[f]
    BY <1>1, <2>1 DEF CompleteInv, WalkInv
  <2>4. \A f : Finished(f)' <=> Finished(f)
    BY <1>2, <1>3 DEF Finished, SameImports
  <2>5. \A f : Finished(f) => f \in seen /\ f # t
    BY <1>1 DEF Finished
  <2>6. \A f : Finished(f) => fileModule[f] # Anonymous
    <3>1. stack # <<>>
      BY <1>1
    <3>2. stack[1].file = Entry /\ 1 \in 1..n
      BY <1>1, <3>1 DEF Wanted
    <3> QED BY <2>2, <3>2 DEF Wanted, Finished, CompleteInv
  <2>7. ImportsNoted'
    BY <1>2, <1>3 DEF GraphInv, ImportsNoted, SameImports
  <2>8. GraphSoFar'
    <3>1. \A f : Finished(f) => fileModule'[f] = fileModule[f]
      BY <2>3, <2>5
    <3> QED BY <1>3, <2>4, <3>1 DEF GraphInv, GraphSoFar
  <2>9. ASSUME NEW u \in uses, StillSeen(u) PROVE StillSeen(u)'
    <3>1. ASSUME NEW k \in 1..n, stack[k].file = u.file
          PROVE  u.file # t /\ u.origin # t
                 /\ \/ fileModule[u.origin] = fileModule[u.file]
                    \/ fileModule[u.origin] \in Elems(stack[k].imports)
      <4>1. stack[k].sawContent
        BY <2>9, <3>1 DEF StillSeen
      <4>2. k # n
        BY <1>1, <2>1, <4>1
      <4>3. u.file # t
        BY <1>1, <3>1, <4>2 DEF WalkInv, WalkedOnce
      <4>4. ~(n <= k)
        BY <1>1, <4>2
      <4>5. u.origin # t
        BY <1>1, <2>9, <3>1, <4>4 DEF StillSeen
      <4> QED BY <2>9, <3>1, <4>3, <4>5 DEF StillSeen
    <3>2. ASSUME Finished(u.file)
          PROVE  u.file # t /\ u.origin # t
      <4>1. u.file # t /\ fileModule[u.file] # Anonymous
        BY <2>5, <2>6, <3>2
      <4>2. CASE fileModule[u.origin] = fileModule[u.file]
        BY <2>2, <4>1, <4>2
      <4>3. CASE /\ fileModule[u.file] \in DOMAIN edges
                 /\ fileModule[u.origin] \in Elems(edges[fileModule[u.file]])
        <5>1. fileModule[u.origin] \in Modules
          BY <4>3 DEF GraphInv, GraphSoFar, Elems
        <5> QED BY <2>2, <4>1, <5>1
      <4> QED BY <2>9, <3>2, <4>2, <4>3 DEF StillSeen
    <3>3. u.origin \in seen /\ u.file \in seen
      BY <2>9 DEF StillSeen
    <3>4. \A k \in 1..Len(stack') : stack'[k].file = u.file =>
             /\ stack'[k].sawContent
             /\ \A j \in 1..Len(stack') : stack'[j].file = u.origin => j <= k
             /\ \/ fileModule'[u.origin] = fileModule'[u.file]
                \/ fileModule'[u.origin] \in Elems(stack'[k].imports)
      BY <1>2, <2>3, <2>9, <3>1, <3>3 DEF StillSeen, SameImports
    <3>5. Finished(u.file) =>
             \/ fileModule'[u.origin] = fileModule'[u.file]
             \/ /\ fileModule'[u.file] \in DOMAIN edges
                /\ fileModule'[u.origin] \in Elems(edges[fileModule'[u.file]])
      BY <2>3, <2>9, <3>2, <3>3 DEF StillSeen
    <3> QED BY <1>3, <2>4, <3>3, <3>4, <3>5 DEF StillSeen
  <2> QED BY <1>3, <2>7, <2>8, <2>9 DEF GraphInv, UsesHold
<1> QED BY <1>4, <1>5

\* `$import`: one more module that the reading file sees.
LEMMA ImportKeepsGraph ==
  ASSUME WalkInv, GraphInv, NEW h \in Modules, ImportLine(h)
  PROVE  GraphInv'
<1> DEFINE n == Len(stack)
           t == Top.file
           old == Top.imports
           list == IF h \in Elems(old) THEN old ELSE Append(old, h)
           c == [Top EXCEPT !.imports = list]
           d == [c EXCEPT !.lines = c.lines + 1]
<1>1. /\ Walking /\ n \in Nat /\ n \in 1..n /\ Top = stack[n] /\ Top \in Context
      /\ t \in seen /\ stack \in Seq(Context)
  BY TopIsContext DEF ImportLine, Reads, WalkInv, FilesAreSeen
<1>2. /\ importLines' = importLines \cup {<<t, h>>} /\ stack' = [stack EXCEPT ![n] = d]
      /\ UNCHANGED <<seen, fileModule, edges, uses>>
  BY DEF ImportLine, SetTop
<1>3. old \in Seq(Modules) /\ NoDup(old) /\ \A m : m \in Elems(old) <=> <<t, m>> \in importLines
  BY <1>1 DEF GraphInv, ImportsNoted
<1>4. /\ list \in Seq(Modules) /\ NoDup(list)
      /\ \A m : m \in Elems(list) <=> m \in Elems(old) \/ m = h
  <2>1. CASE h \in Elems(old)
    BY <1>3, <2>1
  <2>2. CASE h \notin Elems(old)
    <3>1. list = Append(old, h)
      BY <2>2
    <3> HIDE DEF old, list
    <3>2. /\ list \in Seq(Modules) /\ Len(list) = Len(old) + 1 /\ list[Len(old) + 1] = h
          /\ \A i \in 1..Len(old) : list[i] = old[i]
          /\ Len(old) \in Nat
      BY <1>3, <3>1
    <3>3. \A i \in 1..(Len(old) + 1) : i \in 1..Len(old) \/ i = Len(old) + 1
      BY <3>2
    <3>4. Len(old) + 1 \in 1..(Len(old) + 1) /\ \A i \in 1..Len(old) : i \in 1..(Len(old) + 1)
      BY <3>2
    <3>5. \A m : m \in Elems(list) <=> m \in Elems(old) \/ m = h
      BY <3>2, <3>3, <3>4 DEF Elems
    <3>6. \A i \in 1..Len(old) : old[i] # h
      BY <2>2 DEF Elems
    <3>7. NoDup(list)
      BY <1>3, <3>2, <3>3, <3>6 DEF NoDup
    <3> QED BY <3>2, <3>5, <3>7
  <2> QED BY <2>1, <2>2
<1> HIDE DEF list, old
<1>5. d.file = t /\ d.imports = list /\ d.sawContent = Top.sawContent
  BY <1>1 DEF Context
<1> HIDE DEF d
<1>6. /\ Len(stack') = n
      /\ \A k \in 1..n : stack'[k] = IF k = n THEN d ELSE stack[k]
      /\ \A k \in 1..n : stack'[k].file = stack[k].file
  <2>1. /\ Len(stack') = n
        /\ \A k \in 1..n : stack'[k] = IF k = n THEN d ELSE stack[k]
    BY <1>1, <1>2
  <2> QED BY <1>1, <1>5, <2>1
<1>7. \A f : Finished(f)' <=> Finished(f)
  BY <1>2, <1>6 DEF Finished
<1>8. \A k \in 1..n : k # n => stack[k].file # t
  BY <1>1 DEF WalkInv, WalkedOnce
<1>9. ImportsNoted'
  <2>1. importLines' \subseteq seen \X Modules
    BY <1>1, <1>2 DEF GraphInv, ImportsNoted
  <2>2. ASSUME NEW k \in 1..n
        PROVE  /\ stack'[k].imports \in Seq(Modules) /\ NoDup(stack'[k].imports)
               /\ \A m : m \in Elems(stack'[k].imports) <=> <<stack'[k].file, m>> \in importLines'
    <3>1. CASE k = n
      <4>1. stack'[k].imports = list /\ stack'[k].file = t
        BY <1>1, <1>5, <1>6, <3>1
      <4> QED BY <1>2, <1>3, <1>4, <4>1
    <3>2. CASE k # n
      <4>1. stack'[k] = stack[k] /\ stack[k].file # t
        BY <1>6, <1>8, <3>2
      <4> QED BY <1>2, <4>1 DEF GraphInv, ImportsNoted
    <3> QED BY <3>1, <3>2
  <2> QED BY <1>2, <1>6, <2>1, <2>2 DEF ImportsNoted
<1>10. GraphSoFar'
  <2>1. \A f : Finished(f) => f # t
    BY <1>1 DEF Finished
  <2>2. \A f, m : Finished(f) => (<<f, m>> \in importLines' <=> <<f, m>> \in importLines)
    BY <1>2, <2>1
  <2> QED BY <1>2, <1>7, <2>2 DEF GraphInv, GraphSoFar
<1>11. ASSUME NEW u \in uses, StillSeen(u) PROVE StillSeen(u)'
  <2>1. \A k \in 1..n : /\ Elems(stack[k].imports) \subseteq Elems(stack'[k].imports)
                        /\ stack'[k].sawContent = stack[k].sawContent
    BY <1>1, <1>4, <1>5, <1>6 DEF old
  <2> QED BY <1>2, <1>6, <1>7, <1>11, <2>1 DEF StillSeen
<1> QED BY <1>2, <1>9, <1>10, <1>11 DEF GraphInv, UsesHold

\* A new file has imported nothing and used nothing yet.
LEMMA EnterKeepsGraph ==
  ASSUME WalkInv, GraphInv, NEW f \in Files, f \notin seen, EnterFile(f), err' = "none"
  PROVE  GraphInv'
<1> DEFINE n == Len(stack)
           c == [file |-> f, moduleSeen |-> FALSE, sawContent |-> FALSE,
                 imports |-> <<>>, brace |-> 0, base |-> Len(frames), lines |-> 0]
<1>1. /\ n \in Nat /\ stack \in Seq(Context) /\ seen' = seen \cup {f}
      /\ UNCHANGED <<fileModule, edges, uses, importLines>>
  BY DEF EnterFile, WalkInv
<1>2. stack' = Append(stack, c)
  BY DEF EnterFile
<1>3. c.file = f /\ c.imports = <<>>
  OBVIOUS
<1> HIDE DEF c
<1>4. /\ Len(stack') = n + 1 /\ stack'[n + 1] = c
      /\ \A k \in 1..n : stack'[k] = stack[k] /\ k \in 1..(n + 1)
      /\ \A k \in 1..(n + 1) : k \in 1..n \/ k = n + 1
      /\ n + 1 \in 1..(n + 1)
  BY <1>1, <1>2
<1>5. \A g : Finished(g)' <=> Finished(g)
  <2>1. ~Finished(f)'
    BY <1>3, <1>4 DEF Finished
  <2>2. \A g : g # f => (Finished(g)' <=> Finished(g))
    BY <1>1, <1>3, <1>4 DEF Finished
  <2> QED BY <2>1, <2>2 DEF Finished
<1>6. ImportsNoted'
  <2>1. <<>> \in Seq(Modules) /\ NoDup(<<>>) /\ Elems(<<>>) = {}
    BY DEF NoDup, Elems
  <2>2. \A m : <<f, m>> \notin importLines
    BY DEF GraphInv, ImportsNoted
  <2>3. importLines \subseteq seen' \X Modules
    BY <1>1 DEF GraphInv, ImportsNoted
  <2>4. \A k \in 1..(n + 1) :
           /\ stack'[k].imports \in Seq(Modules) /\ NoDup(stack'[k].imports)
           /\ \A m : m \in Elems(stack'[k].imports) <=> <<stack'[k].file, m>> \in importLines
    BY <1>3, <1>4, <2>1, <2>2 DEF GraphInv, ImportsNoted
  <2> QED BY <1>1, <1>4, <2>3, <2>4 DEF ImportsNoted
<1>7. GraphSoFar'
  BY <1>1, <1>5 DEF GraphInv, GraphSoFar
<1>8. ASSUME NEW u \in uses, StillSeen(u) PROVE StillSeen(u)'
  <2>1. u.origin # f /\ u.file # f /\ u.origin \in seen' /\ u.file \in seen'
    BY <1>1, <1>8 DEF StillSeen
  <2>2. \A k \in 1..(n + 1) : stack'[k].file = u.file \/ stack'[k].file = u.origin
                                => k \in 1..n /\ stack'[k] = stack[k]
    BY <1>3, <1>4, <2>1
  <2>3. \A k \in 1..(n + 1) : stack'[k].file = u.file =>
           /\ stack'[k].sawContent
           /\ \A j \in 1..(n + 1) : stack'[j].file = u.origin => j <= k
           /\ \/ fileModule[u.origin] = fileModule[u.file]
              \/ fileModule[u.origin] \in Elems(stack'[k].imports)
    BY <1>8, <2>2 DEF StillSeen
  <2> QED BY <1>1, <1>4, <1>5, <1>8, <2>1, <2>3 DEF StillSeen
<1> QED BY <1>1, <1>6, <1>7, <1>8 DEF GraphInv, UsesHold

\* The imports of a file that is left accrue to its module.
LEMMA LeaveKeepsGraph ==
  ASSUME WalkInv, GraphInv, fileModule \in [Files -> Homes], Walking, LeaveFile
  PROVE  GraphInv'
<1> DEFINE n == Len(stack)
           t == Top.file
           home == fileModule[t]
           old == IF home \in DOMAIN edges THEN edges[home] ELSE <<>>
           list == Merged(old, Top.imports)
<1>1. /\ n \in Nat /\ n \in 1..n /\ n >= 1 /\ Top = stack[n] /\ stack \in Seq(Context)
      /\ stack # <<>> /\ t \in seen /\ WalkedOnce
  BY TopIsContext DEF WalkInv, FilesAreSeen
<1>2. /\ UNCHANGED <<uses, seen, fileModule, importLines>>
      /\ stack' = SubSeq(stack, 1, n - 1)
      /\ edges' = [m \in DOMAIN edges \cup {home} |-> IF m = home THEN list ELSE edges[m]]
  BY DEF LeaveFile, RecordEdges
<1>3. /\ Len(stack') = n - 1
      /\ \A k \in 1..(n - 1) : stack'[k] = stack[k] /\ k \in 1..n /\ k # n
      /\ \A k \in 1..n : k \in 1..(n - 1) \/ k = n
  BY <1>1, <1>2, AllButLast
<1>4. \A f : Finished(f)' <=> Finished(f) \/ f = t
  <2>1. ASSUME NEW f, f = t PROVE Finished(f)'
    BY <1>1, <1>2, <1>3, <2>1 DEF Finished, WalkedOnce
  <2>2. ASSUME NEW f, f # t PROVE Finished(f)' <=> Finished(f)
    BY <1>1, <1>2, <1>3, <2>2 DEF Finished
  <2> QED BY <2>1, <2>2
<1>5. ImportsNoted'
  BY <1>2, <1>3 DEF GraphInv, ImportsNoted
<1>6. /\ Top.imports \in Seq(Modules) /\ NoDup(Top.imports)
      /\ \A m : m \in Elems(Top.imports) <=> <<t, m>> \in importLines
  BY <1>1 DEF GraphInv, ImportsNoted
<1>7. /\ old \in Seq(Modules) /\ NoDup(old)
      /\ \A m : m \in Elems(old)
                  <=> \E f : Finished(f) /\ fileModule[f] = home /\ <<f, m>> \in importLines
  <2>1. CASE home \in DOMAIN edges
    BY <2>1 DEF GraphInv, GraphSoFar
  <2>2. CASE home \notin DOMAIN edges
    <3>1. old = <<>>
      BY <2>2
    <3>2. <<>> \in Seq(Modules) /\ NoDup(<<>>) /\ Elems(<<>>) = {}
      BY DEF NoDup, Elems
    <3>3. \A f : Finished(f) => fileModule[f] # home
      BY <2>2 DEF GraphInv, GraphSoFar
    <3> QED BY <3>1, <3>2, <3>3
  <2> QED BY <2>1, <2>2
<1> HIDE DEF old
<1>8. /\ list \in Seq(Modules) /\ NoDup(list)
      /\ Elems(list) = Elems(old) \cup Elems(Top.imports)
  <2> DEFINE new == Kept(Top.imports, Modules \ Elems(old))
  <2>1. /\ new \in Seq(Modules) /\ NoDup(new)
        /\ Elems(new) = Elems(Top.imports) \cap (Modules \ Elems(old))
    BY <1>6, KeptFacts
  <2>2. list = old \o new
    BY DEF Merged
  <2>3. Elems(Top.imports) \subseteq Modules
    BY <1>6 DEF Elems
  <2> HIDE DEF new, list
  <2>4. Elems(old) \cap Elems(new) = {}
    BY <2>1
  <2> QED BY <1>7, <2>1, <2>2, <2>3, <2>4, JoinedFacts
<1> HIDE DEF list
<1>9. GraphSoFar'
  <2>1. DOMAIN edges' = DOMAIN edges \cup {home} /\ edges'[home] = list
        /\ \A h \in DOMAIN edges : h # home => edges'[h] = edges[h]
    BY <1>2
  <2>2. \A h : h \in DOMAIN edges' <=> \E f : Finished(f)' /\ fileModule'[f] = h
    <3>1. \A h : h \in DOMAIN edges <=> \E f : Finished(f) /\ fileModule[f] = h
      BY DEF GraphInv, GraphSoFar
    <3> QED BY <1>2, <1>4, <2>1, <3>1
  <2>3. /\ edges'[home] \in Seq(Modules) /\ NoDup(edges'[home])
        /\ \A m : m \in Elems(edges'[home])
                    <=> \E f : Finished(f)' /\ fileModule'[f] = home /\ <<f, m>> \in importLines'
    <3>1. \A m : m \in Elems(list) <=> m \in Elems(old) \/ <<t, m>> \in importLines
      BY <1>6, <1>8
    <3> QED BY <1>2, <1>4, <1>7, <1>8, <2>1, <3>1
  <2>4. ASSUME NEW h \in DOMAIN edges', h # home
        PROVE  /\ edges'[h] \in Seq(Modules) /\ NoDup(edges'[h])
               /\ \A m : m \in Elems(edges'[h])
                           <=> \E f : Finished(f)' /\ fileModule'[f] = h /\ <<f, m>> \in importLines'
    <3>1. h \in DOMAIN edges /\ edges'[h] = edges[h]
      BY <2>1, <2>4
    <3>2. \A f : fileModule[f] = h => (Finished(f)' <=> Finished(f))
      BY <1>4, <2>4
    <3> QED BY <1>2, <3>1, <3>2 DEF GraphInv, GraphSoFar
  <2> QED BY <2>2, <2>3, <2>4 DEF GraphSoFar
<1>10. ASSUME NEW u \in uses, StillSeen(u) PROVE StillSeen(u)'
  <2>1. \A h \in DOMAIN edges : h \in DOMAIN edges' /\ Elems(edges[h]) \subseteq Elems(edges'[h])
    BY <1>2, <1>8 DEF old
  <2>2. home \in DOMAIN edges' /\ Elems(Top.imports) \subseteq Elems(edges'[home])
    BY <1>2, <1>8
  <2>3. \A k \in 1..(n - 1) : stack'[k].file = u.file =>
           /\ stack'[k].sawContent
           /\ \A j \in 1..(n - 1) : stack'[j].file = u.origin => j <= k
           /\ \/ fileModule[u.origin] = fileModule[u.file]
              \/ fileModule[u.origin] \in Elems(stack'[k].imports)
    BY <1>3, <1>10 DEF StillSeen
  <2>4. CASE u.file = t
    <3>1. \/ fileModule[u.origin] = fileModule[u.file]
          \/ fileModule[u.origin] \in Elems(Top.imports)
      BY <1>1, <1>10, <2>4 DEF StillSeen
    <3>2. \/ fileModule[u.origin] = fileModule[u.file]
          \/ /\ fileModule[u.file] \in DOMAIN edges'
             /\ fileModule[u.origin] \in Elems(edges'[fileModule[u.file]])
      BY <2>2, <2>4, <3>1
    <3> QED BY <1>2, <1>3, <1>10, <2>3, <3>2 DEF StillSeen
  <2>5. CASE u.file # t
    <3>1. Finished(u.file)' => Finished(u.file)
      BY <1>4, <2>5
    <3> QED BY <1>2, <1>3, <1>10, <2>1, <2>3, <3>1 DEF StillSeen
  <2> QED BY <2>4, <2>5
<1> QED BY <1>2, <1>5, <1>9, <1>10 DEF GraphInv, UsesHold

-----------------------------------------------------------------------------
(* The theorems. *)

\* What the walk's invariant does not say of the types.
RestTyped ==
  /\ err \in Errors
  /\ DOMAIN edges \subseteq Homes
  /\ \A m \in DOMAIN edges : edges[m] \in Seq(Modules)
  /\ uses \subseteq [file : Files, name : Names, origin : Origin]
  /\ importLines \subseteq Files \X Modules

LEMMA TypesFollow ==
  ASSUME CompleteInv, DefsInv, RestTyped
  PROVE  PreTypeOK
BY DEF CompleteInv, NestInv, WalkInv, StackInv, DefsInv, RestTyped, PreTypeOK

LEMMA ErrorsTyped ==
  ASSUME err \in Errors, [PreNext]_preVars
  PROVE  err' \in Errors
<1>1. ASSUME NEW e \in Errors, Fail(e) PROVE err' \in Errors
  BY <1>1 DEF Fail, Errors
<1>2. ASSUME NEW t, Open(Top.file, t) \/ ElseIf(Top.file, t) \/ Else(Top.file) \/ EndIf(Top.file)
      PROVE  err' \in Errors
  BY <1>2 DEF Open, ElseIf, Else, EndIf, Errors
<1>3. ASSUME NEW t, Stray(t) \/ AfterElse(t) PROVE err' \in Errors
  BY <1>3 DEF Stray, AfterElse, Errors
<1>4. ASSUME NEW x, AddCliDefine(x) \/ DefineLine(x) \/ UndefineLine(x) \/ UseLine(x)
      PROVE  err' \in Errors
  BY <1>4 DEF AddCliDefine, DefineLine, UndefineLine, UseLine, Fail, Errors
<1>5. ASSUME NEW x, ElseifdefLine(x) \/ \E want \in BOOLEAN : IfdefLine(x, want)
      PROVE  err' \in Errors
  BY <1>2, <1>5 DEF ElseifdefLine, IfdefLine, CondLine
<1>6. ASSUME IfLine \/ ElseifLine \/ ElseLine \/ EndifLine PROVE err' \in Errors
  BY <1>1, <1>2, <1>6 DEF IfLine, ElseifLine, ElseLine, EndifLine, CondLine, Errors
<1>7. ASSUME BadCondLine PROVE err' \in Errors
  BY <1>1, <1>3, <1>7 DEF BadCondLine, CondLine, Errors
<1>8. ASSUME BadCliDefine \/ OpenBrace \/ CloseBrace \/ BadLine \/ LoadDone \/ Stopped
               \/ UNCHANGED preVars
      PROVE  err' \in Errors
  BY <1>8 DEF BadCliDefine, OpenBrace, CloseBrace, BadLine, Fail, LoadDone, Stopped, preVars, Errors
<1>9. ASSUME Start \/ LoadFile \/ EndFile PROVE err' \in Errors
  BY <1>9 DEF Start, LoadFile, EnterFile, EndFile, LeaveFile, Verdict, Fail, Errors
<1>10. ASSUME NEW m, ModuleLine(m) \/ ImportLine(m) PROVE err' \in Errors
  BY <1>10 DEF ModuleLine, ImportLine, Fail, Errors
<1> QED BY <1>4, <1>5, <1>6, <1>7, <1>8, <1>9, <1>10 DEF PreNext, PreStep

LEMMA TypesKept ==
  ASSUME CompleteInv, DefsInv, RestTyped, [PreNext]_preVars
  PROVE  RestTyped'
<1>1. err' \in Errors
  BY ErrorsTyped DEF RestTyped
<1>2. CASE \E x \in Names : UseLine(x)
  <2>1. PICK x \in Names : UseLine(x)
    BY <1>2
  <2>2. Top.file \in Files
    BY <2>1, TopIsContext DEF UseLine, Reads, CompleteInv, NestInv
  <2>3. IsDefined(x) => Lookup(x) \in Origin
    BY LookupSees DEF DefsInv, Elems
  <2>4. uses' \subseteq [file : Files, name : Names, origin : Origin]
    BY <2>1, <2>2, <2>3 DEF UseLine, RestTyped
  <2>5. UNCHANGED <<edges, importLines>>
    BY <2>1 DEF UseLine, driverVars
  <2> QED BY <1>1, <2>4, <2>5 DEF RestTyped
<1>3. CASE \E m \in Modules : ImportLine(m)
  <2>1. PICK m \in Modules : ImportLine(m)
    BY <1>3
  <2>2. Top.file \in Files
    BY <2>1, TopIsContext DEF ImportLine, Reads, CompleteInv, NestInv
  <2>3. importLines' \subseteq Files \X Modules /\ UNCHANGED <<uses, edges>>
    BY <2>1, <2>2 DEF ImportLine, RestTyped
  <2> QED BY <1>1, <2>3 DEF RestTyped
<1>4. CASE EndFile
  <2>1. UNCHANGED <<uses, importLines>> /\ Walking
    BY <1>4 DEF EndFile, LeaveFile, driverVars
  <2>2. Top \in Context
    BY <2>1, TopIsContext DEF CompleteInv, NestInv
  <2>3. Top.file \in Files /\ Top.imports \in Seq(Modules)
    BY <2>2 DEF Context
  <2>4. CASE UNCHANGED edges
    BY <1>1, <2>1, <2>4 DEF RestTyped
  <2>5. CASE RecordEdges(fileModule[Top.file])
    <3> DEFINE home == fileModule[Top.file]
               old == IF home \in DOMAIN edges THEN edges[home] ELSE <<>>
               list == Merged(old, Top.imports)
    <3>1. home \in Homes
      BY <2>3 DEF CompleteInv
    <3>2. old \in Seq(Modules)
      BY DEF RestTyped
    <3>3. edges' = [m \in DOMAIN edges \cup {home} |-> IF m = home THEN list ELSE edges[m]]
      BY <2>5 DEF RecordEdges
    <3> HIDE DEF home, old
    <3>4. list \in Seq(Modules)
      BY <2>3, <3>2, KeptFacts, JoinedFacts DEF Merged
    <3> HIDE DEF list
    <3> QED BY <1>1, <2>1, <3>1, <3>3, <3>4 DEF RestTyped
  <2> QED BY <1>4, <2>4, <2>5 DEF EndFile, LeaveFile, driverVars
<1>5. CASE UNCHANGED <<edges, uses, importLines>>
  BY <1>1, <1>5 DEF RestTyped
<1>6. \/ \E x \in Names : UseLine(x)
      \/ \E m \in Modules : ImportLine(m)
      \/ EndFile
      \/ UNCHANGED <<edges, uses, importLines>>
  BY DEF PreNext, PreStep, Stopped, preVars, driverVars, BadCliDefine, Start, EnterFile, LoadFile,
         LoadDone, OpenBrace, CloseBrace, BadLine, IfLine, ElseifLine, ElseLine,
         EndifLine, BadCondLine, CondLine, ModuleLine, ElseifdefLine, IfdefLine,
         AddCliDefine, DefineLine, UndefineLine
<1> QED BY <1>2, <1>3, <1>4, <1>5, <1>6

\* The whole invariant of the walk.
ScopeInv ==
  /\ CompleteInv /\ DefsInv /\ RestTyped
  /\ err = "none" => GraphInv

LEMMA ScopeKept ==
  ASSUME ScopeInv, CompleteInv', [PreNext]_preVars
  PROVE  ScopeInv'
<1>1. WalkInv /\ DefsInv' /\ RestTyped'
  BY DefsKept, TypesKept DEF ScopeInv, CompleteInv, NestInv
<1>2. ASSUME err' = "none" PROVE GraphInv'
  <2>1. err = "none"
    BY <1>2 DEF PreNext, PreStep, Stopped, preVars, BadCliDefine, Start, LoadFile, LoadDone,
       EndFile, OpenBrace, CloseBrace, BadLine, IfLine, ElseifLine, ElseLine, EndifLine,
       BadCondLine, ModuleLine, ImportLine, DefineLine, UndefineLine, UseLine, ElseifdefLine,
       IfdefLine, AddCliDefine, Reads, Walking, Loading, Seeding
  <2>2. GraphInv /\ CompleteInv /\ Wanted /\ fileModule \in [Files -> Homes]
        /\ Len(stack) \in Nat
    BY <2>1 DEF ScopeInv, CompleteInv, NestInv, WalkInv
  <2>3. ASSUME SameImports, UNCHANGED <<seen, fileModule, edges, uses, importLines>>
        PROVE  GraphInv'
    BY <2>2, <2>3, QuietKeepsGraph
  <2>4. ASSUME \/ OpenBrace \/ CloseBrace \/ BadLine
               \/ IfLine \/ ElseifLine \/ ElseLine \/ EndifLine \/ BadCondLine
               \/ \E x \in Names :
                     \/ DefineLine(x) \/ UndefineLine(x) \/ ElseifdefLine(x)
                     \/ \E want \in BOOLEAN : IfdefLine(x, want)
        PROVE  GraphInv'
    <3>1. SameImports
      BY <1>1, <2>4, LineKeepsImports
    <3>2. UNCHANGED <<seen, fileModule, edges, uses, importLines>>
      BY <2>4 DEF OpenBrace, CloseBrace, BadLine, IfLine, ElseifLine, ElseLine, EndifLine,
                  BadCondLine, DefineLine, UndefineLine, ElseifdefLine, IfdefLine, CondLine,
                  driverVars
    <3> QED BY <2>3, <3>1, <3>2
  <2>5. ASSUME \/ BadCliDefine \/ LoadDone \/ Stopped \/ UNCHANGED preVars
               \/ \E x \in Names : AddCliDefine(x)
        PROVE  GraphInv'
    <3>1. UNCHANGED <<stack, seen, fileModule, edges, uses, importLines>>
      BY <2>5 DEF BadCliDefine, LoadDone, AddCliDefine, Stopped, preVars, driverVars
    <3> QED BY <2>3, <3>1 DEF SameImports
  <2>6. ASSUME Start PROVE GraphInv'
    <3>1. Entry \in Files /\ Entry \notin seen /\ EnterFile(Entry)
      BY <2>6, DiskAssumption DEF Start, Seeding
    <3> QED BY <1>1, <1>2, <2>2, <3>1, EnterKeepsGraph
  <2>7. ASSUME LoadFile PROVE GraphInv'
    <3> DEFINE f == Head(CurrentLoad.files)
    <3>1. CASE f \notin seen
      <4>1. EnterFile(f)
        BY <2>7, <3>1 DEF LoadFile
      <4>2. f \in Files
        <5>1. loads \in Seq(Load) /\ loads # <<>> /\ CurrentLoad.files # <<>>
          BY <1>1, <2>7 DEF WalkInv, LoadFile, Loading
        <5>2. CurrentLoad \in Load
          BY <5>1 DEF CurrentLoad
        <5>3. CurrentLoad.files \in Seq(Files)
          BY <5>2 DEF Load
        <5> QED BY <5>1, <5>3
      <4> QED BY <1>1, <1>2, <2>2, <3>1, <4>1, <4>2, EnterKeepsGraph
    <3>2. CASE f \in seen
      <4>1. UNCHANGED <<stack, seen, fileModule, edges, uses, importLines>>
        BY <2>7, <3>2 DEF LoadFile
      <4> QED BY <2>3, <4>1 DEF SameImports
    <3> QED BY <3>1, <3>2
  <2>8. ASSUME EndFile PROVE GraphInv'
    <3>1. Walking /\ LeaveFile
      BY <1>2, <2>8 DEF EndFile, Fail
    <3> QED BY <1>1, <2>2, <3>1, LeaveKeepsGraph
  <2>9. ASSUME NEW m \in Modules, ModuleLine(m) \/ ImportLine(m) PROVE GraphInv'
    BY <1>1, <2>2, <2>9, ModuleKeepsGraph, ImportKeepsGraph
  <2>10. ASSUME NEW x \in Names, UseLine(x) PROVE GraphInv'
    BY <1>1, <2>2, <2>10, UseKeepsGraph DEF ScopeInv
  <2> QED BY <2>4, <2>5, <2>6, <2>7, <2>8, <2>9, <2>10 DEF PreNext, PreStep
<1> QED BY <1>1, <1>2 DEF ScopeInv

\* The table, the graph and the substitutions stay in order at every step.
THEOREM ScopeInvariant == PreSpec => []ScopeInv
<1>1. PreInit /\ CompleteInv => ScopeInv
  <2> SUFFICES ASSUME PreInit, CompleteInv PROVE ScopeInv
    OBVIOUS
  <2>1. /\ defs = [x \in Names |-> IF x \in Platform THEN <<"builtin">> ELSE <<>>]
        /\ seen = {} /\ stack = <<>> /\ uses = {} /\ importLines = {} /\ err = "none"
        /\ edges = [m \in {} |-> <<>>]
    BY DEF PreInit, CondInit
  <2>2. DefsInv
    <3>1. "builtin" \in Origin /\ Global("builtin")
      BY DEF Origin, Global
    <3>2. /\ <<"builtin">> \in Seq(Origin) /\ Len(<<"builtin">>) = 1
          /\ <<>> \in Seq(Origin) /\ Len(<<>>) = 0
      BY <3>1
    <3>3. Elems(<<"builtin">>) = {"builtin"} /\ Elems(<<>>) = {}
      BY DEF Elems
    <3> QED BY <2>1, <3>1, <3>2, <3>3 DEF DefsInv
  <2>3. DOMAIN edges = {}
    BY <2>1
  <2>4. RestTyped
    BY <2>1, <2>3 DEF RestTyped, Errors
  <2>5. \A f : ~Finished(f)
    BY <2>1 DEF Finished
  <2>6. GraphInv
    BY <2>1, <2>3, <2>5 DEF GraphInv, ImportsNoted, GraphSoFar, UsesHold
  <2> QED BY <2>2, <2>4, <2>6 DEF ScopeInv
<1>2. ScopeInv /\ CompleteInv' /\ [PreNext]_preVars => ScopeInv'
  BY ScopeKept
<1> QED BY <1>1, <1>2, CompleteInvariant, PTL DEF PreSpec

\* No `$define` of any file shadows or duplicates a define of the compiler or the
\* command line, and no `$undefine` removes it.
THEOREM GlobalsStay == PreSpec => GlobalsAreFinal
<1>1. ScopeInv /\ [PreNext]_preVars
        => [\A x \in Names : (\E o \in Elems(defs[x]) : Global(o)) => defs'[x] = defs[x]]_preVars
  BY DefsKept DEF ScopeInv, CompleteInv, NestInv
<1> QED BY <1>1, ScopeInvariant, PTL DEF PreSpec, GlobalsAreFinal

\* When a walk succeeds the parser gets the exact import graph.
LEMMA GraphComesOutExact ==
  ASSUME ScopeInv, Done
  PROVE  /\ DOMAIN edges = {fileModule[f] : f \in seen}
         /\ \A m \in DOMAIN edges :
               /\ Elems(edges[m]) =
                     {p[2] : p \in {q \in importLines : fileModule[q[1]] = m}}
               /\ Len(edges[m]) = Cardinality(Elems(edges[m]))
<1>1. stack = <<>> /\ Len(stack) = 0 /\ GraphInv
  BY DEF Done, ScopeInv
<1>2. \A f : Finished(f) <=> f \in seen
  BY <1>1 DEF Finished
<1>3. DOMAIN edges = {fileModule[f] : f \in seen}
  BY <1>1, <1>2 DEF GraphInv, GraphSoFar
<1>4. ASSUME NEW m \in DOMAIN edges
      PROVE  /\ Elems(edges[m]) = {p[2] : p \in {q \in importLines : fileModule[q[1]] = m}}
             /\ Len(edges[m]) = Cardinality(Elems(edges[m]))
  <2>1. edges[m] \in Seq(Modules) /\ NoDup(edges[m])
        /\ \A h : h \in Elems(edges[m])
                    <=> \E f : f \in seen /\ fileModule[f] = m /\ <<f, h>> \in importLines
    BY <1>1, <1>2 DEF GraphInv, GraphSoFar
  <2>2. importLines \subseteq seen \X Modules
    BY <1>1 DEF GraphInv, ImportsNoted
  <2>3. \A h : (\E f : f \in seen /\ fileModule[f] = m /\ <<f, h>> \in importLines)
                 <=> h \in {p[2] : p \in {q \in importLines : fileModule[q[1]] = m}}
    <3>1. \A q \in importLines : q[1] \in seen /\ q = <<q[1], q[2]>>
      BY <2>2
    <3>2. \A f, h : <<f, h>>[1] = f /\ <<f, h>>[2] = h
      OBVIOUS
    <3>3. ASSUME NEW h, NEW f, f \in seen, fileModule[f] = m, <<f, h>> \in importLines
          PROVE  h \in {p[2] : p \in {q \in importLines : fileModule[q[1]] = m}}
      BY <3>3, <3>2
    <3>4. ASSUME NEW h, h \in {p[2] : p \in {q \in importLines : fileModule[q[1]] = m}}
          PROVE  \E f : f \in seen /\ fileModule[f] = m /\ <<f, h>> \in importLines
      BY <3>4, <3>1
    <3> QED BY <3>3, <3>4
  <2> QED BY <2>1, <2>3, NoDupCounts
<1> QED BY <1>3, <1>4

\* Every substitution of a walk that succeeds took a define that is global, of the
\* using file's own module, or of a module its module imports directly: judged by
\* the modules all files have in the end, and by the graph the parser gets.
THEOREM SubstitutionsAreScoped == PreSpec => []SubstitutionIsScoped
<1>1. ScopeInv => SubstitutionIsScoped
  <2> SUFFICES ASSUME ScopeInv PROVE SubstitutionIsScoped
    OBVIOUS
  <2>1. PreTypeOK
    BY TypesFollow DEF ScopeInv
  <2>2. GraphIsExact
    BY GraphComesOutExact DEF GraphIsExact
  <2>3. ASSUME Done, NEW u \in uses
        PROVE  \/ Global(u.origin)
               \/ fileModule[u.origin] = fileModule[u.file]
               \/ fileModule[u.origin] \in Elems(edges[fileModule[u.file]])
    <3>1. stack = <<>> /\ Len(stack) = 0 /\ UsesHold
      BY <2>3 DEF Done, ScopeInv, GraphInv
    <3>2. CASE StillSeen(u)
      <4>1. Finished(u.file)
        BY <3>1, <3>2 DEF StillSeen, Finished
      <4> QED BY <3>2, <4>1 DEF StillSeen
    <3> QED BY <3>1, <3>2 DEF UsesHold
  <2> QED BY <2>1, <2>2, <2>3 DEF SubstitutionIsScoped
<1> QED BY <1>1, ScopeInvariant, PTL
=============================================================================
