------------------------------- MODULE Bodies -------------------------------
(***************************************************************************)
(* The body of one function, from its syntax tree to basic blocks.         *)
(*                                                                         *)
(* Variable references stay names in the tree, and the parser, the checker *)
(* and the code generator each resolve them with a scope stack of its own. *)
(* The checker decides which bodies are legal; the generator lowers them   *)
(* to blocks, with a stack of loops for `break` and `continue` and a stack *)
(* of value blocks for `return`.  Each of these walks is an operator here; *)
(* the state machine then runs the lowered code and the source in lock     *)
(* step, the environment answering every condition and every scrutinee.    *)
(*                                                                         *)
(* Types, and the values of expressions, are left out (module Values): an  *)
(* expression is a constant, a name or a value block, a condition is a     *)
(* chain of `&&` conjuncts each of which may bind a name by `is`.          *)
(***************************************************************************)
EXTENDS Integers, SequencesExt, TLC

CONSTANT Bodies     \* the functions tried: [stmts, yields \in {"value", "void"}]

ASSUME BodiesAreFunctions ==
    \A b \in Bodies : b.yields \in {"value", "void"}

VARIABLES body,     \* the function
          code,     \* its blocks, as lowered
          names,    \* what each name in it refers to, for each of the three walks
          at,       \* the run of the blocks: [bb, i, acc, mem]
          src       \* the run of the source: [k, env, acc, mem]

bodyVars == <<body, code, names, at, src>>

-----------------------------------------------------------------------------
(* Scope stacks.  A declaration is named by its cell: the path of the      *)
(* statement that declares it.                                             *)

NoName == ""        \* a conjunct that binds nothing
NoCell == <<>>      \* an unresolved name
Unset  == -1        \* what a load of a cell that was never stored yields
Payload == 7        \* what an `is` binding copies out of its scrutinee

Enter(scope) == Append(scope, <<>>)
Exit(scope) == IF Len(scope) > 1 THEN Front(scope) ELSE scope
Declare(scope, x, cell) == [scope EXCEPT ![Len(scope)] = (x :> cell) @@ @]
InCurrent(scope, x) == x \in DOMAIN Last(scope)
Find(scope, x) ==
    LET holders == {d \in DOMAIN scope : x \in DOMAIN scope[d]}
    IN  IF holders = {} THEN NoCell ELSE scope[Max(holders)][x]

(* The children of a statement, as the last components of their paths. *)
Sub(path, child) == path \o <<child>>
OfValue == 1   OfTarget == 2   OfCond == 3   OfThen == 4   OfElse == 5
OfInit == 6    OfInc == 7      OfBody == 8   OfArm == 9    OfDefault == 10

-----------------------------------------------------------------------------
(* Resolving names: the parser's walk and the checker's.                   *)
(*                                                                         *)
(* The parser gives every block a scope of its own inside the scope of the *)
(* construct, refuses a second declaration in one scope, and declares a    *)
(* local after its initializer; the checker has one scope per construct    *)
(* and declares a local before its initializer.                            *)

Refer(w, x, path) == [w EXCEPT !.names = @ \union {<<path, Find(w.scope, x)>>}]

Bind(ph, w, x, cell) ==
    [w EXCEPT !.scope = Declare(@, x, cell),
              !.ok = @ /\ (ph = "parser" => ~InCurrent(w.scope, x))]

Opened(w) == [w EXCEPT !.scope = Enter(@)]
Closed(w) == [w EXCEPT !.scope = Exit(@)]

RECURSIVE Resolve(_, _, _, _)

ResolveBlock(ph, w, stmts, path) == Closed(Resolve(ph, Opened(w), stmts, path))

ResolveBody(ph, w, stmts, path) ==
    IF ph = "parser" THEN ResolveBlock(ph, w, stmts, path) ELSE Resolve(ph, w, stmts, path)

ResolveValue(ph, w, e, path) ==
    CASE e.e = "var"   -> Refer(w, e.x, path)
      [] e.e = "block" -> ResolveBlock(ph, w, e.stmts, path)
      [] OTHER         -> w

ResolveCond(ph, w, cond, path) ==
    FoldLeft(LAMBDA v, i : IF cond[i] = NoName THEN v
                           ELSE Bind(ph, v, cond[i], Sub(path, i)),
             w, [i \in DOMAIN cond |-> i])

ResolveArm(ph, w, arm, path) ==
    LET bound == IF arm.binds = NoName THEN Opened(w)
                 ELSE Bind(ph, Opened(w), arm.binds, path)
    IN  Closed(ResolveBody(ph, bound, arm.stmts, path))

ResolveStmt(ph, w, s, path) ==
    CASE s.k \in {"use", "return"} -> ResolveValue(ph, w, s.e, Sub(path, OfValue))
      [] s.k = "decl" ->
            LET value(v) == ResolveValue(ph, v, s.e, Sub(path, OfValue))
            IN  IF ph = "parser" THEN Bind(ph, value(w), s.x, path)
                ELSE value(Bind(ph, w, s.x, path))
      [] s.k = "assign" ->
            ResolveValue(ph, Refer(w, s.x, Sub(path, OfTarget)), s.e, Sub(path, OfValue))
      [] s.k = "if" ->
            LET cond == ResolveCond(ph, Opened(w), s.cond, Sub(path, OfCond))
                then == Closed(ResolveBody(ph, cond, s.then, Sub(path, OfThen)))
            IN  FoldLeft(LAMBDA v, b : ResolveBlock(ph, v, b, Sub(path, OfElse)), then, s.else)
      [] s.k = "while" ->
            LET cond == ResolveCond(ph, Opened(w), s.cond, Sub(path, OfCond))
            IN  Closed(ResolveBody(ph, cond, s.body, Sub(path, OfBody)))
      [] s.k = "for" ->
            LET init == Resolve(ph, Opened(w), s.init, Sub(path, OfInit))
                inc  == Resolve(ph, init, s.inc, Sub(path, OfInc))
            IN  Closed(ResolveBody(ph, inc, s.body, Sub(path, OfBody)))
      [] s.k = "switch" ->
            LET arms == FoldLeft(LAMBDA v, i : ResolveArm(ph, v, s.arms[i], path \o <<OfArm, i>>),
                                 w, [i \in DOMAIN s.arms |-> i])
            IN  FoldLeft(LAMBDA v, b : ResolveBlock(ph, v, b, Sub(path, OfDefault)), arms, s.default)
      [] s.k = "block" -> ResolveBlock(ph, w, s.stmts, Sub(path, OfBody))
      [] OTHER -> w

Resolve(ph, w, stmts, path) ==
    FoldLeft(LAMBDA v, i : ResolveStmt(ph, v, stmts[i], Sub(path, i)),
             w, [i \in DOMAIN stmts |-> i])

Resolution(ph, b) ==
    ResolveBody(ph, [scope |-> <<<<>>, <<>>>>, names |-> {}, ok |-> TRUE], b.stmts, <<>>)

-----------------------------------------------------------------------------
(* What else the checker asks of a body: forms of `return`, the stances of *)
(* a `switch`, and the all-paths rule for value blocks.                    *)

CasesOf(s) == UNION {Range(arm.cases) : arm \in Range(s.arms)}

(* Only a closed space (an enum, a sum, a bool) can be covered by its arms. *)
(* First a mistake to be kept apart from it: one case is enough.           *)
CompleteByOne(s) == s.space > 0 /\ CasesOf(s) # {}
Complete(s) == s.space > 0 /\ 0 .. s.space - 1 \subseteq CasesOf(s)

RECURSIVE AlwaysReturns(_)
AlwaysReturns(stmts) ==
    \E i \in DOMAIN stmts :
        LET s == stmts[i]
        IN  \/ s.k = "return"
            \/ s.k = "block" /\ AlwaysReturns(s.stmts)
            \/ /\ s.k = "if" /\ s.else # <<>>
               /\ AlwaysReturns(s.then) /\ AlwaysReturns(s.else[1])
            \/ /\ s.k = "switch" /\ (Complete(s) \/ s.default # <<>>)
               /\ \A a \in DOMAIN s.arms : AlwaysReturns(s.arms[a].stmts)
               /\ \A d \in DOMAIN s.default : AlwaysReturns(s.default[d])

NoDuplicates(s) ==
    /\ \A a, b \in DOMAIN s.arms : a # b => Range(s.arms[a].cases) \cap Range(s.arms[b].cases) = {}
    /\ \A a \in DOMAIN s.arms : IsInjective(s.arms[a].cases)

SwitchIsCovered(s) ==
    /\ NoDuplicates(s)
    /\ s.default # <<>> \/ Complete(s)

RECURSIVE Checked(_, _)
CheckedValue(e) == e.e = "block" => Checked(e.stmts, "value") /\ AlwaysReturns(e.stmts)

CheckedStmt(s, yields) ==
    /\ s.k \in {"use", "decl", "assign", "return"} => CheckedValue(s.e)
    /\ s.k = "return" => (s.e.e = "none") = (yields = "void")
    /\ s.k = "if" => Checked(s.then, yields) /\ \A i \in DOMAIN s.else : Checked(s.else[i], yields)
    /\ s.k \in {"while", "for"} => Checked(s.body, yields)
    /\ s.k = "for" => Checked(s.init, yields) /\ Checked(s.inc, yields)
    /\ s.k = "block" => Checked(s.stmts, yields)
    /\ s.k = "switch" =>
          /\ SwitchIsCovered(s)
          /\ \A a \in DOMAIN s.arms : Checked(s.arms[a].stmts, yields)
          /\ \A d \in DOMAIN s.default : Checked(s.default[d], yields)

Checked(stmts, yields) == \A i \in DOMAIN stmts : CheckedStmt(stmts[i], yields)

(* Parser and checker accept the body: no redeclaration, no unknown name. *)
Accepted(b) ==
    /\ Resolution("parser", b).ok
    /\ \A n \in Resolution("checker", b).names : n[2] # NoCell
    /\ Checked(b.stmts, b.yields)

-----------------------------------------------------------------------------
(* Lowering to basic blocks.  A block is the sequence of its instructions, *)
(* of which the terminators belong at the end; `acc` stands for the value  *)
(* an expression leaves in a register.                                     *)

Terminators == {"br", "cond", "switch", "ret", "unreachable"}

Emit(g, ins) == [g EXCEPT !.blocks[g.cur] = Append(@, ins)]
NewBlocks(g, n) == [g EXCEPT !.blocks = @ \o [i \in 1 .. n |-> <<>>]]
Fresh(g, i) == Len(g.blocks) + i                \* the i-th block NewBlocks will add
PositionAt(g, bb) == [g EXCEPT !.cur = bb]
HasTerminator(g) ==
    LET block == g.blocks[g.cur] IN block # <<>> /\ Last(block).op \in Terminators

Br(bb) == [op |-> "br", to |-> bb]
Cond(then, else) == [op |-> "cond", then |-> then, else |-> else]
Op(op) == [op |-> op]
Const(v) == [op |-> "const", v |-> v]
Access(op, cell) == [op |-> op, cell |-> cell]  \* "load", "store", "bind"

EnterScope(g) == [g EXCEPT !.scope = Enter(@)]
ExitScope(g) == [g EXCEPT !.scope = Exit(@)]
AddVariable(g, x, cell) == [g EXCEPT !.scope = Declare(@, x, cell)]
Named(g, x, path) == [g EXCEPT !.names = @ \union {<<path, Find(g.scope, x)>>}]

BranchUnlessEnded(g, bb) == IF HasTerminator(g) THEN g ELSE Emit(g, Br(bb))

(* `break`, `continue` and `return` out of a value block leave the builder *)
(* in a block of its own.                                                  *)
BranchToDeadEnd(g, bb) ==
    LET dead == Fresh(g, 1) IN PositionAt(NewBlocks(Emit(g, Br(bb)), 1), dead)

RECURSIVE Lower(_, _, _)

(* `{ ...; return v }` as a value: a slot, an exit block, and the returns  *)
(* of the block go there.                                                  *)
LowerValueBlock(g, stmts, slot) ==
    LET exit   == Fresh(g, 1)
        inside == EnterScope([NewBlocks(g, 1) EXCEPT !.vblocks = Append(@, <<slot, exit>>)])
        tail   == ExitScope(Lower(inside, stmts, slot))
        closed == IF HasTerminator(tail) THEN tail ELSE Emit(tail, Op("unreachable"))
    IN  Emit(PositionAt([closed EXCEPT !.vblocks = Front(@)], exit), Access("load", slot))

LowerValue(g, e, path) ==
    CASE e.e = "const" -> Emit(g, Const(e.v))
      [] e.e = "var"   -> Emit(Named(g, e.x, path), Access("load", Find(g.scope, e.x)))
      [] e.e = "block" -> LowerValueBlock(g, e.stmts, path)
      [] OTHER         -> g

(* A mistake to be kept apart from what follows: ending the outermost block. *)
LowerReturnOutermost(g, e, path) ==
    LET value == LowerValue(g, e, path)
    IN  IF g.vblocks # <<>>
        THEN BranchToDeadEnd(Emit(value, Access("store", g.vblocks[1][1])), g.vblocks[1][2])
        ELSE Emit(value, Op("ret"))

LowerReturn(g, e, path) ==
    LET value == LowerValue(g, e, path)
    IN  IF g.vblocks # <<>>
        THEN BranchToDeadEnd(Emit(value, Access("store", Last(g.vblocks)[1])), Last(g.vblocks)[2])
        ELSE Emit(value, Op("ret"))

(* One conjunct: probe, and on the matched edge copy the payload. *)
LowerConjunct(g, x, cell) ==
    LET asked == Emit(g, Op("ask"))
        bind  == Fresh(g, 1)
        cont  == Fresh(g, 2)
        probe == Emit(AddVariable(NewBlocks(asked, 2), x, cell), Cond(bind, cont))
        copy  == Emit(Emit(PositionAt(probe, bind), Access("bind", cell)), Br(cont))
    IN  IF x = NoName THEN asked ELSE PositionAt(copy, cont)

(* `left && right`: the right operand has a block of its own, entered only *)
(* when the left one is true; both edges meet in a phi.                    *)
LowerAnd(g, x, cell) ==
    LET rhs   == Fresh(g, 1)
        merge == Fresh(g, 2)
        left  == Emit(NewBlocks(g, 2), Cond(rhs, merge))
        right == LowerConjunct(PositionAt(left, rhs), x, cell)
    IN  PositionAt(Emit(right, Br(merge)), merge)

LowerCond(g, cond, path) ==
    IF cond = <<>> THEN Emit(g, Const(TRUE))
    ELSE FoldLeft(LAMBDA h, i : LowerAnd(h, cond[i], Sub(path, i)),
                  LowerConjunct(g, cond[1], Sub(path, 1)),
                  [i \in 1 .. Len(cond) - 1 |-> i + 1])

(* Another mistake: a block that shares the scope around it. *)
LowerBlockInPlace(g, stmts, path) == Lower(g, stmts, path)
LowerBlock(g, stmts, path) == ExitScope(Lower(EnterScope(g), stmts, path))

LowerIf(g, s, path) ==
    LET cond  == LowerCond(EnterScope(g), s.cond, Sub(path, OfCond))
        then  == Fresh(cond, 1)
        else  == Fresh(cond, 2)
        merge == Fresh(cond, 3)
        fork  == Emit(NewBlocks(cond, 3), Cond(then, else))
        yes   == ExitScope(Lower(PositionAt(fork, then), s.then, Sub(path, OfThen)))
        no    == FoldLeft(LAMBDA h, b : LowerBlock(h, b, Sub(path, OfElse)),
                          PositionAt(BranchUnlessEnded(yes, merge), else), s.else)
    IN  PositionAt(BranchUnlessEnded(no, merge), merge)

LowerWhile(g, s, path) ==
    LET test == Fresh(g, 1)
        loop == Fresh(g, 2)
        end  == Fresh(g, 3)
        head == Emit([NewBlocks(g, 3) EXCEPT !.loops = Append(@, <<end, test>>)], Br(test))
        cond == LowerCond(EnterScope(PositionAt(head, test)), s.cond, Sub(path, OfCond))
        body1 == ExitScope(Lower(PositionAt(Emit(cond, Cond(loop, end)), loop),
                                 s.body, Sub(path, OfBody)))
        back == BranchUnlessEnded(body1, test)
    IN  PositionAt([back EXCEPT !.loops = Front(@)], end)

LowerFor(g, s, path) ==
    LET init == Lower(EnterScope(g), s.init, Sub(path, OfInit))
        test == Fresh(init, 1)
        loop == Fresh(init, 2)
        inc  == Fresh(init, 3)
        end  == Fresh(init, 4)
        head == Emit([NewBlocks(init, 4) EXCEPT !.loops = Append(@, <<end, inc>>)], Br(test))
        cond == LowerCond(PositionAt(head, test), s.cond, Sub(path, OfCond))
        body1 == Lower(PositionAt(Emit(cond, Cond(loop, end)), loop), s.body, Sub(path, OfBody))
        next == Lower(PositionAt(BranchUnlessEnded(body1, inc), inc), s.inc, Sub(path, OfInc))
        back == Emit(next, Br(test))
    IN  ExitScope(PositionAt([back EXCEPT !.loops = Front(@)], end))

(* The arms' blocks, the else edge (the default, or a trap) and the end.   *)
LowerSwitch(g, s, path) ==
    LET else  == Fresh(g, 1)
        merge == Fresh(g, 2)
        ArmBlock(a) == Fresh(g, 2 + a)
        Target(v) == LET hit == {a \in DOMAIN s.arms : v \in Range(s.arms[a].cases)}
                     IN  IF hit = {} THEN else ELSE ArmBlock(Min(hit))
        Slots == 0 .. Max(CasesOf(s) \union {s.space, 2})
        pick  == Emit(Emit(NewBlocks(g, 2 + Len(s.arms)), [op |-> "pick", space |-> s.space]),
                      [op |-> "switch", to |-> [v \in Slots |-> Target(v)]])
        Arm(h, a) ==
            LET cell == path \o <<OfArm, a>>
                arm  == s.arms[a]
                top  == EnterScope(PositionAt(h, ArmBlock(a)))
                held == IF arm.binds = NoName THEN top
                        ELSE Emit(AddVariable(top, arm.binds, cell), Access("bind", cell))
            IN  BranchUnlessEnded(ExitScope(Lower(held, arm.stmts, cell)), merge)
        arms  == PositionAt(FoldLeft(Arm, pick, [a \in DOMAIN s.arms |-> a]), else)
        rest  == IF s.default = <<>> THEN Emit(Emit(arms, Op("trap")), Op("unreachable"))
                 ELSE BranchUnlessEnded(LowerBlock(arms, s.default[1], Sub(path, OfDefault)), merge)
    IN  PositionAt(rest, merge)

LowerStmt(g, s, path) ==
    CASE s.k = "do"  -> Emit(g, [op |-> "do", n |-> s.n])
      [] s.k = "use" -> Emit(LowerValue(g, s.e, Sub(path, OfValue)), Op("use"))
      [] s.k = "decl" ->                    \* the name is added before its initializer is lowered
            LET named == AddVariable(g, s.x, path)
                value == IF s.e.e = "none" THEN Emit(named, Const(0))
                         ELSE LowerValue(named, s.e, Sub(path, OfValue))
            IN  Emit(value, Access("store", path))
      [] s.k = "assign" ->
            Emit(LowerValue(Named(g, s.x, Sub(path, OfTarget)), s.e, Sub(path, OfValue)),
                 Access("store", Find(g.scope, s.x)))
      [] s.k = "return" -> LowerReturn(g, s.e, Sub(path, OfValue))
      [] s.k = "if"     -> LowerIf(g, s, path)
      [] s.k = "while"  -> LowerWhile(g, s, path)
      [] s.k = "for"    -> LowerFor(g, s, path)
      [] s.k = "switch" -> LowerSwitch(g, s, path)
      [] s.k = "block"  -> LowerBlock(g, s.stmts, Sub(path, OfBody))
      [] s.k = "break" /\ g.loops # <<>>    -> BranchToDeadEnd(g, Last(g.loops)[1])
      [] s.k = "continue" /\ g.loops # <<>> -> BranchToDeadEnd(g, Last(g.loops)[2])
      [] OTHER -> [g EXCEPT !.failed = TRUE]

Lower(g, stmts, path) ==
    FoldLeft(LAMBDA h, i : IF h.failed THEN h ELSE LowerStmt(h, stmts[i], Sub(path, i)),
             g, [i \in DOMAIN stmts |-> i])

Generated(b) ==
    LET entry == [blocks |-> <<<<>>>>, cur |-> 1, scope |-> <<<<>>, <<>>>>, loops |-> <<>>,
                  vblocks |-> <<>>, names |-> {}, failed |-> FALSE]
        tail  == Lower(entry, b.stmts, <<>>)
    IN  IF HasTerminator(tail) THEN tail
        ELSE Emit(tail, Op(IF b.yields = "void" THEN "ret" ELSE "unreachable"))

-----------------------------------------------------------------------------
(* Running the blocks.  Everything between two visible instructions is one *)
(* silent stretch; a block left open leads nowhere ("open").               *)

Visible == {"do", "use", "ask", "pick", "ret", "unreachable", "trap", "open"}

Instruction(blocks, c) ==
    IF c.i \in DOMAIN blocks[c.bb] THEN blocks[c.bb][c.i] ELSE Op("open")

Goto(c, bb) == [c EXCEPT !.bb = bb, !.i = 1]
Past(c) == [c EXCEPT !.i = @ + 1]
Stored(m, cell, v) == (cell :> v) @@ m
Held(m, cell) == IF cell \in DOMAIN m THEN m[cell] ELSE Unset

Silent(c, ins) ==
    CASE ins.op = "const"  -> [Past(c) EXCEPT !.acc = ins.v]
      [] ins.op = "load"   -> [Past(c) EXCEPT !.acc = Held(c.mem, ins.cell)]
      [] ins.op = "store"  -> [Past(c) EXCEPT !.mem = Stored(@, ins.cell, c.acc)]
      [] ins.op = "bind"   -> [Past(c) EXCEPT !.mem = Stored(@, ins.cell, Payload)]
      [] ins.op = "br"     -> Goto(c, ins.to)
      [] ins.op = "cond"   -> Goto(c, IF c.acc THEN ins.then ELSE ins.else)
      [] ins.op = "switch" -> Goto(c, ins.to[c.acc])

RECURSIVE CodeSettled(_, _)
CodeSettled(blocks, c) ==
    LET ins == Instruction(blocks, c)
    IN  IF ins.op \in Visible THEN c ELSE CodeSettled(blocks, Silent(c, ins))

-----------------------------------------------------------------------------
(* Running the source.  `k` is what is left to do, innermost first; `env`  *)
(* is the stack of scopes, as the handbook describes them.  A "loop" and a *)
(* "yield" item mark what `break`, `continue` and `return` unwind to.      *)

Pending == {"do", "use", "ask", "pick", "ret", "end", "yield"}

Item(t) == [t |-> t]
Stmts(stmts, path) == [t |-> "stmts", s |-> stmts, p |-> path, i |-> 1]
Leave(depth) == [t |-> "leave", d |-> depth]
CondItem(cond, path) == [t |-> "cond", c |-> cond, p |-> path, i |-> 1]

ToDepth(env, d) == SubSeq(env, 1, d)

(* A block in a scope of its own, and what follows it. *)
Within(r, stmts, path, rest) ==
    [r EXCEPT !.k = <<Stmts(stmts, path), Leave(Len(r.env))>> \o rest, !.env = Enter(@)]

Evaluate(r, e, path, rest) ==
    CASE e.e = "const" -> [r EXCEPT !.acc = e.v, !.k = rest]
      [] e.e = "var"   -> [r EXCEPT !.acc = Held(r.mem, Find(r.env, e.x)), !.k = rest]
      [] e.e = "block" -> [r EXCEPT !.k = <<Stmts(e.stmts, path),
                                             [t |-> "yield", d |-> Len(r.env)]>> \o rest,
                                    !.env = Enter(@)]
      [] e.e = "none"  -> [r EXCEPT !.acc = 0, !.k = rest]

FirstOf(k, t) == Min({i \in DOMAIN k : k[i].t = t})
After(k, i) == SubSeq(k, i + 1, Len(k))

(* `return` ends the innermost value block, or the function. *)
Delivered(r) ==
    IF \E i \in DOMAIN r.k : r.k[i].t = "yield"
    THEN LET y == FirstOf(r.k, "yield")
         IN  [r EXCEPT !.k = After(@, y), !.env = ToDepth(@, r.k[y].d)]
    ELSE [r EXCEPT !.k = <<Item("ret")>>]

Broken(r) ==
    LET l == FirstOf(r.k, "loop")
    IN  [r EXCEPT !.k = After(@, l), !.env = ToDepth(@, r.k[l].d)]

Continued(r) == [r EXCEPT !.k = After(@, FirstOf(@, "loop") - 1)]

Executed(r, s, path, rest) ==
    CASE s.k = "do"     -> [r EXCEPT !.k = <<[t |-> "do", n |-> s.n]>> \o rest]
      [] s.k = "use"    -> Evaluate(r, s.e, Sub(path, OfValue), <<Item("use")>> \o rest)
      [] s.k = "decl"   -> Evaluate(r, s.e, Sub(path, OfValue),
                                    <<[t |-> "declare", x |-> s.x, cell |-> path]>> \o rest)
      [] s.k = "assign" -> Evaluate(r, s.e, Sub(path, OfValue),
                                    <<[t |-> "put", cell |-> Find(r.env, s.x)]>> \o rest)
      [] s.k = "return" -> Evaluate(r, s.e, Sub(path, OfValue), <<Item("deliver")>> \o rest)
      [] s.k = "if"     -> [r EXCEPT !.env = Enter(@),
                                     !.k = <<CondItem(s.cond, Sub(path, OfCond)),
                                             [t |-> "choose", s |-> s, p |-> path,
                                              d |-> Len(r.env)]>> \o rest]
      [] s.k = "while"  -> [r EXCEPT !.k = <<[t |-> "loop", s |-> s, p |-> path, d |-> Len(r.env),
                                              first |-> FALSE]>> \o rest]
      [] s.k = "for"    -> [r EXCEPT !.env = Enter(@),
                                     !.k = <<Stmts(s.init, Sub(path, OfInit)),
                                             [t |-> "loop", s |-> s, p |-> path,
                                              d |-> Len(r.env), first |-> TRUE]>> \o rest]
      [] s.k = "switch" -> [r EXCEPT !.k = <<[t |-> "pick", space |-> s.space],
                                             [t |-> "arms", s |-> s, p |-> path]>> \o rest]
      [] s.k = "block"  -> Within(r, s.stmts, Sub(path, OfBody), rest)
      [] s.k = "break"    -> Broken(r)
      [] s.k = "continue" -> Continued(r)

(* The top of an iteration: the increment, unless it is the first, then    *)
(* the condition in the scope of the loop.                                 *)
Iterated(r, l, rest) ==
    LET scope == IF l.s.k = "for" THEN ToDepth(r.env, l.d + 1) ELSE Enter(ToDepth(r.env, l.d))
        inc   == IF l.s.k = "for" /\ ~l.first THEN <<Stmts(l.s.inc, Sub(l.p, OfInc))>> ELSE <<>>
    IN  [r EXCEPT !.env = scope,
                  !.k = inc \o <<CondItem(l.s.cond, Sub(l.p, OfCond)), Item("test"),
                                 [l EXCEPT !.first = FALSE]>> \o rest]

Tested(r, rest) ==
    LET l == rest[1]
    IN  IF r.acc THEN Within(r, l.s.body, Sub(l.p, OfBody), rest)
        ELSE [r EXCEPT !.k = Tail(rest), !.env = ToDepth(@, l.d)]

Chosen(r, c, rest) ==
    IF r.acc THEN Within(r, c.s.then, Sub(c.p, OfThen), <<Leave(c.d)>> \o rest)
    ELSE LET out == [r EXCEPT !.env = ToDepth(@, c.d), !.k = rest]
         IN  IF c.s.else = <<>> THEN out ELSE Within(out, c.s.else[1], Sub(c.p, OfElse), rest)

Armed(r, a, rest) ==
    LET hit == {i \in DOMAIN a.s.arms : r.acc \in Range(a.s.arms[i].cases)}
        arm == a.s.arms[Min(hit)]
        cell == a.p \o <<OfArm, Min(hit)>>
        out == [r EXCEPT !.k = rest]
    IN  IF hit = {}
        THEN IF a.s.default = <<>> THEN out
             ELSE Within(out, a.s.default[1], Sub(a.p, OfDefault), rest)
        ELSE IF arm.binds = NoName THEN Within(out, arm.stmts, cell, rest)
             ELSE Within([out EXCEPT !.env = Declare(Enter(@), arm.binds, cell),
                                     !.mem = Stored(@, cell, Payload)],
                         arm.stmts, cell, <<Leave(Len(r.env))>> \o rest)

SourceStep(r) ==
    LET top == Head(r.k)  rest == Tail(r.k)
    IN  CASE top.t = "stmts" ->
                IF top.i > Len(top.s) THEN [r EXCEPT !.k = rest]
                ELSE Executed(r, top.s[top.i], Sub(top.p, top.i),
                              <<[top EXCEPT !.i = @ + 1]>> \o rest)
          [] top.t = "leave"   -> [r EXCEPT !.env = ToDepth(@, top.d), !.k = rest]
          [] top.t = "declare" -> [r EXCEPT !.env = Declare(@, top.x, top.cell),
                                            !.mem = Stored(@, top.cell, r.acc), !.k = rest]
          [] top.t = "put"     -> [r EXCEPT !.mem = Stored(@, top.cell, r.acc), !.k = rest]
          [] top.t = "deliver" -> Delivered([r EXCEPT !.k = rest])
          [] top.t = "cond" ->
                IF top.i > Len(top.c)
                THEN [r EXCEPT !.k = rest, !.acc = IF top.c = <<>> THEN TRUE ELSE @]
                ELSE [r EXCEPT !.k = <<Item("ask"),
                                       [t |-> "bound", x |-> top.c[top.i], cell |-> Sub(top.p, top.i),
                                        c |-> [top EXCEPT !.i = @ + 1]]>> \o rest]
          [] top.t = "bound" ->
                IF ~r.acc THEN [r EXCEPT !.k = rest]
                ELSE IF top.x = NoName THEN [r EXCEPT !.k = <<top.c>> \o rest]
                ELSE [r EXCEPT !.env = Declare(@, top.x, top.cell),
                               !.mem = Stored(@, top.cell, Payload), !.k = <<top.c>> \o rest]
          [] top.t = "choose" -> Chosen(r, top, rest)
          [] top.t = "loop"   -> Iterated(r, top, rest)
          [] top.t = "test"   -> Tested(r, rest)
          [] top.t = "arms"   -> Armed(r, top, rest)

RECURSIVE SourceSettled(_)
SourceSettled(r) == IF Head(r.k).t \in Pending THEN r ELSE SourceSettled(SourceStep(r))

Doing == Head(src.k)                    \* what the source is about to do
Now == Instruction(code, at)            \* what the code is about to do

-----------------------------------------------------------------------------
(* The two runs, in lock step. *)

BodyInit ==
    /\ body \in {b \in Bodies : Accepted(b) /\ ~Generated(b).failed}
    /\ code = Generated(body).blocks
    /\ names = [parser  |-> Resolution("parser", body).names,
                checker |-> Resolution("checker", body).names,
                codegen |-> Generated(body).names]
    /\ at = CodeSettled(code, [bb |-> 1, i |-> 1, acc |-> 0, mem |-> <<>>])
    /\ src = SourceSettled([k |-> <<Stmts(body.stmts, <<>>), Item("end")>>,
                            env |-> <<<<>>, <<>>>>, acc |-> 0, mem |-> <<>>])

(* Both have done what they were about to do; v is the answer they get. *)
Advance(v) ==
    /\ at' = CodeSettled(code, [Past(at) EXCEPT !.acc = v])
    /\ src' = SourceSettled([src EXCEPT !.k = Tail(@), !.acc = v])
    /\ UNCHANGED <<body, code, names>>

Act == Now.op \in {"do", "use"} /\ Doing.t = Now.op /\ Advance(0)

AnswerCondition == Now.op = "ask" /\ Doing.t = "ask" /\ \E v \in BOOLEAN : Advance(v)

(* Only the values of its space for an enum, a sum or a bool; any integer otherwise. *)
AnswerScrutinee ==
    /\ Now.op = "pick" /\ Doing.t = "pick"
    /\ \E v \in 0 .. (IF Now.space > 0 THEN Now.space - 1 ELSE 2) : Advance(v)

BodyNext == Act \/ AnswerCondition \/ AnswerScrutinee

BodySpec == BodyInit /\ [][BodyNext]_bodyVars

-----------------------------------------------------------------------------
(* Three kinds of bodies the properties have to name as exceptions. *)

Blocks(s) ==                \* the blocks a statement holds, value blocks apart
    CASE s.k = "if"     -> {s.then} \union Range(s.else)
      [] s.k = "while"  -> {s.body}
      [] s.k = "for"    -> {s.init, s.inc, s.body}
      [] s.k = "switch" -> {s.arms[a].stmts : a \in DOMAIN s.arms} \union Range(s.default)
      [] s.k = "block"  -> {s.stmts}
      [] OTHER          -> {}

ValueBlocks(s) ==
    IF s.k \in {"use", "decl", "assign", "return"} /\ s.e.e = "block" THEN {s.e.stmts} ELSE {}

RECURSIVE ListsIn(_), Everything(_)
ListsIn(stmts) ==
    {stmts} \union UNION {UNION {ListsIn(l) : l \in Blocks(s)} : s \in Range(stmts)}
Everything(stmts) ==
    Range(stmts) \union
    UNION {UNION {Everything(l) : l \in Blocks(s) \union ValueBlocks(s)} : s \in Range(stmts)}

RECURSIVE EndsInReturn(_)
EndsInReturn(s) ==
    \/ s.k = "return"
    \/ s.k = "block" /\ s.stmts # <<>> /\ EndsInReturn(Last(s.stmts))

(* A function's `return` does not park the builder in a dead block, so     *)
(* whatever follows it in its list lands behind the terminator.            *)
ReturnsEarly ==
    \E l \in ListsIn(body.stmts) : \E i \in 1 .. Len(l) - 1 : EndsInReturn(l[i])

Mentions(s, x) ==
    \/ s.k \in {"use", "decl", "assign", "return"} /\ s.e.e = "var" /\ s.e.x = x
    \/ s.k = "assign" /\ s.x = x

(* `T x = ... x ...`: the parser means the outer x, checker and generator  *)
(* the new one, which nothing has stored to yet.                           *)
ReadsItself ==
    \E s \in Everything(body.stmts) :
        /\ s.k = "decl"
        /\ \E t \in {s} \union UNION {Everything(l) : l \in ValueBlocks(s)} : Mentions(t, s.x)

(* The generator lowers the body of a `for` before its increment, in the   *)
(* same scope: the increment sees the locals of the body.                  *)
Clobbers ==
    \E s \in Everything(body.stmts) :
        /\ s.k = "for"
        /\ \E d \in Range(s.body) :
              d.k = "decl" /\ \E t \in Everything(s.inc) : Mentions(t, d.x)

-----------------------------------------------------------------------------
(* Properties *)

(* The tri-scope invariant, but for the two exceptions: parser, checker    *)
(* and code generator resolve every name of an accepted body to the same   *)
(* declaration, although each keeps its scopes in its own way.             *)
NamesResolveAlike ==
    ~ReadsItself /\ ~Clobbers => names.parser = names.checker /\ names.checker = names.codegen

(* The lowered code of an accepted body does what the source says: the     *)
(* same calls in the same order with the same values, for every answer to  *)
(* its conditions; `break`, `continue` and the `return` of a value block   *)
(* end what they belong to and nothing else.                               *)
RunsAsWritten ==
    ~ReadsItself /\ ~Clobbers /\ ~ReturnsEarly =>
        CASE Now.op = "do"   -> Doing.t = "do" /\ Doing.n = Now.n
          [] Now.op = "use"  -> Doing.t = "use" /\ at.acc = src.acc
          [] Now.op = "pick" -> Doing.t = "pick" /\ Doing.space = Now.space
          [] Now.op = "ask"  -> Doing.t = "ask"
          [] Now.op = "ret"  -> IF body.yields = "void" THEN Doing.t \in {"ret", "end"}
                                ELSE Doing.t = "ret" /\ at.acc = src.acc
          [] Now.op \in {"unreachable", "trap"} -> Doing.t # "ask"
          [] OTHER -> FALSE

(* LLVM wants every block to end in a terminator and to hold no other: no  *)
(* statement after a `break`, a `continue` or the `return` of a value      *)
(* block may land behind one.  And what the generator declares unreachable *)
(* is: the trap of a switch without a default, the tail of a value block.  *)
(* Only the end of a function that must return a value can be reached,     *)
(* since nobody checks that all of its paths return.                       *)
BlocksEndRightly ==
    ~ReturnsEarly =>
        /\ Now.op \in {"unreachable", "trap"} => Doing.t = "end" /\ body.yields = "value"
        /\ \A bb \in DOMAIN code :
             /\ code[bb] # <<>>
             /\ \A i \in DOMAIN code[bb] : code[bb][i].op \in Terminators <=> i = Len(code[bb])

(* The invariant as the documentation states it: `for` headers are among   *)
(* the constructs that implement their scoping in all three walks.         *)
HeadersKeepTheirNames == ~ReadsItself => names.parser = names.codegen
=============================================================================
