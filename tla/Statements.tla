----------------------------- MODULE Statements -----------------------------
(***************************************************************************)
(* Parsing function bodies, and recovering from the errors in them.        *)
(*                                                                         *)
(* Pass 1 skips every body by counting braces and remembers where it       *)
(* starts; pass 2 goes back and parses each of them.  A statement that     *)
(* fails to parse is reported and skipped: the cursor moves on to where a  *)
(* statement may start again, and the enclosing block goes on from there.  *)
(* A brace in an expression is tried as a list first and, when that fails, *)
(* read again as a value block.                                            *)
(*                                                                         *)
(* The parser is a recursive descent.  Its call stack is a sequence of     *)
(* goals here: what is still to be parsed, the scopes still to be left and *)
(* the places that catch an error, the innermost first.  A step parses     *)
(* what the first goal stands for; an error drops goals up to the first    *)
(* one that catches it.                                                    *)
(*                                                                         *)
(* Tokens are told apart only as far as the grammar of statements does.    *)
(* "open" and "close" are braces, "nl" a newline, "x" a name, "T" a built- *)
(* in type, "paren" any token that starts neither a statement nor an       *)
(* expression; an expression is a name or a brace, what operators and      *)
(* calls add to it being more expressions.  "fn" also stands for a whole   *)
(* prototype, and "fn2" for one that names a parameter twice.              *)
(***************************************************************************)
EXTENDS Integers, FiniteSets, Sequences

CONSTANT Tapes      \* the programs tried: sequences of tokens that end in "eof"

VARIABLES
    toks,       \* Parser::tokens
    cur,        \* Parser::current
    phase,      \* "declarations" (pass 1), "bodies" (pass 2) or "done"
    pending,    \* Parser::pending_bodies: where each body starts
    body,       \* the number of the body being parsed, or of the last one parsed
    goals,      \* what the calls in progress have still to do
    failing,    \* an error is on its way to the goal that catches it
    depth,      \* how many scopes are open, the global one among them
    errors,     \* the bodies an error was reported for; 0 stands for pass 1
    stops       \* where the parse of each finished body left the cursor

stmtVars == <<toks, cur, phase, pending, body, goals, failing, depth, errors, stops>>

Token == {"open", "close", "nl", "semi", "comma", "eq", "x", "T", "paren", "if", "elif",
          "else", "while", "for", "switch", "case", "default", "return", "break", "fn",
          "fn2", "eof"}

ASSUME TapesAreTokens ==
    \A t \in Tapes : /\ t \in Seq(Token)
                     /\ t # <<>>
                     /\ \A j \in DOMAIN t : t[j] = "eof" <=> j = Len(t)

-----------------------------------------------------------------------------
(* The cursor. *)

At(t) == toks[cur] = t
Peeks(S) == toks[cur] \in S
Advanced(c) == IF toks[c] = "eof" THEN c ELSE c + 1
NewlinesSkipped(c) ==
    CHOOSE k \in c .. Len(toks) :
        toks[k] # "nl" /\ \A j \in c .. (k - 1) : toks[j] = "nl"

Terminators == {"nl", "semi", "eof"}

\* synchronize() stops before these...
StopsBefore == {"close", "fn", "fn2", "if", "while", "for", "return", "break"}
SyncPassesBraces(t) == t \in StopsBefore \ {"close"}
SyncStops(t) == t \in StopsBefore
\* ...and after these.
StopsAfter == {"nl", "semi"}

Synchronized(c) ==
    LET k == CHOOSE k \in c .. Len(toks) :
                 /\ SyncStops(toks[k]) \/ toks[k] \in StopsAfter \union {"eof"}
                 /\ \A j \in c .. (k - 1) :
                        ~SyncStops(toks[j]) /\ toks[j] \notin StopsAfter
    IN  IF toks[k] \in StopsAfter THEN k + 1 ELSE k

-----------------------------------------------------------------------------
(* Goals: [g |-> what, t |-> a token, at |-> a position]. *)

goal(g) == [g |-> g, t |-> "none", at |-> 0]
token(t) == [g |-> "token", t |-> t, at |-> 0]
mark(g, c) == [g |-> g, t |-> "none", at |-> c]

Catching == {"recover", "orblock", "further", "end"}

Top == Head(goals)
Is(g) == phase = "bodies" /\ goals # <<>> /\ ~failing /\ Top.g = g

\* The first goal is parsed up to c, and `more` is what it takes besides.
Onward(c, more) ==
    /\ cur' = c
    /\ goals' = more \o Tail(goals)
    /\ UNCHANGED <<toks, phase, pending, body, failing, errors, stops>>

Parsed(c, more) == Onward(c, more) /\ UNCHANGED depth

\* enter_scope(), and later on the exit_scope() of the same construct.
Scoped(c, more) == Onward(c, more) /\ depth' = depth + 1

Fails(c) ==
    /\ cur' = c
    /\ goals' = Tail(goals)
    /\ failing' = TRUE
    /\ UNCHANGED <<toks, phase, pending, body, depth, errors, stops>>

Condition == <<goal("expr"), goal("newlines"), goal("block"), goal("leave")>>
ValueBlock == <<goal("values"), goal("leave"), token("close")>>

-----------------------------------------------------------------------------
(* Tokens, newlines, terminators and scopes. *)

Expect ==
    /\ Is("token")
    /\ IF At(Top.t) THEN Parsed(cur + 1, <<>>) ELSE Fails(cur)

Newlines == Is("newlines") /\ Parsed(NewlinesSkipped(cur), <<>>)

Terminator == Is("term") /\ Parsed(IF Peeks({"nl", "semi"}) THEN cur + 1 ELSE cur, <<>>)

Leave == Is("leave") /\ Onward(cur, <<>>) /\ depth' = depth - 1

\* A goal that catches errors is reached without one.
NothingCaught ==
    /\ \E g \in Catching \ {"end"} : Is(g)
    /\ Parsed(cur, <<>>)

-----------------------------------------------------------------------------
(* Blocks and statements. *)

Block ==
    /\ Is("block")
    /\ IF At("open")
       THEN Scoped(cur + 1, <<goal("statements"), goal("leave"), token("close")>>)
       ELSE Fails(cur)

Statements ==
    /\ Is("statements")
    /\ LET c == NewlinesSkipped(cur)
       IN  IF toks[c] \in {"close", "eof"}
           THEN Parsed(c, <<>>)
           ELSE Parsed(c, <<goal("stmt"), mark("recover", c), goal("statements")>>)

Nested == Is("stmt") /\ At("open") /\ Parsed(cur, <<goal("block")>>)

Return ==
    /\ Is("stmt") /\ At("return")
    /\ Parsed(cur + 1, IF toks[cur + 1] \in Terminators THEN <<goal("term")>>
                       ELSE <<goal("expr"), goal("term")>>)

If == Is("stmt") /\ At("if") /\ Scoped(cur + 1, Append(Condition, goal("else")))

\* The newlines after the block are skipped whether or not an else follows.
Else ==
    /\ Is("else")
    /\ LET c == NewlinesSkipped(cur)
       IN  CASE toks[c] = "else" -> Parsed(c + 1, <<goal("newlines"), goal("block")>>)
             [] toks[c] = "elif" -> Scoped(c + 1, Append(Condition, goal("else")))
             [] OTHER            -> Parsed(c, <<>>)

While == Is("stmt") /\ At("while") /\ Scoped(cur + 1, Condition)

For ==
    /\ Is("stmt") /\ At("for")
    /\ Scoped(cur + 1, <<goal("init"), token("semi"), goal("forcond"), token("semi"),
                         goal("inc"), goal("newlines"), goal("block"), goal("leave")>>)

ForInit ==
    /\ Is("init")
    /\ Parsed(cur, CASE At("semi") -> <<>>
                     [] At("T") -> <<goal("decl")>>
                     [] OTHER   -> <<goal("assign")>>)

ForCond == Is("forcond") /\ Parsed(cur, IF At("semi") THEN <<>> ELSE <<goal("expr")>>)

ForInc == Is("inc") /\ Parsed(cur, IF At("open") THEN <<>> ELSE <<goal("assign")>>)

Break == Is("stmt") /\ At("break") /\ Parsed(cur + 1, <<goal("term")>>)

\* Two names in a row can only be a declaration, of an unknown type.
StartsDecl == At("T") \/ (At("x") /\ toks[cur + 1] = "x")

Local == Is("stmt") /\ StartsDecl /\ Parsed(cur, <<goal("decl"), goal("term")>>)

Decl ==
    /\ Is("decl")
    /\ \/ At("x") /\ Fails(cur + 1)
       \/ At("T") /\ toks[cur + 1] # "x" /\ Fails(cur + 1)
       \/ /\ At("T") /\ toks[cur + 1] = "x"
          /\ IF toks[cur + 2] = "eq" THEN Parsed(cur + 3, <<goal("expr")>>)
             ELSE Parsed(cur + 2, <<>>)

CaseOutsideSwitch == Is("stmt") /\ Peeks({"case", "default"}) /\ Fails(cur)

Plain ==
    /\ Is("stmt")
    /\ ~StartsDecl
    /\ ~Peeks({"open", "return", "if", "while", "for", "switch", "case", "default", "break"})
    /\ Parsed(cur, <<goal("assign"), goal("term")>>)

Assign == Is("assign") /\ Parsed(cur, <<goal("expr"), mark("value", cur)>>)

AssignedValue ==
    /\ Is("value")
    /\ IF At("eq") THEN Parsed(cur + 1, <<goal("expr"), mark("target", Top.at)>>)
       ELSE Parsed(cur, <<>>)

\* Only once the value is parsed is the target looked at.
AssignedTarget ==
    /\ Is("target")
    /\ IF toks[Top.at] = "x" THEN Parsed(cur, <<>>) ELSE Fails(cur)

-----------------------------------------------------------------------------
(* Switch. *)

Switch ==
    /\ Is("stmt") /\ At("switch")
    /\ Parsed(cur + 1, <<goal("expr"), goal("newlines"), goal("cases")>>)

Cases ==
    /\ Is("cases")
    /\ IF At("open") THEN Parsed(cur + 1, <<goal("arms"), token("close")>>) ELSE Fails(cur)

Arms ==
    /\ Is("arms") \/ Is("closed")
    /\ LET c == NewlinesSkipped(cur)
       IN  CASE toks[c] \in {"close", "eof"} -> Parsed(c, <<>>)
             [] toks[c] \notin {"close", "eof"} /\ Is("closed") -> Fails(c)
             [] toks[c] = "default" /\ Is("arms") ->
                    Parsed(c + 1, <<goal("newlines"), goal("block"), goal("closed")>>)
             [] toks[c] = "case" /\ Is("arms") ->
                    Parsed(c + 1, <<goal("expr"), goal("patterns"), goal("arms")>>)
             [] OTHER -> Fails(c)

Patterns ==
    /\ Is("patterns")
    /\ IF At("comma") THEN Parsed(cur + 1, <<goal("expr"), goal("patterns")>>)
       ELSE Scoped(NewlinesSkipped(cur), <<goal("block"), goal("leave")>>)

-----------------------------------------------------------------------------
(* Expressions. *)

Expr ==
    /\ Is("expr")
    /\ CASE At("x") -> Parsed(cur + 1, <<>>)
         [] At("open") ->
                Parsed(cur + 1, <<goal("newlines"), goal("items"), token("close"),
                                  mark("orblock", cur)>>)
         [] OTHER   -> Fails(cur)

Items ==
    /\ Is("items")
    /\ Parsed(cur, IF At("close") THEN <<>> ELSE <<goal("expr"), goal("newlines"), goal("more")>>)

MoreItems ==
    /\ Is("more")
    /\ IF At("comma")
       THEN Parsed(NewlinesSkipped(cur + 1), <<goal("expr"), goal("newlines"), goal("more")>>)
       ELSE Parsed(cur, <<>>)

Values ==
    /\ Is("values")
    /\ LET c == NewlinesSkipped(cur)
       IN  Parsed(c, IF toks[c] \in {"close", "eof"} THEN <<>> ELSE <<goal("stmt"), goal("values")>>)

-----------------------------------------------------------------------------
(* Errors. *)

\* Where the first goal that catches stands, and the scopes left on the way to it.
Catcher == CHOOSE k \in DOMAIN goals :
               goals[k].g \in Catching /\ \A j \in 1 .. (k - 1) : goals[j].g \notin Catching
LeftOnSuccessOnly(k) == 0
LeftBefore(k) == Cardinality({j \in 1 .. (k - 1) : goals[j].g = "leave"})

Caught(g) ==
    /\ phase = "bodies" /\ failing
    /\ goals[Catcher].g = g
    /\ depth' = depth - LeftBefore(Catcher)
    /\ UNCHANGED <<toks, phase, pending>>

Caller == SubSeq(goals, Catcher + 1, Len(goals))

\* Past the token that failed, if synchronizing did not move.
NeverUnstuck(before, c) == c
Unstuck(before, c) == IF c = before THEN Advanced(c) ELSE c

Unreported(i) == errors
Reported(i) == errors \union {i}

Recover ==
    /\ Caught("recover")
    /\ failing' = FALSE
    /\ errors' = Reported(body)
    /\ cur' = Unstuck(goals[Catcher].at, Synchronized(cur))
    /\ goals' = Caller
    /\ UNCHANGED <<body, stops>>

\* The brace was not a list: it is read again from where it starts.
ReadAsBlock ==
    /\ Caught("orblock")
    /\ failing' = FALSE
    /\ cur' = goals[Catcher].at
    /\ goals' = <<goal("valueblock"), mark("further", cur)>> \o Caller
    /\ UNCHANGED <<body, errors, stops>>

OpenValueBlock ==
    /\ Is("valueblock")
    /\ Scoped(cur + 1, ValueBlock)

\* Both readings failed: the error of the one that got further goes on.
NeitherReading ==
    /\ Caught("further")
    /\ cur' = IF goals[Catcher].at > cur THEN goals[Catcher].at ELSE cur
    /\ goals' = Caller
    /\ UNCHANGED <<failing, body, errors, stops>>

-----------------------------------------------------------------------------
(* The two passes. *)

Init ==
    /\ toks \in Tapes
    /\ cur = 1
    /\ phase = "declarations"
    /\ pending = <<>>
    /\ body = 0
    /\ goals = <<>>
    /\ failing = FALSE
    /\ depth = 1
    /\ errors = {}
    /\ stops = <<>>

\* Where the brace at s is balanced, or 0.
Count(t, s, k) == Cardinality({j \in s .. k : toks[j] = t})
Balance(s) ==
    LET ends == {k \in s .. Len(toks) : Count("open", s, k) = Count("close", s, k)}
    IN  IF ends = {} THEN 0 ELSE CHOOSE k \in ends : \A j \in ends : k <= j
BodyEnd(s) == Balance(s) + 1

\* An error in pass 1 ends the parse: no body is looked at.
DeferBody ==
    /\ phase = "declarations" /\ ~At("eof") /\ ~At("nl")
    /\ LET s == cur + 1
       IN  IF Peeks({"fn", "fn2"}) /\ toks[s] = "open" /\ Balance(s) # 0
           THEN /\ pending' = Append(pending, s)
                /\ cur' = BodyEnd(s)
                /\ UNCHANGED <<phase, errors>>
           ELSE /\ phase' = "done"
                /\ errors' = {0}
                /\ UNCHANGED <<pending, cur>>
    /\ UNCHANGED <<toks, body, goals, failing, depth, stops>>

BetweenItems ==
    /\ phase = "declarations" /\ Peeks({"eof", "nl"})
    /\ cur' = NewlinesSkipped(cur)
    /\ phase' = IF toks[cur'] = "eof" THEN "bodies" ELSE phase
    /\ UNCHANGED <<toks, pending, body, goals, failing, depth, errors, stops>>

StartsWhereTheLastStopped(i) == IF i = 1 THEN pending[i] ELSE stops[i - 1]
Starts(i) == pending[i]

NextBody ==
    /\ phase = "bodies" /\ goals = <<>> /\ body < Len(pending)
    /\ body' = body + 1
    /\ cur' = Starts(body + 1)
    /\ depth' = depth + 1
    /\ goals' = <<goal("params"), goal("block"), goal("leave"), goal("end")>>
    /\ UNCHANGED <<toks, phase, pending, failing, errors, stops>>

Params ==
    /\ Is("params")
    /\ IF toks[cur - 1] = "fn2" THEN Fails(cur) ELSE Parsed(cur, <<>>)

BodyParsed ==
    /\ Is("end")
    /\ stops' = Append(stops, cur)
    /\ goals' = <<>>
    /\ UNCHANGED <<toks, cur, phase, pending, body, failing, depth, errors>>

BodyFailed ==
    /\ Caught("end")
    /\ failing' = FALSE
    /\ errors' = Reported(body)
    /\ stops' = Append(stops, cur)
    /\ goals' = <<>>
    /\ UNCHANGED <<cur, body>>

Finish ==
    /\ phase = "bodies" /\ goals = <<>> /\ body = Len(pending)
    /\ phase' = "done"
    /\ UNCHANGED <<toks, cur, pending, body, goals, failing, depth, errors, stops>>

StatementStep ==
    \/ Block \/ Statements \/ Nested \/ Return \/ If \/ Else \/ While
    \/ For \/ ForInit \/ ForCond \/ ForInc \/ Break \/ Local \/ Decl
    \/ CaseOutsideSwitch \/ Plain \/ Assign \/ AssignedValue \/ AssignedTarget
    \/ Switch \/ Cases \/ Arms \/ Patterns

ExpressionStep == Expr \/ Items \/ MoreItems \/ OpenValueBlock \/ Values

Next ==
    \/ DeferBody \/ BetweenItems \/ NextBody \/ Params \/ BodyParsed \/ BodyFailed \/ Finish
    \/ Expect \/ Newlines \/ Terminator \/ Leave \/ NothingCaught
    \/ StatementStep
    \/ ExpressionStep
    \/ Recover \/ ReadAsBlock \/ NeitherReading

\* The parser is one loop that runs until it is through.
Spec == Init /\ [][Next]_stmtVars /\ WF_stmtVars(Next)

-----------------------------------------------------------------------------
(* Properties. *)

\* Whatever went wrong in a body, all the scopes opened for it, by whichever
\* construct, are left before the next body is parsed: the table is back at the
\* global scope (parse_pending_bodies, scoped!, parse_elif_body).
ScopesClose == goals = <<>> => depth = 1

\* Recovery never runs out of the body it is in: the cursor stays at or before the
\* brace that balances the body's own (synchronize, parse_block_statement).
StaysInItsBody ==
    goals # <<>> => cur \in pending[body] .. BodyEnd(pending[body])

\* A program without an error was read whole: no token of a body was left over by
\* a block that closed early or by a list read as a value block.
AcceptedIsReadWhole ==
    phase = "done" /\ errors = {} =>
        \A i \in DOMAIN pending : stops[i] = BodyEnd(pending[i])

\* Every parse ends, however broken the body: each step of recovery moves on
\* (parse_block_statement's stuck token).
Terminates == <>(phase = "done")
=============================================================================
