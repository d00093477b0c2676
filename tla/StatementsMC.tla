---------------------------- MODULE StatementsMC ----------------------------
(***************************************************************************)
(* The programs tried: one function and a second, sound one after it.  The *)
(* first is every body of up to MaxTokens tokens, and every body one edit  *)
(* away from a sound one that uses all the constructs.                     *)
(***************************************************************************)
EXTENDS Statements, SequencesExt

CONSTANT MaxTokens

\* Sound bodies, between their braces.
Sound ==
    {<<"return", "open", "x", "comma", "x", "close", "nl", "T", "x", "eq", "x", "semi">>,
     <<"if", "x", "open", "x", "eq", "x", "close", "elif", "x", "open", "close", "nl",
       "else", "open", "break", "close">>,
     <<"for", "T", "x", "semi", "x", "semi", "x", "open", "return", "semi", "close",
       "nl", "open", "x", "close">>,
     <<"switch", "x", "open", "case", "x", "comma", "x", "open", "x", "close",
       "default", "open", "close", "close">>,
     <<"while", "x", "open", "x", "eq", "open", "nl", "if", "x", "open", "x",
       "close", "return", "x", "close", "close">>,
     <<"T", "x", "eq", "open", "open", "return", "x", "close", "nl", "return",
       "x", "close", "semi", "x">>}

Letters == Token \ {"fn2", "eof"}

Edited(s) ==
    {RemoveAt(s, k) : k \in DOMAIN s}
    \union {ReplaceAt(s, k, t) : k \in DOMAIN s, t \in Letters}
    \union {InsertAt(s, k, t) : k \in 1 .. Len(s) + 1, t \in Letters}

UpTo(n) == UNION {[1 .. k -> Letters] : k \in 0 .. n}

Function(head, text) == <<head, "open">> \o text \o <<"close", "nl">>
Second == <<"T", "x", "nl", "if", "x", "open", "return", "x", "close">>
Broken == <<"x", "nl", "paren">>

Pairs(heads, texts, second) ==
    {Function(h, s) \o Function("fn", second) \o <<"eof">> : h \in heads, s \in texts}

MCTapes ==
    Pairs({"fn"}, UpTo(MaxTokens) \union UNION {Edited(s) : s \in Sound}, Second)
    \union Pairs({"fn", "fn2"}, UpTo(1) \union Sound, Second)
    \union Pairs({"fn", "fn2"}, UpTo(2) \union Sound, Broken)

\* Each body is judged by what is in it: a sound function is not blamed for an
\* error in the one before it, and a broken one is not hidden by it
\* (parse_pending_bodies: "one broken function doesn't hide errors in the others").
BodiesAreJudgedAlone ==
    phase = "done" /\ 0 \notin errors =>
        \A i \in DOMAIN pending :
            LET text == SubSeq(toks, pending[i] + 1, Balance(pending[i]) - 1)
            IN  /\ text \in Sound \union {Second} =>
                       (i \in errors <=> toks[pending[i] - 1] = "fn2")
                /\ text = Broken => i \in errors
=============================================================================
