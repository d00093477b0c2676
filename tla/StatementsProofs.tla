-------------------------- MODULE StatementsProofs --------------------------
(***************************************************************************)
(* Parsing bodies and recovering in them, for every sequence of tokens: at *)
(* the end of a body no scope of it is open, the cursor never leaves the   *)
(* body that is being parsed, and a body without an error was read to the  *)
(* brace that closes it.                                                   *)
(*                                                                         *)
(* The argument.  The goals are the parser's call stack, and two kinds of  *)
(* them are debts: a scope to be left and a brace to be read.  The scopes  *)
(* are owed exactly, whether or not an error is on its way (Within).  The  *)
(* braces are owed at most: of the braces opened since the body began, at  *)
(* least as many are still open at the cursor as are owed, because nothing *)
(* but the goal for a closing brace reads one, recovery stops before them  *)
(* and an opening brace that recovery skips only adds to them.  So a       *)
(* cursor inside the body cannot pass the brace that balances it.  Where   *)
(* no error was reported the braces are owed exactly, for a list that is   *)
(* read again as a value block goes back to where the count was right.     *)
(***************************************************************************)
EXTENDS Statements, FiniteSetTheorems, SequenceTheorems, WellFoundedInduction, TLAPS

\* Every goal there is.
Kinds == {"token", "newlines", "term", "leave", "recover", "orblock", "further", "end",
          "params", "block", "statements", "stmt", "else", "init", "forcond", "inc", "decl",
          "assign", "value", "target", "cases", "arms", "closed", "patterns", "expr",
          "items", "more", "valueblock", "values"}
Goal == {x \in [g : Kinds, t : {"none", "semi", "close"}, at : Nat] :
            x.g = "token" => x = token("semi") \/ x = token("close")}

HowMany(q, G) == Cardinality({j \in 1 .. Len(q) : q[j] \in G})
Leaving == {x \in Goal : x.g = "leave"}
Leaves(q) == HowMany(q, Leaving)
Owed(q) == HowMany(q, {token("close")})
Rest(q, k) == SubSeq(q, k + 1, Len(q))

\* How many of the braces opened since s are still open at c.
Open(s, c) == Count("open", s, c - 1) - Count("close", s, c - 1)

Here == pending[body]
Closing == Balance(Here)

\* Where the places that catch an error go back to.
MarkOK(x, owed, errs) ==
    /\ x.g = "recover" => x.at \in Here + 1 .. Closing /\ toks[x.at] # "close"
    /\ x.g \in {"orblock", "further"} => x.at \in Here + 1 .. Closing /\ owed <= Open(Here, x.at)
    /\ x.g = "orblock" => toks[x.at] = "open" /\ (body \in errs \/ owed = Open(Here, x.at))

EndsInBody(q) ==
    /\ Len(q) >= 3
    /\ q[Len(q) - 2] = token("close") /\ q[Len(q) - 1] = goal("leave") /\ q[Len(q)] = goal("end")
    /\ \A i \in 1 .. Len(q) - 1 : q[i].g # "end"

Inside(c, q, f, errs) ==
    /\ c \in Here + 1 .. Closing
    /\ EndsInBody(q)
    /\ Owed(q) <= Open(Here, c)
    /\ body \in errs \/ f \/ Owed(q) = Open(Here, c)
    /\ \A i \in 1 .. Len(q) : MarkOK(q[i], Owed(Rest(q, i)), errs)
    /\ \A i \in 1 .. Len(q) : q[i].g = "valueblock" => i = 1 /\ ~f /\ toks[c] = "open"

AtHead(c, q, f) ==
    /\ c = Here
    /\ \/ q = <<goal("params"), goal("block"), goal("leave"), goal("end")>> /\ ~f
       \/ q = <<goal("block"), goal("leave"), goal("end")>>

AtTail(c, q, f, errs) ==
    /\ c \in Here + 1 .. Closing + 1
    /\ q = <<goal("leave"), goal("end")>> \/ (q = <<goal("end")>> /\ ~f)
    /\ body \in errs \/ f \/ c = Closing + 1

TypeOK ==
    /\ toks \in Tapes
    /\ cur \in 1 .. Len(toks)
    /\ phase \in {"declarations", "bodies", "done"}
    /\ pending \in Seq(Nat)
    /\ body \in 0 .. Len(pending)
    /\ goals \in Seq(Goal)
    /\ failing \in BOOLEAN
    /\ depth \in Int
    /\ errors \subseteq Nat
    /\ stops \in Seq(Nat)

BodiesBalance ==
    \A i \in 1 .. Len(pending) :
        /\ pending[i] \in 1 .. Len(toks)
        /\ toks[pending[i]] = "open"
        /\ Balance(pending[i]) # 0

Between ==
    goals = <<>> =>
        /\ ~failing /\ depth = 1 /\ Len(stops) = body
        /\ phase = "declarations" => body = 0
        /\ phase = "done" /\ errors = {} => body = Len(pending)

Within ==
    goals # <<>> =>
        /\ phase = "bodies" /\ body > 0 /\ Len(stops) = body - 1
        /\ depth = 1 + Leaves(goals)
        /\ \/ AtHead(cur, goals, failing)
           \/ Inside(cur, goals, failing, errors)
           \/ AtTail(cur, goals, failing, errors)

ReadToTheEnd ==
    \A i \in 1 .. Len(stops) : i \in errors \/ stops[i] = BodyEnd(pending[i])

StatementsInv == TypeOK /\ BodiesBalance /\ Between /\ Within /\ ReadToTheEnd

-----------------------------------------------------------------------------
(* Counting. *)

\* A set of naturals that is not empty has a least element.
LEMMA Least ==
  ASSUME NEW S, S \subseteq Nat, S # {}
  PROVE  \E n \in S : \A m \in S : n <= m
<1> DEFINE Less == OpToRel(<, Nat)
<1>1. IsWellFoundedOn(Less, Nat)
  BY NatLessThanWellFounded DEF OpToRel
<1> HIDE DEF Less
<1>2. PICK n \in S : \A m \in S : <<m, n>> \notin Less
  BY <1>1, WFMin
<1>3. ASSUME NEW m \in S PROVE ~(m < n)
  <2>1. m \in Nat /\ n \in Nat
    OBVIOUS
  <2>2. m < n => <<m, n>> \in Less
    BY <2>1 DEF Less, OpToRel
  <2> QED BY <1>2, <2>2
<1> QED BY <1>3

LEMMA Finite ==
  ASSUME NEW a \in Int, NEW b \in Int, NEW S, S \subseteq a .. b
  PROVE  IsFiniteSet(S) /\ Cardinality(S) \in Nat
  BY FS_Interval, FS_Subset, FS_CardinalityType

LEMMA DisjointUnion ==
  ASSUME NEW S, NEW T, IsFiniteSet(S), IsFiniteSet(T), S \cap T = {}
  PROVE  Cardinality(S \cup T) = Cardinality(S) + Cardinality(T)
<1>1. Cardinality(S) \in Nat /\ Cardinality(T) \in Nat
  BY FS_CardinalityType
<1>2. Cardinality(S \cap T) = 0
  BY FS_EmptySet
<1>3. Cardinality(S \cup T) = Cardinality(S) + Cardinality(T) - Cardinality(S \cap T)
  BY FS_Union
<1> QED BY <1>1, <1>2, <1>3

LEMMA HowManyType ==
  ASSUME NEW q \in Seq(Goal), NEW G
  PROVE  HowMany(q, G) \in Nat
<1> DEFINE S == {j \in 1 .. Len(q) : q[j] \in G}
<1>1. 1 \in Int /\ Len(q) \in Int /\ S \subseteq 1 .. Len(q)
  OBVIOUS
<1> HIDE DEF S
<1>2. Cardinality(S) \in Nat
  BY <1>1, Finite
<1> QED BY <1>2 DEF HowMany, S

LEMMA HowManyInBoth ==
  ASSUME NEW p \in Seq(Goal), NEW q \in Seq(Goal), NEW G
  PROVE  HowMany(p \o q, G) = HowMany(p, G) + HowMany(q, G)
<1> DEFINE m == Len(p)
           n == Len(q)
           r == p \o q
           A == {j \in 1 .. m : p[j] \in G}
           B == {j \in 1 .. n : q[j] \in G}
           C == {j \in m + 1 .. m + n : r[j] \in G}
           f == [j \in B |-> j + m]
<1>1. m \in Nat /\ n \in Nat /\ Len(r) = m + n
  OBVIOUS
<1>2. \A j \in 1 .. m : r[j] = p[j]
  OBVIOUS
<1>3. \A j \in 1 .. n : r[j + m] = q[j]
  OBVIOUS
<1> HIDE DEF m, n, r
<1>4. {j \in 1 .. Len(r) : r[j] \in G} = A \cup C
  BY <1>1, <1>2
<1>5. A \cap C = {}
  BY <1>1
<1>6. IsFiniteSet(A) /\ IsFiniteSet(C) /\ IsFiniteSet(B)
  BY <1>1, Finite
<1>7. f \in Bijection(B, C)
  <2>1. \A j \in B : f[j] \in C
    BY <1>1, <1>3
  <2>2. \A j, k \in B : f[j] = f[k] => j = k
    BY <1>1
  <2>3. \A k \in C : \E j \in B : f[j] = k
    <3> SUFFICES ASSUME NEW k \in C PROVE \E j \in B : f[j] = k
      OBVIOUS
    <3>1. k - m \in 1 .. n /\ (k - m) + m = k
      BY <1>1
    <3>2. k - m \in B
      BY <3>1, <1>3
    <3> QED BY <3>1, <3>2
  <2> QED BY <2>1, <2>2, <2>3 DEF Bijection, Injection, Surjection, IsInjective
<1>8. Cardinality(C) = Cardinality(B)
  BY <1>6, <1>7, FS_Bijection DEF ExistsBijection
<1>9. Cardinality(A \cup C) = Cardinality(A) + Cardinality(C)
  BY <1>5, <1>6, DisjointUnion
<1>10. HowMany(r, G) = Cardinality(A \cup C)
  BY <1>4 DEF HowMany
<1>11. HowMany(p, G) = Cardinality(A) /\ HowMany(q, G) = Cardinality(B)
  BY DEF HowMany, m, n
<1> HIDE DEF A, B, C, f
<1> QED BY <1>8, <1>9, <1>10, <1>11 DEF r

\* What counts nothing.
LEMMA HowManyNone ==
  ASSUME NEW q \in Seq(Goal), NEW G, \A j \in 1 .. Len(q) : q[j] \notin G
  PROVE  HowMany(q, G) = 0
<1>1. {j \in 1 .. Len(q) : q[j] \in G} = {}
  OBVIOUS
<1> QED BY <1>1, FS_EmptySet DEF HowMany

\* What counts one.
LEMMA HowManyOne ==
  ASSUME NEW q \in Seq(Goal), NEW G, NEW k \in 1 .. Len(q), q[k] \in G,
         \A j \in 1 .. Len(q) : j # k => q[j] \notin G
  PROVE  HowMany(q, G) = 1
<1>1. {j \in 1 .. Len(q) : q[j] \in G} = {k}
  OBVIOUS
<1> QED BY <1>1, FS_Singleton DEF HowMany

LEMMA RestFacts ==
  ASSUME NEW q \in Seq(Goal), NEW k \in 0 .. Len(q)
  PROVE  /\ Rest(q, k) \in Seq(Goal)
         /\ Len(Rest(q, k)) = Len(q) - k
         /\ \A i \in 1 .. Len(q) - k : Rest(q, k)[i] = q[k + i]
<1>1. k + 1 \in Int /\ Len(q) \in Int /\ \A i \in k + 1 .. Len(q) : q[i] \in Goal
  OBVIOUS
<1>2. /\ SubSeq(q, k + 1, Len(q)) \in Seq(Goal)
      /\ Len(SubSeq(q, k + 1, Len(q))) = IF k + 1 <= Len(q) THEN Len(q) - (k + 1) + 1 ELSE 0
      /\ \A i \in 1 .. Len(q) - (k + 1) + 1 : SubSeq(q, k + 1, Len(q))[i] = q[(k + 1) + i - 1]
  BY <1>1, SubSeqProperties
<1>3. /\ \A i \in 1 .. Len(q) - k : (k + 1) + i - 1 = k + i
      /\ Len(q) - (k + 1) + 1 = Len(q) - k
  OBVIOUS
<1>4. Len(Rest(q, k)) = Len(q) - k
  BY <1>2 DEF Rest
<1>5. \A i \in 1 .. Len(q) - k : Rest(q, k)[i] = q[k + i]
  BY <1>2, <1>3 DEF Rest
<1> QED BY <1>2, <1>4, <1>5 DEF Rest

LEMMA RestOfRest ==
  ASSUME NEW q \in Seq(Goal), NEW k \in 0 .. Len(q), NEW i \in 0 .. Len(q) - k
  PROVE  Rest(Rest(q, k), i) = Rest(q, k + i)
<1>1. /\ Rest(q, k) \in Seq(Goal) /\ Len(Rest(q, k)) = Len(q) - k
      /\ \A j \in 1 .. Len(q) - k : Rest(q, k)[j] = q[k + j]
  BY RestFacts
<1>2. i \in 0 .. Len(Rest(q, k)) /\ k + i \in 0 .. Len(q)
  BY <1>1
<1> DEFINE r == Rest(q, k)
           a == Rest(r, i)
           b == Rest(q, k + i)
<1>3. a \in Seq(Goal) /\ Len(a) = Len(r) - i /\ \A j \in 1 .. Len(r) - i : a[j] = r[i + j]
  BY <1>1, <1>2, RestFacts
<1>4. b \in Seq(Goal) /\ Len(b) = Len(q) - (k + i)
      /\ \A j \in 1 .. Len(q) - (k + i) : b[j] = q[(k + i) + j]
  BY <1>2, RestFacts
<1> HIDE DEF a, b, r
<1>5. Len(a) = Len(b)
  BY <1>1, <1>3, <1>4 DEF r
<1>6. \A j \in 1 .. Len(a) : a[j] = b[j]
  <2> SUFFICES ASSUME NEW j \in 1 .. Len(a) PROVE a[j] = b[j]
    OBVIOUS
  <2>1. i + j \in 1 .. Len(q) - k /\ k + (i + j) = (k + i) + j
    BY <1>1, <1>3 DEF r
  <2>2. a[j] = q[k + (i + j)]
    BY <2>1, <1>1, <1>3 DEF r
  <2> QED BY <2>1, <2>2, <1>4, <1>5
<1>7. a = b
  BY <1>3, <1>4, <1>5, <1>6, SeqEqual
<1> QED BY <1>7 DEF a, b, r

\* What comes after the goals that were put in front.
LEMMA RestOfBoth ==
  ASSUME NEW p \in Seq(Goal), NEW q \in Seq(Goal), NEW i \in 0 .. Len(q)
  PROVE  Rest(p \o q, Len(p) + i) = Rest(q, i)
<1> DEFINE r == p \o q
           k == Len(p) + i
           a == Rest(r, k)
           b == Rest(q, i)
<1>1. r \in Seq(Goal) /\ Len(r) = Len(p) + Len(q) /\ Len(p) \in Nat /\ Len(q) \in Nat
  OBVIOUS
<1>2. \A j \in 1 .. Len(q) : r[Len(p) + j] = q[j]
  OBVIOUS
<1>3. k \in 0 .. Len(r)
  BY <1>1
<1> HIDE DEF r, k
<1>4. a \in Seq(Goal) /\ Len(a) = Len(r) - k /\ \A j \in 1 .. Len(r) - k : a[j] = r[k + j]
  BY <1>1, <1>3, RestFacts
<1>5. b \in Seq(Goal) /\ Len(b) = Len(q) - i /\ \A j \in 1 .. Len(q) - i : b[j] = q[i + j]
  BY RestFacts
<1> HIDE DEF a, b
<1>6. Len(a) = Len(b)
  BY <1>1, <1>4, <1>5 DEF k
<1>7. \A j \in 1 .. Len(a) : a[j] = b[j]
  <2> SUFFICES ASSUME NEW j \in 1 .. Len(a) PROVE a[j] = b[j]
    OBVIOUS
  <2>1. i + j \in 1 .. Len(q) /\ k + j = Len(p) + (i + j)
    BY <1>1, <1>5, <1>6 DEF k
  <2> QED BY <2>1, <1>2, <1>4, <1>5, <1>6
<1>8. a = b
  BY <1>4, <1>5, <1>6, <1>7, SeqEqual
<1> QED BY <1>8 DEF a, b, r, k

\* What comes after one of the goals that were put in front.
LEMMA RestWithin ==
  ASSUME NEW p \in Seq(Goal), NEW q \in Seq(Goal), NEW i \in 0 .. Len(p)
  PROVE  Rest(p \o q, i) = Rest(p, i) \o q
<1> DEFINE r == p \o q
           u == Rest(p, i)
           a == Rest(r, i)
           b == u \o q
<1>1. r \in Seq(Goal) /\ Len(r) = Len(p) + Len(q) /\ Len(p) \in Nat /\ Len(q) \in Nat
      /\ \A j \in 1 .. Len(r) : r[j] = IF j <= Len(p) THEN p[j] ELSE q[j - Len(p)]
  OBVIOUS
<1>2. i \in 0 .. Len(r)
  BY <1>1
<1> HIDE DEF r
<1>3. a \in Seq(Goal) /\ Len(a) = Len(r) - i /\ \A j \in 1 .. Len(r) - i : a[j] = r[i + j]
  BY <1>1, <1>2, RestFacts
<1>4. u \in Seq(Goal) /\ Len(u) = Len(p) - i /\ \A j \in 1 .. Len(p) - i : u[j] = p[i + j]
  BY RestFacts
<1> HIDE DEF a, u
<1>0. u \in Seq(Goal) /\ q \in Seq(Goal)
  BY <1>4
<1>5. b \in Seq(Goal) /\ Len(b) = Len(u) + Len(q)
      /\ \A j \in 1 .. Len(b) : b[j] = IF j <= Len(u) THEN u[j] ELSE q[j - Len(u)]
  BY <1>0
<1> HIDE DEF b
<1>6. Len(a) = Len(b)
  BY <1>1, <1>3, <1>4, <1>5
<1>7. \A j \in 1 .. Len(a) : a[j] = b[j]
  <2> SUFFICES ASSUME NEW j \in 1 .. Len(a) PROVE a[j] = b[j]
    OBVIOUS
  <2>1. a[j] = r[i + j] /\ i + j \in 1 .. Len(r)
    BY <1>1, <1>3
  <2>2. CASE j <= Len(u)
    BY <2>1, <2>2, <1>1, <1>4, <1>5, <1>6
  <2>3. CASE ~(j <= Len(u))
    <3>1. j - Len(u) = (i + j) - Len(p) /\ ~(i + j <= Len(p))
      BY <2>3, <1>1, <1>4
    <3> QED BY <3>1, <2>1, <2>3, <1>1, <1>5, <1>6
  <2> QED BY <2>2, <2>3
<1>8. a = b
  BY <1>3, <1>5, <1>6, <1>7, SeqEqual
<1> QED BY <1>8 DEF a, b, r, u

\* Dropping goals drops what they count.
LEMMA HowManyDropped ==
  ASSUME NEW q \in Seq(Goal), NEW k \in 0 .. Len(q), NEW G
  PROVE  HowMany(q, G) = Cardinality({j \in 1 .. k : q[j] \in G}) + HowMany(Rest(q, k), G)
<1> DEFINE p == SubSeq(q, 1, k)
           r == Rest(q, k)
<1>1. p \in Seq(Goal) /\ Len(p) = k /\ \A j \in 1 .. k : p[j] = q[j]
  <2>1. 1 \in Int /\ k \in Int /\ \A i \in 1 .. k : q[i] \in Goal
    OBVIOUS
  <2>2. /\ SubSeq(q, 1, k) \in Seq(Goal)
        /\ Len(SubSeq(q, 1, k)) = IF 1 <= k THEN k - 1 + 1 ELSE 0
        /\ \A i \in 1 .. k - 1 + 1 : SubSeq(q, 1, k)[i] = q[1 + i - 1]
    BY <2>1, SubSeqProperties
  <2>3. Len(p) = k
    BY <2>2
  <2> QED BY <2>2, <2>3
<1>2. r \in Seq(Goal) /\ Len(r) = Len(q) - k /\ \A j \in 1 .. Len(q) - k : r[j] = q[k + j]
  BY RestFacts
<1> HIDE DEF p, r
<1>3. p \o r = q
  <2>1. p \o r \in Seq(Goal) /\ Len(p \o r) = Len(q)
    BY <1>1, <1>2
  <2>2. \A j \in 1 .. Len(q) : (p \o r)[j] = q[j]
    <3> SUFFICES ASSUME NEW j \in 1 .. Len(q) PROVE (p \o r)[j] = q[j]
      OBVIOUS
    <3>1. CASE j <= k
      BY <3>1, <1>1, <1>2
    <3>2. CASE ~(j <= k)
      <4>1. j - k \in 1 .. Len(q) - k /\ k + (j - k) = j
        BY <3>2
      <4>2. (p \o r)[j] = r[j - k]
        BY <3>2, <4>1, <1>1, <1>2
      <4> QED BY <4>1, <4>2, <1>2
    <3> QED BY <3>1, <3>2
  <2> QED BY <2>1, <2>2, SeqEqual
<1>4. HowMany(q, G) = HowMany(p, G) + HowMany(r, G)
  BY <1>1, <1>2, <1>3, HowManyInBoth
<1>5. {j \in 1 .. Len(p) : p[j] \in G} = {j \in 1 .. k : q[j] \in G}
  BY <1>1
<1> QED BY <1>4, <1>5 DEF HowMany, r

LEMMA RestOwesLess ==
  ASSUME NEW q \in Seq(Goal), NEW k \in 0 .. Len(q)
  PROVE  Owed(Rest(q, k)) <= Owed(q) /\ Owed(Rest(q, k)) \in Nat /\ Owed(q) \in Nat
<1> DEFINE G == {token("close")}
           S == {j \in 1 .. k : q[j] \in G}
<1> HIDE DEF G
<1>1. Cardinality(S) \in Nat
  <2>1. S \subseteq 1 .. k /\ 1 \in Int /\ k \in Int
    OBVIOUS
  <2> HIDE DEF S
  <2> QED BY <2>1, Finite
<1> USE DEF G
<1>2. Owed(q) = Cardinality(S) + Owed(Rest(q, k))
  BY HowManyDropped DEF Owed
<1>3. Owed(Rest(q, k)) \in Nat
  BY RestFacts, HowManyType DEF Owed
<1> HIDE DEF S
<1> QED BY <1>1, <1>2, <1>3

\* The goal that is being parsed, and the others.
LEMMA HowManyBehind ==
  ASSUME NEW q \in Seq(Goal), q # <<>>, NEW G
  PROVE  /\ Tail(q) = Rest(q, 1)
         /\ HowMany(q, G) = HowMany(Tail(q), G) + (IF q[1] \in G THEN 1 ELSE 0)
<1>1. Len(q) >= 1 /\ 1 \in 0 .. Len(q)
  OBVIOUS
<1>2. Tail(q) = Rest(q, 1)
  BY TailIsSubSeq DEF Rest
<1>3. Cardinality({j \in 1 .. 1 : q[j] \in G}) = IF q[1] \in G THEN 1 ELSE 0
  <2>1. CASE q[1] \in G
    <3>1. {j \in 1 .. 1 : q[j] \in G} = {1}
      BY <2>1
    <3> QED BY <2>1, <3>1, FS_Singleton
  <2>2. CASE q[1] \notin G
    <3>1. {j \in 1 .. 1 : q[j] \in G} = {}
      BY <2>2
    <3> QED BY <2>2, <3>1, FS_EmptySet
  <2> QED BY <2>1, <2>2
<1>4. HowMany(q, G) = Cardinality({j \in 1 .. 1 : q[j] \in G}) + HowMany(Rest(q, 1), G)
  BY <1>1, HowManyDropped
<1>5. HowMany(Rest(q, 1), G) \in Nat
  BY <1>1, RestFacts, HowManyType
<1> DEFINE h == HowMany(q, G)
           t == HowMany(Rest(q, 1), G)
           c == Cardinality({j \in 1 .. 1 : q[j] \in G})
<1> HIDE DEF h, t, c
<1>6. h = t + (IF q[1] \in G THEN 1 ELSE 0)
  <2>1. h = c + t /\ t \in Nat
    BY <1>4, <1>5 DEF h, t, c
  <2>2. CASE q[1] \in G
    <3>1. c = 1
      BY <1>3, <2>2 DEF c
    <3>2. h = t + 1
      BY <2>1, <3>1
    <3> QED BY <2>2, <3>2
  <2>3. CASE q[1] \notin G
    <3>1. c = 0
      BY <1>3, <2>3 DEF c
    <3>2. h = t + 0
      BY <2>1, <3>1
    <3> QED BY <2>3, <3>2
  <2> QED BY <2>2, <2>3
<1> QED BY <1>2, <1>6 DEF h, t

-----------------------------------------------------------------------------
(* Braces. *)

LEMMA TapeFacts ==
  ASSUME toks \in Tapes
  PROVE  /\ toks \in Seq(Token) /\ Len(toks) \in Nat /\ Len(toks) >= 1
         /\ toks[Len(toks)] = "eof"
         /\ \A j \in 1 .. Len(toks) : toks[j] = "eof" => j = Len(toks)
<1>1. toks \in Seq(Token)
  BY TapesAreTokens
<1>2. toks # <<>> /\ \A j \in DOMAIN toks : toks[j] = "eof" <=> j = Len(toks)
  BY TapesAreTokens
<1>3. DOMAIN toks = 1 .. Len(toks) /\ Len(toks) \in Nat /\ Len(toks) >= 1
  <2>1. DOMAIN toks = 1 .. Len(toks) /\ Len(toks) \in Nat
    BY <1>1
  <2>2. toks # <<>>
    BY <1>2
  <2>3. Len(toks) # 0
    BY <1>1, <2>2
  <2> QED BY <2>1, <2>3
<1>4. Len(toks) \in DOMAIN toks
  BY <1>3
<1>5. toks[Len(toks)] = "eof"
  BY <1>2, <1>4, SMTT(20)
<1>6. \A j \in 1 .. Len(toks) : toks[j] = "eof" => j = Len(toks)
  BY <1>2, <1>3
<1> QED BY <1>1, <1>3, <1>5, <1>6

LEMMA CountType ==
  ASSUME NEW t, NEW s \in Nat, NEW k \in Int
  PROVE  /\ IsFiniteSet({j \in s .. k : toks[j] = t})
         /\ Count(t, s, k) \in Nat
<1> DEFINE S == {j \in s .. k : toks[j] = t}
<1>1. S \subseteq s .. k /\ s \in Int
  OBVIOUS
<1> HIDE DEF S
<1>2. IsFiniteSet(S) /\ Cardinality(S) \in Nat
  BY <1>1, Finite
<1> QED BY <1>2 DEF S, Count

LEMMA OpenType ==
  ASSUME NEW s \in Nat, NEW c \in Nat
  PROVE  Open(s, c) \in Int
<1>1. c - 1 \in Int
  OBVIOUS
<1>2. Count("open", s, c - 1) \in Nat /\ Count("close", s, c - 1) \in Nat
  BY <1>1, CountType
<1> QED BY <1>2 DEF Open

LEMMA OpenFresh ==
  ASSUME NEW s \in Nat
  PROVE  Open(s, s) = 0
<1>1. \A t : {j \in s .. (s - 1) : toks[j] = t} = {}
  OBVIOUS
<1>2. \A t : Count(t, s, s - 1) = 0
  BY <1>1, FS_EmptySet DEF Count
<1>3. Count("open", s, s - 1) = 0 /\ Count("close", s, s - 1) = 0
  BY <1>2
<1> QED BY <1>3 DEF Open

LEMMA CountNext ==
  ASSUME NEW t, NEW s \in Nat, NEW c \in Nat, s <= c
  PROVE  Count(t, s, c) = Count(t, s, c - 1) + (IF toks[c] = t THEN 1 ELSE 0)
<1> DEFINE A == {j \in s .. (c - 1) : toks[j] = t}
           B == {j \in s .. c : toks[j] = t}
<1>1. c - 1 \in Int
  OBVIOUS
<1>2. IsFiniteSet(A) /\ Count(t, s, c - 1) \in Nat
  BY <1>1, CountType
<1>3. Count(t, s, c - 1) = Cardinality(A) /\ Count(t, s, c) = Cardinality(B)
  BY DEF Count
<1>4. CASE toks[c] = t
  <2>1. B = A \cup {c} /\ c \notin A
    BY <1>4
  <2> HIDE DEF A, B
  <2>2. Cardinality(B) = Cardinality(A) + 1
    BY <1>2, <2>1, FS_AddElement
  <2> QED BY <1>3, <1>4, <2>2
<1>5. CASE toks[c] # t
  <2>1. B = A
    BY <1>5
  <2> HIDE DEF A, B
  <2> QED BY <1>2, <1>3, <1>5, <2>1
<1> QED BY <1>4, <1>5

LEMMA OpenNext ==
  ASSUME NEW s \in Nat, NEW c \in Nat, s <= c
  PROVE  /\ toks[c] = "open" => Open(s, c + 1) = Open(s, c) + 1
         /\ toks[c] = "close" => Open(s, c + 1) = Open(s, c) - 1
         /\ toks[c] \notin {"open", "close"} => Open(s, c + 1) = Open(s, c)
<1>1. (c + 1) - 1 = c /\ c - 1 \in Int
  OBVIOUS
<1>2. Count("open", s, c - 1) \in Nat /\ Count("close", s, c - 1) \in Nat
  BY <1>1, CountType
<1>3. /\ Count("open", s, c) = Count("open", s, c - 1) + (IF toks[c] = "open" THEN 1 ELSE 0)
      /\ Count("close", s, c) = Count("close", s, c - 1) + (IF toks[c] = "close" THEN 1 ELSE 0)
  BY CountNext
<1>4. Open(s, c + 1) = Count("open", s, c) - Count("close", s, c)
  BY <1>1 DEF Open
<1>5. Open(s, c) = Count("open", s, c - 1) - Count("close", s, c - 1)
  BY DEF Open
<1> DEFINE l == Count("open", s, c - 1)
           r == Count("close", s, c - 1)
<1>6. CASE toks[c] = "open"
  <2>1. Count("open", s, c) = l + 1 /\ Count("close", s, c) = r
    BY <1>2, <1>3, <1>6
  <2> QED BY <1>2, <1>4, <1>5, <1>6, <2>1
<1>7. CASE toks[c] = "close"
  <2>1. Count("open", s, c) = l /\ Count("close", s, c) = r + 1
    BY <1>2, <1>3, <1>7
  <2> QED BY <1>2, <1>4, <1>5, <1>7, <2>1
<1>8. CASE toks[c] \notin {"open", "close"}
  <2>1. Count("open", s, c) = l /\ Count("close", s, c) = r
    BY <1>2, <1>3, <1>8
  <2> QED BY <1>2, <1>4, <1>5, <1>8, <2>1
<1> QED BY <1>6, <1>7, <1>8

\* Moving on over tokens none of which closes a brace, or is one.
LEMMA OpenOver ==
  ASSUME NEW s \in Nat, NEW c \in Nat, NEW d \in Nat, s <= c, c <= d,
         \A j \in c .. (d - 1) : toks[j] # "close"
  PROVE  /\ Open(s, c) <= Open(s, d)
         /\ (\A j \in c .. (d - 1) : toks[j] # "open") => Open(s, d) = Open(s, c)
<1> DEFINE L(k) == {j \in s .. k : toks[j] = "open"}
           R(k) == {j \in s .. k : toks[j] = "close"}
<1>1. c - 1 \in Int /\ d - 1 \in Int
  OBVIOUS
<1>2. R(d - 1) = R(c - 1) /\ L(c - 1) \in SUBSET L(d - 1)
  OBVIOUS
<1>3. IsFiniteSet(L(d - 1))
  BY <1>1, CountType
<1>4. Cardinality(L(c - 1)) <= Cardinality(L(d - 1))
  <2> DEFINE A == L(c - 1)
             B == L(d - 1)
  <2>1. IsFiniteSet(B) /\ A \in SUBSET B
    BY <1>2, <1>3
  <2> HIDE DEF A, B
  <2>2. Cardinality(A) <= Cardinality(B)
    BY <2>1, FS_Subset
  <2> QED BY <2>2 DEF A, B
<1>5. (\A j \in c .. (d - 1) : toks[j] # "open") => L(d - 1) = L(c - 1)
  OBVIOUS
<1>6. /\ Count("open", s, c - 1) \in Nat /\ Count("close", s, c - 1) \in Nat
      /\ Count("open", s, d - 1) \in Nat /\ Count("close", s, d - 1) \in Nat
  BY <1>1, CountType
<1>7. /\ Count("open", s, c - 1) <= Count("open", s, d - 1)
      /\ Count("close", s, d - 1) = Count("close", s, c - 1)
      /\ (\A j \in c .. (d - 1) : toks[j] # "open") => Count("open", s, d - 1) = Count("open", s, c - 1)
  BY <1>2, <1>4, <1>5 DEF Count
<1> QED BY <1>6, <1>7 DEF Open

\* Inside a body a brace is open; at its end none is.
LEMMA BalanceFacts ==
  ASSUME toks \in Tapes, NEW s \in 1 .. Len(toks), toks[s] = "open", Balance(s) # 0
  PROVE  /\ Balance(s) \in s + 1 .. Len(toks) - 1
         /\ toks[Balance(s)] = "close"
         /\ Open(s, Balance(s) + 1) = 0
         /\ \A c \in s + 1 .. Balance(s) : Open(s, c) >= 1
<1> DEFINE e == Balance(s)
           ends == {k \in s .. Len(toks) : Count("open", s, k) = Count("close", s, k)}
<1>1. /\ toks \in Seq(Token) /\ Len(toks) \in Nat /\ s \in Nat
      /\ toks[Len(toks)] = "eof" /\ \A j \in 1 .. Len(toks) : toks[j] = "eof" => j = Len(toks)
  BY TapeFacts
<1>2. \A k \in s .. Len(toks) : Open(s, k + 1) \in Int /\ (Open(s, k + 1) = 0 <=> k \in ends)
  <2> SUFFICES ASSUME NEW k \in s .. Len(toks)
               PROVE  Open(s, k + 1) \in Int /\ (Open(s, k + 1) = 0 <=> k \in ends)
    OBVIOUS
  <2>1. (k + 1) - 1 = k /\ k \in Int
    BY <1>1
  <2>2. Count("open", s, k) \in Nat /\ Count("close", s, k) \in Nat
    BY <1>1, <2>1, CountType
  <2>3. Open(s, k + 1) = Count("open", s, k) - Count("close", s, k)
    BY <2>1 DEF Open
  <2> QED BY <2>2, <2>3
<1>3. ends # {} /\ e = CHOOSE k \in ends : \A j \in ends : k <= j
  BY DEF Balance
<1>4. ends \subseteq Nat
  BY <1>1
<1> HIDE DEF ends
<1>5. e \in ends /\ \A j \in ends : e <= j
  BY <1>3, <1>4, Least
<1>6. e \in s .. Len(toks)
  BY <1>5 DEF ends
<1> HIDE DEF e
<1>7. Open(s, s) = 0 /\ Open(s, s + 1) = 1
  <2>1. Open(s, s) = 0
    BY <1>1, OpenFresh
  <2>2. Open(s, s + 1) = Open(s, s) + 1
    BY <1>1, OpenNext
  <2> QED BY <2>1, <2>2
<1>8. \A c \in s + 1 .. e : Open(s, c) >= 1
  <2> SUFFICES ASSUME NEW d \in s + 1 .. e, ~(Open(s, d) >= 1) PROVE FALSE
    OBVIOUS
  <2> DEFINE Low == {c \in s + 1 .. e : ~(Open(s, c) >= 1)}
  <2>1. Low \subseteq Nat /\ Low # {}
    BY <1>1, <1>6
  <2> HIDE DEF Low
  <2>2. PICK c \in Low : \A k \in Low : c <= k
    BY <2>1, Least
  <2>3. c \in s + 1 .. e /\ ~(Open(s, c) >= 1)
    BY <2>2 DEF Low
  <2>4. c # s + 1
    BY <1>7, <2>3
  <2>5. c - 1 \in s + 1 .. e /\ c - 1 \notin Low /\ (c - 1) + 1 = c /\ c - 1 \in Nat /\ s <= c - 1
    BY <1>1, <1>6, <2>2, <2>3, <2>4
  <2>6. Open(s, c - 1) >= 1
    BY <2>5 DEF Low
  <2>7. Open(s, c - 1) \in Int /\ Open(s, c) \in Int
    BY <1>1, <2>5, <2>3, OpenType
  <2>8. Open(s, c) >= Open(s, c - 1) - 1
    <3> DEFINE b == c - 1
    <3>1. b \in Nat /\ s <= b /\ b + 1 = c /\ Open(s, b) \in Int /\ Open(s, c) \in Int
      BY <2>5, <2>7
    <3> HIDE DEF b
    <3>2. /\ toks[b] = "open" => Open(s, b + 1) = Open(s, b) + 1
          /\ toks[b] = "close" => Open(s, b + 1) = Open(s, b) - 1
          /\ toks[b] \notin {"open", "close"} => Open(s, b + 1) = Open(s, b)
      BY <1>1, <3>1, OpenNext
    <3>3. Open(s, c) >= Open(s, b) - 1
      BY <3>1, <3>2
    <3> QED BY <3>3 DEF b
  <2>9. Open(s, c) = 0
    BY <2>3, <2>6, <2>7, <2>8
  <2>10. c - 1 \in ends
    BY <1>2, <1>6, <2>5, <2>9
  <2>11. e <= c - 1 /\ c <= e /\ e \in Int /\ c \in Int
    BY <1>1, <1>5, <1>6, <2>3, <2>5, <2>10
  <2> QED BY <2>11
<1>9. Open(s, e + 1) = 0
  BY <1>2, <1>5, <1>6
<1>10. e # s
  BY <1>7, <1>9
<1>11. e \in Nat /\ s <= e /\ e \in s + 1 .. e /\ Open(s, e) >= 1 /\ Open(s, e) \in Int
  BY <1>1, <1>6, <1>8, <1>10, OpenType
<1>12. toks[e] = "close"
  <2>1. /\ toks[e] = "open" => Open(s, e + 1) = Open(s, e) + 1
        /\ toks[e] \notin {"open", "close"} => Open(s, e + 1) = Open(s, e)
    BY <1>1, <1>11, OpenNext
  <2> QED BY <1>9, <1>11, <2>1
<1>13. e # Len(toks)
  BY <1>1, <1>12
<1>14. e \in s + 1 .. Len(toks) - 1
  BY <1>1, <1>6, <1>10, <1>13
<1> QED BY <1>8, <1>9, <1>12, <1>14 DEF e

-----------------------------------------------------------------------------
(* The cursor in a body. *)

LEMMA InBody ==
  ASSUME TypeOK, BodiesBalance, body > 0
  PROVE  /\ Here \in Nat /\ Here \in 1 .. Len(toks) /\ Len(toks) \in Nat /\ toks[Here] = "open"
         /\ Closing \in Here + 1 .. Len(toks) - 1 /\ Closing \in Nat
         /\ toks[Closing] = "close"
         /\ Open(Here, Closing + 1) = 0
         /\ \A c \in Here + 1 .. Closing : Open(Here, c) >= 1 /\ Open(Here, c) \in Int
         /\ \A c \in Here .. Closing : toks[c] # "eof"
<1>1. /\ toks \in Seq(Token) /\ Len(toks) \in Nat /\ Len(toks) >= 1
      /\ \A j \in 1 .. Len(toks) : toks[j] = "eof" => j = Len(toks)
  BY TapeFacts DEF TypeOK
<1>2. body \in 1 .. Len(pending)
  BY DEF TypeOK
<1>3. /\ Here \in 1 .. Len(toks) /\ toks[Here] = "open" /\ Balance(Here) # 0
  BY <1>2 DEF BodiesBalance, Here
<1>4. /\ Closing \in Here + 1 .. Len(toks) - 1
      /\ toks[Closing] = "close"
      /\ Open(Here, Closing + 1) = 0
      /\ \A c \in Here + 1 .. Closing : Open(Here, c) >= 1
  BY <1>3, BalanceFacts DEF TypeOK, Closing
<1>5. Here \in Nat /\ Closing \in Nat
  BY <1>1, <1>3, <1>4
<1>6. \A c \in Here + 1 .. Closing : Open(Here, c) \in Int
  BY <1>5, OpenType
<1>7. \A c \in Here .. Closing : toks[c] # "eof"
  BY <1>1, <1>3, <1>4
<1> QED BY <1>1, <1>3, <1>4, <1>5, <1>6, <1>7

\* One token on.
LEMMA OneOn ==
  ASSUME TypeOK, BodiesBalance, body > 0,
         NEW c \in Here + 1 .. Closing, toks[c] # "close"
  PROVE  /\ c + 1 \in Here + 1 .. Closing
         /\ toks[c] = "open" => Open(Here, c + 1) = Open(Here, c) + 1
         /\ toks[c] # "open" => Open(Here, c + 1) = Open(Here, c)
<1>1. /\ Here \in Nat /\ Closing \in Nat /\ toks[Closing] = "close"
  BY InBody
<1>2. c \in Nat /\ Here <= c /\ c + 1 \in Here + 1 .. Closing
  BY <1>1
<1>3. /\ toks[c] = "open" => Open(Here, c + 1) = Open(Here, c) + 1
      /\ toks[c] \notin {"open", "close"} => Open(Here, c + 1) = Open(Here, c)
  BY <1>1, <1>2, OpenNext
<1> QED BY <1>2, <1>3

LEMMA NewlinesOn ==
  ASSUME TypeOK, BodiesBalance, body > 0, NEW c \in Here + 1 .. Closing
  PROVE  /\ NewlinesSkipped(c) \in c .. Closing
         /\ NewlinesSkipped(c) \in Here + 1 .. Closing
         /\ Open(Here, NewlinesSkipped(c)) = Open(Here, c)
<1> DEFINE P(k) == toks[k] # "nl" /\ \A j \in c .. (k - 1) : toks[j] = "nl"
           n == NewlinesSkipped(c)
           S == {k \in c .. Len(toks) : toks[k] # "nl"}
<1>1. /\ Here \in Nat /\ Closing \in Nat /\ Len(toks) \in Nat /\ toks[Closing] = "close"
      /\ Closing \in Here + 1 .. Len(toks) - 1
  BY InBody
<1>2. S # {} /\ S \subseteq Nat
  BY <1>1
<1>3. PICK m \in S : \A k \in S : m <= k
  <2> HIDE DEF S
  <2> QED BY <1>2, Least
<1>4. m \in c .. Len(toks) /\ P(m)
  BY <1>1, <1>3
<1>5. n = CHOOSE k \in c .. Len(toks) : P(k)
  BY DEF NewlinesSkipped
<1>6. n \in c .. Len(toks) /\ P(n)
  <2> HIDE DEF P, n
  <2> QED BY <1>4, <1>5
<1> HIDE DEF n
<1>7. n <= Closing
  BY <1>1, <1>6
<1>8. n \in c .. Closing /\ n \in Here + 1 .. Closing
  BY <1>1, <1>6, <1>7
<1>9. \A j \in c .. (n - 1) : toks[j] # "close" /\ toks[j] # "open"
  BY <1>6
<1>10. Open(Here, n) = Open(Here, c)
  <2>1. c \in Nat /\ n \in Nat /\ Here <= c /\ c <= n
    BY <1>1, <1>8
  <2>2. Here \in Nat
    BY <1>1
  <2>3. /\ \A j \in c .. (n - 1) : toks[j] # "close"
        /\ \A j \in c .. (n - 1) : toks[j] # "open"
    BY <1>9
  <2> QED BY <2>1, <2>2, <2>3, OpenOver
<1> QED BY <1>8, <1>10 DEF n

LEMMA SyncOn ==
  ASSUME TypeOK, BodiesBalance, body > 0, NEW c \in Here + 1 .. Closing
  PROVE  /\ Synchronized(c) \in Here + 1 .. Closing
         /\ Open(Here, c) <= Open(Here, Synchronized(c))
<1> DEFINE Stop(k) == SyncStops(toks[k]) \/ toks[k] \in StopsAfter
           P(k) == /\ SyncStops(toks[k]) \/ toks[k] \in StopsAfter \union {"eof"}
                   /\ \A j \in c .. (k - 1) : ~SyncStops(toks[j]) /\ toks[j] \notin StopsAfter
           n == CHOOSE k \in c .. Len(toks) : P(k)
           S == {k \in c .. Len(toks) : Stop(k)}
<1>1. /\ Here \in Nat /\ Closing \in Nat /\ Len(toks) \in Nat /\ toks[Closing] = "close"
      /\ Closing \in Here + 1 .. Len(toks) - 1
      /\ \A j \in Here + 1 .. Closing : Open(Here, j) \in Int
  BY InBody
<1>2. Stop(Closing)
  BY <1>1 DEF SyncStops, StopsBefore
<1> HIDE DEF Stop
<1>3. S # {} /\ S \subseteq Nat
  BY <1>1, <1>2
<1>4. PICK m \in S : \A k \in S : m <= k
  <2> HIDE DEF S
  <2> QED BY <1>3, Least
<1>5. m \in c .. Len(toks) /\ Stop(m) /\ \A j \in c .. (m - 1) : ~Stop(j)
  BY <1>1, <1>4
<1>6. m \in c .. Len(toks) /\ P(m)
  BY <1>5 DEF Stop
<1>7. n \in c .. Len(toks) /\ P(n)
  <2> HIDE DEF P
  <2> QED BY <1>6
<1>8. \A j \in c .. (n - 1) : ~Stop(j)
  BY <1>7 DEF Stop
<1>9. Synchronized(c) = IF toks[n] \in StopsAfter THEN n + 1 ELSE n
  BY DEF Synchronized
<1> HIDE DEF P, n
<1>10. n \in c .. Closing
  BY <1>1, <1>2, <1>7, <1>8
<1>11. \A j \in c .. (n - 1) : toks[j] # "close"
  BY <1>8 DEF Stop, SyncStops, StopsBefore
<1>12. n \in Here + 1 .. Closing /\ n \in Nat /\ c \in Nat
  BY <1>1, <1>10
<1>13. Open(Here, c) <= Open(Here, n)
  BY <1>1, <1>10, <1>11, <1>12, OpenOver
<1>14. CASE toks[n] \in StopsAfter
  <2>1. toks[n] # "close" /\ toks[n] # "open"
    BY <1>14 DEF StopsAfter
  <2>2. n + 1 \in Here + 1 .. Closing /\ Open(Here, n + 1) = Open(Here, n)
    BY <1>12, <2>1, OneOn
  <2> QED BY <1>9, <1>13, <1>14, <2>2
<1>15. CASE toks[n] \notin StopsAfter
  BY <1>9, <1>12, <1>13, <1>15
<1> QED BY <1>14, <1>15

\* Recovery goes on inside the body, past no closing brace.
LEMMA RecoveryOn ==
  ASSUME TypeOK, BodiesBalance, body > 0, NEW c \in Here + 1 .. Closing,
         NEW before \in Here + 1 .. Closing, toks[before] # "close"
  PROVE  /\ Unstuck(before, Synchronized(c)) \in Here + 1 .. Closing
         /\ Open(Here, c) <= Open(Here, Unstuck(before, Synchronized(c)))
<1> DEFINE n == Synchronized(c)
<1>1. /\ n \in Here + 1 .. Closing /\ Open(Here, c) <= Open(Here, n)
  BY SyncOn
<1>2. /\ Here \in Nat /\ Closing \in Nat
      /\ \A j \in Here + 1 .. Closing : Open(Here, j) \in Int /\ toks[j] # "eof"
  BY InBody
<1> HIDE DEF n
<1>3. CASE n = before
  <2>1. /\ n + 1 \in Here + 1 .. Closing
        /\ toks[n] = "open" => Open(Here, n + 1) = Open(Here, n) + 1
        /\ toks[n] # "open" => Open(Here, n + 1) = Open(Here, n)
    BY <1>1, <1>3, OneOn
  <2>2. Open(Here, n) <= Open(Here, n + 1)
    BY <1>1, <1>2, <2>1
  <2>3. Unstuck(before, n) = n + 1
    BY <1>1, <1>2, <1>3 DEF Unstuck, Advanced
  <2>4. Open(Here, c) <= Open(Here, n + 1)
    BY <1>1, <1>2, <2>1, <2>2
  <2> QED BY <2>1, <2>3, <2>4 DEF n
<1>4. CASE n # before
  <2>1. Unstuck(before, n) = n
    BY <1>4 DEF Unstuck
  <2> QED BY <1>1, <2>1 DEF n
<1> QED BY <1>3, <1>4

-----------------------------------------------------------------------------
(* Goals put in place of the first ones. *)

LEMMA MarkStaysOK ==
  ASSUME NEW x, NEW owed, NEW errs, NEW more, errs \subseteq more, MarkOK(x, owed, errs)
  PROVE  MarkOK(x, owed, more)
  BY DEF MarkOK

\* Goals that can stand before `rest` when the parser is at token d.
Fits(more, rest, d, g, errs) ==
    /\ Owed(more) + Owed(rest) <= Open(Here, d)
    /\ body \in errs \/ g \/ Owed(more) + Owed(rest) = Open(Here, d)
    /\ \A i \in 1 .. Len(more) :
          /\ more[i].g # "end"
          /\ MarkOK(more[i], Owed(Rest(more, i)) + Owed(rest), errs)
          /\ more[i].g = "valueblock" => i = 1 /\ ~g /\ toks[d] = "open"

LEMMA InsideKept ==
  ASSUME NEW c, NEW q \in Seq(Goal), NEW f, NEW errs, Inside(c, q, f, errs),
         NEW k \in 1 .. Len(q) - 3, NEW more \in Seq(Goal),
         NEW d \in Here + 1 .. Closing, NEW g \in BOOLEAN, NEW errs2, errs \subseteq errs2,
         Fits(more, Rest(q, k), d, g, errs2)
  PROVE  /\ Inside(d, more \o Rest(q, k), g, errs2)
         /\ more \o Rest(q, k) \in Seq(Goal)
         /\ Len(more \o Rest(q, k)) >= 3
<1> DEFINE r == Rest(q, k)
           s == more \o r
           n == Len(q)
           m == Len(more)
<1>1. n \in Nat /\ m \in Nat /\ k \in 0 .. n /\ n >= 3
  BY DEF Inside, EndsInBody
<1>2. r \in Seq(Goal) /\ Len(r) = n - k /\ \A i \in 1 .. n - k : r[i] = q[k + i]
  BY <1>1, RestFacts
<1>a. /\ Owed(more) + Owed(r) <= Open(Here, d)
      /\ body \in errs2 \/ g \/ Owed(more) + Owed(r) = Open(Here, d)
      /\ \A i \in 1 .. Len(more) :
            /\ more[i].g # "end"
            /\ MarkOK(more[i], Owed(Rest(more, i)) + Owed(r), errs2)
            /\ more[i].g = "valueblock" => i = 1 /\ ~g /\ toks[d] = "open"
  BY DEF Fits
<1> HIDE DEF r
<1>3. /\ s \in Seq(Goal) /\ Len(s) = m + (n - k)
      /\ \A i \in 1 .. Len(s) : s[i] = IF i <= m THEN more[i] ELSE r[i - m]
  <2>1. /\ s \in Seq(Goal) /\ Len(s) = Len(more) + Len(r)
        /\ \A i \in 1 .. Len(more) + Len(r) :
              s[i] = IF i <= Len(more) THEN more[i] ELSE r[i - Len(more)]
    BY <1>2, ConcatProperties
  <2> HIDE DEF s
  <2> QED BY <1>2, <2>1
<1> HIDE DEF s
<1>0. /\ Len(s) \in Nat /\ Len(s) = m + (n - k) /\ k \in Nat /\ k + 3 <= n /\ k >= 1
      /\ n \in Nat /\ m \in Nat
  BY <1>1, <1>3
<1>4. \A i \in 1 .. m : s[i] = more[i] /\ Rest(s, i) = Rest(more, i) \o r
  <2> SUFFICES ASSUME NEW i \in 1 .. m PROVE s[i] = more[i] /\ Rest(s, i) = Rest(more, i) \o r
    OBVIOUS
  <2>1. s[i] = more[i]
    <3>1. i \in 1 .. Len(s) /\ i <= m
      BY <1>0
    <3> QED BY <1>3, <3>1
  <2>2. i \in 0 .. Len(more)
    BY <1>1
  <2>3. Rest(more \o r, i) = Rest(more, i) \o r
    BY <1>2, <2>2, RestWithin
  <2> QED BY <2>1, <2>3 DEF s
<1>5. \A i \in m + 1 .. Len(s) :
         /\ k + (i - m) \in k + 1 .. n
         /\ s[i] = q[k + (i - m)] /\ Rest(s, i) = Rest(q, k + (i - m))
  <2> SUFFICES ASSUME NEW i \in m + 1 .. Len(s)
               PROVE  /\ k + (i - m) \in k + 1 .. n
                      /\ s[i] = q[k + (i - m)] /\ Rest(s, i) = Rest(q, k + (i - m))
    OBVIOUS
  <2>1. /\ i - m \in 1 .. n - k /\ i \in 1 .. Len(s) /\ ~(i <= m) /\ k + (i - m) \in k + 1 .. n
        /\ m + (i - m) = i
    BY <1>1, <1>3
  <2>2. s[i] = q[k + (i - m)]
    BY <2>1, <1>2, <1>3
  <2>3. i - m \in 0 .. Len(r) /\ i - m \in 0 .. Len(q) - k
    BY <2>1, <1>1, <1>2
  <2>4. Rest(more \o r, Len(more) + (i - m)) = Rest(r, i - m)
    BY <1>2, <2>3, RestOfBoth
  <2>5. Rest(r, i - m) = Rest(q, k + (i - m))
    BY <1>1, <2>3, RestOfRest DEF r
  <2> QED BY <2>1, <2>2, <2>4, <2>5 DEF s
<1>6. EndsInBody(s)
  <2>1. /\ Len(s) >= 3 /\ Len(s) \in Nat
        /\ k + ((Len(s) - 2) - m) = n - 2 /\ k + ((Len(s) - 1) - m) = n - 1
        /\ k + (Len(s) - m) = n
        /\ {Len(s) - 2, Len(s) - 1, Len(s)} \subseteq m + 1 .. Len(s)
    <3> DEFINE l == Len(s)
    <3>1. l \in Nat /\ l = m + (n - k)
      BY <1>0
    <3> HIDE DEF m, n, l
    <3>2. l >= 3 /\ l - 2 \in m + 1 .. l /\ l - 1 \in m + 1 .. l /\ l \in m + 1 .. l
      BY <1>0, <3>1
    <3>3. k + ((l - 2) - m) = n - 2 /\ k + ((l - 1) - m) = n - 1 /\ k + (l - m) = n
      BY <1>0, <3>1
    <3> QED BY <3>1, <3>2, <3>3 DEF l
  <2>2. s[Len(s) - 2] = q[n - 2] /\ s[Len(s) - 1] = q[n - 1] /\ s[Len(s)] = q[n]
    BY <1>5, <2>1
  <2>3. \A i \in 1 .. Len(s) - 1 : s[i].g # "end"
    <3> SUFFICES ASSUME NEW i \in 1 .. Len(s) - 1 PROVE s[i].g # "end"
      OBVIOUS
    <3>1. CASE i <= m
      BY <1>1, <1>4, <3>1, <1>a
    <3>2. CASE ~(i <= m)
      <4>1. i \in m + 1 .. Len(s) /\ k + (i - m) \in 1 .. n - 1
        <5>1. i \in Int /\ i <= Len(s) - 1 /\ i > m
          BY <1>0, <3>2
        <5> HIDE DEF m, n
        <5> QED BY <1>0, <5>1
      <4> QED BY <1>5, <4>1 DEF Inside, EndsInBody
    <3> QED BY <3>1, <3>2
  <2> QED BY <2>1, <2>2, <2>3 DEF Inside, EndsInBody
<1>7. \A p \in Seq(Goal) : Owed(p \o r) = Owed(p) + Owed(r)
  BY <1>2, HowManyInBoth DEF Owed
<1>8. Owed(s) = Owed(more) + Owed(r)
  BY <1>7 DEF s
<1>9. \A i \in 1 .. Len(s) : MarkOK(s[i], Owed(Rest(s, i)), errs2)
  <2> SUFFICES ASSUME NEW i \in 1 .. Len(s) PROVE MarkOK(s[i], Owed(Rest(s, i)), errs2)
    OBVIOUS
  <2>1. CASE i <= m
    <3>1. i \in 1 .. m /\ i \in 0 .. Len(more)
      BY <1>1, <2>1
    <3>2. Rest(more, i) \in Seq(Goal)
      BY <3>1, RestFacts
    <3>3. Owed(Rest(s, i)) = Owed(Rest(more, i)) + Owed(r)
      BY <1>4, <1>7, <3>1, <3>2
    <3>4. MarkOK(more[i], Owed(Rest(more, i)) + Owed(r), errs2)
      BY <1>a, <3>1
    <3> QED BY <1>4, <3>1, <3>3, <3>4
  <2>2. CASE ~(i <= m)
    <3>1. i \in m + 1 .. Len(s) /\ k + (i - m) \in 1 .. n
      BY <1>1, <1>3, <2>2
    <3>2. MarkOK(q[k + (i - m)], Owed(Rest(q, k + (i - m))), errs)
      BY <3>1 DEF Inside
    <3>3. MarkOK(q[k + (i - m)], Owed(Rest(q, k + (i - m))), errs2)
      BY <3>2, MarkStaysOK
    <3> QED BY <1>5, <3>1, <3>3
  <2> QED BY <2>1, <2>2
<1>10. \A i \in 1 .. Len(s) : s[i].g = "valueblock" => i = 1 /\ ~g /\ toks[d] = "open"
  <2> SUFFICES ASSUME NEW i \in 1 .. Len(s), s[i].g = "valueblock"
               PROVE  i = 1 /\ ~g /\ toks[d] = "open"
    OBVIOUS
  <2>1. CASE i <= m
    <3>1. i \in 1 .. m
      BY <1>1, <2>1
    <3>2. more[i].g = "valueblock"
      BY <1>4, <3>1
    <3> QED BY <1>a, <3>1, <3>2
  <2>2. CASE ~(i <= m)
    <3>1. i \in m + 1 .. Len(s) /\ k + (i - m) \in 1 .. n /\ k + (i - m) # 1
      BY <1>1, <1>3, <2>2
    <3>2. q[k + (i - m)].g # "valueblock"
      BY <3>1 DEF Inside
    <3> QED BY <1>5, <3>1, <3>2
  <2> QED BY <2>1, <2>2
<1>11. Len(s) >= 3
  BY <1>1, <1>3
<1>12. Inside(d, s, g, errs2)
  BY <1>6, <1>8, <1>9, <1>10, <1>a DEF Inside, r
<1> QED BY <1>3, <1>11, <1>12 DEF s, r

\* Nothing a body is measured by changes while its tokens do not.
LEMMA SameBody ==
  ASSUME toks' = toks, pending' = pending, body' = body
  PROVE  /\ Here' = Here /\ Closing' = Closing
         /\ \A s, c : Open(s, c)' = Open(s, c)
         /\ \A s : Balance(s)' = Balance(s)
<1>1. \A t, s, k : Count(t, s, k)' = Count(t, s, k)
  BY DEF Count
<1>2. \A s : Balance(s)' = Balance(s)
  BY <1>1 DEF Balance, Count
<1> QED BY <1>1, <1>2 DEF Here, Closing, Open, Count, Balance

LEMMA ContinueKept ==
  ASSUME StatementsInv, goals # <<>>, Inside(cur, goals, failing, errors),
         NEW k \in 1 .. Len(goals) - 3, NEW more \in Seq(Goal),
         UNCHANGED <<toks, phase, pending, body, stops>>,
         goals' = more \o Rest(goals, k),
         failing' \in BOOLEAN,
         errors' = errors \/ errors' = errors \union {body},
         cur' \in Here + 1 .. Closing,
         depth' = 1 + Leaves(more) + Leaves(Rest(goals, k)),
         Owed(more) + Owed(Rest(goals, k)) <= Open(Here, cur'),
         \/ body \in errors' \/ failing'
         \/ Owed(more) + Owed(Rest(goals, k)) = Open(Here, cur'),
         \A i \in 1 .. Len(more) :
             /\ more[i].g # "end"
             /\ MarkOK(more[i], Owed(Rest(more, i)) + Owed(Rest(goals, k)), errors')
             /\ more[i].g = "valueblock" => i = 1 /\ ~failing' /\ toks[cur'] = "open"
  PROVE  StatementsInv'
<1> DEFINE r == Rest(goals, k)
           c == cur
           q == goals
           f == failing
           d == cur'
           g == failing'
<1>1. TypeOK /\ BodiesBalance /\ body > 0 /\ phase = "bodies" /\ Len(stops) = body - 1
  BY DEF StatementsInv, Within
<1>2. /\ goals \in Seq(Goal) /\ errors \subseteq errors'
      /\ errors' \subseteq Nat /\ failing' \in BOOLEAN
  <2>1. body \in Nat /\ errors \subseteq Nat /\ goals \in Seq(Goal)
    BY <1>1 DEF TypeOK
  <2> QED BY <2>1
<1>3. /\ Inside(d, more \o r, g, errors') /\ more \o r \in Seq(Goal) /\ Len(more \o r) >= 3
  <2>1. q \in Seq(Goal) /\ Inside(c, q, f, errors) /\ k \in 1 .. Len(q) - 3
    BY <1>2
  <2>2. d \in Here + 1 .. Closing /\ g \in BOOLEAN /\ Fits(more, Rest(q, k), d, g, errors')
    BY <1>2 DEF Fits
  <2> HIDE DEF c, q, f, d, g
  <2>3. /\ Inside(d, more \o Rest(q, k), g, errors')
        /\ more \o Rest(q, k) \in Seq(Goal)
        /\ Len(more \o Rest(q, k)) >= 3
    BY <1>2, <2>1, <2>2, InsideKept
  <2> QED BY <2>3 DEF q
<1>4. /\ Here \in Nat /\ Closing \in Nat /\ Len(toks) \in Nat /\ Closing \in Here + 1 .. Len(toks) - 1
  BY <1>1, InBody
<1>5. r \in Seq(Goal) /\ Leaves(more \o r) = Leaves(more) + Leaves(r)
      /\ Leaves(more) \in Nat /\ Leaves(r) \in Nat
  <2>1. k \in 0 .. Len(goals)
    BY <1>2
  <2>2. r \in Seq(Goal)
    BY <1>2, <2>1, RestFacts
  <2> HIDE DEF r
  <2> QED BY <2>2, HowManyInBoth, HowManyType DEF Leaves
<1>6. TypeOK'
  <2>1. cur' \in 1 .. Len(toks)
    BY <1>4
  <2>2. depth' \in Int
    BY <1>5
  <2>3. goals' \in Seq(Goal)
    BY <1>3
  <2> QED BY <1>1, <1>2, <2>1, <2>2, <2>3 DEF TypeOK
<1>7. /\ Here' = Here /\ Closing' = Closing
      /\ \A s, n : Open(s, n)' = Open(s, n)
      /\ \A s : Balance(s)' = Balance(s)
  BY SameBody
<1>8. BodiesBalance'
  BY <1>1, <1>7 DEF BodiesBalance
<1>9. goals' # <<>>
  BY <1>3
<1>10. Inside(cur, goals, failing, errors)'
  <2>1. Inside(cur', goals', failing', errors')
    BY <1>3
  <2> QED BY <1>7, <2>1 DEF Inside, MarkOK
<1>11. Within'
  BY <1>1, <1>5, <1>10 DEF Within
<1>12. Between'
  BY <1>9 DEF Between
<1>13. ReadToTheEnd'
  <2>1. \A i \in 1 .. Len(stops) : i \in errors => i \in errors'
    OBVIOUS
  <2> QED BY <1>1, <1>7, <2>1 DEF ReadToTheEnd, BodyEnd, StatementsInv
<1> QED BY <1>6, <1>8, <1>11, <1>12, <1>13 DEF StatementsInv

-----------------------------------------------------------------------------
(* What a step puts in place of the first goal. *)

Marking == {"recover", "orblock", "further"}

\* Goals that are no place to go back to...
Unmarked == {x \in Goal : x.g \notin {"end", "valueblock"} \union Marking}

\* ...and owe nothing.
Quiet == {x \in Unmarked : x.g # "leave" /\ x # token("close")}

LEMMA QuietGoals ==
  /\ Unmarked \subseteq Goal /\ Quiet \subseteq Unmarked
  /\ {goal(g) : g \in {"newlines", "term", "params", "block", "statements", "stmt", "else",
                       "init", "forcond", "inc", "decl", "assign", "cases", "arms", "closed",
                       "patterns", "expr", "items", "more", "values"}} \subseteq Quiet
  /\ token("semi") \in Quiet
  /\ \A c \in Nat : mark("value", c) \in Quiet /\ mark("target", c) \in Quiet
  /\ goal("leave") \in Unmarked /\ goal("leave") \in Leaving
  /\ token("close") \in Unmarked /\ token("close") \notin Leaving
  /\ goal("leave") # token("close")
  /\ \A x \in Quiet : x \notin Leaving /\ x \notin {token("close")}
<1>1. /\ Unmarked \subseteq Goal /\ Quiet \subseteq Unmarked
      /\ \A x \in Quiet : x \notin Leaving /\ x \notin {token("close")}
  BY DEF Unmarked, Quiet, Leaving
<1>2. \A g \in {"newlines", "term", "params", "block", "statements", "stmt", "else",
                "init", "forcond", "inc", "decl", "assign", "cases", "arms", "closed",
                "patterns", "expr", "items", "more", "values"} : goal(g) \in Quiet
  BY DEF Unmarked, Quiet, Marking, Goal, Kinds, goal, token
<1>3. token("semi") \in Quiet
  BY DEF Unmarked, Quiet, Marking, Goal, Kinds, token
<1>4. \A c \in Nat : mark("value", c) \in Quiet /\ mark("target", c) \in Quiet
  BY DEF Unmarked, Quiet, Marking, Goal, Kinds, mark, token
<1>5. /\ goal("leave") \in Unmarked /\ goal("leave") \in Leaving
      /\ token("close") \in Unmarked /\ token("close") \notin Leaving
      /\ goal("leave") # token("close")
  BY DEF Unmarked, Leaving, Marking, Goal, Kinds, goal, token
<1> QED BY <1>1, <1>2, <1>3, <1>4, <1>5

LEMMA QuietCounts ==
  ASSUME NEW q \in Seq(Quiet)
  PROVE  q \in Seq(Unmarked) /\ q \in Seq(Goal) /\ Leaves(q) = 0 /\ Owed(q) = 0
<1>1. q \in Seq(Unmarked) /\ q \in Seq(Goal)
  BY QuietGoals, SeqMonotonic
<1>2. \A j \in 1 .. Len(q) : q[j] \in Quiet
  OBVIOUS
<1>3. \A j \in 1 .. Len(q) : q[j] \notin Leaving /\ q[j] \notin {token("close")}
  BY <1>2, QuietGoals
<1> QED BY <1>1, <1>3, HowManyNone DEF Leaves, Owed

LEMMA UnmarkedGoes ==
  ASSUME NEW q \in Seq(Unmarked), NEW errs
  PROVE  /\ q \in Seq(Goal)
         /\ \A i \in 1 .. Len(q) : /\ q[i].g \notin {"end", "valueblock"}
                                   /\ \A owed : MarkOK(q[i], owed, errs)
<1>1. q \in Seq(Goal)
  BY QuietGoals, SeqMonotonic
<1>2. \A i \in 1 .. Len(q) : q[i] \in Unmarked
  OBVIOUS
<1> QED BY <1>1, <1>2 DEF Unmarked, MarkOK, Marking

\* What a goal inside a body that is not a debt finds.
LEMMA WorkInside ==
  ASSUME StatementsInv, NEW g, Is(g), g \notin {"leave", "end"},
         g \in {"block", "params"} => Inside(cur, goals, failing, errors)
  PROVE  /\ TypeOK /\ BodiesBalance /\ body > 0 /\ goals \in Seq(Goal)
         /\ Inside(cur, goals, failing, errors)
         /\ cur \in Here + 1 .. Closing /\ cur \in Nat
         /\ Top = goals[1] /\ ~failing
         /\ goals[1] # token("close") => 1 \in 1 .. Len(goals) - 3
         /\ Open(Here, cur) \in Int /\ Owed(goals) \in Nat
         /\ Owed(goals) <= Open(Here, cur)
         /\ body \in errors \/ Owed(goals) = Open(Here, cur)
<1>1. TypeOK /\ BodiesBalance /\ body > 0 /\ goals \in Seq(Goal) /\ goals # <<>> /\ ~failing
  BY DEF StatementsInv, Within, Is, TypeOK
<1>2. Top = goals[1] /\ goals[1].g = g
  BY <1>1 DEF Top, Is
<1>3. ~AtHead(cur, goals, failing) \/ g \in {"block", "params"}
  BY <1>2 DEF AtHead, goal
<1>4. ~AtTail(cur, goals, failing, errors)
  BY <1>2 DEF AtTail, goal
<1>5. Inside(cur, goals, failing, errors)
  BY <1>1, <1>3, <1>4 DEF StatementsInv, Within
<1>6. cur \in Here + 1 .. Closing
  BY <1>5 DEF Inside
<1>7. Open(Here, cur) \in Int /\ Here \in Nat /\ Closing \in Nat
  BY <1>1, <1>6, InBody
<1>8. Owed(goals) \in Nat
  BY <1>1, HowManyType DEF Owed
<1>9. ASSUME goals[1] # token("close") PROVE 1 \in 1 .. Len(goals) - 3
  <2> DEFINE n == Len(goals)
  <2>1. n >= 3 /\ goals[n - 2] = token("close") /\ n \in Nat
    BY <1>1, <1>5 DEF Inside, EndsInBody
  <2> HIDE DEF n
  <2>2. n = 3 => n - 2 = 1
    OBVIOUS
  <2>3. n # 3
    BY <1>9, <2>1, <2>2
  <2>4. 1 \in 1 .. n - 3
    BY <2>1, <2>3
  <2> QED BY <2>4 DEF n
<1> QED BY <1>1, <1>2, <1>5, <1>6, <1>7, <1>8, <1>9 DEF Inside

LEMMA OnwardKept ==
  ASSUME StatementsInv, NEW g, Is(g), g \notin {"leave", "end"},
         g \in {"block", "params"} => Inside(cur, goals, failing, errors),
         goals[1] # token("close"),
         NEW c \in Here + 1 .. Closing, NEW more \in Seq(Goal),
         Onward(c, more), depth' = depth + Leaves(more),
         Open(Here, c) = Open(Here, cur) + Owed(more),
         \A i \in 1 .. Len(more) :
             /\ more[i].g \notin {"end", "valueblock"}
             /\ MarkOK(more[i], Owed(Rest(more, i)) + Owed(Rest(goals, 1)), errors)
  PROVE  StatementsInv'
<1>1. /\ TypeOK /\ BodiesBalance /\ body > 0 /\ goals \in Seq(Goal)
      /\ Inside(cur, goals, failing, errors) /\ ~failing
      /\ 1 \in 1 .. Len(goals) - 3
      /\ Open(Here, cur) \in Int /\ Owed(goals) \in Nat
      /\ Owed(goals) <= Open(Here, cur)
      /\ body \in errors \/ Owed(goals) = Open(Here, cur)
      /\ Top = goals[1]
  BY WorkInside
<1>2. goals # <<>> /\ depth = 1 + Leaves(goals)
  BY DEF Is, StatementsInv, Within
<1>3. goals[1] \notin Leaving /\ goals[1] \notin {token("close")}
  BY <1>1 DEF Is, Leaving
<1>4. /\ Tail(goals) = Rest(goals, 1)
      /\ Leaves(goals) = Leaves(Rest(goals, 1))
      /\ Owed(goals) = Owed(Rest(goals, 1))
  <2>1. Tail(goals) = Rest(goals, 1)
    BY <1>1, <1>2, HowManyBehind
  <2>2. /\ HowMany(goals, Leaving) = HowMany(Tail(goals), Leaving) + 0
        /\ HowMany(goals, {token("close")}) = HowMany(Tail(goals), {token("close")}) + 0
    BY <1>1, <1>2, <1>3, HowManyBehind
  <2>3. Tail(goals) \in Seq(Goal)
    BY <1>1, <1>2
  <2>4. /\ HowMany(Tail(goals), Leaving) \in Nat /\ HowMany(Tail(goals), {token("close")}) \in Nat
    BY <2>3, HowManyType
  <2>5. /\ HowMany(goals, Leaving) = HowMany(Tail(goals), Leaving)
        /\ HowMany(goals, {token("close")}) = HowMany(Tail(goals), {token("close")})
    BY <2>2, <2>4
  <2> QED BY <2>1, <2>5 DEF Leaves, Owed
<1>5. /\ Leaves(more) \in Nat /\ Owed(more) \in Nat /\ Leaves(goals) \in Nat
      /\ Leaves(Rest(goals, 1)) \in Nat /\ Owed(Rest(goals, 1)) \in Nat
  BY <1>1, <1>4, HowManyType DEF Leaves, Owed
<1>6. /\ UNCHANGED <<toks, phase, pending, body, stops, failing, errors>>
      /\ cur' = c /\ goals' = more \o Rest(goals, 1)
  BY <1>4 DEF Onward
<1>7. depth' = 1 + Leaves(more) + Leaves(Rest(goals, 1))
  BY <1>2, <1>4, <1>5
<1>8. /\ Owed(more) + Owed(Rest(goals, 1)) <= Open(Here, cur')
      /\ body \in errors' \/ failing' \/ Owed(more) + Owed(Rest(goals, 1)) = Open(Here, cur')
  BY <1>1, <1>4, <1>5, <1>6
<1>9. failing' \in BOOLEAN /\ errors' = errors /\ cur' \in Here + 1 .. Closing
  BY <1>1, <1>6 DEF TypeOK
<1>10. \A i \in 1 .. Len(more) :
             /\ more[i].g # "end"
             /\ MarkOK(more[i], Owed(Rest(more, i)) + Owed(Rest(goals, 1)), errors')
             /\ more[i].g = "valueblock" => i = 1 /\ ~failing' /\ toks[cur'] = "open"
  BY <1>9
<1> QED BY <1>1, <1>2, <1>6, <1>7, <1>8, <1>9, <1>10, ContinueKept

LEMMA UnmarkedKept ==
  ASSUME StatementsInv, NEW g, Is(g), g \notin {"leave", "end"},
         g \in {"block", "params"} => Inside(cur, goals, failing, errors),
         goals[1] # token("close"),
         NEW c \in Here + 1 .. Closing, NEW more \in Seq(Unmarked),
         Onward(c, more), depth' = depth + Leaves(more),
         Open(Here, c) = Open(Here, cur) + Owed(more)
  PROVE  StatementsInv'
  BY UnmarkedGoes, OnwardKept

\* The parser moves on over tokens that are no braces and goes on with goals that owe none.
LEMMA QuietKept ==
  ASSUME StatementsInv, NEW g, Is(g), g \notin {"leave", "end"},
         g \in {"block", "params"} => Inside(cur, goals, failing, errors),
         goals[1] # token("close"),
         NEW c \in Here + 1 .. Closing, NEW more \in Seq(Quiet),
         Parsed(c, more), Open(Here, c) = Open(Here, cur)
  PROVE  StatementsInv'
<1>1. more \in Seq(Unmarked) /\ Leaves(more) = 0 /\ Owed(more) = 0
  BY QuietCounts
<1>2. Open(Here, cur) \in Int /\ depth \in Int
  BY WorkInside DEF TypeOK
<1>3. Onward(c, more) /\ depth' = depth + Leaves(more)
  BY <1>1, <1>2 DEF Parsed
<1>4. Open(Here, c) = Open(Here, cur) + Owed(more)
  BY <1>1, <1>2
<1> QED BY <1>1, <1>3, <1>4, UnmarkedKept

\* An error leaves the debts of the goals that are left as they are.
LEMMA FailsKept ==
  ASSUME StatementsInv, NEW g, Is(g), g \notin {"leave", "end"},
         g \in {"block", "params"} => Inside(cur, goals, failing, errors),
         goals[1] # token("close"),
         NEW c \in Here + 1 .. Closing, Fails(c), Open(Here, c) = Open(Here, cur)
  PROVE  StatementsInv'
<1> DEFINE more == <<>>
<1>1. /\ TypeOK /\ BodiesBalance /\ body > 0 /\ goals \in Seq(Goal)
      /\ Inside(cur, goals, failing, errors) /\ ~failing
      /\ 1 \in 1 .. Len(goals) - 3
      /\ Open(Here, cur) \in Int /\ Owed(goals) \in Nat
      /\ Owed(goals) <= Open(Here, cur)
      /\ Top = goals[1]
  BY WorkInside
<1>2. goals # <<>> /\ depth = 1 + Leaves(goals)
  BY DEF Is, StatementsInv, Within
<1>3. more \in Seq(Goal) /\ Leaves(more) = 0 /\ Owed(more) = 0 /\ Len(more) = 0
  <2>1. more \in Seq(Quiet) /\ Len(more) = 0
    OBVIOUS
  <2> HIDE DEF more
  <2> QED BY <2>1, QuietCounts
<1>4. goals[1] \notin Leaving
  BY <1>1 DEF Is, Leaving
<1>5. Tail(goals) = Rest(goals, 1) /\ Rest(goals, 1) \in Seq(Goal) /\ 1 \in 0 .. Len(goals)
  BY <1>1, <1>2, HowManyBehind
<1>6. Leaves(goals) = Leaves(Rest(goals, 1)) + 0 /\ Leaves(Rest(goals, 1)) \in Nat
  BY <1>1, <1>2, <1>4, <1>5, HowManyBehind, HowManyType DEF Leaves
<1>7. Owed(Rest(goals, 1)) <= Owed(goals) /\ Owed(Rest(goals, 1)) \in Nat
  BY <1>1, <1>5, RestOwesLess
<1>8. /\ UNCHANGED <<toks, phase, pending, body, depth, errors, stops>>
      /\ cur' = c /\ failing' = TRUE /\ goals' = more \o Rest(goals, 1)
  BY <1>5 DEF Fails
<1>9. /\ depth' = 1 + Leaves(more) + Leaves(Rest(goals, 1))
      /\ Owed(more) + Owed(Rest(goals, 1)) <= Open(Here, cur')
  BY <1>1, <1>2, <1>3, <1>6, <1>7, <1>8
<1>10. /\ failing' \in BOOLEAN /\ errors' = errors /\ cur' \in Here + 1 .. Closing
       /\ body \in errors' \/ failing' \/ Owed(more) + Owed(Rest(goals, 1)) = Open(Here, cur')
       /\ \A i \in 1 .. Len(more) :
             /\ more[i].g # "end"
             /\ MarkOK(more[i], Owed(Rest(more, i)) + Owed(Rest(goals, 1)), errors')
             /\ more[i].g = "valueblock" => i = 1 /\ ~failing' /\ toks[cur'] = "open"
  BY <1>3, <1>8
<1> HIDE DEF more
<1> QED BY <1>1, <1>2, <1>3, <1>8, <1>9, <1>10, ContinueKept

-----------------------------------------------------------------------------
(* What the goals of each construct owe. *)

LEMMA OneGoal ==
  ASSUME NEW x \in Unmarked
  PROVE  /\ <<x>> \in Seq(Unmarked)
         /\ Leaves(<<x>>) = IF x \in Leaving THEN 1 ELSE 0
         /\ Owed(<<x>>) = IF x = token("close") THEN 1 ELSE 0
<1> DEFINE q == <<x>>
<1>1. q \in Seq(Unmarked) /\ Len(q) = 1 /\ q[1] = x
  OBVIOUS
<1>2. q \in Seq(Goal)
  BY <1>1, QuietGoals, SeqMonotonic
<1> HIDE DEF q
<1>3. ASSUME NEW G PROVE HowMany(q, G) = IF x \in G THEN 1 ELSE 0
  <2>1. CASE x \in G
    BY <1>1, <1>2, <2>1, HowManyOne
  <2>2. CASE x \notin G
    BY <1>1, <1>2, <2>2, HowManyNone
  <2> QED BY <2>1, <2>2
<1>4. Leaves(q) = IF x \in Leaving THEN 1 ELSE 0
  BY <1>3 DEF Leaves
<1>5. Owed(q) = IF x = token("close") THEN 1 ELSE 0
  <2>1. Owed(q) = IF x \in {token("close")} THEN 1 ELSE 0
    BY <1>3 DEF Owed
  <2> QED BY <2>1
<1> QED BY <1>1, <1>4, <1>5 DEF q

LEMMA TwoParts ==
  ASSUME NEW p \in Seq(Unmarked), NEW q \in Seq(Unmarked)
  PROVE  /\ p \o q \in Seq(Unmarked)
         /\ Leaves(p \o q) = Leaves(p) + Leaves(q)
         /\ Owed(p \o q) = Owed(p) + Owed(q)
<1>1. p \in Seq(Goal) /\ q \in Seq(Goal)
  BY QuietGoals, SeqMonotonic
<1> QED BY <1>1, HowManyInBoth DEF Leaves, Owed

\* A scope that is entered and left.
LEMMA LeavingCounts ==
  /\ <<goal("leave")>> \in Seq(Unmarked)
  /\ Leaves(<<goal("leave")>>) = 1 /\ Owed(<<goal("leave")>>) = 0
<1>1. goal("leave") \in Unmarked /\ goal("leave") \in Leaving /\ goal("leave") # token("close")
  BY QuietGoals
<1> QED BY <1>1, OneGoal

\* A brace that is opened and closed.
LEMMA ClosingCounts ==
  /\ <<token("close")>> \in Seq(Unmarked)
  /\ Leaves(<<token("close")>>) = 0 /\ Owed(<<token("close")>>) = 1
<1>1. token("close") \in Unmarked /\ token("close") \notin Leaving
  BY QuietGoals
<1> QED BY <1>1, OneGoal

LEMMA ConditionCounts ==
  /\ Condition \in Seq(Unmarked) /\ Leaves(Condition) = 1 /\ Owed(Condition) = 0
  /\ LET more == Append(Condition, goal("else"))
     IN  more \in Seq(Unmarked) /\ Leaves(more) = 1 /\ Owed(more) = 0
<1> DEFINE p == <<goal("expr"), goal("newlines"), goal("block")>>
           l == <<goal("leave")>>
           e == <<goal("else")>>
<1>1. p \in Seq(Quiet) /\ e \in Seq(Quiet)
  BY QuietGoals
<1>2. Condition = p \o l /\ Append(Condition, goal("else")) = (p \o l) \o e
  BY DEF Condition
<1>3. l \in Seq(Unmarked) /\ Leaves(l) = 1 /\ Owed(l) = 0
  BY LeavingCounts
<1> HIDE DEF p, l, e
<1>4. /\ p \in Seq(Unmarked) /\ Leaves(p) = 0 /\ Owed(p) = 0
      /\ e \in Seq(Unmarked) /\ Leaves(e) = 0 /\ Owed(e) = 0
  BY <1>1, QuietCounts
<1>5. p \o l \in Seq(Unmarked) /\ Leaves(p \o l) = 1 /\ Owed(p \o l) = 0
  BY <1>3, <1>4, TwoParts
<1> DEFINE c == p \o l
<1>6. c \in Seq(Unmarked) /\ Leaves(c) = 1 /\ Owed(c) = 0
  BY <1>5
<1> HIDE DEF c
<1>7. c \o e \in Seq(Unmarked) /\ Leaves(c \o e) = 1 /\ Owed(c \o e) = 0
  BY <1>4, <1>6, TwoParts
<1> QED BY <1>2, <1>5, <1>7 DEF c

LEMMA BlockCounts ==
  ASSUME NEW g \in {"statements", "values"}
  PROVE  LET more == <<goal(g), goal("leave"), token("close")>>
         IN  more \in Seq(Unmarked) /\ Leaves(more) = 1 /\ Owed(more) = 1
<1> DEFINE p == <<goal(g)>>
           l == <<goal("leave")>>
           b == <<token("close")>>
<1>1. p \in Seq(Quiet)
  BY QuietGoals
<1>2. <<goal(g), goal("leave"), token("close")>> = (p \o l) \o b
  OBVIOUS
<1>3. /\ l \in Seq(Unmarked) /\ Leaves(l) = 1 /\ Owed(l) = 0
      /\ b \in Seq(Unmarked) /\ Leaves(b) = 0 /\ Owed(b) = 1
  BY LeavingCounts, ClosingCounts
<1> HIDE DEF p, l, b
<1>4. p \in Seq(Unmarked) /\ Leaves(p) = 0 /\ Owed(p) = 0
  BY <1>1, QuietCounts
<1>5. p \o l \in Seq(Unmarked) /\ Leaves(p \o l) = 1 /\ Owed(p \o l) = 0
  BY <1>3, <1>4, TwoParts
<1> DEFINE c == p \o l
<1>6. c \in Seq(Unmarked) /\ Leaves(c) = 1 /\ Owed(c) = 0
  BY <1>5
<1> HIDE DEF c
<1>7. c \o b \in Seq(Unmarked) /\ Leaves(c \o b) = 1 /\ Owed(c \o b) = 1
  BY <1>3, <1>6, TwoParts
<1> QED BY <1>2, <1>7 DEF c

LEMMA ForCounts ==
  LET more == <<goal("init"), token("semi"), goal("forcond"), token("semi"),
                goal("inc"), goal("newlines"), goal("block"), goal("leave")>>
  IN  more \in Seq(Unmarked) /\ Leaves(more) = 1 /\ Owed(more) = 0
<1> DEFINE p == <<goal("init"), token("semi"), goal("forcond"), token("semi"),
                  goal("inc"), goal("newlines"), goal("block")>>
           l == <<goal("leave")>>
<1>1. p \in Seq(Quiet)
  BY QuietGoals
<1>2. <<goal("init"), token("semi"), goal("forcond"), token("semi"),
        goal("inc"), goal("newlines"), goal("block"), goal("leave")>> = p \o l
  OBVIOUS
<1>3. l \in Seq(Unmarked) /\ Leaves(l) = 1 /\ Owed(l) = 0
  BY LeavingCounts
<1> HIDE DEF p, l
<1>4. p \in Seq(Unmarked) /\ Leaves(p) = 0 /\ Owed(p) = 0
  BY <1>1, QuietCounts
<1>5. p \o l \in Seq(Unmarked) /\ Leaves(p \o l) = 1 /\ Owed(p \o l) = 0
  BY <1>3, <1>4, TwoParts
<1> QED BY <1>2, <1>5

LEMMA ArmCounts ==
  /\ LET more == <<goal("block"), goal("leave")>>
     IN  more \in Seq(Unmarked) /\ Leaves(more) = 1 /\ Owed(more) = 0
  /\ LET more == <<goal("arms"), token("close")>>
     IN  more \in Seq(Unmarked) /\ Leaves(more) = 0 /\ Owed(more) = 1
<1> DEFINE p == <<goal("block")>>
           a == <<goal("arms")>>
           l == <<goal("leave")>>
           b == <<token("close")>>
<1>1. p \in Seq(Quiet) /\ a \in Seq(Quiet)
  BY QuietGoals
<1>2. <<goal("block"), goal("leave")>> = p \o l /\ <<goal("arms"), token("close")>> = a \o b
  OBVIOUS
<1>3. /\ l \in Seq(Unmarked) /\ Leaves(l) = 1 /\ Owed(l) = 0
      /\ b \in Seq(Unmarked) /\ Leaves(b) = 0 /\ Owed(b) = 1
  BY LeavingCounts, ClosingCounts
<1> HIDE DEF p, a, l, b
<1>4. /\ p \in Seq(Unmarked) /\ Leaves(p) = 0 /\ Owed(p) = 0
      /\ a \in Seq(Unmarked) /\ Leaves(a) = 0 /\ Owed(a) = 0
  BY <1>1, QuietCounts
<1>5. /\ p \o l \in Seq(Unmarked) /\ Leaves(p \o l) = 1 /\ Owed(p \o l) = 0
      /\ a \o b \in Seq(Unmarked) /\ Leaves(a \o b) = 0 /\ Owed(a \o b) = 1
  BY <1>3, <1>4, TwoParts
<1> QED BY <1>2, <1>5

-----------------------------------------------------------------------------
(* Every step keeps the invariant: statements and expressions. *)

\* The goals that are worked off inside a body and are no debts.
Work == Kinds \ {"token", "params", "block", "leave", "end"}

LEMMA Working ==
  ASSUME StatementsInv, NEW g \in Work, Is(g)
  PROVE  /\ TypeOK /\ BodiesBalance /\ body > 0 /\ goals \in Seq(Goal) /\ goals # <<>>
         /\ goals[1] # token("close") /\ goals[1] \in Goal /\ Top = goals[1]
         /\ cur \in Here + 1 .. Closing /\ Here \in Nat /\ Closing \in Nat /\ cur \in Nat
         /\ Open(Here, cur) \in Int /\ depth \in Int
<1>1. g \notin {"token", "params", "block", "leave", "end"}
  BY DEF Work
<1>2. /\ TypeOK /\ BodiesBalance /\ body > 0 /\ goals \in Seq(Goal)
      /\ cur \in Here + 1 .. Closing /\ cur \in Nat /\ Top = goals[1]
      /\ Open(Here, cur) \in Int
  BY <1>1, WorkInside
<1>3. goals # <<>> /\ goals[1].g = g
  BY <1>2 DEF Is
<1>4. goals[1] # token("close")
  BY <1>1, <1>3 DEF token
<1>5. Here \in Nat /\ Closing \in Nat
  BY <1>2, InBody
<1> QED BY <1>2, <1>3, <1>4, <1>5 DEF TypeOK

LEMMA ParsedStep ==
  ASSUME StatementsInv, NEW g \in Work, Is(g), NEW c \in Here + 1 .. Closing,
         NEW more \in Seq(Quiet), Parsed(c, more), Open(Here, c) = Open(Here, cur)
  PROVE  StatementsInv'
<1>1. g \notin {"params", "block", "leave", "end"}
  BY DEF Work
<1>2. goals[1] # token("close")
  BY Working
<1> QED BY <1>1, <1>2, QuietKept

LEMMA ScopedStep ==
  ASSUME StatementsInv, NEW g \in Work, Is(g), NEW c \in Here + 1 .. Closing,
         NEW more \in Seq(Unmarked), Leaves(more) = 1, Scoped(c, more),
         Open(Here, c) = Open(Here, cur) + Owed(more)
  PROVE  StatementsInv'
<1>1. g \notin {"params", "block", "leave", "end"}
  BY DEF Work
<1>2. goals[1] # token("close")
  BY Working
<1>3. Onward(c, more) /\ depth' = depth + Leaves(more)
  BY DEF Scoped
<1> QED BY <1>1, <1>2, <1>3, UnmarkedKept

LEMMA FailsStep ==
  ASSUME StatementsInv, NEW g \in Work, Is(g), NEW c \in Here + 1 .. Closing,
         Fails(c), Open(Here, c) = Open(Here, cur)
  PROVE  StatementsInv'
<1>1. g \notin {"params", "block", "leave", "end"}
  BY DEF Work
<1>2. goals[1] # token("close")
  BY Working
<1> QED BY <1>1, <1>2, FailsKept

LEMMA SimpleStatementsKeep ==
  ASSUME StatementsInv,
         \/ Nested \/ Return \/ Break \/ Local \/ Decl \/ CaseOutsideSwitch
         \/ Plain \/ Assign \/ AssignedValue \/ AssignedTarget
  PROVE  StatementsInv'
<1> USE QuietGoals
<1>1. CASE Nested
  <2>1. Is("stmt") /\ Parsed(cur, <<goal("block")>>) /\ "stmt" \in Work
    BY <1>1 DEF Nested, Work, Kinds
  <2>2. <<goal("block")>> \in Seq(Quiet)
    OBVIOUS
  <2>3. cur \in Here + 1 .. Closing
    BY <2>1, Working
  <2> QED BY <2>1, <2>2, <2>3, ParsedStep
<1>2. CASE Return
  <2>1. Is("stmt") /\ toks[cur] = "return" /\ "stmt" \in Work
    BY <1>2 DEF Return, At, Work, Kinds
  <2>2. PICK more \in Seq(Quiet) : Parsed(cur + 1, more)
    <3>1. <<goal("term")>> \in Seq(Quiet) /\ <<goal("expr"), goal("term")>> \in Seq(Quiet)
      OBVIOUS
    <3>2. \/ Parsed(cur + 1, <<goal("term")>>)
          \/ Parsed(cur + 1, <<goal("expr"), goal("term")>>)
      BY <1>2 DEF Return
    <3> QED BY <3>1, <3>2
  <2>3. cur + 1 \in Here + 1 .. Closing /\ Open(Here, cur + 1) = Open(Here, cur)
    BY <2>1, Working, OneOn
  <2> QED BY <2>1, <2>2, <2>3, ParsedStep
<1>3. CASE Break
  <2>1. Is("stmt") /\ toks[cur] = "break" /\ Parsed(cur + 1, <<goal("term")>>) /\ "stmt" \in Work
    BY <1>3 DEF Break, At, Work, Kinds
  <2>2. <<goal("term")>> \in Seq(Quiet)
    OBVIOUS
  <2>3. cur + 1 \in Here + 1 .. Closing /\ Open(Here, cur + 1) = Open(Here, cur)
    BY <2>1, Working, OneOn
  <2> QED BY <2>1, <2>2, <2>3, ParsedStep
<1>4. CASE Local
  <2>1. Is("stmt") /\ Parsed(cur, <<goal("decl"), goal("term")>>) /\ "stmt" \in Work
    BY <1>4 DEF Local, Work, Kinds
  <2>2. <<goal("decl"), goal("term")>> \in Seq(Quiet)
    OBVIOUS
  <2>3. cur \in Here + 1 .. Closing
    BY <2>1, Working
  <2> QED BY <2>1, <2>2, <2>3, ParsedStep
<1>5. CASE Decl
  <2>1. Is("decl") /\ toks[cur] \in {"x", "T"} /\ "decl" \in Work
    BY <1>5 DEF Decl, At, Work, Kinds
  <2>2. /\ TypeOK /\ BodiesBalance /\ body > 0 /\ cur \in Here + 1 .. Closing /\ cur \in Nat
    BY <2>1, Working
  <2>3. cur + 1 \in Here + 1 .. Closing /\ Open(Here, cur + 1) = Open(Here, cur)
    BY <2>1, <2>2, OneOn
  <2>4. ASSUME toks[cur + 1] = "x"
        PROVE  cur + 2 \in Here + 1 .. Closing /\ Open(Here, cur + 2) = Open(Here, cur)
    <3>1. (cur + 1) + 1 = cur + 2
      BY <2>2
    <3>2. (cur + 1) + 1 \in Here + 1 .. Closing /\ Open(Here, (cur + 1) + 1) = Open(Here, cur + 1)
      BY <2>2, <2>3, <2>4, OneOn
    <3> QED BY <2>3, <3>1, <3>2
  <2>5. ASSUME toks[cur + 1] = "x", toks[cur + 2] = "eq"
        PROVE  cur + 3 \in Here + 1 .. Closing /\ Open(Here, cur + 3) = Open(Here, cur)
    <3>1. (cur + 2) + 1 = cur + 3
      BY <2>2
    <3>2. cur + 2 \in Here + 1 .. Closing /\ Open(Here, cur + 2) = Open(Here, cur)
      BY <2>4, <2>5
    <3>3. (cur + 2) + 1 \in Here + 1 .. Closing /\ Open(Here, (cur + 2) + 1) = Open(Here, cur + 2)
      BY <2>2, <2>5, <3>2, OneOn
    <3> QED BY <3>1, <3>2, <3>3
  <2>6. CASE Fails(cur + 1)
    BY <2>1, <2>3, <2>6, FailsStep
  <2>7. CASE toks[cur + 1] = "x" /\ toks[cur + 2] = "eq" /\ Parsed(cur + 3, <<goal("expr")>>)
    <3>1. <<goal("expr")>> \in Seq(Quiet)
      OBVIOUS
    <3> QED BY <2>1, <2>5, <2>7, <3>1, ParsedStep
  <2>8. CASE toks[cur + 1] = "x" /\ Parsed(cur + 2, <<>>)
    <3>1. <<>> \in Seq(Quiet)
      OBVIOUS
    <3> QED BY <2>1, <2>4, <2>8, <3>1, ParsedStep
  <2> QED BY <1>5, <2>6, <2>7, <2>8 DEF Decl
<1>6. CASE CaseOutsideSwitch
  <2>1. Is("stmt") /\ Fails(cur) /\ "stmt" \in Work
    BY <1>6 DEF CaseOutsideSwitch, Work, Kinds
  <2>2. cur \in Here + 1 .. Closing
    BY <2>1, Working
  <2> QED BY <2>1, <2>2, FailsStep
<1>7. CASE Plain
  <2>1. Is("stmt") /\ Parsed(cur, <<goal("assign"), goal("term")>>) /\ "stmt" \in Work
    BY <1>7 DEF Plain, Work, Kinds
  <2>2. <<goal("assign"), goal("term")>> \in Seq(Quiet)
    OBVIOUS
  <2>3. cur \in Here + 1 .. Closing
    BY <2>1, Working
  <2> QED BY <2>1, <2>2, <2>3, ParsedStep
<1>8. CASE Assign
  <2>1. Is("assign") /\ Parsed(cur, <<goal("expr"), mark("value", cur)>>) /\ "assign" \in Work
    BY <1>8 DEF Assign, Work, Kinds
  <2>2. cur \in Here + 1 .. Closing /\ cur \in Nat
    BY <2>1, Working
  <2>3. <<goal("expr"), mark("value", cur)>> \in Seq(Quiet)
    BY <2>2
  <2> QED BY <2>1, <2>2, <2>3, ParsedStep
<1>9. CASE AssignedValue
  <2>1. Is("value") /\ "value" \in Work
    BY <1>9 DEF AssignedValue, Work, Kinds
  <2>2. /\ TypeOK /\ BodiesBalance /\ body > 0 /\ cur \in Here + 1 .. Closing
        /\ Top \in Goal
    BY <2>1, Working
  <2>3. CASE toks[cur] = "eq" /\ Parsed(cur + 1, <<goal("expr"), mark("target", Top.at)>>)
    <3>1. <<goal("expr"), mark("target", Top.at)>> \in Seq(Quiet)
      <4>1. Top.at \in Nat
        BY <2>2 DEF Goal
      <4> QED BY <4>1
    <3>2. cur + 1 \in Here + 1 .. Closing /\ Open(Here, cur + 1) = Open(Here, cur)
      BY <2>2, <2>3, OneOn
    <3> QED BY <2>1, <2>3, <3>1, <3>2, ParsedStep
  <2>4. CASE Parsed(cur, <<>>)
    <3>1. <<>> \in Seq(Quiet)
      OBVIOUS
    <3> QED BY <2>1, <2>2, <2>4, <3>1, ParsedStep
  <2> QED BY <1>9, <2>3, <2>4 DEF AssignedValue, At
<1>10. CASE AssignedTarget
  <2>1. Is("target") /\ "target" \in Work
    BY <1>10 DEF AssignedTarget, Work, Kinds
  <2>2. cur \in Here + 1 .. Closing
    BY <2>1, Working
  <2>3. <<>> \in Seq(Quiet)
    OBVIOUS
  <2>4. Parsed(cur, <<>>) \/ Fails(cur)
    BY <1>10 DEF AssignedTarget
  <2> QED BY <2>1, <2>2, <2>3, <2>4, ParsedStep, FailsStep
<1> QED BY <1>1, <1>2, <1>3, <1>4, <1>5, <1>6, <1>7, <1>8, <1>9, <1>10

LEMMA LoopsKeep ==
  ASSUME StatementsInv, If \/ Else \/ While \/ For \/ ForInit \/ ForCond \/ ForInc
  PROVE  StatementsInv'
<1> USE QuietGoals
<1> DEFINE Chain == Append(Condition, goal("else"))
<1>0. /\ Condition \in Seq(Unmarked) /\ Leaves(Condition) = 1 /\ Owed(Condition) = 0
      /\ Chain \in Seq(Unmarked) /\ Leaves(Chain) = 1 /\ Owed(Chain) = 0
  BY ConditionCounts
<1> HIDE DEF Chain
<1>1. ASSUME Is("stmt"), toks[cur] # "close", toks[cur] # "open",
             NEW more \in Seq(Unmarked), Leaves(more) = 1, Owed(more) = 0,
             Scoped(cur + 1, more)
      PROVE  StatementsInv'
  <2>1. "stmt" \in Work
    BY DEF Work, Kinds
  <2>2. TypeOK /\ BodiesBalance /\ body > 0 /\ cur \in Here + 1 .. Closing /\ Open(Here, cur) \in Int
    BY <1>1, <2>1, Working
  <2>3. cur + 1 \in Here + 1 .. Closing /\ Open(Here, cur + 1) = Open(Here, cur)
    BY <1>1, <2>2, OneOn
  <2>4. Open(Here, cur + 1) = Open(Here, cur) + Owed(more)
    BY <1>1, <2>2, <2>3
  <2> QED BY <1>1, <2>1, <2>3, <2>4, ScopedStep
<1>2. CASE If
  <2>1. Is("stmt") /\ toks[cur] = "if" /\ Scoped(cur + 1, Chain)
    BY <1>2 DEF If, At, Chain
  <2> QED BY <1>0, <1>1, <2>1
<1>3. CASE Else
  <2> DEFINE c == NewlinesSkipped(cur)
  <2>1. Is("else") /\ "else" \in Work
    BY <1>3 DEF Else, Work, Kinds
  <2>2. /\ TypeOK /\ BodiesBalance /\ body > 0 /\ cur \in Here + 1 .. Closing
        /\ Open(Here, cur) \in Int
    BY <2>1, Working
  <2>3. c \in Here + 1 .. Closing /\ Open(Here, c) = Open(Here, cur)
    BY <2>2, NewlinesOn
  <2>4. \/ toks[c] = "else" /\ Parsed(c + 1, <<goal("newlines"), goal("block")>>)
        \/ toks[c] = "elif" /\ Scoped(c + 1, Chain)
        \/ Parsed(c, <<>>)
    BY <1>3 DEF Else, Chain
  <2> HIDE DEF c
  <2>5. ASSUME toks[c] \in {"else", "elif"}
        PROVE  c + 1 \in Here + 1 .. Closing /\ Open(Here, c + 1) = Open(Here, cur)
    BY <2>2, <2>3, <2>5, OneOn
  <2>6. CASE toks[c] = "else" /\ Parsed(c + 1, <<goal("newlines"), goal("block")>>)
    <3>1. <<goal("newlines"), goal("block")>> \in Seq(Quiet)
      OBVIOUS
    <3> QED BY <2>1, <2>5, <2>6, <3>1, ParsedStep
  <2>7. CASE toks[c] = "elif" /\ Scoped(c + 1, Chain)
    <3>1. Open(Here, c + 1) = Open(Here, cur) + Owed(Chain)
      BY <1>0, <2>2, <2>5, <2>7
    <3> QED BY <1>0, <2>1, <2>5, <2>7, <3>1, ScopedStep
  <2>8. CASE Parsed(c, <<>>)
    <3>1. <<>> \in Seq(Quiet)
      OBVIOUS
    <3> QED BY <2>1, <2>3, <2>8, <3>1, ParsedStep
  <2> QED BY <2>4, <2>6, <2>7, <2>8
<1>4. CASE While
  <2>1. Is("stmt") /\ toks[cur] = "while" /\ Scoped(cur + 1, Condition)
    BY <1>4 DEF While, At
  <2> QED BY <1>0, <1>1, <2>1
<1>5. CASE For
  <2> DEFINE more == <<goal("init"), token("semi"), goal("forcond"), token("semi"),
                       goal("inc"), goal("newlines"), goal("block"), goal("leave")>>
  <2>1. Is("stmt") /\ toks[cur] = "for" /\ Scoped(cur + 1, more)
    BY <1>5 DEF For, At
  <2>2. more \in Seq(Unmarked) /\ Leaves(more) = 1 /\ Owed(more) = 0
    BY ForCounts
  <2> HIDE DEF more
  <2> QED BY <1>1, <2>1, <2>2
<1>6. ASSUME NEW g \in {"init", "forcond", "inc"}, Is(g), NEW more \in Seq(Quiet), Parsed(cur, more)
      PROVE  StatementsInv'
  <2>1. g \in Work
    BY DEF Work, Kinds
  <2>2. cur \in Here + 1 .. Closing
    BY <1>6, <2>1, Working
  <2> QED BY <1>6, <2>1, <2>2, ParsedStep
<1>7. <<>> \in Seq(Quiet) /\ \A g \in {"decl", "assign", "expr"} : <<goal(g)>> \in Seq(Quiet)
  OBVIOUS
<1>8. CASE ForInit
  <2>1. Is("init") /\ \E more \in {<<>>, <<goal("decl")>>, <<goal("assign")>>} : Parsed(cur, more)
    BY <1>8 DEF ForInit
  <2> QED BY <1>6, <1>7, <2>1
<1>9. CASE ForCond
  <2>1. Is("forcond") /\ \E more \in {<<>>, <<goal("expr")>>} : Parsed(cur, more)
    BY <1>9 DEF ForCond
  <2> QED BY <1>6, <1>7, <2>1
<1>10. CASE ForInc
  <2>1. Is("inc") /\ \E more \in {<<>>, <<goal("assign")>>} : Parsed(cur, more)
    BY <1>10 DEF ForInc
  <2> QED BY <1>6, <1>7, <2>1
<1> QED BY <1>2, <1>3, <1>4, <1>5, <1>8, <1>9, <1>10

LEMMA SwitchKeeps ==
  ASSUME StatementsInv, Switch \/ Cases \/ Arms \/ Patterns
  PROVE  StatementsInv'
<1> USE QuietGoals
<1>0. <<>> \in Seq(Quiet)
  OBVIOUS
<1>1. CASE Switch
  <2> DEFINE more == <<goal("expr"), goal("newlines"), goal("cases")>>
  <2>1. Is("stmt") /\ toks[cur] = "switch" /\ Parsed(cur + 1, more) /\ "stmt" \in Work
    BY <1>1 DEF Switch, At, Work, Kinds
  <2>2. more \in Seq(Quiet)
    OBVIOUS
  <2> HIDE DEF more
  <2>3. cur + 1 \in Here + 1 .. Closing /\ Open(Here, cur + 1) = Open(Here, cur)
    BY <2>1, Working, OneOn
  <2> QED BY <2>1, <2>2, <2>3, ParsedStep
<1>2. CASE Cases
  <2> DEFINE more == <<goal("arms"), token("close")>>
  <2>1. Is("cases") /\ "cases" \in Work
    BY <1>2 DEF Cases, Work, Kinds
  <2>2. /\ TypeOK /\ BodiesBalance /\ body > 0 /\ cur \in Here + 1 .. Closing
        /\ goals[1] # token("close") /\ depth \in Int
    BY <2>1, Working
  <2>3. (toks[cur] = "open" /\ Parsed(cur + 1, more)) \/ Fails(cur)
    BY <1>2 DEF Cases, At
  <2>4. CASE toks[cur] = "open" /\ Parsed(cur + 1, more)
    <3>1. more \in Seq(Unmarked) /\ Leaves(more) = 0 /\ Owed(more) = 1
      BY ArmCounts
    <3> HIDE DEF more
    <3>2. cur + 1 \in Here + 1 .. Closing /\ Open(Here, cur + 1) = Open(Here, cur) + Owed(more)
      BY <2>2, <2>4, <3>1, OneOn
    <3>3. Onward(cur + 1, more) /\ depth' = depth + Leaves(more)
      BY <2>2, <2>4, <3>1 DEF Parsed
    <3>4. "cases" \notin {"leave", "end"} /\ "cases" \notin {"block", "params"}
      OBVIOUS
    <3> QED BY <2>1, <2>2, <3>1, <3>2, <3>3, <3>4, UnmarkedKept
  <2>5. CASE Fails(cur)
    BY <2>1, <2>2, <2>5, FailsStep
  <2> QED BY <2>3, <2>4, <2>5
<1>3. CASE Arms
  <2> DEFINE c == NewlinesSkipped(cur)
  <2>1. PICK g \in {"arms", "closed"} : Is(g)
    BY <1>3 DEF Arms
  <2>2. g \in Work
    BY DEF Work, Kinds
  <2>3. TypeOK /\ BodiesBalance /\ body > 0 /\ cur \in Here + 1 .. Closing
    BY <2>1, <2>2, Working
  <2>4. c \in Here + 1 .. Closing /\ Open(Here, c) = Open(Here, cur)
    BY <2>3, NewlinesOn
  <2> DEFINE default == <<goal("newlines"), goal("block"), goal("closed")>>
             case == <<goal("expr"), goal("patterns"), goal("arms")>>
  <2>5. \/ Parsed(c, <<>>)
        \/ Fails(c)
        \/ toks[c] = "default" /\ Parsed(c + 1, default)
        \/ toks[c] = "case" /\ Parsed(c + 1, case)
    BY <1>3 DEF Arms
  <2>6. default \in Seq(Quiet) /\ case \in Seq(Quiet)
    OBVIOUS
  <2> HIDE DEF c, default, case
  <2>7. ASSUME toks[c] \in {"default", "case"}
        PROVE  c + 1 \in Here + 1 .. Closing /\ Open(Here, c + 1) = Open(Here, cur)
    BY <2>3, <2>4, <2>7, OneOn
  <2>8. CASE Parsed(c, <<>>)
    BY <1>0, <2>1, <2>2, <2>4, <2>8, ParsedStep
  <2>9. CASE Fails(c)
    BY <2>1, <2>2, <2>4, <2>9, FailsStep
  <2>10. CASE toks[c] = "default" /\ Parsed(c + 1, default)
    BY <2>1, <2>2, <2>6, <2>7, <2>10, ParsedStep
  <2>11. CASE toks[c] = "case" /\ Parsed(c + 1, case)
    BY <2>1, <2>2, <2>6, <2>7, <2>11, ParsedStep
  <2> QED BY <2>5, <2>8, <2>9, <2>10, <2>11
<1>4. CASE Patterns
  <2> DEFINE c == NewlinesSkipped(cur)
             list == <<goal("expr"), goal("patterns")>>
             more == <<goal("block"), goal("leave")>>
  <2>1. Is("patterns") /\ "patterns" \in Work
    BY <1>4 DEF Patterns, Work, Kinds
  <2>2. TypeOK /\ BodiesBalance /\ body > 0 /\ cur \in Here + 1 .. Closing /\ Open(Here, cur) \in Int
    BY <2>1, Working
  <2>3. (toks[cur] = "comma" /\ Parsed(cur + 1, list)) \/ Scoped(c, more)
    BY <1>4 DEF Patterns, At
  <2>4. list \in Seq(Quiet) /\ more \in Seq(Unmarked) /\ Leaves(more) = 1 /\ Owed(more) = 0
    BY ArmCounts
  <2> HIDE DEF list, more
  <2>5. CASE toks[cur] = "comma" /\ Parsed(cur + 1, list)
    <3>1. cur + 1 \in Here + 1 .. Closing /\ Open(Here, cur + 1) = Open(Here, cur)
      BY <2>2, <2>5, OneOn
    <3> QED BY <2>1, <2>4, <2>5, <3>1, ParsedStep
  <2>6. CASE Scoped(c, more)
    <3>1. c \in Here + 1 .. Closing /\ Open(Here, c) = Open(Here, cur)
      BY <2>2, NewlinesOn
    <3> HIDE DEF c
    <3>2. Open(Here, c) = Open(Here, cur) + Owed(more)
      BY <2>2, <2>4, <3>1
    <3> QED BY <2>1, <2>4, <2>6, <3>1, <3>2, ScopedStep
  <2> QED BY <2>3, <2>5, <2>6
<1> QED BY <1>1, <1>2, <1>3, <1>4

LEMMA ListsKeep ==
  ASSUME StatementsInv,
         Newlines \/ Terminator \/ NothingCaught \/ Items \/ MoreItems \/ Values
  PROVE  StatementsInv'
<1> USE QuietGoals
<1>0. <<>> \in Seq(Quiet)
  OBVIOUS
<1>1. CASE Newlines
  <2>1. Is("newlines") /\ Parsed(NewlinesSkipped(cur), <<>>) /\ "newlines" \in Work
    BY <1>1 DEF Newlines, Work, Kinds
  <2>2. TypeOK /\ BodiesBalance /\ body > 0 /\ cur \in Here + 1 .. Closing
    BY <2>1, Working
  <2>3. /\ NewlinesSkipped(cur) \in Here + 1 .. Closing
        /\ Open(Here, NewlinesSkipped(cur)) = Open(Here, cur)
    BY <2>2, NewlinesOn
  <2> QED BY <1>0, <2>1, <2>3, ParsedStep
<1>2. CASE Terminator
  <2>1. Is("term") /\ "term" \in Work
    BY <1>2 DEF Terminator, Work, Kinds
  <2>2. TypeOK /\ BodiesBalance /\ body > 0 /\ cur \in Here + 1 .. Closing
    BY <2>1, Working
  <2>3. (toks[cur] \in {"nl", "semi"} /\ Parsed(cur + 1, <<>>)) \/ Parsed(cur, <<>>)
    BY <1>2 DEF Terminator, Peeks
  <2>4. CASE toks[cur] \in {"nl", "semi"} /\ Parsed(cur + 1, <<>>)
    <3>1. cur + 1 \in Here + 1 .. Closing /\ Open(Here, cur + 1) = Open(Here, cur)
      BY <2>2, <2>4, OneOn
    <3> QED BY <1>0, <2>1, <2>4, <3>1, ParsedStep
  <2>5. CASE Parsed(cur, <<>>)
    BY <1>0, <2>1, <2>2, <2>5, ParsedStep
  <2> QED BY <2>3, <2>4, <2>5
<1>3. CASE NothingCaught
  <2>1. PICK g \in {"recover", "orblock", "further"} : Is(g)
    BY <1>3 DEF NothingCaught, Catching
  <2>2. Parsed(cur, <<>>)
    BY <1>3 DEF NothingCaught
  <2>3. g \in Work
    BY DEF Work, Kinds
  <2>4. cur \in Here + 1 .. Closing
    BY <2>1, <2>3, Working
  <2> QED BY <1>0, <2>1, <2>2, <2>3, <2>4, ParsedStep
<1>4. CASE Items
  <2> DEFINE more == <<goal("expr"), goal("newlines"), goal("more")>>
  <2>1. Is("items") /\ (Parsed(cur, <<>>) \/ Parsed(cur, more)) /\ "items" \in Work
    BY <1>4 DEF Items, Work, Kinds
  <2>2. more \in Seq(Quiet)
    OBVIOUS
  <2> HIDE DEF more
  <2>3. cur \in Here + 1 .. Closing
    BY <2>1, Working
  <2> QED BY <1>0, <2>1, <2>2, <2>3, ParsedStep
<1>5. CASE MoreItems
  <2> DEFINE more == <<goal("expr"), goal("newlines"), goal("more")>>
             c == NewlinesSkipped(cur + 1)
  <2>1. Is("more") /\ "more" \in Work
    BY <1>5 DEF MoreItems, Work, Kinds
  <2>2. TypeOK /\ BodiesBalance /\ body > 0 /\ cur \in Here + 1 .. Closing
    BY <2>1, Working
  <2>3. (toks[cur] = "comma" /\ Parsed(c, more)) \/ Parsed(cur, <<>>)
    BY <1>5 DEF MoreItems, At
  <2>4. more \in Seq(Quiet)
    OBVIOUS
  <2> HIDE DEF more
  <2>5. CASE toks[cur] = "comma" /\ Parsed(c, more)
    <3>1. cur + 1 \in Here + 1 .. Closing /\ Open(Here, cur + 1) = Open(Here, cur)
      BY <2>2, <2>5, OneOn
    <3>2. c \in Here + 1 .. Closing /\ Open(Here, c) = Open(Here, cur + 1)
      BY <2>2, <3>1, NewlinesOn
    <3> HIDE DEF c
    <3> QED BY <2>1, <2>4, <2>5, <3>1, <3>2, ParsedStep
  <2>6. CASE Parsed(cur, <<>>)
    BY <1>0, <2>1, <2>2, <2>6, ParsedStep
  <2> QED BY <2>3, <2>5, <2>6
<1>6. CASE Values
  <2> DEFINE more == <<goal("stmt"), goal("values")>>
             c == NewlinesSkipped(cur)
  <2>1. Is("values") /\ (Parsed(c, <<>>) \/ Parsed(c, more)) /\ "values" \in Work
    BY <1>6 DEF Values, Work, Kinds
  <2>2. TypeOK /\ BodiesBalance /\ body > 0 /\ cur \in Here + 1 .. Closing
    BY <2>1, Working
  <2>3. more \in Seq(Quiet)
    OBVIOUS
  <2>4. c \in Here + 1 .. Closing /\ Open(Here, c) = Open(Here, cur)
    BY <2>2, NewlinesOn
  <2> HIDE DEF more, c
  <2> QED BY <1>0, <2>1, <2>3, <2>4, ParsedStep
<1> QED BY <1>1, <1>2, <1>3, <1>4, <1>5, <1>6

\* A statement that may fail is followed by the place that catches its error.
LEMMA StatementsKeeps ==
  ASSUME StatementsInv, Statements
  PROVE  StatementsInv'
<1> DEFINE c == NewlinesSkipped(cur)
           more == <<goal("stmt"), mark("recover", c), goal("statements")>>
<1>1. Is("statements") /\ "statements" \in Work
      /\ "statements" \notin {"leave", "end"} /\ "statements" \notin {"block", "params"}
  BY DEF Statements, Work, Kinds
<1>2. /\ TypeOK /\ BodiesBalance /\ body > 0 /\ cur \in Here + 1 .. Closing
      /\ goals[1] # token("close") /\ goals \in Seq(Goal) /\ goals # <<>> /\ depth \in Int
      /\ Open(Here, cur) \in Int /\ Here \in Nat
  BY <1>1, Working
<1>3. c \in Here + 1 .. Closing /\ Open(Here, c) = Open(Here, cur)
  BY <1>2, NewlinesOn
<1>4. Parsed(c, <<>>) \/ (toks[c] # "close" /\ Parsed(c, more))
  BY DEF Statements
<1> HIDE DEF c
<1>5. CASE Parsed(c, <<>>)
  <2>1. <<>> \in Seq(Quiet)
    OBVIOUS
  <2> QED BY <1>1, <1>3, <1>5, <2>1, ParsedStep
<1>6. CASE toks[c] # "close" /\ Parsed(c, more)
  <2>1. c \in Nat
    BY <1>2, <1>3
  <2>2. goal("stmt") \in Goal /\ mark("recover", c) \in Goal /\ goal("statements") \in Goal
    BY <2>1 DEF Goal, Kinds, goal, mark
  <2>3. more \in Seq(Goal) /\ Len(more) = 3
        /\ more[1] = goal("stmt") /\ more[2] = mark("recover", c) /\ more[3] = goal("statements")
    BY <2>2
  <2> HIDE DEF more
  <2>4. \A i \in 1 .. Len(more) : more[i] \notin Leaving /\ more[i] \notin {token("close")}
    <3>1. \A x \in {goal("stmt"), mark("recover", c), goal("statements")} :
             x.g \notin {"leave", "token"}
      BY DEF goal, mark
    <3>2. \A x : x.g \notin {"leave", "token"} => x \notin Leaving /\ x \notin {token("close")}
      BY DEF Leaving, token
    <3>3. \A i \in 1 .. Len(more) : i = 1 \/ i = 2 \/ i = 3
      BY <2>3
    <3> QED BY <2>3, <3>1, <3>2, <3>3
  <2>5. Leaves(more) = 0 /\ Owed(more) = 0
    BY <2>3, <2>4, HowManyNone DEF Leaves, Owed
  <2>6. \A i \in 1 .. Len(more), owed \in Nat :
            more[i].g \notin {"end", "valueblock"} /\ MarkOK(more[i], owed, errors)
    <3> SUFFICES ASSUME NEW i \in 1 .. Len(more), NEW owed \in Nat
                 PROVE  more[i].g \notin {"end", "valueblock"} /\ MarkOK(more[i], owed, errors)
      OBVIOUS
    <3>1. i = 1 \/ i = 2 \/ i = 3
      BY <2>3
    <3>2. mark("recover", c).at \in Here + 1 .. Closing /\ toks[mark("recover", c).at] # "close"
      BY <1>3, <1>6 DEF mark
    <3> QED BY <2>3, <3>1, <3>2 DEF MarkOK, goal, mark
  <2>7. \A i \in 1 .. Len(more) : Owed(Rest(more, i)) + Owed(Rest(goals, 1)) \in Nat
    <3>1. 1 \in 0 .. Len(goals)
      BY <1>2
    <3>2. Owed(Rest(goals, 1)) \in Nat
      BY <1>2, <3>1, RestOwesLess
    <3>3. \A i \in 1 .. Len(more) : Owed(Rest(more, i)) \in Nat
      <4>1. \A i \in 1 .. Len(more) : i \in 0 .. Len(more)
        OBVIOUS
      <4> QED BY <2>3, <4>1, RestOwesLess
    <3> QED BY <3>2, <3>3
  <2>8. Onward(c, more) /\ depth' = depth + Leaves(more)
    BY <1>2, <1>6, <2>5 DEF Parsed
  <2>9. Open(Here, c) = Open(Here, cur) + Owed(more)
    BY <1>2, <1>3, <2>5
  <2> QED BY <1>1, <1>2, <1>3, <2>3, <2>6, <2>7, <2>8, <2>9, OnwardKept
<1> QED BY <1>4, <1>5, <1>6

\* A brace in an expression owes the one that closes it, and is remembered with the
\* number of braces that were owed before it.
LEMMA ExprKeeps ==
  ASSUME StatementsInv, Expr
  PROVE  StatementsInv'
<1> DEFINE more == <<goal("newlines"), goal("items"), token("close"), mark("orblock", cur)>>
<1>1. Is("expr") /\ "expr" \in Work
      /\ "expr" \notin {"leave", "end"} /\ "expr" \notin {"block", "params"}
  BY DEF Expr, Work, Kinds
<1>2. /\ TypeOK /\ BodiesBalance /\ body > 0 /\ cur \in Here + 1 .. Closing /\ cur \in Nat
      /\ goals[1] # token("close") /\ goals \in Seq(Goal) /\ goals # <<>> /\ depth \in Int
      /\ Open(Here, cur) \in Int /\ Here \in Nat
  BY <1>1, Working
<1>3. \/ toks[cur] = "x" /\ Parsed(cur + 1, <<>>)
      \/ toks[cur] = "open" /\ Parsed(cur + 1, more)
      \/ Fails(cur)
  BY DEF Expr, At
<1>4. CASE toks[cur] = "x" /\ Parsed(cur + 1, <<>>)
  <2>1. <<>> \in Seq(Quiet)
    OBVIOUS
  <2>2. cur + 1 \in Here + 1 .. Closing /\ Open(Here, cur + 1) = Open(Here, cur)
    BY <1>2, <1>4, OneOn
  <2> QED BY <1>1, <1>4, <2>1, <2>2, ParsedStep
<1>5. CASE Fails(cur)
  BY <1>1, <1>2, <1>5, FailsStep
<1>6. CASE toks[cur] = "open" /\ Parsed(cur + 1, more)
  <2>1. /\ goal("newlines") \in Goal /\ goal("items") \in Goal /\ token("close") \in Goal
        /\ mark("orblock", cur) \in Goal
    BY <1>2 DEF Goal, Kinds, goal, mark, token
  <2>2. more \in Seq(Goal) /\ Len(more) = 4
        /\ more[1] = goal("newlines") /\ more[2] = goal("items") /\ more[3] = token("close")
        /\ more[4] = mark("orblock", cur)
    BY <2>1
  <2> HIDE DEF more
  <2>3. \A i \in 1 .. Len(more) : i = 1 \/ i = 2 \/ i = 3 \/ i = 4
    BY <2>2
  <2>4. \A x \in {goal("newlines"), goal("items"), mark("orblock", cur)} :
           x \notin Leaving /\ x \notin {token("close")}
    BY DEF Leaving, goal, mark, token
  <2>5. Leaves(more) = 0
    <3>1. token("close") \notin Leaving
      BY QuietGoals
    <3>2. \A i \in 1 .. Len(more) : more[i] \notin Leaving
      BY <2>2, <2>3, <2>4, <3>1
    <3> QED BY <2>2, <3>2, HowManyNone DEF Leaves
  <2>6. Owed(more) = 1
    <3>1. 3 \in 1 .. Len(more) /\ more[3] \in {token("close")}
      BY <2>2
    <3>2. \A i \in 1 .. Len(more) : i # 3 => more[i] \notin {token("close")}
      BY <2>2, <2>3, <2>4
    <3> QED BY <2>2, <3>1, <3>2, HowManyOne DEF Owed
  <2>7. cur + 1 \in Here + 1 .. Closing /\ Open(Here, cur + 1) = Open(Here, cur) + Owed(more)
    BY <1>2, <1>6, <2>6, OneOn
  <2>8. Onward(cur + 1, more) /\ depth' = depth + Leaves(more)
    BY <1>2, <1>6, <2>5 DEF Parsed
  <2>9. Owed(Rest(more, 4)) + Owed(Rest(goals, 1)) = Owed(goals)
    <3>1. 4 \in 0 .. Len(more) /\ 1 \in 0 .. Len(goals)
      BY <1>2, <2>2
    <3>2. Rest(more, 4) \in Seq(Goal) /\ Len(Rest(more, 4)) = 0
      <4>1. Rest(more, 4) \in Seq(Goal) /\ Len(Rest(more, 4)) = Len(more) - 4
        BY <2>2, <3>1, RestFacts
      <4> QED BY <2>2, <4>1
    <3>3. Owed(Rest(more, 4)) = 0
      <4>1. \A j \in 1 .. Len(Rest(more, 4)) : Rest(more, 4)[j] \notin {token("close")}
        BY <3>2
      <4> QED BY <3>2, <4>1, HowManyNone DEF Owed
    <3>4. Owed(Rest(goals, 1)) \in Nat
      BY <1>2, <3>1, RestOwesLess
    <3>5. HowMany(goals, {token("close")}) = HowMany(Rest(goals, 1), {token("close")}) + 0
      BY <1>2, HowManyBehind
    <3>6. Owed(goals) = Owed(Rest(goals, 1))
      BY <3>4, <3>5 DEF Owed
    <3> QED BY <3>3, <3>4, <3>6
  <2>10. Owed(goals) <= Open(Here, cur) /\ (body \in errors \/ Owed(goals) = Open(Here, cur))
    BY <1>1, WorkInside
  <2>11. \A i \in 1 .. Len(more) :
             /\ more[i].g \notin {"end", "valueblock"}
             /\ MarkOK(more[i], Owed(Rest(more, i)) + Owed(Rest(goals, 1)), errors)
    <3> SUFFICES ASSUME NEW i \in 1 .. Len(more)
                 PROVE  /\ more[i].g \notin {"end", "valueblock"}
                        /\ MarkOK(more[i], Owed(Rest(more, i)) + Owed(Rest(goals, 1)), errors)
      OBVIOUS
    <3>1. CASE i = 4
      <4>1. MarkOK(mark("orblock", cur), Owed(goals), errors)
        BY <1>2, <1>6, <2>10 DEF MarkOK, mark
      <4>2. mark("orblock", cur).g \notin {"end", "valueblock"}
        BY DEF mark
      <4> QED BY <2>2, <2>9, <3>1, <4>1, <4>2
    <3>2. CASE i # 4
      <4>1. more[i].g \in {"newlines", "items", "token"}
        BY <2>2, <2>3, <3>2 DEF goal, token
      <4> QED BY <4>1 DEF MarkOK
    <3> QED BY <3>1, <3>2
  <2> QED BY <1>1, <1>2, <2>2, <2>7, <2>8, <2>11, OnwardKept
<1> QED BY <1>3, <1>4, <1>5, <1>6

LEMMA OpenValueBlockKeeps ==
  ASSUME StatementsInv, OpenValueBlock
  PROVE  StatementsInv'
<1>1. Is("valueblock") /\ Scoped(cur + 1, ValueBlock) /\ "valueblock" \in Work
      /\ "valueblock" \notin {"leave", "end"} /\ "valueblock" \notin {"block", "params"}
  BY DEF OpenValueBlock, Work, Kinds
<1>2. /\ TypeOK /\ BodiesBalance /\ body > 0 /\ cur \in Here + 1 .. Closing
      /\ goals \in Seq(Goal) /\ goals # <<>> /\ Top = goals[1]
  BY <1>1, Working
<1>3. ValueBlock \in Seq(Unmarked) /\ Leaves(ValueBlock) = 1 /\ Owed(ValueBlock) = 1
  BY BlockCounts DEF ValueBlock
<1>4. toks[cur] = "open"
  <2>1. Inside(cur, goals, failing, errors)
    BY <1>1, WorkInside
  <2>2. 1 \in 1 .. Len(goals) /\ goals[1].g = "valueblock"
    BY <1>1, <1>2 DEF Is
  <2> QED BY <2>1, <2>2 DEF Inside
<1>5. cur + 1 \in Here + 1 .. Closing /\ Open(Here, cur + 1) = Open(Here, cur) + Owed(ValueBlock)
  BY <1>2, <1>3, <1>4, OneOn
<1> QED BY <1>1, <1>3, <1>5, ScopedStep

-----------------------------------------------------------------------------
(* Every step keeps the invariant: where a body begins and ends. *)

LEMMA BodyKept ==
  ASSUME StatementsInv, goals # <<>>,
         UNCHANGED <<toks, phase, pending, body, errors, stops>>,
         goals' \in Seq(Goal), goals' # <<>>, failing' \in BOOLEAN,
         depth' = 1 + Leaves(goals'),
         \/ AtHead(cur', goals', failing')
         \/ Inside(cur', goals', failing', errors)
         \/ AtTail(cur', goals', failing', errors)
  PROVE  StatementsInv'
<1>1. TypeOK /\ BodiesBalance /\ body > 0 /\ phase = "bodies" /\ Len(stops) = body - 1
  BY DEF StatementsInv, Within
<1>2. /\ Here \in Nat /\ Here \in 1 .. Len(toks) /\ Len(toks) \in Nat
      /\ Closing \in Here + 1 .. Len(toks) - 1
  BY <1>1, InBody
<1>3. cur' \in 1 .. Len(toks)
  <2>1. cur' = Here \/ cur' \in Here + 1 .. Closing \/ cur' \in Here + 1 .. Closing + 1
    BY DEF AtHead, Inside, AtTail
  <2> QED BY <1>2, <2>1
<1>4. TypeOK'
  <2>1. Leaves(goals') \in Nat
    BY HowManyType DEF Leaves
  <2>2. depth' \in Int
    BY <2>1
  <2> QED BY <1>1, <1>3, <2>2 DEF TypeOK
<1>5. /\ Here' = Here /\ Closing' = Closing
      /\ \A s, n : Open(s, n)' = Open(s, n)
      /\ \A s : Balance(s)' = Balance(s)
  BY SameBody
<1>6. BodiesBalance'
  BY <1>1, <1>5 DEF BodiesBalance
<1>7. \/ AtHead(cur, goals, failing)'
      \/ Inside(cur, goals, failing, errors)'
      \/ AtTail(cur, goals, failing, errors)'
  BY <1>5 DEF AtHead, Inside, AtTail, MarkOK
<1>8. Within'
  BY <1>1, <1>7 DEF Within
<1>9. Between'
  BY DEF Between
<1>10. ReadToTheEnd'
  BY <1>5 DEF ReadToTheEnd, BodyEnd, StatementsInv
<1> QED BY <1>4, <1>6, <1>8, <1>9, <1>10 DEF StatementsInv

LEMMA EndGoals ==
  /\ goal("params") \in Goal /\ goal("block") \in Goal /\ goal("leave") \in Goal
  /\ goal("end") \in Goal /\ token("close") \in Goal /\ goal("statements") \in Goal
BY DEF Goal, Kinds, goal, token

LEMMA EndCounts ==
  /\ Leaves(<<goal("end")>>) = 0
  /\ Leaves(<<goal("leave"), goal("end")>>) = 1
  /\ Leaves(<<goal("block"), goal("leave"), goal("end")>>) = 1
  /\ Leaves(<<goal("params"), goal("block"), goal("leave"), goal("end")>>) = 1
  /\ Leaves(<<token("close"), goal("leave"), goal("end")>>) = 1
<1>1. /\ goal("params") \notin Leaving /\ goal("block") \notin Leaving
      /\ goal("end") \notin Leaving /\ token("close") \notin Leaving
      /\ goal("leave") \in Leaving
  BY EndGoals DEF Leaving, goal, token
<1>2. Leaves(<<goal("end")>>) = 0
  <2> DEFINE q == <<goal("end")>>
  <2>1. q \in Seq(Goal) /\ \A j \in 1 .. Len(q) : q[j] \notin Leaving
    BY <1>1, EndGoals
  <2> HIDE DEF q
  <2>2. Leaves(q) = 0
    BY <2>1, HowManyNone DEF Leaves
  <2> QED BY <2>2 DEF q
<1>3. Leaves(<<goal("leave"), goal("end")>>) = 1
  <2> DEFINE q == <<goal("leave"), goal("end")>>
  <2>1. /\ q \in Seq(Goal) /\ 1 \in 1 .. Len(q) /\ q[1] \in Leaving
        /\ \A j \in 1 .. Len(q) : j # 1 => q[j] \notin Leaving
    BY <1>1, EndGoals
  <2> HIDE DEF q
  <2>2. Leaves(q) = 1
    BY <2>1, HowManyOne DEF Leaves
  <2> QED BY <2>2 DEF q
<1>4. ASSUME NEW x \in Goal, x \notin Leaving
      PROVE  Leaves(<<x, goal("leave"), goal("end")>>) = 1
  <2> DEFINE q == <<x, goal("leave"), goal("end")>>
  <2>1. /\ q \in Seq(Goal) /\ 2 \in 1 .. Len(q) /\ q[2] \in Leaving
        /\ \A j \in 1 .. Len(q) : j # 2 => q[j] \notin Leaving
    BY <1>1, <1>4, EndGoals
  <2> HIDE DEF q
  <2>2. Leaves(q) = 1
    BY <2>1, HowManyOne DEF Leaves
  <2> QED BY <2>2 DEF q
<1>5. Leaves(<<goal("params"), goal("block"), goal("leave"), goal("end")>>) = 1
  <2> DEFINE q == <<goal("params"), goal("block"), goal("leave"), goal("end")>>
  <2>1. /\ q \in Seq(Goal) /\ 3 \in 1 .. Len(q) /\ q[3] \in Leaving
        /\ \A j \in 1 .. Len(q) : j # 3 => q[j] \notin Leaving
    BY <1>1, EndGoals
  <2> HIDE DEF q
  <2>2. Leaves(q) = 1
    BY <2>1, HowManyOne DEF Leaves
  <2> QED BY <2>2 DEF q
<1> QED BY <1>1, <1>2, <1>3, <1>4, <1>5, EndGoals

\* Inside the braces of a body, before anything of it is parsed.
LEMMA Entered ==
  ASSUME TypeOK, BodiesBalance, body > 0, NEW f \in BOOLEAN, NEW q \in Seq(Goal), Len(q) = 5,
         q[1] = goal("statements"), q[2] = goal("leave"), q[3] = token("close"),
         q[4] = goal("leave"), q[5] = goal("end")
  PROVE  Leaves(q) = 2 /\ Inside(Here + 1, q, f, errors)
<1>1. /\ q \in Seq(Goal) /\ Len(q) = 5
      /\ q[1] = goal("statements") /\ q[2] = goal("leave") /\ q[3] = token("close")
      /\ q[4] = goal("leave") /\ q[5] = goal("end")
  OBVIOUS
<1>2. \A i \in 1 .. Len(q) : i = 1 \/ i = 2 \/ i = 3 \/ i = 4 \/ i = 5
  BY <1>1
<1>3. /\ goal("leave") \in Leaving /\ goal("statements") \notin Leaving
      /\ token("close") \notin Leaving /\ goal("end") \notin Leaving
      /\ goal("leave") # token("close") /\ goal("statements") # token("close")
      /\ goal("end") # token("close")
  BY EndGoals DEF Leaving, goal, token
<1>4. Owed(q) = 1
  <2>1. 3 \in 1 .. Len(q) /\ q[3] \in {token("close")}
    BY <1>1
  <2>2. \A i \in 1 .. Len(q) : i # 3 => q[i] \notin {token("close")}
    BY <1>1, <1>2, <1>3
  <2> QED BY <1>1, <2>1, <2>2, HowManyOne DEF Owed
<1>5. Leaves(q) = 2
  <2>1. {j \in 1 .. Len(q) : q[j] \in Leaving} = {2, 4}
    BY <1>1, <1>2, <1>3
  <2>2. Cardinality({2, 4}) = 2
    <3> DEFINE S == {2}
               T == {2, 4}
    <3>1. IsFiniteSet(S) /\ Cardinality(S) = 1
      BY FS_Singleton
    <3>2. 4 \notin S /\ T = S \cup {4}
      OBVIOUS
    <3> HIDE DEF S, T
    <3>3. Cardinality(S \cup {4}) = Cardinality(S) + 1
      BY <3>1, <3>2, FS_AddElement
    <3>4. Cardinality(T) = 2
      BY <3>1, <3>2, <3>3
    <3> QED BY <3>4 DEF T
  <2> QED BY <2>1, <2>2 DEF Leaves, HowMany
<1>6. /\ Here \in Nat /\ Closing \in Here + 1 .. Len(toks) - 1 /\ toks[Here] = "open"
      /\ Len(toks) \in Nat
  BY InBody
<1>7. Open(Here, Here + 1) = 1
  <2>1. Open(Here, Here) = 0 /\ Open(Here, Here + 1) = Open(Here, Here) + 1
    BY <1>6, OpenFresh, OpenNext
  <2> QED BY <2>1
<1>8. EndsInBody(q)
  <2>1. Len(q) - 2 = 3 /\ Len(q) - 1 = 4
    BY <1>1
  <2>2. \A i \in 1 .. Len(q) - 1 : q[i].g # "end"
    <3>1. \A i \in 1 .. Len(q) - 1 : i = 1 \/ i = 2 \/ i = 3 \/ i = 4
      BY <1>1
    <3> QED BY <1>1, <3>1 DEF goal, token
  <2> QED BY <1>1, <2>1, <2>2 DEF EndsInBody
<1>9. \A i \in 1 .. Len(q) : q[i].g \in {"statements", "leave", "token", "end"}
  BY <1>1, <1>2 DEF goal, token
<1>10. Here + 1 \in Here + 1 .. Closing
  BY <1>6
<1>11. \A i \in 1 .. Len(q) : MarkOK(q[i], Owed(Rest(q, i)), errors) /\ q[i].g # "valueblock"
  BY <1>9 DEF MarkOK
<1>12. Inside(Here + 1, q, f, errors)
  <2> HIDE DEF Here, Closing
  <2> QED BY <1>4, <1>7, <1>8, <1>10, <1>11 DEF Inside
<1> QED BY <1>1, <1>5, <1>12

LEMMA BlockKeeps ==
  ASSUME StatementsInv, Block
  PROVE  StatementsInv'
<1> DEFINE more == <<goal("statements"), goal("leave"), token("close")>>
<1>1. /\ Is("block") /\ "block" \notin {"leave", "end"}
      /\ (toks[cur] = "open" /\ Scoped(cur + 1, more)) \/ (toks[cur] # "open" /\ Fails(cur))
  BY DEF Block, At
<1>2. TypeOK /\ BodiesBalance /\ body > 0 /\ goals \in Seq(Goal) /\ goals # <<>> /\ ~failing
      /\ goals[1].g = "block" /\ depth = 1 + Leaves(goals)
  BY <1>1 DEF StatementsInv, Within, Is, TypeOK, Top
<1>3. CASE Inside(cur, goals, failing, errors)
  <2>1. cur \in Here + 1 .. Closing /\ Open(Here, cur) \in Int
    BY <1>1, <1>3, WorkInside
  <2>2. goals[1] # token("close")
    BY <1>2 DEF token
  <2>3. CASE toks[cur] = "open" /\ Scoped(cur + 1, more)
    <3>1. more \in Seq(Unmarked) /\ Leaves(more) = 1 /\ Owed(more) = 1
      BY BlockCounts
    <3> HIDE DEF more
    <3>2. cur + 1 \in Here + 1 .. Closing /\ Open(Here, cur + 1) = Open(Here, cur) + Owed(more)
      BY <1>2, <2>1, <2>3, <3>1, OneOn
    <3>3. Onward(cur + 1, more) /\ depth' = depth + Leaves(more)
      BY <2>3, <3>1 DEF Scoped
    <3> QED BY <1>1, <1>3, <2>2, <3>1, <3>2, <3>3, UnmarkedKept
  <2>4. CASE Fails(cur)
    BY <1>1, <1>3, <2>1, <2>2, <2>4, FailsKept
  <2> QED BY <1>1, <2>3, <2>4
<1>4. CASE AtHead(cur, goals, failing)
  <2>1. cur = Here /\ goals = <<goal("block"), goal("leave"), goal("end")>>
    BY <1>2, <1>4 DEF AtHead, goal
  <2>2. toks[cur] = "open" /\ Scoped(cur + 1, more)
    BY <1>1, <1>2, <2>1, InBody
  <2> DEFINE q == <<goal("statements"), goal("leave"), token("close"), goal("leave"), goal("end")>>
  <2>3. goals' = q /\ cur' = Here + 1
        /\ UNCHANGED <<toks, phase, pending, body, failing, errors, stops>>
    <3>1. more \o Tail(goals) = q
      <4> DEFINE rest == <<goal("leave"), goal("end")>>
      <4>1. Tail(goals) = rest
        BY <2>1
      <4>2. more \o rest = q
        <5>1. more \in Seq(Goal) /\ rest \in Seq(Goal) /\ Len(more) = 3 /\ Len(rest) = 2
          BY EndGoals
        <5>2. \A i \in 1 .. 5 : q[i] = IF i <= 3 THEN more[i] ELSE rest[i - 3]
          <6> SUFFICES ASSUME NEW i \in 1 .. 5
                       PROVE  q[i] = IF i <= 3 THEN more[i] ELSE rest[i - 3]
            OBVIOUS
          <6>1. i = 1 \/ i = 2 \/ i = 3 \/ i = 4 \/ i = 5
            OBVIOUS
          <6> QED BY <6>1
        <5>3. q \in Seq(Goal) /\ Len(q) = 5
          BY EndGoals
        <5> HIDE DEF more, rest, q
        <5> DEFINE both == more \o rest
        <5>4. /\ both \in Seq(Goal) /\ Len(both) = Len(more) + Len(rest)
              /\ \A i \in 1 .. Len(more) + Len(rest) :
                    both[i] = IF i <= Len(more) THEN more[i] ELSE rest[i - Len(more)]
          BY <5>1, ConcatProperties
        <5> HIDE DEF both
        <5>5. Len(both) = 5 /\ \A i \in 1 .. 5 : both[i] = q[i]
          BY <5>1, <5>2, <5>4
        <5>6. both = q
          BY <5>3, <5>4, <5>5, SeqEqual
        <5> QED BY <5>6 DEF both
      <4> QED BY <4>1, <4>2
    <3>2. /\ goals' = more \o Tail(goals) /\ cur' = cur + 1
          /\ UNCHANGED <<toks, phase, pending, body, failing, errors, stops>>
      BY <2>2 DEF Scoped, Onward
    <3> HIDE DEF q, more
    <3> QED BY <2>1, <3>1, <3>2
  <2>7. /\ q \in Seq(Goal) /\ q # <<>> /\ Len(q) = 5
        /\ q[1] = goal("statements") /\ q[2] = goal("leave") /\ q[3] = token("close")
        /\ q[4] = goal("leave") /\ q[5] = goal("end")
    BY EndGoals
  <2> HIDE DEF q
  <2>8. failing \in BOOLEAN
    BY <1>2 DEF TypeOK
  <2>4. q \in Seq(Goal) /\ q # <<>> /\ Leaves(q) = 2 /\ Inside(Here + 1, q, failing, errors)
    BY <1>2, <2>7, <2>8, Entered
  <2>5. depth' = 1 + Leaves(q)
    <3>1. depth = 2
      BY <1>2, <2>1, EndCounts
    <3>2. depth' = depth + 1
      BY <2>2 DEF Scoped
    <3> QED BY <2>4, <3>1, <3>2
  <2>6. failing' \in BOOLEAN
    BY <2>3, <2>8
  <2> QED BY <1>2, <2>3, <2>4, <2>5, <2>6, BodyKept
<1>5. ~AtTail(cur, goals, failing, errors)
  BY <1>2 DEF AtTail, goal
<1> QED BY <1>2, <1>3, <1>4, <1>5 DEF StatementsInv, Within

LEMMA ParamsKeep ==
  ASSUME StatementsInv, Params
  PROVE  StatementsInv'
<1>1. /\ Is("params") /\ "params" \notin {"leave", "end"}
      /\ Parsed(cur, <<>>) \/ Fails(cur)
  BY DEF Params
<1>2. TypeOK /\ BodiesBalance /\ body > 0 /\ goals \in Seq(Goal) /\ goals # <<>> /\ ~failing
      /\ goals[1].g = "params" /\ depth = 1 + Leaves(goals)
  BY <1>1 DEF StatementsInv, Within, Is, TypeOK, Top
<1>3. CASE AtHead(cur, goals, failing)
  <2> DEFINE q == <<goal("block"), goal("leave"), goal("end")>>
  <2>1. cur = Here /\ goals = <<goal("params"), goal("block"), goal("leave"), goal("end")>>
    BY <1>2, <1>3 DEF AtHead, goal
  <2>2. Tail(goals) = q /\ <<>> \o Tail(goals) = q /\ q \in Seq(Goal) /\ q # <<>>
    BY <2>1, EndGoals
  <2>3. /\ goals' = q /\ cur' = Here /\ depth' = depth /\ failing' \in BOOLEAN
        /\ UNCHANGED <<toks, phase, pending, body, errors, stops>>
    <3>1. failing \in BOOLEAN
      BY <1>2 DEF TypeOK
    <3>2. CASE Parsed(cur, <<>>)
      <4>1. /\ goals' = <<>> \o Tail(goals) /\ cur' = cur
            /\ UNCHANGED <<toks, phase, pending, body, failing, depth, errors, stops>>
        BY <3>2 DEF Parsed, Onward
      <4> HIDE DEF q
      <4> QED BY <2>1, <2>2, <3>1, <4>1
    <3>3. CASE Fails(cur)
      <4>1. /\ goals' = Tail(goals) /\ cur' = cur /\ failing' = TRUE
            /\ UNCHANGED <<toks, phase, pending, body, depth, errors, stops>>
        BY <3>3 DEF Fails
      <4> HIDE DEF q
      <4> QED BY <2>1, <2>2, <4>1
    <3> QED BY <1>1, <3>2, <3>3
  <2>4. Leaves(goals) = Leaves(q)
    BY <2>1, EndCounts
  <2>5. AtHead(cur', goals', failing')
    BY <2>3 DEF AtHead
  <2> HIDE DEF q
  <2> QED BY <1>2, <2>2, <2>3, <2>4, <2>5, BodyKept
\* It never stands further in, where it would owe nothing either.
<1>4. CASE Inside(cur, goals, failing, errors)
  <2>1. cur \in Here + 1 .. Closing /\ goals[1] # token("close")
    BY <1>2, <1>4 DEF Inside, token
  <2>2. <<>> \in Seq(Quiet)
    OBVIOUS
  <2> QED BY <1>1, <1>4, <2>1, <2>2, QuietKept, FailsKept
<1>5. ~AtTail(cur, goals, failing, errors)
  BY <1>2 DEF AtTail, goal
<1> QED BY <1>2, <1>3, <1>4, <1>5 DEF StatementsInv, Within

\* What is left when the goal for a brace or for a scope is dropped.
LEMMA FirstDropped ==
  ASSUME NEW q \in Seq(Goal), q # <<>>
  PROVE  LET r == Rest(q, 1)
         IN  /\ r = Tail(q) /\ r \in Seq(Goal) /\ Len(r) = Len(q) - 1
             /\ Leaves(r) \in Nat /\ Owed(r) \in Nat
             /\ q[1] = token("close") => Owed(q) = Owed(r) + 1 /\ Leaves(q) = Leaves(r)
             /\ q[1].g = "leave" => Owed(q) = Owed(r) /\ Leaves(q) = Leaves(r) + 1
<1> DEFINE r == Rest(q, 1)
           C == {token("close")}
<1>1. 1 \in 0 .. Len(q) /\ q[1] \in Goal
  OBVIOUS
<1>2. r \in Seq(Goal) /\ Len(r) = Len(q) - 1
  BY <1>1, RestFacts
<1>3. r = Tail(q)
  BY HowManyBehind
<1> HIDE DEF r
<1>4. Leaves(r) \in Nat /\ Owed(r) \in Nat
  BY <1>2, HowManyType DEF Leaves, Owed
<1>5. /\ HowMany(q, Leaving) = HowMany(r, Leaving) + (IF q[1] \in Leaving THEN 1 ELSE 0)
      /\ HowMany(q, C) = HowMany(r, C) + (IF q[1] \in C THEN 1 ELSE 0)
  <2> HIDE DEF C
  <2> QED BY <1>3, HowManyBehind
<1> DEFINE lq == Leaves(q)
           lr == Leaves(r)
           oq == Owed(q)
           or == Owed(r)
<1>6. /\ lq = lr + (IF q[1] \in Leaving THEN 1 ELSE 0)
      /\ oq = or + (IF q[1] \in C THEN 1 ELSE 0)
      /\ lr \in Nat /\ or \in Nat
  BY <1>4, <1>5 DEF Leaves, Owed
<1> HIDE DEF lq, lr, oq, or
<1>7. ASSUME q[1] = token("close") PROVE oq = or + 1 /\ lq = lr
  <2>1. q[1] \in C /\ q[1] \notin Leaving
    BY <1>7, QuietGoals
  <2>2. lq = lr + 0 /\ oq = or + 1
    BY <1>6, <2>1
  <2> QED BY <1>6, <2>2
<1>8. ASSUME q[1].g = "leave" PROVE oq = or /\ lq = lr + 1
  <2>1. q[1] \notin C /\ q[1] \in Leaving
    BY <1>1, <1>8 DEF Leaving, token
  <2>2. lq = lr + 1 /\ oq = or + 0
    BY <1>6, <2>1
  <2> QED BY <1>6, <2>2
<1> QED BY <1>2, <1>3, <1>4, <1>7, <1>8 DEF r, lq, lr, oq, or

\* Dropping the first goal inside a body, when it is not the brace that closes it.
LEMMA DropKept ==
  ASSUME StatementsInv, goals # <<>>, Inside(cur, goals, failing, errors), ~failing,
         Len(goals) # 3,
         UNCHANGED <<toks, phase, pending, body, errors, stops>>,
         goals' = <<>> \o Tail(goals) \/ goals' = Tail(goals), failing' \in BOOLEAN,
         cur' \in Here + 1 .. Closing,
         depth' = 1 + Leaves(Rest(goals, 1)),
         Owed(Rest(goals, 1)) <= Open(Here, cur'),
         body \in errors \/ failing' \/ Owed(Rest(goals, 1)) = Open(Here, cur')
  PROVE  StatementsInv'
<1> DEFINE more == <<>>
           r == Rest(goals, 1)
<1>1. goals \in Seq(Goal) /\ Len(goals) >= 3
  BY DEF StatementsInv, TypeOK, Inside, EndsInBody
<1>2. 1 \in 1 .. Len(goals) - 3
  <2> DEFINE n == Len(goals)
  <2>1. n \in Nat /\ n >= 3 /\ n # 3
    BY <1>1
  <2> HIDE DEF n
  <2>2. 1 \in 1 .. n - 3
    BY <2>1
  <2> QED BY <2>2 DEF n
<1>3. r = Tail(goals) /\ r \in Seq(Goal) /\ Leaves(r) \in Nat /\ Owed(r) \in Nat
  BY <1>1, FirstDropped
<1>4. goals' = more \o r
  <2>1. goals' = r \/ goals' = more \o r
    BY <1>3
  <2>2. more \o r = r
    <3> HIDE DEF r
    <3> QED BY <1>3
  <2> QED BY <2>1, <2>2
<1>5. more \in Seq(Goal) /\ Leaves(more) = 0 /\ Owed(more) = 0 /\ Len(more) = 0
  <2>1. more \in Seq(Quiet) /\ Len(more) = 0
    OBVIOUS
  <2> HIDE DEF more
  <2> QED BY <2>1, QuietCounts
<1> HIDE DEF more
<1>6. /\ depth' = 1 + Leaves(more) + Leaves(r)
      /\ Owed(more) + Owed(r) <= Open(Here, cur')
      /\ body \in errors' \/ failing' \/ Owed(more) + Owed(r) = Open(Here, cur')
  BY <1>3, <1>5
<1>7. \A i \in 1 .. Len(more) :
             /\ more[i].g # "end"
             /\ MarkOK(more[i], Owed(Rest(more, i)) + Owed(Rest(goals, 1)), errors')
             /\ more[i].g = "valueblock" => i = 1 /\ ~failing' /\ toks[cur'] = "open"
  BY <1>5
<1> QED BY <1>1, <1>2, <1>4, <1>5, <1>6, <1>7, ContinueKept

\* The last goal for a brace is the one of the body's own.
LEMMA EndReached ==
  ASSUME NEW q \in Seq(Goal), EndsInBody(q), Len(q) = 3
  PROVE  /\ q = <<token("close"), goal("leave"), goal("end")>>
         /\ Tail(q) = <<goal("leave"), goal("end")>>
         /\ Owed(q) = 1
<1>1. q[1] = token("close") /\ q[2] = goal("leave") /\ q[3] = goal("end")
  <2>1. 3 - 2 = 1 /\ 3 - 1 = 2
    OBVIOUS
  <2> QED BY <2>1 DEF EndsInBody
<1>2. q = <<token("close"), goal("leave"), goal("end")>>
  <2> DEFINE e == <<token("close"), goal("leave"), goal("end")>>
  <2>1. e \in Seq(Goal) /\ Len(e) = 3
        /\ e[1] = token("close") /\ e[2] = goal("leave") /\ e[3] = goal("end")
    BY EndGoals
  <2> HIDE DEF e
  <2>2. \A i \in 1 .. Len(q) : q[i] = e[i]
    <3>1. \A i \in 1 .. Len(q) : i = 1 \/ i = 2 \/ i = 3
      OBVIOUS
    <3> QED BY <1>1, <2>1, <3>1
  <2>3. q = e
    BY <2>1, <2>2, SeqEqual
  <2> QED BY <2>3 DEF e
<1>3. Owed(q) = 1
  <2>1. 1 \in 1 .. Len(q) /\ q[1] \in {token("close")}
    BY <1>1
  <2>2. \A i \in 1 .. Len(q) : i # 1 => q[i] \notin {token("close")}
    <3>1. \A i \in 1 .. Len(q) : i = 1 \/ i = 2 \/ i = 3
      OBVIOUS
    <3> QED BY <1>1, <3>1 DEF goal, token
  <2> QED BY <2>1, <2>2, HowManyOne DEF Owed
<1> QED BY <1>2, <1>3

\* A closing brace is read only where one is owed: the body's own is owed to the last.
LEMMA ExpectKeeps ==
  ASSUME StatementsInv, Expect
  PROVE  StatementsInv'
<1>1. Is("token") /\ "token" \notin {"leave", "end"} /\ "token" \notin {"block", "params"}
  BY DEF Expect
<1>2. /\ TypeOK /\ BodiesBalance /\ body > 0 /\ goals \in Seq(Goal)
      /\ Inside(cur, goals, failing, errors) /\ ~failing
      /\ cur \in Here + 1 .. Closing /\ cur \in Nat
      /\ Open(Here, cur) \in Int /\ Owed(goals) \in Nat
      /\ Owed(goals) <= Open(Here, cur)
      /\ body \in errors \/ Owed(goals) = Open(Here, cur)
      /\ Top = goals[1]
  BY <1>1, WorkInside
<1>3. goals # <<>> /\ goals[1].g = "token" /\ goals[1] \in Goal /\ depth = 1 + Leaves(goals)
  BY <1>1, <1>2 DEF Is, StatementsInv, Within
<1>4. goals[1] = token("semi") \/ goals[1] = token("close")
  BY <1>3 DEF Goal
<1>5. \/ toks[cur] = goals[1].t /\ Parsed(cur + 1, <<>>)
      \/ toks[cur] # goals[1].t /\ Fails(cur)
  BY <1>2 DEF Expect, At
<1>6. CASE goals[1] = token("semi")
  <2>1. goals[1] # token("close") /\ goals[1].t = "semi"
    BY <1>6 DEF token
  <2>2. <<>> \in Seq(Quiet)
    OBVIOUS
  <2>3. CASE toks[cur] = "semi" /\ Parsed(cur + 1, <<>>)
    <3>1. cur + 1 \in Here + 1 .. Closing /\ Open(Here, cur + 1) = Open(Here, cur)
      BY <1>2, <2>3, OneOn
    <3> QED BY <1>1, <1>2, <2>1, <2>2, <2>3, <3>1, QuietKept
  <2>4. CASE Fails(cur)
    BY <1>1, <1>2, <2>1, <2>4, FailsKept
  <2> QED BY <1>5, <2>1, <2>3, <2>4
<1>7. CASE goals[1] = token("close")
  <2> DEFINE r == Rest(goals, 1)
  <2>1. goals[1].t = "close"
    BY <1>7 DEF token
  <2>2. /\ r = Tail(goals) /\ r \in Seq(Goal) /\ Len(r) = Len(goals) - 1
        /\ Leaves(r) \in Nat /\ Owed(r) \in Nat
        /\ Owed(goals) = Owed(r) + 1 /\ Leaves(goals) = Leaves(r)
    BY <1>2, <1>3, <1>7, FirstDropped
  <2>3. failing \in BOOLEAN
    BY <1>2 DEF TypeOK
  <2>4. /\ Here \in Nat /\ Closing \in Nat /\ Open(Here, Closing + 1) = 0
        /\ \A c \in Here + 1 .. Closing : Open(Here, c) >= 1 /\ Open(Here, c) \in Int
    BY <1>2, InBody
  <2>5. ASSUME toks[cur] = "close"
        PROVE  Open(Here, cur + 1) = Open(Here, cur) - 1
    <3>1. Here <= cur
      BY <1>2, <2>4
    <3> QED BY <1>2, <2>4, <2>5, <3>1, OpenNext
  <2>6. EndsInBody(goals) /\ Len(goals) \in Nat /\ Len(goals) >= 3
    BY <1>2 DEF Inside, EndsInBody
  <2>7. CASE Len(goals) # 3
    <3>1. Owed(r) >= 1
      <4> DEFINE n == Len(goals)
                 i == n - 3
      <4>1. n \in Nat /\ n >= 3 /\ n # 3 /\ Len(r) = n - 1
        BY <2>2, <2>6, <2>7
      <4>2. goals[n - 2] = token("close")
        BY <2>6 DEF EndsInBody
      <4>3. \A j \in 1 .. n - 1 : r[j] = goals[1 + j]
        <5>1. 1 \in 0 .. Len(goals)
          BY <2>6
        <5> QED BY <1>2, <5>1, RestFacts
      <4> HIDE DEF n, r
      <4>4. i \in 1 .. n - 1 /\ 1 + i = n - 2 /\ i \in 1 .. Len(r) /\ i - 1 \in 0 .. Len(r)
            /\ i \in 0 .. Len(r) /\ (i - 1) + 1 = i
        BY <4>1
      <4>5. r[i] = token("close")
        BY <4>2, <4>3, <4>4
      <4> HIDE DEF i
      <4> DEFINE u == Rest(r, i - 1)
      <4>6. Owed(u) <= Owed(r)
        BY <2>2, <4>4, RestOwesLess DEF r
      <4>7. /\ u \in Seq(Goal) /\ Len(u) = Len(r) - (i - 1)
            /\ \A j \in 1 .. Len(r) - (i - 1) : u[j] = r[(i - 1) + j]
        <5>1. r \in Seq(Goal)
          BY <2>2 DEF r
        <5> QED BY <4>4, <5>1, RestFacts
      <4> HIDE DEF u
      <4>8. u # <<>> /\ u[1] = token("close")
        <5>1. 1 \in 1 .. Len(r) - (i - 1) /\ Len(u) >= 1
          BY <4>4, <4>7
        <5> QED BY <4>4, <4>5, <4>7, <5>1
      <4>9. Owed(u) = Owed(Rest(u, 1)) + 1 /\ Owed(Rest(u, 1)) \in Nat
        BY <4>7, <4>8, FirstDropped
      <4>10. Owed(r) \in Nat
        BY <2>2 DEF r
      <4> QED BY <4>6, <4>9, <4>10 DEF r
    <3>2. CASE toks[cur] = "close" /\ Parsed(cur + 1, <<>>)
      <4>1. Open(Here, cur + 1) = Open(Here, cur) - 1 /\ Owed(r) <= Open(Here, cur + 1)
            /\ (body \in errors \/ Owed(r) = Open(Here, cur + 1))
        <5>1. Open(Here, cur + 1) = Open(Here, cur) - 1
          BY <2>5, <3>2
        <5>2. /\ Owed(goals) = Owed(r) + 1 /\ Owed(r) \in Nat /\ Open(Here, cur) \in Int
              /\ Owed(goals) <= Open(Here, cur)
              /\ body \in errors \/ Owed(goals) = Open(Here, cur)
          BY <1>2, <2>2
        <5> HIDE DEF r
        <5> QED BY <5>1, <5>2
      <4>2. cur # Closing
        BY <2>2, <2>4, <3>1, <4>1
      <4>3. cur + 1 \in Here + 1 .. Closing
        BY <1>2, <2>4, <4>2
      <4>4. /\ goals' = <<>> \o Tail(goals) /\ cur' = cur + 1 /\ depth' = depth
            /\ UNCHANGED <<toks, phase, pending, body, failing, errors, stops>>
        BY <3>2 DEF Parsed, Onward
      <4>5. depth' = 1 + Leaves(r) /\ failing' \in BOOLEAN
        BY <1>3, <2>2, <2>3, <4>4
      <4> HIDE DEF r
      <4> QED BY <1>2, <1>3, <2>7, <4>1, <4>3, <4>4, <4>5, DropKept DEF r
    <3>3. CASE Fails(cur)
      <4>1. /\ goals' = Tail(goals) /\ cur' = cur /\ depth' = depth /\ failing' = TRUE
            /\ UNCHANGED <<toks, phase, pending, body, errors, stops>>
        BY <3>3 DEF Fails
      <4>2. depth' = 1 + Leaves(r) /\ failing' \in BOOLEAN /\ Owed(r) <= Open(Here, cur')
        BY <1>2, <1>3, <2>2, <4>1
      <4> HIDE DEF r
      <4> QED BY <1>2, <1>3, <2>7, <4>1, <4>2, DropKept DEF r
    <3> QED BY <1>5, <2>1, <3>2, <3>3
  <2>8. CASE Len(goals) = 3
    <3> DEFINE e == <<goal("leave"), goal("end")>>
    <3>1. /\ goals = <<token("close"), goal("leave"), goal("end")>>
          /\ Tail(goals) = e /\ <<>> \o Tail(goals) = e /\ Owed(goals) = 1
      BY <1>2, <2>6, <2>8, EndReached
    <3>2. e \in Seq(Goal) /\ e # <<>> /\ Leaves(e) = 1 /\ Leaves(goals) = 1
      BY <3>1, EndGoals, EndCounts
    <3>3. CASE toks[cur] = "close" /\ Parsed(cur + 1, <<>>)
      <4>1. /\ goals' = <<>> \o Tail(goals) /\ cur' = cur + 1 /\ depth' = depth
            /\ UNCHANGED <<toks, phase, pending, body, failing, errors, stops>>
        BY <3>3 DEF Parsed, Onward
      <4>2. body \in errors \/ cur + 1 = Closing + 1
        <5>1. body \in errors \/ Open(Here, cur + 1) = 0
          BY <1>2, <2>5, <3>1, <3>3
        <5>2. ASSUME Open(Here, cur + 1) = 0 PROVE cur = Closing
          <6>1. cur + 1 \notin Here + 1 .. Closing
            BY <2>4, <5>2
          <6> QED BY <1>2, <2>4, <6>1
        <5> QED BY <5>1, <5>2
      <4>3. cur + 1 \in Here + 1 .. Closing + 1
        BY <1>2, <2>4
      <4>4. AtTail(cur', goals', failing', errors')
        BY <3>1, <4>1, <4>2, <4>3 DEF AtTail
      <4> HIDE DEF e
      <4>5. depth' = 1 + Leaves(goals') /\ goals' \in Seq(Goal) /\ goals' # <<>>
            /\ failing' \in BOOLEAN
        BY <1>3, <2>3, <3>1, <3>2, <4>1
      <4>6. UNCHANGED <<toks, phase, pending, body, errors, stops>>
        BY <4>1
      <4>7. AtTail(cur', goals', failing', errors)
        BY <4>4, <4>6
      <4> QED BY <1>3, <4>5, <4>6, <4>7, BodyKept
    <3>4. CASE Fails(cur)
      <4>1. /\ goals' = Tail(goals) /\ cur' = cur /\ depth' = depth /\ failing' = TRUE
            /\ UNCHANGED <<toks, phase, pending, body, errors, stops>>
        BY <3>4 DEF Fails
      <4>2. cur \in Here + 1 .. Closing + 1
        BY <1>2, <2>4
      <4>3. AtTail(cur', goals', failing', errors)
        BY <3>1, <4>1, <4>2 DEF AtTail
      <4> HIDE DEF e
      <4>4. depth' = 1 + Leaves(goals') /\ goals' \in Seq(Goal) /\ goals' # <<>>
            /\ failing' \in BOOLEAN
        BY <1>3, <3>1, <3>2, <4>1
      <4> QED BY <1>3, <4>1, <4>3, <4>4, BodyKept
    <3> QED BY <1>5, <2>1, <3>3, <3>4
  <2> QED BY <2>7, <2>8
<1> QED BY <1>4, <1>6, <1>7

LEMMA LeaveKeeps ==
  ASSUME StatementsInv, Leave
  PROVE  StatementsInv'
<1> DEFINE r == Rest(goals, 1)
<1>1. TypeOK /\ body > 0 /\ goals \in Seq(Goal) /\ goals # <<>> /\ ~failing /\ failing \in BOOLEAN
      /\ goals[1].g = "leave" /\ depth = 1 + Leaves(goals) /\ Leaves(goals) \in Nat
  <2>1. TypeOK /\ goals \in Seq(Goal) /\ failing \in BOOLEAN
    BY DEF StatementsInv, TypeOK
  <2>2. goals # <<>> /\ ~failing /\ goals[1].g = "leave"
    BY <2>1 DEF Leave, Is, Top
  <2>3. body > 0 /\ depth = 1 + Leaves(goals)
    BY <2>2 DEF StatementsInv, Within
  <2>4. Leaves(goals) \in Nat
    BY <2>1, HowManyType DEF Leaves
  <2> QED BY <2>1, <2>2, <2>3, <2>4
<1>2. /\ goals' = <<>> \o Tail(goals) /\ cur' = cur /\ depth' = depth - 1
      /\ UNCHANGED <<toks, phase, pending, body, failing, errors, stops>>
  BY DEF Leave, Onward
<1>3. /\ r = Tail(goals) /\ r \in Seq(Goal) /\ Leaves(r) \in Nat /\ Owed(r) \in Nat
      /\ Owed(goals) = Owed(r) /\ Leaves(goals) = Leaves(r) + 1
  BY <1>1, FirstDropped
<1> HIDE DEF r
<1>4. depth' = 1 + Leaves(r)
  BY <1>1, <1>2, <1>3
<1>5. CASE Inside(cur, goals, failing, errors)
  <2>1. Len(goals) # 3
    <3>1. ASSUME Len(goals) = 3 PROVE goals[1] = token("close")
      BY <1>1, <1>5, <3>1, EndReached DEF Inside
    <3> QED BY <1>1, <3>1 DEF token
  <2>2. cur \in Here + 1 .. Closing /\ Owed(goals) <= Open(Here, cur)
        /\ (body \in errors \/ Owed(goals) = Open(Here, cur))
    BY <1>1, <1>5 DEF Inside
  <2>3. cur' \in Here + 1 .. Closing /\ Owed(r) <= Open(Here, cur')
        /\ (body \in errors \/ failing' \/ Owed(r) = Open(Here, cur')) /\ failing' \in BOOLEAN
    BY <1>1, <1>2, <1>3, <2>2
  <2> QED BY <1>1, <1>2, <1>4, <1>5, <2>1, <2>3, DropKept DEF r
<1>6. CASE AtTail(cur, goals, failing, errors)
  <2> DEFINE e == <<goal("end")>>
  <2>1. goals = <<goal("leave"), goal("end")>>
    BY <1>1, <1>6 DEF AtTail, goal
  <2>2. <<>> \o Tail(goals) = e /\ e \in Seq(Goal) /\ e # <<>> /\ Leaves(e) = 0 /\ Leaves(goals) = 1
    BY <2>1, EndGoals, EndCounts
  <2>3. AtTail(cur', goals', failing', errors)
    BY <1>1, <1>2, <1>6, <2>2 DEF AtTail
  <2> HIDE DEF e
  <2>4. /\ goals' \in Seq(Goal) /\ goals' # <<>> /\ failing' \in BOOLEAN
        /\ depth' = 1 + Leaves(goals')
    <3>1. goals' = e /\ failing' = failing
      BY <1>2, <2>2
    <3>2. depth' = 1
      BY <1>1, <1>2, <2>2
    <3> QED BY <1>1, <2>2, <3>1, <3>2
  <2> QED BY <1>1, <1>2, <2>3, <2>4, BodyKept
<1>7. ~AtHead(cur, goals, failing)
  BY <1>1 DEF AtHead, goal
<1> QED BY <1>1, <1>5, <1>6, <1>7 DEF StatementsInv, Within

\* Nothing but the tokens decides where a body ends.
LEMMA SameTape ==
  ASSUME toks' = toks
  PROVE  \A s : Balance(s)' = Balance(s)
BY DEF Balance, Count

LEMMA NextBodyKeeps ==
  ASSUME StatementsInv, NextBody
  PROVE  StatementsInv'
<1> DEFINE q == <<goal("params"), goal("block"), goal("leave"), goal("end")>>
<1>1. /\ phase = "bodies" /\ goals = <<>> /\ body < Len(pending)
      /\ body' = body + 1 /\ cur' = pending[body + 1] /\ depth' = depth + 1
      /\ goals' = q /\ UNCHANGED <<toks, phase, pending, failing, errors, stops>>
  BY DEF NextBody, Starts
<1>2. TypeOK /\ BodiesBalance /\ ~failing /\ depth = 1 /\ Len(stops) = body
  BY <1>1 DEF StatementsInv, Between
<1>3. body \in Nat /\ Len(pending) \in Nat /\ body + 1 \in 1 .. Len(pending)
  BY <1>1, <1>2 DEF TypeOK
<1>4. pending[body + 1] \in 1 .. Len(toks)
  BY <1>2, <1>3 DEF BodiesBalance
<1>5. q \in Seq(Goal) /\ q # <<>> /\ Leaves(q) = 1
  BY EndGoals, EndCounts
<1>6. Here' = pending[body + 1]
  BY <1>1 DEF Here
<1>7. AtHead(cur, goals, failing)'
  BY <1>1, <1>2, <1>6 DEF AtHead
<1> HIDE DEF q
<1>8. TypeOK'
  <2>1. body' \in 0 .. Len(pending') /\ depth' \in Int /\ goals' \in Seq(Goal)
    BY <1>1, <1>2, <1>3, <1>5
  <2> QED BY <1>1, <1>2, <1>4, <2>1 DEF TypeOK
<1>9. BodiesBalance'
  BY <1>1, <1>2, SameTape DEF BodiesBalance
<1>10. Between'
  BY <1>1, <1>5 DEF Between
<1>11. Within'
  <2>1. phase' = "bodies" /\ body' > 0 /\ Len(stops') = body' - 1
    BY <1>1, <1>2, <1>3
  <2>2. depth' = 1 + Leaves(goals')
    BY <1>1, <1>2, <1>5
  <2> QED BY <1>7, <2>1, <2>2 DEF Within
<1>12. ReadToTheEnd'
  BY <1>1, SameTape DEF StatementsInv, ReadToTheEnd, BodyEnd
<1> QED BY <1>8, <1>9, <1>10, <1>11, <1>12 DEF StatementsInv

\* A body ends with its scopes left, and where it should unless an error was reported.
LEMMA BodyEnds ==
  ASSUME StatementsInv, goals # <<>>,
         UNCHANGED <<toks, cur, phase, pending, body>>,
         failing' = FALSE, goals' = <<>>, depth' = 1, stops' = Append(stops, cur),
         errors' = errors \/ errors' = errors \union {body},
         body \in errors' \/ cur = Closing + 1
  PROVE  StatementsInv'
<1>1. TypeOK /\ BodiesBalance /\ phase = "bodies" /\ body > 0 /\ Len(stops) = body - 1
  BY DEF StatementsInv, Within
<1>2. body \in Nat /\ stops \in Seq(Nat) /\ cur \in Nat /\ errors' \subseteq Nat
  <2>1. body \in 0 .. Len(pending) /\ pending \in Seq(Nat) /\ stops \in Seq(Nat)
        /\ cur \in 1 .. Len(toks) /\ errors \subseteq Nat
    BY <1>1 DEF TypeOK
  <2>2. body \in Nat /\ cur \in Nat
    BY <2>1
  <2>3. errors \union {body} \subseteq Nat
    BY <2>1, <2>2
  <2> QED BY <2>1, <2>2, <2>3
<1>3. /\ stops' \in Seq(Nat) /\ Len(stops') = body /\ stops'[body] = cur
      /\ \A i \in 1 .. body - 1 : stops'[i] = stops[i]
  <2>1. Len(stops) + 1 = body
    BY <1>1, <1>2
  <2> QED BY <1>1, <1>2, <2>1
<1>4. TypeOK'
  <2>1. goals' \in Seq(Goal) /\ failing' \in BOOLEAN /\ depth' \in Int
    <3>1. <<>> \in Seq(Goal) /\ FALSE \in BOOLEAN /\ 1 \in Int
      BY EmptySeq
    <3> QED BY <3>1, Zenon
  <2>2. toks \in Tapes /\ cur \in 1 .. Len(toks) /\ phase \in {"declarations", "bodies", "done"}
        /\ pending \in Seq(Nat) /\ body \in 0 .. Len(pending)
    BY <1>1 DEF TypeOK
  <2> QED BY <1>2, <1>3, <2>1, <2>2 DEF TypeOK
<1>5. BodiesBalance'
  BY <1>1, SameTape DEF BodiesBalance
<1>6. Between'
  BY <1>1, <1>3 DEF Between
<1>7. Within'
  BY DEF Within
<1>8. ReadToTheEnd'
  <2>1. BodyEnd(pending[body]) = Closing + 1
    BY DEF BodyEnd, Closing, Here
  <2>2. \A i \in 1 .. body : i \in errors' \/ stops'[i] = BodyEnd(pending[i])
    <3> SUFFICES ASSUME NEW i \in 1 .. body PROVE i \in errors' \/ stops'[i] = BodyEnd(pending[i])
      OBVIOUS
    <3>1. CASE i = body
      BY <1>3, <2>1, <3>1
    <3>2. CASE i # body
      <4>1. i \in 1 .. body - 1 /\ i \in 1 .. Len(stops)
        BY <1>1, <1>2, <3>2
      <4>2. i \in errors \/ stops[i] = BodyEnd(pending[i])
        BY <4>1 DEF StatementsInv, ReadToTheEnd
      <4> QED BY <1>3, <4>1, <4>2
    <3> QED BY <3>1, <3>2
  <2>3. \A s : BodyEnd(s)' = BodyEnd(s)
    BY SameTape DEF BodyEnd
  <2> QED BY <1>3, <2>2, <2>3 DEF ReadToTheEnd
<1> QED BY <1>4, <1>5, <1>6, <1>7, <1>8 DEF StatementsInv

LEMMA BodyParsedKeeps ==
  ASSUME StatementsInv, BodyParsed
  PROVE  StatementsInv'
<1>1. TypeOK /\ goals \in Seq(Goal) /\ goals # <<>> /\ ~failing /\ failing \in BOOLEAN
      /\ goals[1].g = "end" /\ depth = 1 + Leaves(goals)
  BY DEF StatementsInv, Within, Is, TypeOK, Top, BodyParsed
<1>2. /\ stops' = Append(stops, cur) /\ goals' = <<>>
      /\ UNCHANGED <<toks, cur, phase, pending, body, failing, depth, errors>>
  BY DEF BodyParsed
<1>3. ~AtHead(cur, goals, failing)
  BY <1>1 DEF AtHead, goal
<1>4. ~Inside(cur, goals, failing, errors)
  <2>1. ASSUME EndsInBody(goals) PROVE FALSE
    <3>1. Len(goals) >= 3 /\ Len(goals) \in Nat
      BY <1>1, <2>1 DEF EndsInBody
    <3>2. 1 \in 1 .. Len(goals) - 1
      BY <3>1
    <3> QED BY <1>1, <2>1, <3>2 DEF EndsInBody
  <2> QED BY <2>1 DEF Inside
<1>5. AtTail(cur, goals, failing, errors)
  BY <1>1, <1>3, <1>4 DEF StatementsInv, Within
<1>6. goals = <<goal("end")>> /\ (body \in errors \/ cur = Closing + 1)
  BY <1>1, <1>5 DEF AtTail, goal
<1>7. depth' = 1
  <2>1. Leaves(goals) = 0
    BY <1>6, EndCounts
  <2> QED BY <1>1, <1>2, <2>1
<1>8. failing' = FALSE /\ (body \in errors' \/ cur = Closing + 1)
  BY <1>1, <1>2, <1>6
<1> QED BY <1>1, <1>2, <1>7, <1>8, BodyEnds

-----------------------------------------------------------------------------
(* Every step keeps the invariant: errors. *)

\* Some goal catches every error: the last one does.
LEMMA CatcherFacts ==
  ASSUME StatementsInv, goals # <<>>
  PROVE  /\ goals \in Seq(Goal) /\ Catcher \in 1 .. Len(goals)
         /\ goals[Catcher].g \in Catching
         /\ \A j \in 1 .. Catcher - 1 : goals[j].g \notin Catching
         /\ goals[Len(goals)].g = "end"
<1>1. goals \in Seq(Goal) /\ Len(goals) \in Nat /\ Len(goals) >= 1
  <2>1. goals \in Seq(Goal)
    BY DEF StatementsInv, TypeOK
  <2> QED BY <2>1
<1>2. goals[Len(goals)] = goal("end")
  <2>1. CASE AtHead(cur, goals, failing)
    <3>1. CASE goals = <<goal("params"), goal("block"), goal("leave"), goal("end")>>
      <4>1. Len(goals) = 4 /\ goals[4] = goal("end")
        BY <3>1
      <4> QED BY <4>1
    <3>2. CASE goals = <<goal("block"), goal("leave"), goal("end")>>
      <4>1. Len(goals) = 3 /\ goals[3] = goal("end")
        BY <3>2
      <4> QED BY <4>1
    <3> QED BY <2>1, <3>1, <3>2 DEF AtHead
  <2>2. CASE Inside(cur, goals, failing, errors)
    BY <2>2 DEF Inside, EndsInBody
  <2>3. CASE AtTail(cur, goals, failing, errors)
    <3>1. CASE goals = <<goal("leave"), goal("end")>>
      <4>1. Len(goals) = 2 /\ goals[2] = goal("end")
        BY <3>1
      <4> QED BY <4>1
    <3>2. CASE goals = <<goal("end")>>
      <4>1. Len(goals) = 1 /\ goals[1] = goal("end")
        BY <3>2
      <4> QED BY <4>1
    <3> QED BY <2>3, <3>1, <3>2 DEF AtTail
  <2> QED BY <2>1, <2>2, <2>3 DEF StatementsInv, Within
<1>3. goals[Len(goals)].g = "end" /\ "end" \in Catching
  BY <1>2 DEF goal, Catching
<1> DEFINE S == {k \in 1 .. Len(goals) : goals[k].g \in Catching}
           P(k) == goals[k].g \in Catching /\ \A j \in 1 .. (k - 1) : goals[j].g \notin Catching
<1>4. S # {} /\ S \subseteq Nat
  BY <1>1, <1>3
<1>5. PICK m \in S : \A k \in S : m <= k
  <2> HIDE DEF S
  <2> QED BY <1>4, Least
<1>6. m \in 1 .. Len(goals) /\ P(m)
  <2>1. m \in 1 .. Len(goals) /\ goals[m].g \in Catching
    BY <1>5
  <2>2. \A j \in 1 .. (m - 1) : goals[j].g \notin Catching
    <3> SUFFICES ASSUME NEW j \in 1 .. (m - 1), goals[j].g \in Catching PROVE FALSE
      OBVIOUS
    <3>1. j \in 1 .. Len(goals) /\ j < m /\ j \in Nat /\ m \in Nat
      BY <1>1, <2>1
    <3>2. m <= j
      BY <1>5, <3>1
    <3> QED BY <3>1, <3>2
  <2> QED BY <2>1, <2>2
<1>7. Catcher = CHOOSE k \in DOMAIN goals : P(k)
  BY DEF Catcher
<1>8. DOMAIN goals = 1 .. Len(goals)
  BY <1>1
<1>9. Catcher \in 1 .. Len(goals) /\ P(Catcher)
  <2> HIDE DEF P
  <2> QED BY <1>6, <1>7, <1>8
<1> QED BY <1>1, <1>3, <1>9

\* The scopes on the way to it are left.
LEMMA CaughtDepth ==
  ASSUME StatementsInv, goals # <<>>, depth' = depth - LeftBefore(Catcher)
  PROVE  /\ depth' = 1 + Leaves(Rest(goals, Catcher))
         /\ Rest(goals, Catcher) \in Seq(Goal)
         /\ Leaves(Rest(goals, Catcher)) \in Nat
         /\ Owed(Rest(goals, Catcher)) \in Nat /\ Owed(goals) \in Nat
         /\ Owed(Rest(goals, Catcher)) <= Owed(goals)
<1> DEFINE k == Catcher
           r == Rest(goals, k)
<1>1. goals \in Seq(Goal) /\ k \in 1 .. Len(goals) /\ goals[k].g \in Catching
  BY CatcherFacts
<1> HIDE DEF k
<1>2. k \in 0 .. Len(goals)
  BY <1>1
<1>3. r \in Seq(Goal) /\ Owed(r) \in Nat /\ Owed(goals) \in Nat /\ Owed(r) <= Owed(goals)
  BY <1>1, <1>2, RestFacts, RestOwesLess
<1>4. Leaves(r) \in Nat /\ Leaves(goals) \in Nat
  BY <1>1, <1>3, HowManyType DEF Leaves
<1>5. {j \in 1 .. k : goals[j] \in Leaving} = {j \in 1 .. (k - 1) : goals[j].g = "leave"}
  <2>1. \A j \in 1 .. Len(goals) : goals[j] \in Leaving <=> goals[j].g = "leave"
    BY <1>1 DEF Leaving
  <2>2. goals[k].g # "leave"
    BY <1>1 DEF Catching
  <2>3. \A j \in 1 .. k : j \in 1 .. Len(goals) /\ (j = k \/ j \in 1 .. (k - 1))
    BY <1>1
  <2>4. \A j \in 1 .. (k - 1) : j \in 1 .. k /\ j \in 1 .. Len(goals)
    BY <1>1
  <2> QED BY <2>1, <2>2, <2>3, <2>4
<1>6. HowMany(goals, Leaving)
        = Cardinality({j \in 1 .. k : goals[j] \in Leaving}) + HowMany(r, Leaving)
  BY <1>1, <1>2, HowManyDropped
<1> DEFINE left == Cardinality({j \in 1 .. (k - 1) : goals[j].g = "leave"})
<1>7. left \in Nat
  <2> DEFINE S == {j \in 1 .. (k - 1) : goals[j].g = "leave"}
  <2>1. S \subseteq 1 .. (k - 1) /\ 1 \in Int /\ k - 1 \in Int
    BY <1>1
  <2> HIDE DEF S
  <2>2. Cardinality(S) \in Nat
    BY <2>1, Finite
  <2> QED BY <2>2 DEF S
<1>8. Leaves(goals) = left + Leaves(r)
  BY <1>5, <1>6 DEF Leaves
<1>9. depth' = depth - left /\ depth = 1 + Leaves(goals)
  BY DEF LeftBefore, k, StatementsInv, Within
<1> HIDE DEF left, r
<1>10. depth' = 1 + Leaves(r)
  BY <1>4, <1>7, <1>8, <1>9
<1> QED BY <1>3, <1>4, <1>10 DEF r, k

\* An error inside a body that is caught by a goal of it.
LEMMA CaughtInside ==
  ASSUME StatementsInv, NEW g \in {"recover", "orblock", "further"}, Caught(g), goals # <<>>
  PROVE  /\ TypeOK /\ BodiesBalance /\ body > 0
         /\ Inside(cur, goals, failing, errors)
         /\ cur \in Here + 1 .. Closing /\ Open(Here, cur) \in Int
         /\ Catcher \in 1 .. Len(goals) - 3
         /\ goals[Catcher].g = g
         /\ MarkOK(goals[Catcher], Owed(Rest(goals, Catcher)), errors)
         /\ Owed(Rest(goals, Catcher)) <= Open(Here, cur)
         /\ \A c \in Here + 1 .. Closing : Open(Here, c) \in Int
<1>1. /\ goals \in Seq(Goal) /\ Catcher \in 1 .. Len(goals) /\ goals[Catcher].g = g
      /\ Len(goals) \in Nat
  BY CatcherFacts DEF Caught
<1>2. TypeOK /\ BodiesBalance /\ body > 0
  BY DEF StatementsInv, Within
<1>3. ~AtHead(cur, goals, failing)
  <2>1. ASSUME goals = <<goal("params"), goal("block"), goal("leave"), goal("end")>> PROVE FALSE
    <3>1. Len(goals) = 4 /\ \A i \in 1 .. 4 : goals[i].g \in {"params", "block", "leave", "end"}
      <4>1. \A i \in 1 .. 4 : i = 1 \/ i = 2 \/ i = 3 \/ i = 4
        OBVIOUS
      <4> QED BY <2>1, <4>1 DEF goal
    <3> QED BY <1>1, <3>1
  <2>2. ASSUME goals = <<goal("block"), goal("leave"), goal("end")>> PROVE FALSE
    <3>1. Len(goals) = 3 /\ \A i \in 1 .. 3 : goals[i].g \in {"block", "leave", "end"}
      <4>1. \A i \in 1 .. 3 : i = 1 \/ i = 2 \/ i = 3
        OBVIOUS
      <4> QED BY <2>2, <4>1 DEF goal
    <3> QED BY <1>1, <3>1
  <2> QED BY <2>1, <2>2 DEF AtHead
<1>4. ~AtTail(cur, goals, failing, errors)
  <2>1. ASSUME goals = <<goal("leave"), goal("end")>> PROVE FALSE
    <3>1. Len(goals) = 2 /\ \A i \in 1 .. 2 : goals[i].g \in {"leave", "end"}
      <4>1. \A i \in 1 .. 2 : i = 1 \/ i = 2
        OBVIOUS
      <4> QED BY <2>1, <4>1 DEF goal
    <3> QED BY <1>1, <3>1
  <2>2. ASSUME goals = <<goal("end")>> PROVE FALSE
    <3>1. Len(goals) = 1 /\ goals[1].g = "end"
      BY <2>2 DEF goal
    <3>2. Catcher = 1
      BY <1>1, <3>1
    <3> QED BY <1>1, <3>1, <3>2
  <2> QED BY <2>1, <2>2 DEF AtTail
<1>5. Inside(cur, goals, failing, errors)
  BY <1>3, <1>4 DEF StatementsInv, Within
<1>6. cur \in Here + 1 .. Closing /\ Owed(goals) <= Open(Here, cur)
      /\ MarkOK(goals[Catcher], Owed(Rest(goals, Catcher)), errors)
  BY <1>1, <1>5 DEF Inside
<1>7. \A c \in Here + 1 .. Closing : Open(Here, c) \in Int
  BY <1>2, InBody
<1>8. Catcher \in 1 .. Len(goals) - 3
  <2> DEFINE n == Len(goals)
             k == Catcher
  <2>1. /\ n >= 3 /\ n \in Nat /\ k \in 1 .. n
        /\ goals[n - 2] = token("close") /\ goals[n - 1] = goal("leave") /\ goals[n] = goal("end")
    BY <1>1, <1>5 DEF Inside, EndsInBody
  <2>2. goals[n - 2].g # g /\ goals[n - 1].g # g /\ goals[n].g # g
    BY <2>1 DEF token, goal
  <2>3. goals[k].g = g
    BY <1>1
  <2> HIDE DEF n, k
  <2>4. k # n - 2 /\ k # n - 1 /\ k # n
    BY <2>2, <2>3
  <2>5. k \in 1 .. n - 3
    BY <2>1, <2>4
  <2> QED BY <2>5 DEF n, k
<1>9. Owed(Rest(goals, Catcher)) <= Open(Here, cur)
  <2>1. Catcher \in 0 .. Len(goals)
    BY <1>1
  <2>2. /\ Owed(Rest(goals, Catcher)) <= Owed(goals)
        /\ Owed(Rest(goals, Catcher)) \in Nat /\ Owed(goals) \in Nat
    BY <1>1, <2>1, RestOwesLess
  <2> QED BY <1>6, <1>7, <2>2
<1> QED BY <1>1, <1>2, <1>5, <1>6, <1>7, <1>8, <1>9

\* The goal that caught the error is left with all those before it.
LEMMA CaughtKept ==
  ASSUME StatementsInv, NEW g \in {"recover", "orblock", "further"}, Caught(g), goals # <<>>,
         goals' = Caller, stops' = stops, body' = body, failing' \in BOOLEAN,
         errors' = errors \/ errors' = errors \union {body},
         cur' \in Here + 1 .. Closing,
         Owed(Rest(goals, Catcher)) <= Open(Here, cur'),
         body \in errors' \/ failing'
  PROVE  StatementsInv'
<1> DEFINE more == <<>>
           r == Rest(goals, Catcher)
<1>1. Inside(cur, goals, failing, errors) /\ Catcher \in 1 .. Len(goals) - 3
  BY CaughtInside
<1>2. /\ depth' = 1 + Leaves(r) /\ r \in Seq(Goal)
      /\ Leaves(r) \in Nat /\ Owed(r) \in Nat
  BY CaughtDepth DEF Caught
<1>3. UNCHANGED <<toks, phase, pending, body, stops>>
  BY DEF Caught
<1>4. more \in Seq(Goal) /\ Leaves(more) = 0 /\ Owed(more) = 0 /\ Len(more) = 0
  <2>1. more \in Seq(Quiet) /\ Len(more) = 0
    OBVIOUS
  <2> HIDE DEF more
  <2> QED BY <2>1, QuietCounts
<1>5. goals' = more \o r
  <2>1. goals' = r
    BY DEF Caller, Rest
  <2> HIDE DEF r
  <2>2. more \o r = r
    BY <1>2
  <2> QED BY <2>1, <2>2
<1> HIDE DEF more
<1>6. /\ depth' = 1 + Leaves(more) + Leaves(r)
      /\ Owed(more) + Owed(r) <= Open(Here, cur')
      /\ body \in errors' \/ failing' \/ Owed(more) + Owed(r) = Open(Here, cur')
  <2> HIDE DEF r
  <2> QED BY <1>2, <1>4 DEF r
<1>7. \A i \in 1 .. Len(more) :
             /\ more[i].g # "end"
             /\ MarkOK(more[i], Owed(Rest(more, i)) + Owed(r), errors')
             /\ more[i].g = "valueblock" => i = 1 /\ ~failing' /\ toks[cur'] = "open"
  BY <1>4
<1> QED BY <1>1, <1>3, <1>4, <1>5, <1>6, <1>7, ContinueKept

LEMMA RecoverKeeps ==
  ASSUME StatementsInv, Recover, goals # <<>>
  PROVE  StatementsInv'
<1> DEFINE x == goals[Catcher]
           c == Unstuck(x.at, Synchronized(cur))
<1>1. /\ Caught("recover") /\ failing' = FALSE /\ errors' = errors \union {body}
      /\ cur' = c /\ goals' = Caller /\ body' = body /\ stops' = stops
  BY DEF Recover, Reported
<1>2. /\ TypeOK /\ BodiesBalance /\ body > 0 /\ cur \in Here + 1 .. Closing
      /\ x.g = "recover" /\ MarkOK(x, Owed(Rest(goals, Catcher)), errors)
      /\ Owed(Rest(goals, Catcher)) <= Open(Here, cur)
      /\ \A n \in Here + 1 .. Closing : Open(Here, n) \in Int
  BY <1>1, CaughtInside
<1>3. x.at \in Here + 1 .. Closing /\ toks[x.at] # "close"
  BY <1>2 DEF MarkOK
<1>4. c \in Here + 1 .. Closing /\ Open(Here, cur) <= Open(Here, c)
  BY <1>2, <1>3, RecoveryOn
<1>5. Owed(Rest(goals, Catcher)) \in Nat
  BY <1>1, CaughtDepth DEF Caught
<1> HIDE DEF c
<1>6. Owed(Rest(goals, Catcher)) <= Open(Here, c)
  BY <1>2, <1>4, <1>5
<1> QED BY <1>1, <1>4, <1>6, CaughtKept

LEMMA NeitherReadingKeeps ==
  ASSUME StatementsInv, NeitherReading, goals # <<>>
  PROVE  StatementsInv'
<1> DEFINE x == goals[Catcher]
<1>1. /\ Caught("further") /\ failing' = failing /\ failing /\ errors' = errors
      /\ cur' = x.at \/ cur' = cur
      /\ goals' = Caller /\ body' = body /\ stops' = stops
  BY DEF NeitherReading, Caught
<1>2. /\ TypeOK /\ cur \in Here + 1 .. Closing
      /\ x.g = "further" /\ MarkOK(x, Owed(Rest(goals, Catcher)), errors)
      /\ Owed(Rest(goals, Catcher)) <= Open(Here, cur)
  BY <1>1, CaughtInside
<1>3. x.at \in Here + 1 .. Closing /\ Owed(Rest(goals, Catcher)) <= Open(Here, x.at)
  BY <1>2 DEF MarkOK
<1>4. cur' \in Here + 1 .. Closing /\ Owed(Rest(goals, Catcher)) <= Open(Here, cur')
  BY <1>1, <1>2, <1>3
<1>5. failing' \in BOOLEAN /\ failing'
  BY <1>1, <1>2 DEF TypeOK
<1> QED BY <1>1, <1>4, <1>5, CaughtKept

\* Back where the list began as many braces are owed as were open there.
LEMMA ReadAsBlockKeeps ==
  ASSUME StatementsInv, ReadAsBlock, goals # <<>>
  PROVE  StatementsInv'
<1> DEFINE x == goals[Catcher]
           r == Rest(goals, Catcher)
           more == <<goal("valueblock"), mark("further", cur)>>
<1>1. /\ Caught("orblock") /\ failing' = FALSE
      /\ cur' = x.at /\ goals' = more \o Caller
      /\ UNCHANGED <<toks, phase, pending, body, errors, stops>>
  BY DEF ReadAsBlock, Caught
<1>2. /\ TypeOK /\ BodiesBalance /\ body > 0 /\ cur \in Here + 1 .. Closing
      /\ Inside(cur, goals, failing, errors) /\ Catcher \in 1 .. Len(goals) - 3
      /\ x.g = "orblock" /\ MarkOK(x, Owed(r), errors)
      /\ Owed(r) <= Open(Here, cur)
  BY <1>1, CaughtInside
<1>3. /\ x.at \in Here + 1 .. Closing /\ toks[x.at] = "open" /\ Owed(r) <= Open(Here, x.at)
      /\ body \in errors \/ Owed(r) = Open(Here, x.at)
  BY <1>2 DEF MarkOK
<1>4. /\ depth' = 1 + Leaves(r) /\ r \in Seq(Goal)
      /\ Leaves(r) \in Nat /\ Owed(r) \in Nat
  BY <1>1, CaughtDepth DEF Caught
<1>5. cur \in Nat
  BY <1>2, InBody
<1>6. goal("valueblock") \in Goal /\ mark("further", cur) \in Goal
  BY <1>5 DEF Goal, Kinds, goal, mark
<1>7. more \in Seq(Goal) /\ Len(more) = 2
      /\ more[1] = goal("valueblock") /\ more[2] = mark("further", cur)
  BY <1>6
<1>8. goals' = more \o r
  BY <1>1 DEF Caller, Rest
<1> HIDE DEF more
<1>9. \A i \in 1 .. Len(more) : i = 1 \/ i = 2
  BY <1>7
<1>10. Leaves(more) = 0 /\ Owed(more) = 0
  <2>1. \A i \in 1 .. Len(more) : more[i] \notin Leaving /\ more[i] \notin {token("close")}
    <3>1. \A y \in {goal("valueblock"), mark("further", cur)} :
             y \notin Leaving /\ y \notin {token("close")}
      BY DEF Leaving, goal, mark, token
    <3> QED BY <1>7, <1>9, <3>1
  <2> QED BY <1>7, <2>1, HowManyNone DEF Leaves, Owed
<1>11. Owed(Rest(more, 2)) = 0
  <2>1. 2 \in 0 .. Len(more)
    BY <1>7
  <2>2. Owed(Rest(more, 2)) <= Owed(more) /\ Owed(Rest(more, 2)) \in Nat
    BY <1>7, <2>1, RestOwesLess
  <2> QED BY <1>10, <2>2
<1> HIDE DEF r
<1>12. /\ depth' = 1 + Leaves(more) + Leaves(r)
       /\ Owed(more) + Owed(r) <= Open(Here, cur')
       /\ body \in errors' \/ failing' \/ Owed(more) + Owed(r) = Open(Here, cur')
  BY <1>1, <1>3, <1>4, <1>10
<1>13. \A i \in 1 .. Len(more) :
             /\ more[i].g # "end"
             /\ MarkOK(more[i], Owed(Rest(more, i)) + Owed(r), errors')
             /\ more[i].g = "valueblock" => i = 1 /\ ~failing' /\ toks[cur'] = "open"
  <2> SUFFICES ASSUME NEW i \in 1 .. Len(more)
               PROVE  /\ more[i].g # "end"
                      /\ MarkOK(more[i], Owed(Rest(more, i)) + Owed(r), errors')
                      /\ more[i].g = "valueblock" => i = 1 /\ ~failing' /\ toks[cur'] = "open"
    OBVIOUS
  <2>1. CASE i = 1
    <3>1. more[i].g = "valueblock"
      BY <1>7, <2>1 DEF goal
    <3> QED BY <1>1, <1>3, <2>1, <3>1 DEF MarkOK
  <2>2. CASE i = 2
    <3>1. more[i].g = "further" /\ more[i].at = cur
      BY <1>7, <2>2 DEF mark
    <3>2. Owed(Rest(more, i)) + Owed(r) = Owed(r)
      BY <1>4, <1>11, <2>2
    <3>3. MarkOK(more[i], Owed(r), errors')
      BY <1>2, <3>1 DEF MarkOK
    <3> QED BY <3>1, <3>2, <3>3
  <2> QED BY <1>9, <2>1, <2>2
<1>14. failing' \in BOOLEAN /\ errors' = errors /\ cur' \in Here + 1 .. Closing
  BY <1>1, <1>3
<1> QED BY <1>1, <1>2, <1>7, <1>8, <1>12, <1>13, <1>14, ContinueKept DEF r

LEMMA BodyFailedKeeps ==
  ASSUME StatementsInv, BodyFailed, goals # <<>>
  PROVE  StatementsInv'
<1>1. /\ Caught("end") /\ failing' = FALSE /\ errors' = errors \union {body}
      /\ stops' = Append(stops, cur) /\ goals' = <<>>
      /\ UNCHANGED <<toks, cur, phase, pending, body>>
  BY DEF BodyFailed, Reported, Caught
<1>2. /\ goals \in Seq(Goal) /\ Catcher \in 1 .. Len(goals) /\ goals[Catcher].g = "end"
      /\ Len(goals) \in Nat
  BY <1>1, CatcherFacts DEF Caught
<1>3. Catcher = Len(goals)
  <2>1. CASE AtHead(cur, goals, failing)
    <3>1. CASE goals = <<goal("params"), goal("block"), goal("leave"), goal("end")>>
      <4>1. Len(goals) = 4 /\ goals[1].g = "params" /\ goals[2].g = "block" /\ goals[3].g = "leave"
        BY <3>1 DEF goal
      <4>2. Catcher \in {1, 2, 3, 4}
        BY <1>2, <4>1
      <4> QED BY <1>2, <4>1, <4>2
    <3>2. CASE goals = <<goal("block"), goal("leave"), goal("end")>>
      <4>1. Len(goals) = 3 /\ goals[1].g = "block" /\ goals[2].g = "leave"
        BY <3>2 DEF goal
      <4>2. Catcher \in {1, 2, 3}
        BY <1>2, <4>1
      <4> QED BY <1>2, <4>1, <4>2
    <3> QED BY <2>1, <3>1, <3>2 DEF AtHead
  <2>2. CASE Inside(cur, goals, failing, errors)
    <3>1. \A i \in 1 .. Len(goals) - 1 : goals[i].g # "end"
      BY <2>2 DEF Inside, EndsInBody
    <3>2. Catcher \notin 1 .. Len(goals) - 1
      BY <1>2, <3>1
    <3> QED BY <1>2, <3>2
  <2>3. CASE AtTail(cur, goals, failing, errors)
    <3>1. CASE goals = <<goal("leave"), goal("end")>>
      <4>1. Len(goals) = 2 /\ goals[1].g = "leave"
        BY <3>1 DEF goal
      <4>2. Catcher \in {1, 2}
        BY <1>2, <4>1
      <4> QED BY <1>2, <4>1, <4>2
    <3>2. CASE goals = <<goal("end")>>
      <4>1. Len(goals) = 1
        BY <3>2
      <4> QED BY <1>2, <4>1
    <3> QED BY <2>3, <3>1, <3>2 DEF AtTail
  <2> QED BY <2>1, <2>2, <2>3 DEF StatementsInv, Within
<1>4. depth' = 1
  <2> DEFINE r == Rest(goals, Catcher)
  <2>1. depth' = 1 + Leaves(r) /\ r \in Seq(Goal)
    BY <1>1, CaughtDepth DEF Caught
  <2>2. Len(r) = 0
    <3>1. Catcher \in 0 .. Len(goals)
      BY <1>2
    <3>2. Len(r) = Len(goals) - Catcher
      BY <1>2, <3>1, RestFacts
    <3> QED BY <1>2, <1>3, <3>2
  <2> HIDE DEF r
  <2>3. \A i \in 1 .. Len(r) : r[i] \notin Leaving
    BY <2>2
  <2>4. Leaves(r) = 0
    BY <2>1, <2>3, HowManyNone DEF Leaves
  <2> QED BY <2>1, <2>4
<1>5. body \in errors'
  BY <1>1
<1> QED BY <1>1, <1>4, <1>5, BodyEnds

-----------------------------------------------------------------------------
(* Every step keeps the invariant: the two passes. *)

\* In pass 1 nothing of a body is parsed, and there is a token left to look at.
LEMMA InPassOne ==
  ASSUME StatementsInv, phase = "declarations"
  PROVE  /\ TypeOK /\ BodiesBalance /\ goals = <<>> /\ ~failing /\ depth = 1
         /\ body = 0 /\ Len(stops) = 0
         /\ toks \in Tapes /\ cur \in Nat /\ cur \in 1 .. Len(toks) /\ Len(toks) \in Nat
         /\ toks[cur] # "eof" => cur + 1 \in 1 .. Len(toks)
<1>1. TypeOK /\ BodiesBalance /\ goals = <<>>
  BY DEF StatementsInv, Within
<1>2. ~failing /\ depth = 1 /\ body = 0 /\ Len(stops) = 0
  BY <1>1 DEF StatementsInv, Between
<1>3. toks \in Tapes /\ cur \in 1 .. Len(toks)
  BY <1>1 DEF TypeOK
<1>4. Len(toks) \in Nat /\ toks[Len(toks)] = "eof"
  BY <1>3, TapeFacts
<1> QED BY <1>1, <1>2, <1>3, <1>4

LEMMA NewlinesType ==
  ASSUME toks \in Tapes, cur \in 1 .. Len(toks)
  PROVE  NewlinesSkipped(cur) \in 1 .. Len(toks)
<1> DEFINE P(k) == toks[k] # "nl" /\ \A j \in cur .. (k - 1) : toks[j] = "nl"
           S == {k \in cur .. Len(toks) : toks[k] # "nl"}
<1>1. Len(toks) \in Nat /\ toks[Len(toks)] = "eof" /\ cur \in Nat
  BY TapeFacts
<1>2. S # {} /\ S \subseteq Nat
  BY <1>1
<1>3. PICK m \in S : \A k \in S : m <= k
  <2> HIDE DEF S
  <2> QED BY <1>2, Least
<1>4. m \in cur .. Len(toks) /\ P(m)
  BY <1>1, <1>3
<1>5. NewlinesSkipped(cur) = CHOOSE k \in cur .. Len(toks) : P(k)
  BY DEF NewlinesSkipped
<1>6. NewlinesSkipped(cur) \in cur .. Len(toks)
  <2> HIDE DEF P
  <2> QED BY <1>4, <1>5
<1> QED BY <1>1, <1>6

\* Pass 1 remembers only bodies whose braces balance.
LEMMA DeferBodyKeeps ==
  ASSUME StatementsInv, DeferBody
  PROVE  StatementsInv'
<1> DEFINE s == cur + 1
<1>1. /\ phase = "declarations" /\ toks[cur] # "eof"
      /\ UNCHANGED <<toks, body, goals, failing, depth, stops>>
  BY DEF DeferBody, At
<1>2. /\ TypeOK /\ BodiesBalance /\ goals = <<>> /\ ~failing /\ depth = 1
      /\ body = 0 /\ Len(stops) = 0
      /\ toks \in Tapes /\ cur \in 1 .. Len(toks) /\ Len(toks) \in Nat /\ s \in 1 .. Len(toks)
      /\ cur \in Nat
  BY <1>1, InPassOne
<1> HIDE DEF s
<1>3. \/ /\ toks[s] = "open" /\ Balance(s) # 0
         /\ pending' = Append(pending, s) /\ cur' = Balance(s) + 1
         /\ UNCHANGED <<phase, errors>>
      \/ /\ phase' = "done" /\ errors' = {0} /\ UNCHANGED <<pending, cur>>
  BY DEF DeferBody, BodyEnd, s
<1>4. pending \in Seq(Nat) /\ body \in 0 .. Len(pending) /\ Len(pending) \in Nat
  BY <1>2 DEF TypeOK
<1>5. /\ pending' \in Seq(Nat) /\ Len(pending') \in Nat /\ Len(pending) <= Len(pending')
      /\ \A i \in 1 .. Len(pending) : pending'[i] = pending[i]
  <2>1. CASE pending' = Append(pending, s)
    <3>1. s \in Nat
      BY <1>2
    <3> QED BY <1>4, <2>1, <3>1
  <2>2. CASE pending' = pending
    BY <1>4, <2>2
  <2> QED BY <1>3, <2>1, <2>2
<1>6. cur' \in 1 .. Len(toks)
  <2>1. CASE toks[s] = "open" /\ Balance(s) # 0 /\ cur' = Balance(s) + 1
    <3>1. Balance(s) \in s + 1 .. Len(toks) - 1
      BY <1>2, <2>1, BalanceFacts
    <3> QED BY <1>2, <2>1, <3>1
  <2>2. CASE cur' = cur
    BY <1>2, <2>2
  <2> QED BY <1>3, <2>1, <2>2
<1>7. TypeOK'
  <2>1. body' \in 0 .. Len(pending')
    BY <1>1, <1>4, <1>5
  <2>2. phase' \in {"declarations", "bodies", "done"} /\ errors' \subseteq Nat
    <3>1. {0} \subseteq Nat
      OBVIOUS
    <3>2. errors \subseteq Nat /\ phase \in {"declarations", "bodies", "done"}
      BY <1>2 DEF TypeOK
    <3>3. errors' = errors \/ errors' = {0}
      BY <1>3
    <3>4. phase' = phase \/ phase' = "done"
      BY <1>3
    <3> QED BY <3>1, <3>2, <3>3, <3>4
  <2> QED BY <1>1, <1>2, <1>5, <1>6, <2>1, <2>2 DEF TypeOK
<1>8. BodiesBalance'
  <2> SUFFICES ASSUME NEW i \in 1 .. Len(pending')
               PROVE  /\ pending'[i] \in 1 .. Len(toks)
                      /\ toks[pending'[i]] = "open"
                      /\ Balance(pending'[i]) # 0
    BY <1>1, SameTape DEF BodiesBalance
  <2>1. CASE i \in 1 .. Len(pending)
    BY <1>2, <1>5, <2>1 DEF BodiesBalance
  <2>2. CASE i \notin 1 .. Len(pending)
    <3>1. pending' # pending
      BY <2>2
    <3>2. toks[s] = "open" /\ Balance(s) # 0 /\ pending' = Append(pending, s)
      BY <1>3, <3>1
    <3>3. pending'[i] = s
      <4>1. Len(pending') = Len(pending) + 1 /\ pending'[Len(pending) + 1] = s
        BY <1>2, <1>4, <3>2
      <4>2. i = Len(pending) + 1
        BY <1>4, <2>2, <4>1
      <4> QED BY <4>1, <4>2
    <3> QED BY <1>2, <3>2, <3>3
  <2> QED BY <2>1, <2>2
<1>9. Between'
  <2>1. phase' = "done" => errors' # {}
    BY <1>1, <1>3
  <2> QED BY <1>1, <1>2, <2>1 DEF Between
<1>10. Within'
  BY <1>1, <1>2 DEF Within
<1>11. ReadToTheEnd'
  BY <1>1, <1>2 DEF ReadToTheEnd
<1> QED BY <1>7, <1>8, <1>9, <1>10, <1>11 DEF StatementsInv

LEMMA BetweenItemsKeeps ==
  ASSUME StatementsInv, BetweenItems
  PROVE  StatementsInv'
<1>1. /\ phase = "declarations" /\ cur' = NewlinesSkipped(cur)
      /\ phase' \in {"declarations", "bodies"}
      /\ UNCHANGED <<toks, pending, body, goals, failing, depth, errors, stops>>
  BY DEF BetweenItems
<1>2. /\ TypeOK /\ BodiesBalance /\ goals = <<>> /\ ~failing /\ depth = 1
      /\ body = 0 /\ Len(stops) = 0 /\ toks \in Tapes /\ cur \in 1 .. Len(toks)
  BY <1>1, InPassOne
<1>3. cur' \in 1 .. Len(toks)
  BY <1>1, <1>2, NewlinesType
<1>4. TypeOK'
  BY <1>1, <1>2, <1>3 DEF TypeOK
<1>5. BodiesBalance'
  BY <1>1, <1>2, SameTape DEF BodiesBalance
<1>6. Between' /\ Within' /\ ReadToTheEnd'
  BY <1>1, <1>2 DEF Between, Within, ReadToTheEnd
<1> QED BY <1>4, <1>5, <1>6 DEF StatementsInv

LEMMA FinishKeeps ==
  ASSUME StatementsInv, Finish
  PROVE  StatementsInv'
<1>1. /\ phase = "bodies" /\ goals = <<>> /\ body = Len(pending) /\ phase' = "done"
      /\ UNCHANGED <<toks, cur, pending, body, goals, failing, depth, errors, stops>>
  BY DEF Finish
<1>2. TypeOK' /\ Between' /\ Within'
  BY <1>1 DEF StatementsInv, TypeOK, Between, Within
<1>3. BodiesBalance' /\ ReadToTheEnd'
  BY <1>1, SameTape DEF StatementsInv, BodiesBalance, ReadToTheEnd, BodyEnd
<1> QED BY <1>2, <1>3 DEF StatementsInv

LEMMA StatementsStart ==
  ASSUME Init
  PROVE  StatementsInv
<1>1. toks \in Tapes /\ Len(toks) \in Nat /\ Len(toks) >= 1
  BY TapeFacts DEF Init
<1>2. <<>> \in Seq(Nat) /\ <<>> \in Seq(Goal) /\ Len(<<>>) = 0
  OBVIOUS
<1>3. TypeOK
  <2>1. cur \in 1 .. Len(toks)
    BY <1>1 DEF Init
  <2>2. body \in 0 .. Len(pending) /\ pending \in Seq(Nat) /\ stops \in Seq(Nat) /\ goals \in Seq(Goal)
    BY <1>2 DEF Init
  <2>3. errors \subseteq Nat /\ depth \in Int /\ failing \in BOOLEAN
    <3>1. {} \subseteq Nat /\ 1 \in Int /\ FALSE \in BOOLEAN
      OBVIOUS
    <3> QED BY <3>1, Zenon DEF Init
  <2>4. phase \in {"declarations", "bodies", "done"}
    BY DEF Init
  <2> QED BY <1>1, <2>1, <2>2, <2>3, <2>4 DEF TypeOK
<1>4. BodiesBalance /\ Between /\ Within /\ ReadToTheEnd
  BY <1>2 DEF Init, BodiesBalance, Between, Within, ReadToTheEnd
<1> QED BY <1>3, <1>4 DEF StatementsInv

LEMMA StatementsStand ==
  ASSUME StatementsInv, UNCHANGED stmtVars
  PROVE  StatementsInv'
<1>1. UNCHANGED <<toks, cur, phase, pending, body, goals, failing, depth, errors, stops>>
  BY DEF stmtVars
<1>2. /\ Here' = Here /\ Closing' = Closing
      /\ \A s, c : Open(s, c)' = Open(s, c)
      /\ \A s : Balance(s)' = Balance(s)
  BY <1>1, SameBody
<1>3. TypeOK' /\ Between'
  BY <1>1 DEF StatementsInv, TypeOK, Between
<1>4. BodiesBalance' /\ ReadToTheEnd'
  BY <1>1, <1>2 DEF StatementsInv, BodiesBalance, ReadToTheEnd, BodyEnd
<1>5. Within'
  BY <1>1, <1>2 DEF StatementsInv, Within, AtHead, Inside, AtTail, MarkOK
<1> QED BY <1>3, <1>4, <1>5 DEF StatementsInv

-----------------------------------------------------------------------------
(* The theorems. *)

\* The invariant: scopes are owed exactly, braces at most, and exactly while no error
\* was reported, by the calls in progress (parse_pending_bodies and what it calls).
THEOREM StatementsInvariant == Spec => []StatementsInv
<1>1. Init => StatementsInv
  BY StatementsStart
<1>2. StatementsInv /\ [Next]_stmtVars => StatementsInv'
  <2> SUFFICES ASSUME StatementsInv, [Next]_stmtVars PROVE StatementsInv'
    OBVIOUS
  <2>1. CASE DeferBody \/ BetweenItems
    BY <2>1, DeferBodyKeeps, BetweenItemsKeeps
  <2>2. CASE NextBody \/ Params
    BY <2>2, NextBodyKeeps, ParamsKeep
  <2>3. CASE BodyParsed \/ Finish
    BY <2>3, BodyParsedKeeps, FinishKeeps
  <2>4. CASE Expect \/ Leave
    BY <2>4, ExpectKeeps, LeaveKeeps
  <2>5. CASE Newlines \/ Terminator \/ NothingCaught \/ Items \/ MoreItems \/ Values
    BY <2>5, ListsKeep
  <2>6. CASE StatementStep
    <3>1. CASE Block \/ Statements
      BY <3>1, BlockKeeps, StatementsKeeps
    <3>2. CASE \/ Nested \/ Return \/ Break \/ Local \/ Decl \/ CaseOutsideSwitch
               \/ Plain \/ Assign \/ AssignedValue \/ AssignedTarget
      BY <3>2, SimpleStatementsKeep
    <3>3. CASE If \/ Else \/ While \/ For \/ ForInit \/ ForCond \/ ForInc
      BY <3>3, LoopsKeep
    <3>4. CASE Switch \/ Cases \/ Arms \/ Patterns
      BY <3>4, SwitchKeeps
    <3> QED BY <2>6, <3>1, <3>2, <3>3, <3>4 DEF StatementStep
  <2>7. CASE Expr \/ OpenValueBlock
    BY <2>7, ExprKeeps, OpenValueBlockKeeps
  <2>8. CASE Recover \/ ReadAsBlock \/ NeitherReading \/ BodyFailed
    <3>1. failing
      BY <2>8 DEF Recover, ReadAsBlock, NeitherReading, BodyFailed, Caught
    <3>2. goals # <<>>
      BY <3>1 DEF StatementsInv, Between
    <3> QED BY <2>8, <3>2, RecoverKeeps, ReadAsBlockKeeps, NeitherReadingKeeps, BodyFailedKeeps
  <2>9. CASE UNCHANGED stmtVars
    BY <2>9, StatementsStand
  <2> QED BY <2>1, <2>2, <2>3, <2>4, <2>5, <2>6, <2>7, <2>8, <2>9 DEF Next, ExpressionStep
<1> QED BY <1>1, <1>2, PTL DEF Spec

\* Whatever went wrong in a body, the scopes opened for it are all left before the
\* next one is parsed (parse_pending_bodies, scoped!).
THEOREM ScopesAlwaysClose == Spec => []ScopesClose
<1>1. StatementsInv => ScopesClose
  BY DEF StatementsInv, Between, ScopesClose
<1> QED BY <1>1, StatementsInvariant, PTL

\* However often an error in a body is recovered from, the cursor does not leave the
\* body (synchronize, parse_block_statement).
THEOREM RecoveryStaysInItsBody == Spec => []StaysInItsBody
<1>1. StatementsInv => StaysInItsBody
  <2> SUFFICES ASSUME StatementsInv, goals # <<>> PROVE cur \in Here .. Closing + 1
    BY DEF StaysInItsBody, Here, Closing, BodyEnd
  <2>1. Here \in Nat /\ Closing \in Nat /\ Closing \in Here + 1 .. Len(toks) - 1
    BY InBody DEF StatementsInv, Within
  <2>2. cur = Here \/ cur \in Here + 1 .. Closing \/ cur \in Here + 1 .. Closing + 1
    BY DEF StatementsInv, Within, AtHead, Inside, AtTail
  <2> QED BY <2>1, <2>2
<1> QED BY <1>1, StatementsInvariant, PTL

\* A program that is accepted was parsed to the last brace of every body
\* (parse_pending_bodies, parse_brace_expr).
THEOREM AcceptedBodiesAreRead == Spec => []AcceptedIsReadWhole
<1>1. StatementsInv => AcceptedIsReadWhole
  <2> SUFFICES ASSUME StatementsInv, phase = "done", errors = {}
               PROVE  \A i \in DOMAIN pending : stops[i] = BodyEnd(pending[i])
    BY DEF AcceptedIsReadWhole
  <2>1. goals = <<>>
    BY DEF StatementsInv, Within
  <2>2. Len(stops) = Len(pending)
    BY <2>1 DEF StatementsInv, Between
  <2>3. DOMAIN pending = 1 .. Len(pending)
    BY DEF StatementsInv, TypeOK
  <2> QED BY <2>2, <2>3 DEF StatementsInv, ReadToTheEnd
<1> QED BY <1>1, StatementsInvariant, PTL
=============================================================================
