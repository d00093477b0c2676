---------------------------- MODULE LayoutsProofs ----------------------------
(***************************************************************************)
(* Every sum of every accepted program is laid out, in whatever order the  *)
(* sums are declared.                                                      *)
(***************************************************************************)
EXTENDS Layouts, FiniteSetTheorems, SequenceTheorems, WellFoundedInduction, TLAPS

-----------------------------------------------------------------------------
(* Numbers. *)

\* A set of numbers has a least one.
LEMMA LeastNumber ==
  ASSUME NEW N, N \subseteq Nat, N # {}
  PROVE  \E n \in N : \A m \in N : n <= m
<1> DEFINE Less == OpToRel(<, Nat)
<1>1. IsWellFoundedOn(Less, Nat)
  BY NatLessThanWellFounded DEF OpToRel
<1> HIDE DEF Less
<1>2. PICK n \in N : \A m \in N : <<m, n>> \notin Less
  BY <1>1, WFMin
<1>3. ASSUME NEW m \in N PROVE ~(m < n)
  <2>1. m \in Nat /\ n \in Nat
    OBVIOUS
  <2>2. m < n => <<m, n>> \in Less
    BY <2>1 DEF Less, OpToRel
  <2> QED BY <1>2, <2>2
<1> QED BY <1>3

\* Division leaves less than the divisor.
LEMMA Division ==
  ASSUME NEW p \in Nat \ {0}, NEW x \in Int
  PROVE  /\ x \div p \in Int /\ x % p \in 0 .. p - 1 /\ x = (x \div p) * p + (x % p)
         /\ x \in Nat => x \div p \in Nat
<1>1. x = p * (x \div p) + (x % p) /\ x \div p \in Int /\ x % p \in 0 .. p - 1
  OBVIOUS
<1> DEFINE q == x \div p
           r == x % p
<1>2. q \in Int /\ r \in Int /\ r < p /\ x = p * q + r
  BY <1>1
<1>3. ASSUME x \in Nat, q <= -1 PROVE FALSE
  <2> HIDE DEF q, r
  <2>1. p * q <= -p
    BY <1>2, <1>3
  <2> QED BY <1>2, <1>3, <2>1
<1>4. p * q = q * p
  BY <1>2
<1>5. x \in Nat => q \in Nat
  BY <1>2, <1>3
<1> QED BY <1>1, <1>2, <1>4, <1>5

\* What is left of a multiple of p is nothing.
LEMMA Multiple ==
  ASSUME NEW p \in Nat \ {0}, NEW x \in Int
  PROVE  x % p = 0 <=> \E k \in Int : x = k * p
<1> DEFINE q == x \div p
           r == x % p
<1>1. q \in Int /\ r \in Int /\ 0 <= r /\ r < p /\ x = q * p + r
  BY Division
<1>2. ASSUME r = 0 PROVE \E k \in Int : x = k * p
  BY <1>1, <1>2
<1>3. ASSUME NEW k \in Int, x = k * p PROVE r = 0
  <2> HIDE DEF q, r
  <2>1. (k - q) * p = r
    BY <1>1, <1>3
  <2>2. ~(k - q >= 1)
    <3>1. SUFFICES ASSUME k - q >= 1 PROVE FALSE
      OBVIOUS
    <3>2. (k - q) * p >= p
      BY <1>1, <3>1
    <3> QED BY <1>1, <2>1, <3>2
  <2>3. ~(k - q <= -1)
    <3>1. SUFFICES ASSUME k - q <= -1 PROVE FALSE
      OBVIOUS
    <3>2. (k - q) * p <= -p
      BY <1>1, <3>1
    <3> QED BY <1>1, <2>1, <3>2
  <2>4. k = q
    BY <1>1, <2>2, <2>3
  <2> QED BY <1>1, <2>1, <2>4
<1> QED BY <1>2, <1>3

\* A smaller number is what is left of it.
LEMMA Remainder ==
  ASSUME NEW a \in Nat, NEW b \in Nat \ {0}, a < b
  PROVE  a % b = a
OBVIOUS

\* A multiple of a multiple.
LEMMA MultipleOfMultiple ==
  ASSUME NEW a \in Nat \ {0}, NEW b \in Nat \ {0}, NEW x \in Int, x % b = 0, b % a = 0
  PROVE  x % a = 0
<1>1. PICK k \in Int : x = k * b
  BY Multiple
<1>2. PICK l \in Int : b = l * a
  BY Multiple
<1>3. x = (k * l) * a /\ k * l \in Int
  BY <1>1, <1>2
<1> QED BY <1>3, Multiple

\* Rounding up goes to the next multiple.
LEMMA RoundUpFacts ==
  ASSUME NEW i \in Nat, NEW a \in Nat \ {0}
  PROVE  /\ RoundUp(i, a) \in Nat /\ RoundUp(i, a) >= i /\ RoundUp(i, a) % a = 0
         /\ RoundUp(0, a) = 0
<1> DEFINE n == i + a - 1
           q == n \div a
           r == n % a
<1>1. q \in Nat /\ r \in Int /\ r < a /\ n = q * a + r /\ n \in Nat
  BY Division
<1>2. RoundUp(i, a) = q * a
  BY DEF RoundUp
<1>3. q * a \in Nat
  <2> HIDE DEF q
  <2> QED BY <1>1
<1>4. q * a >= i
  <2>1. n = i + a - 1
    OBVIOUS
  <2> HIDE DEF q, r, n
  <2> QED BY <1>1, <1>3, <2>1
<1>5. (q * a) % a = 0
  <2> HIDE DEF q
  <2> QED BY <1>1, <1>3, Multiple
<1>6. RoundUp(0, a) = 0
  <2> DEFINE m == 0 + a - 1
             k == m \div a
             s == m % a
  <2>1. k \in Nat /\ s \in Int /\ 0 <= s /\ m = k * a + s
    BY Division
  <2>2. ~(k >= 1)
    <3>1. SUFFICES ASSUME k >= 1 PROVE FALSE
      OBVIOUS
    <3> HIDE DEF k, s
    <3>2. k * a >= a
      BY <2>1, <3>1
    <3> QED BY <2>1, <3>2
  <2>3. k = 0
    BY <2>1, <2>2
  <2> QED BY <2>3 DEF RoundUp
<1> QED BY <1>2, <1>3, <1>4, <1>5, <1>6

LEMMA MaxOfTwo ==
  ASSUME NEW a \in Int, NEW b \in Int
  PROVE  Max({a, b}) \in {a, b} /\ Max({a, b}) >= a /\ Max({a, b}) >= b
<1>1. \E x \in {a, b} : \A y \in {a, b} : x >= y
  OBVIOUS
<1> QED BY <1>1 DEF Max

\* The largest of finitely many numbers.
LEMMA MaxOfMany ==
  ASSUME NEW n \in Nat, n > 0, NEW f, \A i \in 1 .. n : f[i] \in Nat
  PROVE  LET S == {f[i] : i \in 1 .. n}
         IN  Max(S) \in S /\ \A i \in 1 .. n : f[i] <= Max(S)
<1> DEFINE Top(m) == \E i \in 1 .. m : \A j \in 1 .. m : f[j] <= f[i]
           Bad == {m \in 1 .. n : ~Top(m)}
<1>1. Top(n)
  <2>1. SUFFICES ASSUME Bad # {} PROVE FALSE
    <3>1. ~Top(n) => n \in Bad
      OBVIOUS
    <3> HIDE DEF Top, Bad
    <3> QED BY <3>1
  <2>0. PICK m \in Bad : \A k \in Bad : m <= k
    <3>1. Bad \subseteq Nat
      OBVIOUS
    <3> HIDE DEF Bad
    <3> QED BY <2>1, <3>1, LeastNumber
  <2>2. m \in 1 .. n /\ ~Top(m) /\ (m - 1 \in 1 .. n => Top(m - 1))
    <3>1. \A k : k \in Bad <=> k \in 1 .. n /\ ~Top(k)
      OBVIOUS
    <3> HIDE DEF Bad, Top
    <3> QED BY <2>0, <3>1
  <2>3. m # 1
    <3>1. SUFFICES ASSUME m = 1 PROVE FALSE
      OBVIOUS
    <3>2. 1 \in 1 .. 1 /\ \A j \in 1 .. 1 : j = 1
      OBVIOUS
    <3>3. f[1] \in Nat
      OBVIOUS
    <3>4. \A j \in 1 .. 1 : f[j] <= f[1]
      BY <3>2, <3>3
    <3>5. Top(1)
      BY <3>2, <3>4
    <3> QED BY <2>2, <3>1, <3>5
  <2>4. m - 1 \in 1 .. n /\ Top(m - 1)
    BY <2>2, <2>3
  <2>5. PICK i \in 1 .. m - 1 : \A j \in 1 .. m - 1 : f[j] <= f[i]
    BY <2>4
  <2>6. \A j \in 1 .. m : j = m \/ j \in 1 .. m - 1
    BY <2>2
  <2>7. m \in 1 .. m /\ i \in 1 .. m /\ f[i] \in Nat /\ f[m] \in Nat
    BY <2>2, <2>4
  <2>8. CASE f[m] <= f[i]
    BY <2>2, <2>5, <2>6, <2>7, <2>8
  <2>9. CASE f[i] < f[m]
    <3>1. \A j \in 1 .. m : f[j] <= f[m]
      BY <2>4, <2>5, <2>6, <2>7, <2>9
    <3> QED BY <2>2, <2>7, <3>1
  <2> QED BY <2>7, <2>8, <2>9
<1> DEFINE S == {f[i] : i \in 1 .. n}
<1>2. \E x \in S : \A y \in S : x >= y
  BY <1>1
<1>3. Max(S) \in S /\ \A y \in S : Max(S) >= y
  BY <1>2 DEF Max
<1>4. \A i \in 1 .. n : f[i] \in S
  OBVIOUS
<1> HIDE DEF S
<1>5. \A y \in S : y \in Nat
  BY DEF S
<1>6. \A i \in 1 .. n : f[i] <= Max(S)
  BY <1>3, <1>4, <1>5
<1> QED BY <1>3, <1>6 DEF S

-----------------------------------------------------------------------------
(* Recursion. *)

\* Two functions that are the same on S.
Alike(S, f, g) == \A y \in S : f[y] = g[y]
IsFrom(N, V, f) == f \in [N -> V]

\* What Step says of a thing in N, from what is said of its parts.
Equations(N, Parts, V, Step) ==
  /\ \A X \in SUBSET N : X # {} => \E x \in X : Parts[x] \cap X = {}
  /\ \A x \in N : Parts[x] \subseteq N
  /\ \A x \in N : \A f \in [N -> V] : Step[x][f] \in V
  /\ \A x \in N : \A f, g \in [N -> V] :
       Alike(Parts[x], f, g) => Step[x][f] = Step[x][g]

Solves(Parts, Step, D, f) == /\ \A x \in D : Parts[x] \subseteq D
                             /\ \A x \in D : f[x] = Step[x][f]

LEMMA EquationsAgree ==
  ASSUME NEW N, NEW Parts, NEW V, NEW Step, Equations(N, Parts, V, Step),
         NEW x \in N, NEW f, NEW g, IsFrom(N, V, f), IsFrom(N, V, g), Alike(Parts[x], f, g)
  PROVE  Step[x][f] = Step[x][g] /\ Step[x][f] \in V
BY DEF Equations, IsFrom

\* What is defined by recursion over parts is defined in one way.
LEMMA SolvedAlike ==
  ASSUME NEW N, NEW Parts, NEW V, NEW Step, Equations(N, Parts, V, Step),
         NEW D \in SUBSET N, NEW E \in SUBSET N, NEW f \in [N -> V], NEW g \in [N -> V],
         Solves(Parts, Step, D, f), Solves(Parts, Step, E, g),
         NEW y \in N, y \in D, y \in E
  PROVE  f[y] = g[y]
<1> DEFINE X == {x \in D \cap E : f[x] # g[x]}
<1>1. SUFFICES ASSUME X # {} PROVE FALSE
  OBVIOUS
<1>2. PICK x \in X : Parts[x] \cap X = {}
  <2>1. X \in SUBSET N
    OBVIOUS
  <2> HIDE DEF X
  <2> QED BY <1>1, <2>1 DEF Equations
<1>3. Parts[x] \subseteq D /\ Parts[x] \subseteq E /\ x \in N
  BY DEF Solves
<1>4. Alike(Parts[x], f, g)
  BY <1>2, <1>3 DEF Alike
<1>5. IsFrom(N, V, f) /\ IsFrom(N, V, g)
  BY DEF IsFrom
<1>6. Step[x][f] = Step[x][g]
  BY <1>3, <1>4, <1>5, EquationsAgree
<1> QED BY <1>6 DEF Solves

\* A function may be defined by recursion over what does not end in a cycle.
LEMMA Recursion ==
  ASSUME NEW N, NEW Parts, NEW V, NEW v \in V, NEW Step, Equations(N, Parts, V, Step)
  PROVE  \E f \in [N -> V] : \A x \in N : f[x] = Step[x][f]
<1> DEFINE Found(x, D, f) == D \in SUBSET N /\ f \in [N -> V] /\ Solves(Parts, Step, D, f) /\ x \in D
           G == {x \in N : \E D, f : Found(x, D, f)}
           Is(x, w) == \E D, f : Found(x, D, f) /\ w = f[x]
           value(x) == IF x \in G THEN CHOOSE w : Is(x, w) ELSE v
           h == [x \in N |-> value(x)]
<1>1. ASSUME NEW x, NEW D, NEW f, Found(x, D, f)
      PROVE  x \in G /\ h[x] = f[x] /\ f[x] \in V
  <2>1. x \in G /\ x \in N /\ f[x] \in V
    BY <1>1
  <2>2. Is(x, f[x])
    BY <1>1
  <2>3. ASSUME NEW w, Is(x, w) PROVE w = f[x]
    <3>1. PICK E, g : Found(x, E, g) /\ w = g[x]
      BY <2>3
    <3>2. f[x] = g[x]
      BY <1>1, <3>1, SolvedAlike
    <3> QED BY <3>1, <3>2
  <2>4. (CHOOSE w : Is(x, w)) = f[x]
    <3> HIDE DEF Is
    <3> QED BY <2>2, <2>3
  <2>5. value(x) = f[x]
    <3> HIDE DEF G, Is
    <3> QED BY <2>1, <2>4
  <2>6. h[x] = value(x)
    <3> HIDE DEF value
    <3> QED BY <2>1
  <2> QED BY <2>1, <2>5, <2>6
<1>2. h \in [N -> V]
  <2>1. ASSUME NEW x \in N PROVE value(x) \in V
    <3>1. CASE x \in G
      <4>1. PICK D, f : Found(x, D, f)
        BY <3>1
      <4>2. h[x] = f[x] /\ f[x] \in V
        <5> HIDE DEF Found, h
        <5> QED BY <1>1, <4>1
      <4>3. h[x] = value(x)
        <5> HIDE DEF value
        <5> QED OBVIOUS
      <4> HIDE DEF value, h
      <4> QED BY <4>2, <4>3
    <3>2. CASE x \notin G
      <4> HIDE DEF G
      <4> QED BY <3>2
    <3> QED BY <3>1, <3>2
  <2> HIDE DEF value
  <2> QED BY <2>1
<1>5. IsFrom(N, V, h)
  <2> HIDE DEF h
  <2> QED BY <1>2 DEF IsFrom
<1>3. ASSUME NEW x \in G PROVE x \in N /\ Parts[x] \subseteq G /\ h[x] = Step[x][h]
  <2>1. PICK D, f : Found(x, D, f)
    BY <1>3
  <2>2. Parts[x] \subseteq D /\ f[x] = Step[x][f] /\ x \in N
    BY <2>1 DEF Solves
  <2>3. \A y \in D : Found(y, D, f)
    BY <2>1
  <2>4. \A y \in D : y \in G /\ f[y] = h[y]
    <3> HIDE DEF Found, h, G
    <3> QED BY <1>1, <2>3
  <2>5. IsFrom(N, V, f)
    BY <2>1 DEF IsFrom
  <2> HIDE DEF h, G, Found
  <2>6. Alike(Parts[x], f, h)
    BY <2>2, <2>4 DEF Alike
  <2>7. Step[x][f] = Step[x][h]
    BY <1>5, <2>2, <2>5, <2>6, EquationsAgree
  <2>8. h[x] = f[x]
    BY <1>1, <2>1
  <2> QED BY <2>2, <2>4, <2>7, <2>8
<1>4. G = N
  <2> DEFINE X == N \ G
  <2>1. SUFFICES ASSUME X # {} PROVE FALSE
    OBVIOUS
  <2>2. PICK x \in X : Parts[x] \cap X = {}
    <3>1. X \in SUBSET N
      OBVIOUS
    <3> HIDE DEF X
    <3> QED BY <2>1, <3>1 DEF Equations
  <2>3. x \in N /\ x \notin G /\ Parts[x] \subseteq G
    BY <2>2 DEF Equations
  <2> DEFINE D == G \cup {x}
             g == [y \in N |-> IF y = x THEN Step[x][h] ELSE h[y]]
  <2>4. G \subseteq N
    BY DEF G
  <2> HIDE DEF G, h
  <2>5. Step[x][h] \in V
    BY <1>2, <2>3 DEF Equations
  <2>6. g \in [N -> V] /\ g[x] = Step[x][h] /\ \A y \in N : y # x => g[y] = h[y]
    BY <1>2, <2>3, <2>5
  <2> HIDE DEF g
  <2>7. \A y \in G : g[y] = h[y]
    BY <2>3, <2>4, <2>6
  <2>8. ASSUME NEW y \in D PROVE Parts[y] \subseteq D /\ g[y] = Step[y][g]
    <3>1. Parts[y] \subseteq G /\ y \in N /\ g[y] = Step[y][h]
      <4>1. CASE y = x
        BY <2>3, <2>6, <4>1
      <4>2. CASE y \in G
        BY <1>3, <2>7, <4>2
      <4> QED BY <2>8, <4>1, <4>2
    <3>2. Alike(Parts[y], h, g)
      BY <2>7, <3>1 DEF Alike
    <3>3. Step[y][h] = Step[y][g]
      <4>1. IsFrom(N, V, g)
        BY <2>6 DEF IsFrom
      <4> QED BY <1>5, <3>1, <3>2, <4>1, EquationsAgree
    <3> QED BY <3>1, <3>3
  <2>9. Solves(Parts, Step, D, g)
    <3> HIDE DEF D
    <3> QED BY <2>8 DEF Solves
  <2>10. Found(x, D, g)
    BY <2>3, <2>4, <2>6, <2>9
  <2>11. x \in G
    <3> HIDE DEF Found, D
    <3> QED BY <2>3, <2>10 DEF G
  <2> QED BY <2>3, <2>11
<1> HIDE DEF h, G
<1> QED BY <1>2, <1>3, <1>4

-----------------------------------------------------------------------------
(* Layouts. *)

LayoutSet == {l \in [size : Nat, align : Sizes, at : Seq(Nat), data : SUBSET Nat] :
                  \A b \in l.data : b < l.size}

LEMMA LayoutParts ==
  ASSUME NEW l
  PROVE  /\ l \in LayoutSet => /\ l.size \in Nat /\ l.align \in Sizes /\ l.align \in Nat \ {0}
                               /\ l.at \in Seq(Nat) /\ l.data \subseteq Nat
                               /\ \A b \in l.data : b < l.size
         /\ l \in [size : Nat, align : Sizes, at : Seq(Nat), data : SUBSET Nat]
              => l.align \in Nat \ {0}
BY SizesAssumption DEF LayoutSet

LEMMA IntLayoutFits == ASSUME NEW s \in Sizes PROVE IntLayout(s) \in LayoutSet
<1>1. s \in Nat
  BY SizesAssumption
<1>2. 0 .. s - 1 \in SUBSET Nat /\ \A b \in 0 .. s - 1 : b < s
  BY <1>1
<1>3. <<>> \in Seq(Nat)
  OBVIOUS
<1> DEFINE D == 0 .. s - 1
<1> HIDE DEF D
<1>4. [size |-> s, align |-> s, at |-> <<>>, data |-> D] \in LayoutSet
  BY <1>1, <1>2, <1>3 DEF LayoutSet, D
<1> QED BY <1>4 DEF IntLayout, D

LEMMA EmptyLayoutFits == EmptyLayout \in LayoutSet
<1>1. 1 \in Sizes
  BY SizesAssumption
<1>2. <<>> \in Seq(Nat)
  OBVIOUS
<1> QED BY <1>1, <1>2 DEF EmptyLayout, LayoutSet

\* Two of the things Shifted says.
LEMMA ShiftedFacts ==
  ASSUME NEW S \in SUBSET Nat, NEW i \in Nat, NEW n \in Nat, \A b \in S : b < n
  PROVE  Shifted(S, i) \subseteq Nat /\ \A b \in Shifted(S, i) : b < i + n
BY DEF Shifted

LEMMA RepeatedFits ==
  ASSUME NEW l \in LayoutSet, NEW n \in Nat
  PROVE  Repeated(l, n) \in LayoutSet
<1>1. l.size \in Nat /\ l.align \in Sizes /\ l.data \in SUBSET Nat /\ \A b \in l.data : b < l.size
  BY LayoutParts
<1> DEFINE D == UNION {Shifted(l.data, i * l.size) : i \in 0 .. n - 1}
           z == l.size
<1> HIDE DEF z
<1>2. n * z \in Nat
  BY <1>1 DEF z
<1>3. ASSUME NEW i \in 0 .. n - 1, NEW b \in Shifted(l.data, i * l.size)
      PROVE  b \in Nat /\ b < n * z
  <2>1. i * z \in Nat /\ z \in Nat
    BY <1>1 DEF z
  <2>2. b \in Nat /\ b < i * z + z
    BY <1>1, <1>3, <2>1, ShiftedFacts DEF z
  <2>3. i * z + z = (i + 1) * z
    BY <2>1
  <2>4. (i + 1) * z <= n * z
    BY <2>1
  <2> QED BY <1>2, <2>1, <2>2, <2>3, <2>4
<1>4. D \in SUBSET Nat /\ \A b \in D : b < n * z
  BY <1>3
<1>5. <<>> \in Seq(Nat)
  OBVIOUS
<1> HIDE DEF D
<1>6. [size |-> n * z, align |-> l.align, at |-> <<>>, data |-> D] \in LayoutSet
  BY <1>1, <1>2, <1>4, <1>5 DEF LayoutSet
<1> QED BY <1>6 DEF Repeated, D, z

\* Of two alignments the larger is a multiple of the smaller.
LEMMA LargerIsMultiple ==
  ASSUME NEW a \in Sizes, NEW b \in Sizes, b <= a
  PROVE  a % b = 0
<1>1. a \in Nat \ {0} /\ b \in Nat \ {0} /\ (a % b = 0 \/ b % a = 0)
  BY SizesAssumption
<1>2. CASE a = b
  <2>1. a = 1 * b
    BY <1>1, <1>2
  <2> QED BY <1>1, <2>1, Multiple
<1>3. CASE a # b
  <2>1. b % a = b
    BY <1>1, <1>3, Remainder
  <2> QED BY <1>1, <2>1
<1> QED BY <1>2, <1>3

\* A field's place is aligned, and the field's bytes are the whole's.
LEMMA PlacedFits ==
  ASSUME NEW s \in LayoutSet, NEW l \in LayoutSet
  PROVE  LET place == RoundUp(s.size, l.align)
         IN  /\ Placed(s, l) \in LayoutSet
             /\ place \in Nat /\ place % l.align = 0
             /\ Placed(s, l).at = Append(s.at, place)
             /\ s.data \subseteq Placed(s, l).data
             /\ Shifted(l.data, place) \subseteq Placed(s, l).data
             /\ Placed(s, l).size = place + l.size
             /\ Placed(s, l).align % l.align = 0
<1> DEFINE place == RoundUp(s.size, l.align)
           D == s.data \union Shifted(l.data, place)
           most == Max({s.align, l.align})
<1>1. /\ s.size \in Nat /\ s.align \in Sizes /\ s.data \in SUBSET Nat /\ \A b \in s.data : b < s.size
      /\ l.size \in Nat /\ l.align \in Sizes /\ l.data \in SUBSET Nat /\ \A b \in l.data : b < l.size
      /\ s.at \in Seq(Nat) /\ l.align \in Nat \ {0} /\ s.align \in Nat \ {0}
  BY LayoutParts
<1>2. place \in Nat /\ place >= s.size /\ place % l.align = 0
  BY <1>1, RoundUpFacts
<1>3. Placed(s, l) = [size |-> place + l.size, align |-> most, at |-> Append(s.at, place), data |-> D]
  BY DEF Placed
<1>4. most \in {s.align, l.align} /\ most >= l.align
  <2>1. s.align \in Int /\ l.align \in Int
    BY <1>1
  <2> QED BY <2>1, MaxOfTwo
<1> HIDE DEF place, most
<1>5. D \in SUBSET Nat /\ \A b \in D : b < place + l.size
  <2>1. Shifted(l.data, place) \subseteq Nat /\ \A b \in Shifted(l.data, place) : b < place + l.size
    BY <1>1, <1>2, ShiftedFacts
  <2> QED BY <1>1, <1>2, <2>1
<1>6. Append(s.at, place) \in Seq(Nat)
  BY <1>1, <1>2
<1>7. most % l.align = 0
  BY <1>1, <1>4, LargerIsMultiple
<1>8. most \in Sizes
  BY <1>1, <1>4
<1> DEFINE E == D
<1> HIDE DEF E
<1>9. [size |-> place + l.size, align |-> most, at |-> Append(s.at, place), data |-> E] \in LayoutSet
  BY <1>1, <1>2, <1>5, <1>6, <1>8 DEF LayoutSet, E
<1> QED BY <1>2, <1>3, <1>7, <1>9 DEF place, E

\* What has been placed before each field, as Structure finds it.
First(ls) == CHOOSE f : f = [i \in 0 .. Len(ls) |->
                                IF i = 0 THEN EmptyLayout ELSE Placed(f[i - 1], ls[i])]

LEMMA FirstFits ==
  ASSUME NEW ls \in Seq(LayoutSet)
  PROVE  /\ First(ls) \in [0 .. Len(ls) -> LayoutSet]
         /\ First(ls)[0] = EmptyLayout
         /\ \A i \in 1 .. Len(ls) : First(ls)[i] = Placed(First(ls)[i - 1], ls[i])
         /\ Structure(ls) = [First(ls)[Len(ls)] EXCEPT !.size = RoundUp(@, First(ls)[Len(ls)].align)]
<1> DEFINE n == Len(ls)
           N == 0 .. n
           V == LayoutSet
           Parts == [i \in N |-> IF i = 0 THEN {} ELSE {i - 1}]
           value(f, i) == IF i = 0 THEN EmptyLayout ELSE Placed(f[i - 1], ls[i])
           Step == [i \in N |-> [f \in [N -> V] |-> value(f, i)]]
<1>1. n \in Nat /\ \A i \in 1 .. n : ls[i] \in V
  OBVIOUS
<1>2. \A X \in SUBSET N : X # {} => \E x \in X : Parts[x] \cap X = {}
  <2>1. SUFFICES ASSUME NEW X \in SUBSET N, X # {} PROVE \E x \in X : Parts[x] \cap X = {}
    OBVIOUS
  <2>2. X \subseteq Nat
    BY <1>1
  <2>3. PICK x \in X : \A y \in X : x <= y
    BY <2>1, <2>2, LeastNumber
  <2>4. \A y \in Parts[x] : y < x
    BY <1>1, <2>3
  <2>5. \A y \in Parts[x] : y \notin X
    BY <2>2, <2>3, <2>4
  <2> QED BY <2>5
<1>3. \A i \in N : Parts[i] \subseteq N
  BY <1>1
<1> HIDE DEF n, V
<1>4. ASSUME NEW i \in N, NEW f, i # 0 => f[i - 1] \in V PROVE value(f, i) \in V
  <2>1. CASE i = 0
    BY <2>1, EmptyLayoutFits DEF V
  <2>2. CASE i # 0
    <3>1. f[i - 1] \in V /\ ls[i] \in V
      BY <1>1, <1>4, <2>2
    <3>2. Placed(f[i - 1], ls[i]) \in V
      BY <3>1, PlacedFits DEF V
    <3> QED BY <2>2, <3>2
  <2> QED BY <2>1, <2>2
<1>5. \A i \in N : i # 0 => i - 1 \in N
  BY <1>1
<1>6. ASSUME NEW i \in N, NEW f \in [N -> V] PROVE Step[i][f] = value(f, i) /\ value(f, i) \in V
  <2>1. i # 0 => f[i - 1] \in V
    BY <1>5
  <2> HIDE DEF N, value
  <2> QED BY <1>4, <2>1
<1>7. ASSUME NEW i \in N, NEW f \in [N -> V], NEW g \in [N -> V], Alike(Parts[i], f, g)
      PROVE  Step[i][f] = Step[i][g]
  <2>1. i # 0 => f[i - 1] = g[i - 1]
    BY <1>7 DEF Alike
  <2>2. value(f, i) = value(g, i)
    BY <2>1
  <2> HIDE DEF N, value, Step
  <2> QED BY <1>6, <2>2
<1>8. Equations(N, Parts, V, Step)
  <2> HIDE DEF N, Parts, Step, value
  <2> QED BY <1>2, <1>3, <1>6, <1>7 DEF Equations
<1>9. PICK f \in [N -> V] : \A i \in N : f[i] = Step[i][f]
  <2>1. EmptyLayout \in V
    BY EmptyLayoutFits DEF V
  <2> HIDE DEF N, Parts, Step, value
  <2> QED BY <1>8, <2>1, Recursion, SMTT(20)
<1>10. f = [i \in N |-> value(f, i)]
  <2> HIDE DEF N, value, Step
  <2>1. \A i \in N : f[i] = value(f, i)
    BY <1>6, <1>9
  <2> QED BY <2>1
<1> DEFINE c == First(ls)
<1>11. c = CHOOSE g : g = [i \in N |-> value(g, i)]
  BY DEF First, n
<1>12. c = [i \in N |-> value(c, i)]
  <2> HIDE DEF N, value, c
  <2> QED BY <1>10, <1>11
<1> HIDE DEF c
<1>13. \A i \in N : c[i] = value(c, i)
  <2> HIDE DEF N, value
  <2> QED BY <1>12
<1>14. \A i \in N : c[i] \in V
  <2> DEFINE Bad == {i \in N : c[i] \notin V}
  <2>1. SUFFICES ASSUME Bad # {} PROVE FALSE
    OBVIOUS
  <2>2. Bad \subseteq Nat
    BY <1>1
  <2>3. PICK i \in Bad : \A j \in Bad : i <= j
    <3> HIDE DEF Bad
    <3> QED BY <2>1, <2>2, LeastNumber
  <2>4. i \in N /\ c[i] \notin V
    BY <2>3
  <2>5. i # 0 => c[i - 1] \in V
    <3>1. SUFFICES ASSUME i # 0, c[i - 1] \notin V PROVE FALSE
      OBVIOUS
    <3>2. i - 1 \in Bad
      BY <1>5, <2>4, <3>1
    <3>3. i <= i - 1 /\ i \in Nat
      <4> HIDE DEF Bad
      <4> QED BY <2>2, <2>3, <3>2
    <3> QED BY <3>3
  <2>6. value(c, i) \in V
    <3> HIDE DEF value, N
    <3> QED BY <1>4, <2>4, <2>5
  <2> QED BY <1>13, <2>4, <2>6
<1>15. c \in [N -> V]
  <2> HIDE DEF N, value
  <2> QED BY <1>12, <1>14
<1>16. \A i \in 1 .. n : c[i] = Placed(c[i - 1], ls[i])
  BY <1>1, <1>13
<1>17. c[0] = EmptyLayout
  BY <1>1, <1>13
<1>18. Structure(ls) = [c[n] EXCEPT !.size = RoundUp(@, c[n].align)]
  BY DEF Structure, c, First, n
<1> QED BY <1>15, <1>16, <1>17, <1>18 DEF c, n, V

\* The layout a structure gets, but for what is added behind its last field.
LEMMA RoundedFits ==
  ASSUME NEW l \in LayoutSet
  PROVE  LET r == [l EXCEPT !.size = RoundUp(@, l.align)]
         IN  r \in LayoutSet /\ r.align = l.align /\ r.at = l.at /\ r.data = l.data /\ r.size >= l.size
<1>1. /\ l.size \in Nat /\ l.align \in Sizes /\ l.align \in Nat \ {0}
      /\ l.at \in Seq(Nat) /\ l.data \subseteq Nat /\ \A b \in l.data : b < l.size
  BY LayoutParts
<1>2. RoundUp(l.size, l.align) \in Nat /\ RoundUp(l.size, l.align) >= l.size
  BY <1>1, RoundUpFacts
<1> DEFINE z == RoundUp(l.size, l.align)
<1> HIDE DEF z
<1>3. \A b \in l.data : b < z
  BY <1>1, <1>2 DEF z
<1>4. [l EXCEPT !.size = z] = [size |-> z, align |-> l.align, at |-> l.at, data |-> l.data]
  BY DEF LayoutSet
<1>5. [size |-> z, align |-> l.align, at |-> l.at, data |-> l.data] \in LayoutSet
  BY <1>1, <1>2, <1>3 DEF LayoutSet, z
<1> QED BY <1>2, <1>4, <1>5 DEF z

LEMMA StructureFits ==
  ASSUME NEW ls \in Seq(LayoutSet)
  PROVE  Structure(ls) \in LayoutSet
<1>1. First(ls)[Len(ls)] \in LayoutSet
  <2>1. Len(ls) \in 0 .. Len(ls)
    OBVIOUS
  <2> QED BY <2>1, FirstFits
<1> QED BY <1>1, FirstFits, RoundedFits

\* Where the second of two fields is.
LEMMA SecondField ==
  ASSUME NEW a \in LayoutSet, NEW b \in LayoutSet
  PROVE  LET s == Structure(<<a, b>>)
         IN  /\ s \in LayoutSet
             /\ s.at[2] \in Nat /\ s.at[2] % b.align = 0
             /\ Shifted(b.data, s.at[2]) \subseteq s.data
             /\ s.align % b.align = 0
<1> DEFINE ls == <<a, b>>
           s == Structure(ls)
           c == First(ls)
<1>1. ls \in Seq(LayoutSet) /\ Len(ls) = 2 /\ ls[1] = a /\ ls[2] = b
  OBVIOUS
<1> HIDE DEF ls
<1>2. /\ c \in [0 .. 2 -> LayoutSet] /\ c[0] = EmptyLayout
      /\ c[1] = Placed(c[0], a) /\ c[2] = Placed(c[1], b)
      /\ s = [c[2] EXCEPT !.size = RoundUp(@, c[2].align)]
  <2>1. 1 \in 1 .. 2 /\ 2 \in 1 .. 2 /\ 1 - 1 = 0 /\ 2 - 1 = 1
    OBVIOUS
  <2> QED BY <1>1, <2>1, FirstFits
<1> HIDE DEF c, s
<1>3. c[0] \in LayoutSet /\ c[1] \in LayoutSet /\ c[2] \in LayoutSet
  BY <1>2
<1>4. s \in LayoutSet /\ s.align = c[2].align /\ s.at = c[2].at /\ s.data = c[2].data
  BY <1>2, <1>3, RoundedFits
<1> DEFINE p == RoundUp(c[0].size, a.align)
           q == RoundUp(c[1].size, b.align)
<1>5. c[1].at = Append(c[0].at, p) /\ p \in Nat
  BY <1>2, <1>3, PlacedFits
<1>6. /\ c[2].at = Append(c[1].at, q) /\ q \in Nat /\ q % b.align = 0
      /\ Shifted(b.data, q) \subseteq c[2].data /\ c[2].align % b.align = 0
  BY <1>2, <1>3, PlacedFits
<1>7. c[0].at = <<>>
  BY <1>2 DEF EmptyLayout
<1> HIDE DEF p, q
<1>8. c[2].at = Append(Append(<<>>, p), q)
  BY <1>5, <1>6, <1>7
<1>9. s.at[2] = q
  <2>1. Append(Append(<<>>, p), q)[2] = q
    BY <1>5, <1>6
  <2> QED BY <1>4, <1>8, <2>1
<1> QED BY <1>4, <1>6, <1>9 DEF s, ls

-----------------------------------------------------------------------------
(* Types. *)

IsProgram == program \in Programs
Bodies == /\ DOMAIN bodies \subseteq Sums(program)
          /\ \A x \in DOMAIN bodies : bodies[x] \in LayoutSet

LEMMA ElementTypeFacts ==
  ASSUME NEW p, NEW t \in ElementTypes(p)
  PROVE  /\ t.k \in {"scalar", "pointer", "named"}
         /\ t.k = "scalar" => t.size \in Sizes
         /\ t.k = "named" => t.name \in DOMAIN p.types
BY DEF ElementTypes, scalar, pointer, named

LEMMA TypeFacts ==
  ASSUME NEW p, NEW t \in TypesOf(p)
  PROVE  /\ t.k \in {"scalar", "pointer", "named", "array"}
         /\ t.k = "scalar" => t.size \in Sizes
         /\ t.k = "named" => t.name \in DOMAIN p.types
         /\ t.k = "array" => t.of \in ElementTypes(p) /\ t.n \in Nat
         /\ Element(t) \in ElementTypes(p)
         /\ Inside(t) \subseteq DOMAIN p.types
<1>1. CASE t \in ElementTypes(p)
  BY <1>1, ElementTypeFacts DEF Element, Inside
<1>2. CASE t \in [k : {"array"}, of : ElementTypes(p), n : Nat]
  <2>1. t.k = "array" /\ t.of \in ElementTypes(p) /\ t.n \in Nat
    BY <1>2
  <2> QED BY <2>1, ElementTypeFacts DEF Element, Inside
<1> QED BY <1>1, <1>2 DEF TypesOf

LEMMA DeclarationFacts ==
  ASSUME NEW p \in Programs, NEW x \in DOMAIN p.types
  PROVE  /\ x \in Sums(p) => /\ p.types[x].variants \in Seq(Seq(TypesOf(p)))
                             /\ p.types[x].variants # <<>>
                             /\ p.types[x].k = "sum"
         /\ x \notin Sums(p) => /\ p.types[x].fields \in Seq(TypesOf(p))
                                /\ p.types[x].k = "struct"
<1>1. p.types[x] \in [k : {"struct"}, fields : Seq(TypesOf(p))]
                     \union [k : {"sum"}, variants : Seq(Seq(TypesOf(p))) \ {<<>>}]
  BY ProgramsAssumption
<1>2. x \in Sums(p) <=> p.types[x].k = "sum"
  BY DEF Sums
<1>3. CASE p.types[x] \in [k : {"struct"}, fields : Seq(TypesOf(p))]
  BY <1>2, <1>3
<1>4. CASE p.types[x] \in [k : {"sum"}, variants : Seq(Seq(TypesOf(p))) \ {<<>>}]
  BY <1>2, <1>4
<1> QED BY <1>1, <1>3, <1>4

LEMMA StoredInFacts ==
  ASSUME NEW p \in Programs, NEW x \in DOMAIN p.types
  PROVE  /\ StoredIn(p, x) \subseteq DOMAIN p.types
         /\ x \notin Sums(p) => \A i \in DOMAIN p.types[x].fields :
                                    Inside(p.types[x].fields[i]) \subseteq StoredIn(p, x)
         /\ x \in Sums(p) => \A v \in DOMAIN p.types[x].variants :
                               \A i \in DOMAIN p.types[x].variants[v] :
                                    Inside(p.types[x].variants[v][i]) \subseteq StoredIn(p, x)
<1> DEFINE d == p.types[x]
<1>1. CASE x \notin Sums(p)
  <2>1. d.k = "struct" /\ d.fields \in Seq(TypesOf(p))
    BY <1>1, DeclarationFacts
  <2> HIDE DEF d
  <2>2. Members(d) = {d.fields[i] : i \in DOMAIN d.fields}
    BY <2>1 DEF Members
  <2>3. \A i \in DOMAIN d.fields : d.fields[i] \in TypesOf(p)
    BY <2>1
  <2>4. StoredIn(p, x) = UNION {Inside(t) : t \in Members(d)}
    BY DEF StoredIn, d
  <2>5. \A t \in Members(d) : Inside(t) \subseteq DOMAIN p.types
    BY <2>2, <2>3, TypeFacts
  <2>6. \A i \in DOMAIN d.fields : Inside(d.fields[i]) \subseteq StoredIn(p, x)
    BY <2>2, <2>4
  <2> QED BY <1>1, <2>4, <2>5, <2>6 DEF d
<1>2. CASE x \in Sums(p)
  <2>1. d.k = "sum" /\ d.variants \in Seq(Seq(TypesOf(p)))
    BY <1>2, DeclarationFacts
  <2> HIDE DEF d
  <2>2. Members(d) = UNION {{d.variants[v][i] : i \in DOMAIN d.variants[v]} : v \in DOMAIN d.variants}
    BY <2>1 DEF Members
  <2>3. \A v \in DOMAIN d.variants : \A i \in DOMAIN d.variants[v] : d.variants[v][i] \in TypesOf(p)
    BY <2>1
  <2>4. StoredIn(p, x) = UNION {Inside(t) : t \in Members(d)}
    BY DEF StoredIn, d
  <2>5. \A t \in Members(d) : Inside(t) \subseteq DOMAIN p.types
    BY <2>2, <2>3, TypeFacts
  <2>6. \A v \in DOMAIN d.variants : \A i \in DOMAIN d.variants[v] :
          Inside(d.variants[v][i]) \subseteq StoredIn(p, x)
    BY <2>2, <2>4
  <2> QED BY <1>2, <2>4, <2>5, <2>6 DEF d
<1> QED BY <1>1, <1>2

-----------------------------------------------------------------------------
(* What is computed by name. *)

\* What the readiness or the layout of a name is taken from.
Needs == [x \in DOMAIN program.types |-> IF x \in Sums(program) THEN {} ELSE StoredIn(program, x)]

LEMMA NeedsEnd ==
  IsProgram => /\ \A X \in SUBSET DOMAIN program.types : X # {} => \E x \in X : Needs[x] \cap X = {}
               /\ \A x \in DOMAIN program.types : Needs[x] \subseteq DOMAIN program.types
<1>1. SUFFICES ASSUME IsProgram
               PROVE  /\ \A X \in SUBSET DOMAIN program.types : X # {} => \E x \in X : Needs[x] \cap X = {}
                      /\ \A x \in DOMAIN program.types : Needs[x] \subseteq DOMAIN program.types
  OBVIOUS
<1>2. program \in Programs
  BY <1>1 DEF IsProgram
<1>3. \A x \in DOMAIN program.types : Needs[x] \subseteq StoredIn(program, x)
  BY DEF Needs
<1>4. \A x \in DOMAIN program.types : StoredIn(program, x) \subseteq DOMAIN program.types
  BY <1>2, StoredInFacts
<1>5. ASSUME NEW X \in SUBSET DOMAIN program.types, X # {} PROVE \E x \in X : Needs[x] \cap X = {}
  <2>1. PICK x \in X : StoredIn(program, x) \cap X = {}
    BY <1>2, <1>5, ProgramsAssumption
  <2> QED BY <1>3, <2>1
<1> QED BY <1>3, <1>4, <1>5

\* Lowering a field or a payload.
LEMMA TypeLoweredFits ==
  IsProgram =>
    \A t \in TypesOf(program) : \A f :
      (\A x \in Inside(t) : f[x] \in LayoutSet) => TypeLowered(f, t) \in LayoutSet
<1>1. SUFFICES ASSUME IsProgram, NEW t \in TypesOf(program), NEW f,
                      \A x \in Inside(t) : f[x] \in LayoutSet
               PROVE  TypeLowered(f, t) \in LayoutSet
  OBVIOUS
<1>2. t.k \in {"scalar", "pointer", "named", "array"} /\ (t.k = "scalar" => t.size \in Sizes)
  BY TypeFacts
<1>3. CASE t.k = "scalar"
  <2>1. TypeLowered(f, t) = IntLayout(t.size)
    BY <1>3 DEF TypeLowered
  <2> QED BY <1>2, <1>3, <2>1, IntLayoutFits
<1>4. CASE t.k = "named"
  <2>1. TypeLowered(f, t) = f[t.name]
    BY <1>4 DEF TypeLowered
  <2>2. t.name \in Inside(t)
    BY <1>4 DEF Inside, Element
  <2> QED BY <1>1, <2>1, <2>2
<1>5. CASE t.k \in {"pointer", "array"}
  <2>1. TypeLowered(f, t) = IntLayout(PointerSize)
    BY <1>5 DEF TypeLowered
  <2>2. PointerSize \in Sizes
    BY SizesAssumption
  <2> QED BY <2>1, <2>2, IntLayoutFits
<1> QED BY <1>2, <1>3, <1>4, <1>5

LEMMA TypeLoweredAlike ==
  ASSUME NEW t, NEW f, NEW g, \A x \in Inside(t) : f[x] = g[x]
  PROVE  TypeLowered(f, t) = TypeLowered(g, t)
<1>1. CASE t.k = "named"
  <2>1. t.name \in Inside(t)
    BY <1>1 DEF Inside, Element
  <2>2. TypeLowered(f, t) = f[t.name] /\ TypeLowered(g, t) = g[t.name]
    BY <1>1 DEF TypeLowered
  <2> QED BY <2>1, <2>2
<1>2. CASE t.k # "named"
  BY <1>2 DEF TypeLowered
<1> QED BY <1>1, <1>2

LEMMA NameLoweredFits ==
  IsProgram /\ Bodies =>
    \A x \in DOMAIN program.types : \A f :
      (\A y \in Needs[x] : f[y] \in LayoutSet) => NameLowered(f, x) \in LayoutSet
<1>1. SUFFICES ASSUME IsProgram, Bodies, NEW x \in DOMAIN program.types, NEW f,
                      \A y \in Needs[x] : f[y] \in LayoutSet
               PROVE  NameLowered(f, x) \in LayoutSet
  OBVIOUS
<1>2. CASE x \in Sums(program)
  <2>1. NameLowered(f, x) = BodyOf(x)
    BY <1>2 DEF NameLowered
  <2> QED BY <1>1, <2>1, EmptyLayoutFits DEF BodyOf, Bodies
<1>3. CASE x \notin Sums(program)
  <2> DEFINE fs == program.types[x].fields
             ls == [i \in DOMAIN fs |-> TypeLowered(f, fs[i])]
  <2>1. NameLowered(f, x) = Structure(ls)
    BY <1>3 DEF NameLowered
  <2>2. program \in Programs
    BY <1>1 DEF IsProgram
  <2>3. fs \in Seq(TypesOf(program))
    BY <1>3, <2>2, DeclarationFacts
  <2>4. \A i \in DOMAIN fs : Inside(fs[i]) \subseteq Needs[x]
    BY <1>3, <2>2, StoredInFacts DEF Needs
  <2> HIDE DEF fs
  <2>5. ASSUME NEW i \in DOMAIN fs PROVE TypeLowered(f, fs[i]) \in LayoutSet
    BY <1>1, <2>3, <2>4, TypeLoweredFits
  <2>6. DOMAIN fs = 1 .. Len(fs) /\ Len(fs) \in Nat
    BY <2>3
  <2>7. ls \in Seq(LayoutSet)
    BY <2>5, <2>6
  <2> QED BY <2>1, <2>7, StructureFits
<1> QED BY <1>2, <1>3

LEMMA NameLoweredAlike ==
  IsProgram =>
    \A x \in DOMAIN program.types : \A f, g :
      Alike(Needs[x], f, g) => NameLowered(f, x) = NameLowered(g, x)
<1>1. SUFFICES ASSUME IsProgram, NEW x \in DOMAIN program.types, NEW f, NEW g, Alike(Needs[x], f, g)
               PROVE  NameLowered(f, x) = NameLowered(g, x)
  OBVIOUS
<1>2. CASE x \in Sums(program)
  BY <1>2 DEF NameLowered
<1>3. CASE x \notin Sums(program)
  <2> DEFINE fs == program.types[x].fields
  <2>1. \A h : NameLowered(h, x) = Structure([i \in DOMAIN fs |-> TypeLowered(h, fs[i])])
    BY <1>3 DEF NameLowered
  <2>2. program \in Programs
    BY <1>1 DEF IsProgram
  <2>3. \A i \in DOMAIN fs : Inside(fs[i]) \subseteq Needs[x]
    BY <1>3, <2>2, StoredInFacts DEF Needs
  <2>4. \A i \in DOMAIN fs : TypeLowered(f, fs[i]) = TypeLowered(g, fs[i])
    BY <1>1, <2>3, TypeLoweredAlike DEF Alike
  <2> HIDE DEF fs
  <2>5. [i \in DOMAIN fs |-> TypeLowered(f, fs[i])] = [i \in DOMAIN fs |-> TypeLowered(g, fs[i])]
    BY <2>4
  <2> QED BY <2>1, <2>5
<1> QED BY <1>2, <1>3

\* The layouts by name meet their definition, and are layouts.
LEMMA LayoutsHold ==
  IsProgram /\ Bodies =>
    \A x \in DOMAIN program.types :
      Layouts[x] = NameLowered(Layouts, x) /\ Layouts[x] \in LayoutSet
<1>1. SUFFICES ASSUME IsProgram, Bodies
               PROVE  \A x \in DOMAIN program.types :
                        Layouts[x] = NameLowered(Layouts, x) /\ Layouts[x] \in LayoutSet
  OBVIOUS
<1> DEFINE N == DOMAIN program.types
           V == LayoutSet
           Step == [x \in N |-> [f \in [N -> V] |-> NameLowered(f, x)]]
           c == Layouts
<1>2. c = CHOOSE f : f = [x \in N |-> NameLowered(f, x)]
  BY DEF Layouts
<1> HIDE DEF c
<1>3. /\ \A X \in SUBSET N : X # {} => \E x \in X : Needs[x] \cap X = {}
      /\ \A x \in N : Needs[x] \subseteq N
  BY <1>1, NeedsEnd
<1>4. ASSUME NEW x \in N, NEW f \in [N -> V]
      PROVE  Step[x][f] = NameLowered(f, x) /\ NameLowered(f, x) \in V
  <2>1. \A y \in Needs[x] : f[y] \in V
    BY <1>3
  <2> HIDE DEF N
  <2> QED BY <1>1, <2>1, NameLoweredFits DEF N
<1>5. ASSUME NEW x \in N, NEW f \in [N -> V], NEW g \in [N -> V], Alike(Needs[x], f, g)
      PROVE  Step[x][f] = Step[x][g]
  <2>1. NameLowered(f, x) = NameLowered(g, x)
    BY <1>1, <1>5, NameLoweredAlike
  <2> HIDE DEF N, Step, V
  <2> QED BY <1>4, <2>1
<1> HIDE DEF N, V, Step
<1>6. Equations(N, Needs, V, Step)
  BY <1>3, <1>4, <1>5 DEF Equations
<1>7. PICK f \in [N -> V] : \A x \in N : f[x] = Step[x][f]
  <2>1. EmptyLayout \in V
    BY EmptyLayoutFits DEF V
  <2> QED BY <1>6, <2>1, Recursion
<1>8. f = [x \in N |-> NameLowered(f, x)]
  <2>1. \A x \in N : f[x] = NameLowered(f, x)
    BY <1>4, <1>7
  <2> QED BY <2>1
<1>9. c = [x \in N |-> NameLowered(c, x)]
  BY <1>2, <1>8
<1>10. \A x \in N : c[x] = NameLowered(c, x)
  BY <1>9
<1>11. \A x \in N : c[x] \in V
  <2> DEFINE Bad == {x \in N : c[x] \notin V}
  <2>1. SUFFICES ASSUME Bad # {} PROVE FALSE
    OBVIOUS
  <2>2. PICK x \in Bad : Needs[x] \cap Bad = {}
    <3>1. Bad \in SUBSET N
      OBVIOUS
    <3> HIDE DEF Bad
    <3> QED BY <1>3, <2>1, <3>1
  <2>3. x \in N /\ c[x] \notin V
    BY <2>2
  <2>4. \A y \in Needs[x] : c[y] \in V
    BY <1>3, <2>2, <2>3
  <2>5. NameLowered(c, x) \in V
    BY <1>1, <2>3, <2>4, NameLoweredFits DEF N, V
  <2> QED BY <1>10, <2>3, <2>5
<1> QED BY <1>10, <1>11 DEF c, N, V

LEMMA NameReadyAlike ==
  IsProgram =>
    \A x \in DOMAIN program.types : \A f, g :
      Alike(Needs[x], f, g) => NameReady(f, x) = NameReady(g, x)
<1>1. SUFFICES ASSUME IsProgram, NEW x \in DOMAIN program.types, NEW f, NEW g, Alike(Needs[x], f, g)
               PROVE  NameReady(f, x) = NameReady(g, x)
  OBVIOUS
<1>2. CASE x \in Sums(program)
  BY <1>2 DEF NameReady
<1>3. CASE x \notin Sums(program)
  <2> DEFINE fs == program.types[x].fields
  <2>1. \A h : NameReady(h, x) = \A i \in DOMAIN fs : \A y \in Inside(fs[i]) : h[y]
    BY <1>3 DEF NameReady, Ready
  <2>2. program \in Programs
    BY <1>1 DEF IsProgram
  <2>3. \A i \in DOMAIN fs : Inside(fs[i]) \subseteq Needs[x]
    BY <1>3, <2>2, StoredInFacts DEF Needs
  <2>4. \A i \in DOMAIN fs : \A y \in Inside(fs[i]) : f[y] = g[y]
    BY <1>1, <2>3 DEF Alike
  <2> HIDE DEF fs
  <2> QED BY <2>1, <2>4
<1> QED BY <1>2, <1>3

\* Readiness by name meets its definition.
LEMMA NamesReadyHold ==
  IsProgram =>
    \A x \in DOMAIN program.types :
      NamesReady[x] = NameReady(NamesReady, x) /\ NamesReady[x] \in BOOLEAN
<1>1. SUFFICES ASSUME IsProgram
               PROVE  \A x \in DOMAIN program.types :
                        NamesReady[x] = NameReady(NamesReady, x) /\ NamesReady[x] \in BOOLEAN
  OBVIOUS
<1> DEFINE N == DOMAIN program.types
           V == BOOLEAN
           Step == [x \in N |-> [f \in [N -> V] |-> NameReady(f, x)]]
           c == NamesReady
<1>2. c = CHOOSE f : f = [x \in N |-> NameReady(f, x)]
  BY DEF NamesReady
<1> HIDE DEF c
<1>3. /\ \A X \in SUBSET N : X # {} => \E x \in X : Needs[x] \cap X = {}
      /\ \A x \in N : Needs[x] \subseteq N
  BY <1>1, NeedsEnd
<1>4. ASSUME NEW x, NEW f
      PROVE  NameReady(f, x) \in BOOLEAN
  <2>1. CASE x \in Sums(program)
    <3>1. NameReady(f, x) = (x \in DOMAIN bodies)
      BY <2>1 DEF NameReady
    <3>2. (x \in DOMAIN bodies) \in BOOLEAN
      OBVIOUS
    <3> QED BY <3>1, <3>2, Zenon
  <2>2. CASE x \notin Sums(program)
    BY <2>2, Zenon DEF NameReady
  <2> QED BY <2>1, <2>2
<1>5. ASSUME NEW x \in N, NEW f \in [N -> V]
      PROVE  Step[x][f] = NameReady(f, x)
  OBVIOUS
<1>6. ASSUME NEW x \in N, NEW f \in [N -> V], NEW g \in [N -> V], Alike(Needs[x], f, g)
      PROVE  Step[x][f] = Step[x][g]
  <2>1. NameReady(f, x) = NameReady(g, x)
    BY <1>1, <1>6, NameReadyAlike
  <2> HIDE DEF N, Step, V
  <2> QED BY <1>5, <2>1
<1> HIDE DEF N, V, Step
<1>7. Equations(N, Needs, V, Step)
  <2>1. \A x \in N : \A f \in [N -> V] : Step[x][f] \in V
    BY <1>4, <1>5 DEF V
  <2> QED BY <1>3, <1>6, <2>1 DEF Equations
<1>8. PICK f \in [N -> V] : \A x \in N : f[x] = Step[x][f]
  <2>1. PICK v \in V : TRUE
    <3>1. TRUE \in V
      BY DEF V
    <3> QED BY <3>1
  <2> QED BY <1>7, <2>1, Recursion
<1>9. f = [x \in N |-> NameReady(f, x)]
  <2>1. \A x \in N : f[x] = NameReady(f, x)
    BY <1>5, <1>8
  <2> QED BY <2>1
<1>10. c = [x \in N |-> NameReady(c, x)]
  BY <1>2, <1>9
<1>11. \A x \in N : c[x] = NameReady(c, x)
  BY <1>10
<1> QED BY <1>4, <1>11 DEF c, N

-----------------------------------------------------------------------------
(* Payloads and bodies. *)

LEMMA LayoutOfFits ==
  IsProgram /\ Bodies => \A t \in TypesOf(program) : LayoutOf(t) \in LayoutSet
<1>1. SUFFICES ASSUME IsProgram, Bodies, NEW t \in TypesOf(program)
               PROVE  LayoutOf(t) \in LayoutSet
  OBVIOUS
<1>2. \A x \in Inside(t) : Layouts[x] \in LayoutSet
  BY <1>1, TypeFacts, LayoutsHold
<1>3. TypeLowered(Layouts, t) \in LayoutSet
  BY <1>1, <1>2, TypeLoweredFits
<1> QED BY <1>3 DEF LayoutOf

LEMMA StoredFits ==
  IsProgram /\ Bodies => \A t \in TypesOf(program) : Stored(t) \in LayoutSet
<1>1. SUFFICES ASSUME IsProgram, Bodies, NEW t \in TypesOf(program)
               PROVE  Stored(t) \in LayoutSet
  OBVIOUS
<1>2. CASE t.k = "array"
  <2>1. t.of \in TypesOf(program) /\ t.n \in Nat
    <3>1. t.of \in ElementTypes(program) /\ t.n \in Nat
      BY <1>2, TypeFacts
    <3> QED BY <3>1 DEF TypesOf
  <2>2. LayoutOf(t.of) \in LayoutSet
    BY <1>1, <2>1, LayoutOfFits
  <2>3. Stored(t) = Repeated(LayoutOf(t.of), t.n)
    BY <1>2 DEF Stored
  <2> QED BY <2>1, <2>2, <2>3, RepeatedFits
<1>3. CASE t.k # "array"
  BY <1>1, <1>3, LayoutOfFits DEF Stored
<1> QED BY <1>2, <1>3

LEMMA PayloadFits ==
  IsProgram /\ Bodies =>
    \A x \in Sums(program) : \A v \in DOMAIN Variants(x) : Payload(x, v) \in LayoutSet
<1>1. SUFFICES ASSUME IsProgram, Bodies, NEW x \in Sums(program), NEW v \in DOMAIN Variants(x)
               PROVE  Payload(x, v) \in LayoutSet
  OBVIOUS
<1> DEFINE fs == Variants(x)[v]
           ls == [i \in DOMAIN fs |-> Stored(fs[i])]
<1>2. fs \in Seq(TypesOf(program))
  <2>1. program \in Programs /\ x \in DOMAIN program.types
    BY <1>1 DEF IsProgram, Sums
  <2>2. Variants(x) \in Seq(Seq(TypesOf(program)))
    BY <2>1, DeclarationFacts DEF Variants
  <2> QED BY <2>2
<1>3. Payload(x, v) = Structure(ls)
  BY DEF Payload
<1> HIDE DEF fs
<1>4. \A i \in DOMAIN fs : Stored(fs[i]) \in LayoutSet
  BY <1>1, <1>2, StoredFits
<1>5. DOMAIN fs = 1 .. Len(fs) /\ Len(fs) \in Nat
  BY <1>2
<1>6. ls \in Seq(LayoutSet)
  BY <1>4, <1>5
<1> QED BY <1>3, <1>6, StructureFits

LEMMA TagSizeFits == ASSUME NEW x PROVE TagSize(x) \in Sizes
BY SizesAssumption DEF TagSize

\* Units as wide as the alignment cover the bytes they are made for.
LEMMA UnitsCover ==
  ASSUME NEW size \in Nat, NEW align \in Sizes
  PROVE  LET units == Repeated(IntLayout(align), RoundUp(size, align) \div align)
         IN  units \in LayoutSet /\ units.align = align /\ 0 .. size - 1 \subseteq units.data
<1> DEFINE k == RoundUp(size, align) \div align
           unit == IntLayout(align)
           units == Repeated(unit, k)
<1>1. align \in Nat \ {0}
  BY SizesAssumption
<1>2. RoundUp(size, align) \in Nat /\ RoundUp(size, align) >= size /\ RoundUp(size, align) % align = 0
  BY <1>1, RoundUpFacts
<1>3. k \in Nat /\ RoundUp(size, align) = k * align
  <2> DEFINE m == RoundUp(size, align)
  <2> HIDE DEF m
  <2>1. m \in Nat /\ m \in Int /\ m % align = 0
    BY <1>2 DEF m
  <2>2. m \div align \in Nat /\ m = (m \div align) * align + (m % align)
    BY <1>1, <2>1, Division
  <2>3. m = (m \div align) * align
    <3> DEFINE d == m \div align
    <3> HIDE DEF d
    <3>1. m = d * align + 0 /\ d \in Nat
      BY <2>1, <2>2 DEF d
    <3>2. d * align \in Nat
      BY <1>1, <3>1
    <3> QED BY <3>1, <3>2 DEF d
  <2> QED BY <2>2, <2>3 DEF m
<1> HIDE DEF k
<1>4. unit \in LayoutSet /\ unit.size = align /\ unit.align = align /\ unit.data = 0 .. align - 1
  BY IntLayoutFits DEF IntLayout
<1> HIDE DEF unit
<1>5. units \in LayoutSet
  BY <1>3, <1>4, RepeatedFits
<1>6. units.data = UNION {Shifted(unit.data, i * align) : i \in 0 .. k - 1} /\ units.align = align
  BY <1>4 DEF Repeated
<1> HIDE DEF units
<1>7. ASSUME NEW b \in 0 .. size - 1 PROVE b \in units.data
  <2> DEFINE q == b \div align
             r == b % align
  <2>1. b \in Nat /\ q \in Nat /\ r \in 0 .. align - 1 /\ b = q * align + r
    <3>1. b \in Nat /\ b \in Int
      OBVIOUS
    <3> QED BY <1>1, <3>1, Division
  <2> HIDE DEF q, r
  <2>2. q < k
    <3>1. SUFFICES ASSUME k <= q PROVE FALSE
      BY <1>3, <2>1
    <3>2. k * align <= q * align
      BY <1>1, <1>3, <2>1, <3>1
    <3>3. q * align \in Nat /\ k * align \in Nat
      BY <1>1, <1>3, <2>1
    <3> QED BY <1>2, <1>3, <2>1, <3>2, <3>3
  <2>3. b \in Shifted(unit.data, q * align)
    BY <1>4, <2>1 DEF Shifted
  <2>4. q \in 0 .. k - 1
    BY <1>3, <2>1, <2>2
  <2> QED BY <1>6, <2>3, <2>4
<1> QED BY <1>5, <1>6, <1>7 DEF units, unit, k

\* The body of a sum has room for each payload behind the tag.
PayloadsFit(x, l) ==
  \A v \in DOMAIN Variants(x) : Payload(x, v).size > 0 =>
    /\ Shifted(Payload(x, v).data, l.at[2]) \subseteq l.data
    /\ l.at[2] % Payload(x, v).align = 0
    /\ l.align % Payload(x, v).align = 0

LEMMA SumBodyFits ==
  IsProgram /\ Bodies =>
    \A x \in Sums(program) : SumBody(x) \in LayoutSet /\ PayloadsFit(x, SumBody(x))
<1>1. SUFFICES ASSUME IsProgram, Bodies, NEW x \in Sums(program)
               PROVE  SumBody(x) \in LayoutSet /\ PayloadsFit(x, SumBody(x))
  OBVIOUS
<1> DEFINE n == Len(Variants(x))
           payload(v) == Payload(x, v)
           payloads == {Payload(x, v) : v \in DOMAIN Variants(x)}
           size == Max({p.size : p \in payloads})
           align == Max({p.align : p \in payloads})
           tag == IntLayout(TagSize(x))
           units == Repeated(IntLayout(align), RoundUp(size, align) \div align)
<1>2. n \in Nat /\ n > 0 /\ DOMAIN Variants(x) = 1 .. n
  <2>1. program \in Programs /\ x \in DOMAIN program.types
    BY <1>1 DEF IsProgram, Sums
  <2>2. Variants(x) \in Seq(Seq(TypesOf(program))) /\ Variants(x) # <<>>
    BY <1>1, <2>1, DeclarationFacts DEF Variants
  <2> HIDE DEF Variants
  <2> QED BY <2>2
<1>3. \A v \in 1 .. n : payload(v) \in LayoutSet
  BY <1>1, <1>2, PayloadFits
<1>4. SumBody(x) = Structure(IF size = 0 THEN <<tag>> ELSE <<tag, units>>)
  BY DEF SumBody
<1>5. /\ {p.size : p \in payloads} = {payload(v).size : v \in 1 .. n}
      /\ {p.align : p \in payloads} = {payload(v).align : v \in 1 .. n}
  BY <1>2
<1> HIDE DEF n, payload, payloads
<1>6. \A v \in 1 .. n : /\ payload(v).size \in Nat /\ payload(v).align \in Sizes
                        /\ payload(v).align \in Nat \ {0}
                        /\ \A b \in payload(v).data : b \in Nat /\ b < payload(v).size
  BY <1>3, LayoutParts
<1>7. size \in Nat /\ \A v \in 1 .. n : payload(v).size <= size
  <2> DEFINE f == [v \in 1 .. n |-> payload(v).size]
  <2>1. \A v \in 1 .. n : f[v] = payload(v).size /\ f[v] \in Nat
    BY <1>6
  <2>2. {p.size : p \in payloads} = {f[v] : v \in 1 .. n}
    BY <1>5
  <2> HIDE DEF f
  <2>3. size \in {f[v] : v \in 1 .. n} /\ \A v \in 1 .. n : f[v] <= size
    BY <1>2, <2>1, <2>2, MaxOfMany
  <2> HIDE DEF size
  <2> QED BY <2>1, <2>3
<1>8. align \in Sizes /\ align \in Nat \ {0} /\ \A v \in 1 .. n : payload(v).align <= align
  <2> DEFINE f == [v \in 1 .. n |-> payload(v).align]
  <2>1. \A v \in 1 .. n : f[v] = payload(v).align /\ f[v] \in Nat /\ f[v] \in Sizes
    BY <1>6
  <2>2. {p.align : p \in payloads} = {f[v] : v \in 1 .. n}
    BY <1>5
  <2> HIDE DEF f
  <2>3. align \in {f[v] : v \in 1 .. n} /\ \A v \in 1 .. n : f[v] <= align
    BY <1>2, <2>1, <2>2, MaxOfMany
  <2> HIDE DEF align
  <2>4. align \in Sizes
    BY <2>1, <2>3
  <2> QED BY <2>1, <2>3, <2>4, SizesAssumption
<1> HIDE DEF size, align
<1>9. tag \in LayoutSet
  BY TagSizeFits, IntLayoutFits
<1>10. units \in LayoutSet /\ units.align = align /\ 0 .. size - 1 \subseteq units.data
  BY <1>7, <1>8, UnitsCover
<1> HIDE DEF tag, units
<1>11. CASE size = 0
  <2>1. SumBody(x) = Structure(<<tag>>)
    BY <1>4, <1>11
  <2>2. <<tag>> \in Seq(LayoutSet)
    BY <1>9
  <2>3. \A v \in 1 .. n : ~(payload(v).size > 0)
    BY <1>6, <1>7, <1>11
  <2>4. PayloadsFit(x, SumBody(x))
    BY <1>2, <2>3 DEF PayloadsFit, payload
  <2> QED BY <2>1, <2>2, <2>4, StructureFits
<1>12. CASE size # 0
  <2> DEFINE s == Structure(<<tag, units>>)
  <2>1. SumBody(x) = s
    BY <1>4, <1>12
  <2>2. /\ s \in LayoutSet /\ s.at[2] \in Nat /\ s.at[2] % align = 0
        /\ Shifted(units.data, s.at[2]) \subseteq s.data /\ s.align % align = 0
    BY <1>9, <1>10, SecondField
  <2> HIDE DEF s
  <2>3. ASSUME NEW v \in 1 .. n
        PROVE  /\ Shifted(payload(v).data, s.at[2]) \subseteq s.data
               /\ s.at[2] % payload(v).align = 0
               /\ s.align % payload(v).align = 0
    <3>1. /\ payload(v).size \in Nat /\ payload(v).align \in Sizes /\ payload(v).align \in Nat \ {0}
          /\ \A b \in payload(v).data : b \in Nat /\ b < payload(v).size
      BY <1>6
    <3>2. payload(v).data \subseteq units.data
      <4>1. payload(v).size <= size
        BY <1>7
      <4>2. \A b \in payload(v).data : b \in 0 .. size - 1
        BY <1>7, <3>1, <4>1
      <4> QED BY <1>10, <4>2
    <3>3. Shifted(payload(v).data, s.at[2]) \subseteq Shifted(units.data, s.at[2])
      BY <3>2 DEF Shifted
    <3>4. align % payload(v).align = 0
      BY <1>8, <3>1, LargerIsMultiple
    <3>5. s.align \in Int /\ s.at[2] \in Int
      BY <2>2, LayoutParts
    <3> DEFINE a == payload(v).align
    <3>6. a \in Nat \ {0} /\ align % a = 0
      BY <3>1, <3>4
    <3> HIDE DEF a
    <3>7. s.at[2] % a = 0
      BY <1>8, <2>2, <3>5, <3>6, MultipleOfMultiple
    <3>8. s.align % a = 0
      BY <1>8, <2>2, <3>5, <3>6, MultipleOfMultiple
    <3> QED BY <2>2, <3>3, <3>7, <3>8 DEF a
  <2>4. PayloadsFit(x, s)
    BY <1>2, <2>3 DEF PayloadsFit, payload
  <2> QED BY <2>1, <2>2, <2>4
<1> QED BY <1>11, <1>12

-----------------------------------------------------------------------------
(* Bodies come and nothing that was ready changes. *)

\* What is said of the names, spelled out.
NamesAre ==
  \A x \in DOMAIN program.types :
    /\ x \in Sums(program) => /\ Layouts[x] = BodyOf(x)
                              /\ NamesReady[x] = (x \in DOMAIN bodies)
    /\ x \notin Sums(program) =>
         LET fs == program.types[x].fields
         IN  /\ Layouts[x] = Structure([i \in DOMAIN fs |-> TypeLowered(Layouts, fs[i])])
             /\ NamesReady[x] = \A i \in DOMAIN fs : \A y \in Inside(fs[i]) : NamesReady[y]

LEMMA NamesHold == IsProgram /\ Bodies => NamesAre
<1>1. SUFFICES ASSUME IsProgram, Bodies, NEW x \in DOMAIN program.types
               PROVE  /\ x \in Sums(program) => /\ Layouts[x] = BodyOf(x)
                                                /\ NamesReady[x] = (x \in DOMAIN bodies)
                      /\ x \notin Sums(program) =>
                           LET fs == program.types[x].fields
                           IN  /\ Layouts[x] = Structure([i \in DOMAIN fs |-> TypeLowered(Layouts, fs[i])])
                               /\ NamesReady[x] = \A i \in DOMAIN fs : \A y \in Inside(fs[i]) : NamesReady[y]
  BY DEF NamesAre
<1>2. Layouts[x] = NameLowered(Layouts, x)
  BY <1>1, LayoutsHold
<1>3. NamesReady[x] = NameReady(NamesReady, x)
  BY <1>1, NamesReadyHold
<1>4. CASE x \in Sums(program)
  BY <1>2, <1>3, <1>4 DEF NameLowered, NameReady
<1>5. CASE x \notin Sums(program)
  <2> DEFINE fs == program.types[x].fields
  <2>1. Layouts[x] = Structure([i \in DOMAIN fs |-> TypeLowered(Layouts, fs[i])])
    BY <1>2, <1>5 DEF NameLowered
  <2>2. NamesReady[x] = \A i \in DOMAIN fs : \A y \in Inside(fs[i]) : NamesReady[y]
    BY <1>3, <1>5 DEF NameReady, Ready
  <2> QED BY <1>5, <2>1, <2>2
<1> QED BY <1>4, <1>5

BodiesStay == /\ program' = program
              /\ \A x \in DOMAIN bodies : x \in DOMAIN bodies' /\ bodies'[x] = bodies[x]

LEMMA ReadyStays ==
  ASSUME IsProgram, Bodies, NamesAre, NamesAre', BodiesStay
  PROVE  \A x \in DOMAIN program.types :
           NamesReady[x] => NamesReady'[x] /\ Layouts'[x] = Layouts[x]
<1> DEFINE N == DOMAIN program.types
           Bad == {x \in N : NamesReady[x] /\ ~(NamesReady'[x] /\ Layouts'[x] = Layouts[x])}
<1>1. SUFFICES ASSUME Bad # {} PROVE FALSE
  OBVIOUS
<1>2. PICK x \in Bad : Needs[x] \cap Bad = {}
  <2>1. Bad \in SUBSET N
    OBVIOUS
  <2> HIDE DEF Bad
  <2> QED BY <1>1, <2>1, NeedsEnd
<1>3. x \in N /\ NamesReady[x] /\ ~(NamesReady'[x] /\ Layouts'[x] = Layouts[x])
  BY <1>2
<1>4. \A y \in Needs[x] : NamesReady[y] => NamesReady'[y] /\ Layouts'[y] = Layouts[y]
  BY <1>2, <1>3, NeedsEnd
<1> HIDE DEF Bad
<1>5. program' = program /\ program \in Programs
  BY DEF BodiesStay, IsProgram
<1>6. CASE x \in Sums(program)
  <2>1. x \in DOMAIN bodies /\ Layouts[x] = BodyOf(x)
    BY <1>3, <1>6 DEF NamesAre
  <2>2. Layouts'[x] = BodyOf(x)' /\ NamesReady'[x] = (x \in DOMAIN bodies')
    BY <1>3, <1>5, <1>6 DEF NamesAre
  <2>3. x \in DOMAIN bodies' /\ bodies'[x] = bodies[x]
    BY <2>1 DEF BodiesStay
  <2>4. BodyOf(x) = bodies[x] /\ BodyOf(x)' = bodies'[x]
    BY <2>1, <2>3 DEF BodyOf
  <2> QED BY <1>3, <2>1, <2>2, <2>3, <2>4
<1>7. CASE x \notin Sums(program)
  <2> DEFINE fs == program.types[x].fields
  <2>1. /\ Layouts[x] = Structure([i \in DOMAIN fs |-> TypeLowered(Layouts, fs[i])])
        /\ NamesReady[x] = \A i \in DOMAIN fs : \A y \in Inside(fs[i]) : NamesReady[y]
    BY <1>3, <1>7 DEF NamesAre
  <2>2. /\ Layouts'[x] = Structure([i \in DOMAIN fs |-> TypeLowered(Layouts', fs[i])])
        /\ NamesReady'[x] = \A i \in DOMAIN fs : \A y \in Inside(fs[i]) : NamesReady'[y]
    <3> DEFINE gs == program'.types[x].fields
    <3>1. x \in DOMAIN program'.types /\ x \notin Sums(program')
      BY <1>3, <1>5, <1>7
    <3>2. Layouts'[x] = Structure([i \in DOMAIN gs |-> TypeLowered(Layouts', gs[i])])
      BY <3>1 DEF NamesAre
    <3>3. NamesReady'[x] = \A i \in DOMAIN gs : \A y \in Inside(gs[i]) : NamesReady'[y]
      BY <3>1 DEF NamesAre
    <3>4. gs = fs
      BY <1>5
    <3> HIDE DEF gs, fs
    <3> QED BY <3>2, <3>3, <3>4
  <2>3. \A i \in DOMAIN fs : Inside(fs[i]) \subseteq Needs[x]
    BY <1>3, <1>5, <1>7, StoredInFacts DEF Needs
  <2> HIDE DEF fs
  <2>4. \A i \in DOMAIN fs : \A y \in Inside(fs[i]) : NamesReady[y]
    BY <1>3, <2>1
  <2>5. \A i \in DOMAIN fs : \A y \in Inside(fs[i]) : NamesReady'[y] /\ Layouts'[y] = Layouts[y]
    BY <1>4, <2>3, <2>4
  <2>6. NamesReady'[x]
    BY <2>2, <2>5
  <2>7. \A i \in DOMAIN fs : TypeLowered(Layouts', fs[i]) = TypeLowered(Layouts, fs[i])
    BY <2>5, TypeLoweredAlike
  <2>8. [i \in DOMAIN fs |-> TypeLowered(Layouts', fs[i])] = [i \in DOMAIN fs |-> TypeLowered(Layouts, fs[i])]
    BY <2>7
  <2>9. Layouts'[x] = Layouts[x]
    BY <2>1, <2>2, <2>8
  <2> QED BY <1>3, <2>6, <2>9
<1> QED BY <1>6, <1>7

LEMMA StoredStays ==
  ASSUME IsProgram, Bodies, NamesAre, NamesAre', BodiesStay,
         NEW t \in TypesOf(program), \A y \in Inside(t) : NamesReady[y]
  PROVE  Stored(t)' = Stored(t)
<1>1. \A y \in Inside(t) : Layouts'[y] = Layouts[y]
  BY ReadyStays, TypeFacts
<1>2. CASE t.k = "array"
  <2>1. Inside(t.of) \subseteq Inside(t)
    <3>1. t.of \in ElementTypes(program)
      BY <1>2, TypeFacts
    <3>2. t.of.k # "array"
      BY <3>1, ElementTypeFacts
    <3> QED BY <1>2, <3>2 DEF Inside, Element
  <2>2. TypeLowered(Layouts', t.of) = TypeLowered(Layouts, t.of)
    BY <1>1, <2>1, TypeLoweredAlike
  <2>3. Stored(t) = Repeated(TypeLowered(Layouts, t.of), t.n)
    BY <1>2 DEF Stored, LayoutOf
  <2>4. Stored(t)' = Repeated(TypeLowered(Layouts', t.of), t.n)
    BY <1>2 DEF Stored, LayoutOf
  <2> QED BY <2>2, <2>3, <2>4
<1>3. CASE t.k # "array"
  <2>1. TypeLowered(Layouts', t) = TypeLowered(Layouts, t)
    BY <1>1, TypeLoweredAlike
  <2>2. Stored(t) = TypeLowered(Layouts, t) /\ Stored(t)' = TypeLowered(Layouts', t)
    BY <1>3 DEF Stored, LayoutOf
  <2> QED BY <2>1, <2>2
<1> QED BY <1>2, <1>3

\* A sum that was ready keeps the layout it was given.
LEMMA SumStays ==
  ASSUME IsProgram, Bodies, NamesAre, NamesAre', BodiesStay,
         NEW x \in Sums(program), SumReady(x)
  PROVE  SumReady(x)' /\ SumBody(x)' = SumBody(x)
<1>0. PICK vs : vs = Variants(x)
  OBVIOUS
<1>1. program' = program /\ program \in Programs /\ x \in DOMAIN program.types
  BY DEF BodiesStay, IsProgram, Sums
<1>2. vs \in Seq(Seq(TypesOf(program))) /\ Variants(x)' = vs
  BY <1>0, <1>1, DeclarationFacts DEF Variants
<1>3. ASSUME NEW v \in DOMAIN vs, NEW i \in DOMAIN vs[v]
      PROVE  /\ vs[v][i] \in TypesOf(program)
             /\ Inside(vs[v][i]) \subseteq DOMAIN program.types
             /\ \A y \in Inside(vs[v][i]) : NamesReady[y]
  <2>1. vs[v][i] \in TypesOf(program)
    BY <1>2
  <2>2. \A y \in Inside(vs[v][i]) : NamesReady[y]
    BY <1>0 DEF SumReady, TypeReady, Ready
  <2> QED BY <2>1, <2>2, TypeFacts
<1>4. SumReady(x)'
  <2>1. ASSUME NEW v \in DOMAIN vs, NEW i \in DOMAIN vs[v], NEW y \in Inside(vs[v][i])
        PROVE  NamesReady'[y]
    BY <1>3, ReadyStays
  <2>2. \A v \in DOMAIN vs : \A i \in DOMAIN vs[v] : TypeReady(vs[v][i])'
    BY <2>1 DEF TypeReady, Ready
  <2>3. SumReady(x)' = \A v \in DOMAIN vs : \A i \in DOMAIN vs[v] : TypeReady(vs[v][i])'
    BY <1>2 DEF SumReady
  <2> QED BY <2>2, <2>3
<1>5. \A v \in DOMAIN vs : \A i \in DOMAIN vs[v] : Stored(vs[v][i])' = Stored(vs[v][i])
  BY <1>3, StoredStays
<1>6. ASSUME NEW v \in DOMAIN vs PROVE Payload(x, v)' = Payload(x, v)
  <2>1. Payload(x, v) = Structure([i \in DOMAIN vs[v] |-> Stored(vs[v][i])])
    BY <1>0 DEF Payload
  <2>2. Payload(x, v)' = Structure([i \in DOMAIN vs[v] |-> Stored(vs[v][i])'])
    BY <1>2 DEF Payload
  <2>3. [i \in DOMAIN vs[v] |-> Stored(vs[v][i])'] = [i \in DOMAIN vs[v] |-> Stored(vs[v][i])]
    BY <1>5
  <2> QED BY <2>1, <2>2, <2>3
<1>7. {Payload(x, v)' : v \in DOMAIN vs} = {Payload(x, v) : v \in DOMAIN vs}
  BY <1>6
<1> DEFINE body(ps, n) ==
             LET size == Max({p.size : p \in ps})
                 align == Max({p.align : p \in ps})
                 units == Repeated(IntLayout(align), RoundUp(size, align) \div align)
             IN  Structure(IF size = 0 THEN <<IntLayout(n)>> ELSE <<IntLayout(n), units>>)
<1>8. SumBody(x) = body({Payload(x, v) : v \in DOMAIN vs}, TagSize(x))
  BY <1>0 DEF SumBody
<1>9. SumBody(x)' = body({Payload(x, v)' : v \in DOMAIN vs}, TagSize(x)')
  BY <1>2 DEF SumBody
<1>10. TagSize(x)' = TagSize(x)
  BY <1>0, <1>2 DEF TagSize
<1> HIDE DEF body
<1> QED BY <1>4, <1>7, <1>8, <1>9, <1>10

-----------------------------------------------------------------------------
(* The rounds. *)

OneOf(x, s) == \E i \in DOMAIN s : s[i] = x

(* Every sum has its body or is still to come; every body is the one its   *)
(* sum has for good; and as long as a round has set none, no sum it has    *)
(* put off could have been laid out.                                       *)
LayoutInv ==
  /\ IsProgram /\ Bodies
  /\ pending \in Seq(Sums(program)) /\ waiting \in Seq(Sums(program)) /\ tried \in Nat
  /\ \A x \in Sums(program) : x \in DOMAIN bodies \/ OneOf(x, pending) \/ OneOf(x, waiting)
  /\ \A x \in DOMAIN bodies : SumReady(x) /\ bodies[x] = SumBody(x)
  /\ Len(pending) + Len(waiting) <= tried
  /\ Len(pending) + Len(waiting) = tried => \A i \in DOMAIN waiting : ~SumReady(waiting[i])

LEMMA LayoutInitHolds == LayoutInit => LayoutInv
<1>1. SUFFICES ASSUME NEW p \in Programs, RegisterSums(p) PROVE LayoutInv
  BY DEF LayoutInit
<1>2. program = p /\ waiting = <<>> /\ tried = Len(pending) /\ DOMAIN bodies = {}
  BY <1>1 DEF RegisterSums, NoBodies
<1> DEFINE S == Sums(p)
           n == Cardinality(S)
<1>3. IsFiniteSet(S)
  <2>1. S \subseteq DOMAIN p.types
    BY DEF Sums
  <2>2. IsFiniteSet(DOMAIN p.types)
    BY ProgramsAssumption
  <2> QED BY <2>1, <2>2, FS_Subset
<1>4. n \in Nat
  BY <1>3, FS_CardinalityType
<1>5. pending \in [1 .. n -> S] /\ \A x \in S : \E i \in DOMAIN pending : pending[i] = x
  BY <1>1 DEF RegisterSums, Orders
<1> HIDE DEF S, n
<1>6. pending \in Seq(S) /\ Len(pending) \in Nat
  BY <1>4, <1>5
<1>7. IsProgram /\ Bodies
  BY <1>2 DEF IsProgram, Bodies
<1>8. Sums(program) = S
  BY <1>2 DEF S
<1>9. \A x \in S : OneOf(x, pending)
  BY <1>5 DEF OneOf
<1>10. waiting \in Seq(S) /\ Len(waiting) = 0 /\ DOMAIN waiting = {}
  BY <1>2
<1> QED BY <1>2, <1>6, <1>7, <1>8, <1>9, <1>10 DEF LayoutInv

LEMMA LayOutKeeps == LayoutInv /\ LayOut => LayoutInv'
<1>1. SUFFICES ASSUME LayoutInv, LayOut PROVE LayoutInv'
  OBVIOUS
<1> DEFINE S == Sums(program)
<1>2. PICK x : x = Head(pending)
  OBVIOUS
<1>3. /\ IsProgram /\ Bodies /\ pending \in Seq(S) /\ waiting \in Seq(S) /\ tried \in Nat
      /\ pending # <<>> /\ program' = program /\ tried' = tried /\ pending' = Tail(pending)
  BY <1>1 DEF LayoutInv, LayOut
<1>4. x \in S /\ pending' \in Seq(S) /\ Len(pending') = Len(pending) - 1 /\ Len(pending) \in Nat
  BY <1>2, <1>3
<1>5. \A y : OneOf(y, pending) => y = x \/ OneOf(y, pending')
  <2>1. ASSUME NEW y, NEW i \in DOMAIN pending, pending[i] = y, y # x PROVE OneOf(y, pending')
    <3>1. i \in 1 .. Len(pending) /\ i # 1
      BY <1>2, <1>3, <2>1
    <3>2. i - 1 \in DOMAIN pending' /\ pending'[i - 1] = y
      BY <1>3, <2>1, <3>1
    <3> QED BY <3>2 DEF OneOf
  <2> QED BY <2>1 DEF OneOf
<1>6. IsProgram' /\ Sums(program)' = S
  BY <1>3 DEF IsProgram
<1>7. NamesAre
  BY <1>3, NamesHold
<1>8. Len(waiting) \in Nat /\ Len(pending) + Len(waiting) <= tried
  BY <1>1, <1>3 DEF LayoutInv
<1> HIDE DEF S
<1>9. CASE SumReady(x)
  <2>1. /\ bodies' = [y \in DOMAIN bodies \union {x} |-> IF y = x THEN SumBody(x) ELSE bodies[y]]
        /\ waiting' = waiting
    BY <1>1, <1>2, <1>9 DEF LayOut
  <2>2. DOMAIN bodies' = DOMAIN bodies \union {x} /\ bodies'[x] = SumBody(x)
    BY <2>1
  <2>3. \A y \in DOMAIN bodies : bodies'[y] = bodies[y]
    <3>1. \A y \in DOMAIN bodies : bodies[y] = SumBody(y)
      BY <1>1 DEF LayoutInv
    <3> QED BY <2>1, <3>1
  <2>4. BodiesStay
    BY <1>3, <2>2, <2>3 DEF BodiesStay
  <2>5. SumBody(x) \in LayoutSet
    BY <1>3, <1>4, SumBodyFits DEF S
  <2>6. Bodies'
    <3>1. \A y \in DOMAIN bodies' : y \in S /\ bodies'[y] \in LayoutSet
      BY <1>3, <1>4, <2>2, <2>3, <2>5 DEF Bodies, S
    <3> QED BY <1>6, <3>1 DEF Bodies
  <2>7. NamesAre'
    <3>1. (IsProgram /\ Bodies => NamesAre)'
      BY NamesHold, PTL
    <3> QED BY <1>6, <2>6, <3>1
  <2>8. ASSUME NEW y \in DOMAIN bodies' PROVE SumReady(y)' /\ bodies'[y] = SumBody(y)'
    <3>1. y \in S /\ SumReady(y) /\ bodies'[y] = SumBody(y)
      <4>1. CASE y = x
        BY <1>4, <1>9, <2>2, <4>1
      <4>2. CASE y \in DOMAIN bodies
        BY <1>1, <2>3, <4>2 DEF LayoutInv, Bodies, S
      <4> QED BY <2>2, <2>8, <4>1, <4>2
    <3>2. SumReady(y)' /\ SumBody(y)' = SumBody(y)
      BY <1>3, <1>7, <2>4, <2>7, <3>1, SumStays DEF S
    <3> QED BY <3>1, <3>2
  <2>9. \A y \in S : y \in DOMAIN bodies' \/ OneOf(y, pending') \/ OneOf(y, waiting')
    BY <1>1, <1>5, <2>1, <2>2 DEF LayoutInv, S
  <2>10. Len(pending') + Len(waiting') < tried'
    BY <1>3, <1>4, <1>8, <2>1
  <2>11. Len(pending') + Len(waiting') <= tried' /\ Len(pending') + Len(waiting') # tried'
    BY <1>3, <1>4, <1>8, <2>1, <2>10
  <2> QED BY <1>3, <1>4, <1>6, <2>1, <2>6, <2>8, <2>9, <2>11 DEF LayoutInv
<1>10. CASE ~SumReady(x)
  <2>1. waiting' = Append(waiting, x) /\ bodies' = bodies
    BY <1>1, <1>2, <1>10 DEF LayOut
  <2>2. waiting' \in Seq(S) /\ Len(waiting') = Len(waiting) + 1
    BY <1>3, <1>4, <2>1
  <2>3. Bodies'
    BY <1>3, <2>1 DEF Bodies
  <2>4. BodiesStay
    BY <1>3, <2>1 DEF BodiesStay
  <2>5. NamesAre'
    <3>1. (IsProgram /\ Bodies => NamesAre)'
      BY NamesHold, PTL
    <3> QED BY <1>6, <2>3, <3>1
  <2>6. \A y : SumReady(y)' = SumReady(y)
    BY <1>3, <2>1 DEF SumReady, TypeReady, Variants, Ready, NamesReady, NameReady
  <2>7. ASSUME NEW y \in DOMAIN bodies' PROVE SumReady(y)' /\ bodies'[y] = SumBody(y)'
    <3>1. y \in S /\ SumReady(y) /\ bodies[y] = SumBody(y)
      BY <1>1, <2>1, <2>7 DEF LayoutInv, Bodies, S
    <3>2. SumReady(y)' /\ SumBody(y)' = SumBody(y)
      BY <1>3, <1>7, <2>4, <2>5, <3>1, SumStays DEF S
    <3> QED BY <2>1, <3>1, <3>2
  <2>8. \A y : OneOf(y, waiting) \/ y = x => OneOf(y, waiting')
    <3>1. waiting'[Len(waiting) + 1] = x /\ Len(waiting) + 1 \in DOMAIN waiting'
      BY <1>3, <2>1, <2>2
    <3>2. \A i \in DOMAIN waiting : i \in DOMAIN waiting' /\ waiting'[i] = waiting[i]
      BY <1>3, <2>1, <2>2
    <3> QED BY <3>1, <3>2 DEF OneOf
  <2>9. \A y \in S : y \in DOMAIN bodies' \/ OneOf(y, pending') \/ OneOf(y, waiting')
    BY <1>1, <1>5, <2>1, <2>8 DEF LayoutInv, S
  <2>10. Len(pending') + Len(waiting') = Len(pending) + Len(waiting)
    BY <1>4, <1>8, <2>2
  <2>11. ASSUME Len(pending') + Len(waiting') = tried', NEW i \in DOMAIN waiting',
                NEW y, y = waiting'[i]
         PROVE  ~SumReady(y)'
    <3>1. \A j \in DOMAIN waiting : ~SumReady(waiting[j])
      BY <1>1, <1>3, <2>10, <2>11 DEF LayoutInv
    <3>2. y = x \/ \E j \in DOMAIN waiting : y = waiting[j]
      BY <1>3, <2>1, <2>2, <2>11
    <3>3. ~SumReady(y)
      BY <1>10, <3>1, <3>2
    <3> QED BY <2>6, <3>3
  <2>12. (Len(pending) + Len(waiting) = tried => \A i \in DOMAIN waiting : ~SumReady(waiting[i]))'
    BY <2>11
  <2> QED BY <1>3, <1>4, <1>6, <1>8, <2>2, <2>3, <2>7, <2>9, <2>10, <2>12 DEF LayoutInv
<1> QED BY <1>9, <1>10

\* Nothing that is computed from program and bodies moves when they do not.
LEMMA SameBodies ==
  ASSUME program' = program, bodies' = bodies
  PROVE  /\ IsProgram' = IsProgram /\ Bodies' = Bodies
         /\ \A x : SumReady(x)' = SumReady(x) /\ SumBody(x)' = SumBody(x)
<1>1. IsProgram' = IsProgram /\ Bodies' = Bodies
  BY DEF IsProgram, Bodies
<1>2. ASSUME NEW x PROVE SumReady(x)' = SumReady(x)
  BY DEF SumReady, TypeReady, Variants, Ready, NamesReady, NameReady
<1>3. ASSUME NEW x PROVE SumBody(x)' = SumBody(x)
  <2>1. Layouts' = Layouts
    BY DEF Layouts, NameLowered, BodyOf
  <2>2. \A t : Stored(t)' = Stored(t)
    BY <2>1 DEF Stored, LayoutOf
  <2>3. Variants(x)' = Variants(x)
    BY DEF Variants
  <2>4. \A v : Payload(x, v)' = Payload(x, v)
    BY <2>2, <2>3 DEF Payload
  <2> QED BY <2>3, <2>4 DEF SumBody, TagSize
<1> QED BY <1>1, <1>2, <1>3

LEMMA NextRoundKeeps == LayoutInv /\ NextRound => LayoutInv'
<1>1. SUFFICES ASSUME LayoutInv, NextRound PROVE LayoutInv'
  OBVIOUS
<1> DEFINE S == Sums(program)
<1>2. /\ IsProgram /\ Bodies /\ waiting \in Seq(S)
      /\ pending = <<>> /\ pending' = waiting /\ waiting' = <<>> /\ tried' = Len(waiting)
      /\ program' = program /\ bodies' = bodies
  BY <1>1 DEF LayoutInv, NextRound
<1>3. Sums(program)' = S
  BY <1>2
<1>4. /\ \A x \in S : x \in DOMAIN bodies \/ OneOf(x, pending) \/ OneOf(x, waiting)
      /\ \A x \in DOMAIN bodies : SumReady(x) /\ bodies[x] = SumBody(x)
  BY <1>1 DEF LayoutInv
<1> HIDE DEF S
<1>5. IsProgram' /\ Bodies'
  BY <1>2, SameBodies
<1>6. \A x : ~OneOf(x, pending)
  BY <1>2 DEF OneOf
<1>7. \A x \in S : x \in DOMAIN bodies' \/ OneOf(x, pending')
  BY <1>2, <1>4, <1>6
<1>8. \A x \in DOMAIN bodies' : SumReady(x)' /\ bodies'[x] = SumBody(x)'
  BY <1>2, <1>4, SameBodies
<1>9. pending' \in Seq(S) /\ waiting' \in Seq(S) /\ Len(waiting') = 0 /\ DOMAIN waiting' = {}
      /\ Len(pending') \in Nat /\ tried' = Len(pending')
  BY <1>2
<1>10. (\A i \in DOMAIN waiting : ~SumReady(waiting[i]))'
  BY <1>9
<1> QED BY <1>2, <1>3, <1>5, <1>7, <1>8, <1>9, <1>10 DEF LayoutInv

LEMMA LayoutStepHolds == LayoutInv /\ [LayoutNext]_layoutVars => LayoutInv'
<1>1. SUFFICES ASSUME LayoutInv, [LayoutNext]_layoutVars PROVE LayoutInv'
  OBVIOUS
<1>2. CASE LayOut
  BY <1>1, <1>2, LayOutKeeps
<1>3. CASE NextRound
  BY <1>1, <1>3, NextRoundKeeps
<1>4. CASE UNCHANGED layoutVars
  <2>1. /\ program' = program /\ bodies' = bodies
        /\ pending' = pending /\ waiting' = waiting /\ tried' = tried
    BY <1>4 DEF layoutVars
  <2>2. (\A i \in DOMAIN waiting : ~SumReady(waiting[i]))' = \A i \in DOMAIN waiting : ~SumReady(waiting[i])
    BY <2>1, SameBodies
  <2>3. (\A x \in DOMAIN bodies : SumReady(x) /\ bodies[x] = SumBody(x))'
          = \A x \in DOMAIN bodies : SumReady(x) /\ bodies[x] = SumBody(x)
    BY <2>1, SameBodies
  <2> QED BY <1>1, <2>1, <2>2, <2>3, SameBodies DEF LayoutInv
<1> QED BY <1>1, <1>2, <1>3, <1>4 DEF LayoutNext

(* The rounds keep, for every program the parser accepts and every order   *)
(* of its sums: what has a body has it for good, and a round that has set  *)
(* none has put off only what cannot be laid out yet (register_sum_bodies, *)
(* src/src/codegen/sums.rs).                                               *)
THEOREM LayoutInvariant == LayoutSpec => []LayoutInv
BY LayoutInitHolds, LayoutStepHolds, PTL DEF LayoutSpec

\* Where nothing stores itself, some sum not yet laid out is ready.
LEMMA SomeSumIsReady ==
  ASSUME IsProgram, Bodies, NamesAre, NEW X, X = Sums(program) \ DOMAIN bodies, X # {}
  PROVE  \E x \in X : SumReady(x)
<1> DEFINE U == {x \in DOMAIN program.types : ~NamesReady[x]}
<1>1. program \in Programs
  BY DEF IsProgram
<1>2. U \in SUBSET DOMAIN program.types /\ U # {}
  <2>1. PICK x \in X : TRUE
    OBVIOUS
  <2>2. x \in U
    BY <2>1 DEF NamesAre, Sums
  <2> QED BY <2>2
<1>3. PICK x \in U : StoredIn(program, x) \cap U = {}
  <2> HIDE DEF U
  <2> QED BY <1>1, <1>2, ProgramsAssumption
<1>4. x \in DOMAIN program.types /\ ~NamesReady[x]
  BY <1>3
<1>5. \A y \in StoredIn(program, x) : NamesReady[y]
  BY <1>1, <1>3, <1>4, StoredInFacts
<1> HIDE DEF U
<1>6. CASE x \in Sums(program)
  <2>1. x \in X
    BY <1>4, <1>6 DEF NamesAre
  <2>2. \A v \in DOMAIN Variants(x) : \A i \in DOMAIN Variants(x)[v] :
          Inside(Variants(x)[v][i]) \subseteq StoredIn(program, x)
    BY <1>1, <1>4, <1>6, StoredInFacts DEF Variants
  <2>3. SumReady(x)
    BY <1>5, <2>2 DEF SumReady, TypeReady, Ready
  <2> QED BY <2>1, <2>3
<1>7. CASE x \notin Sums(program)
  <2> DEFINE fs == program.types[x].fields
  <2>1. NamesReady[x] = \A i \in DOMAIN fs : \A y \in Inside(fs[i]) : NamesReady[y]
    BY <1>4, <1>7 DEF NamesAre
  <2>2. \A i \in DOMAIN fs : Inside(fs[i]) \subseteq StoredIn(program, x)
    BY <1>1, <1>4, <1>7, StoredInFacts
  <2> HIDE DEF fs
  <2> QED BY <1>4, <1>5, <2>1, <2>2
<1> QED BY <1>6, <1>7

LEMMA LayoutInvImplies == LayoutInv => LayoutsSettle
<1>1. SUFFICES ASSUME LayoutInv PROVE LayoutsSettle
  OBVIOUS
<1>2. /\ IsProgram /\ Bodies /\ waiting \in Seq(Sums(program)) /\ tried \in Nat
      /\ \A x \in Sums(program) : x \in DOMAIN bodies \/ OneOf(x, pending) \/ OneOf(x, waiting)
      /\ \A x \in DOMAIN bodies : SumReady(x) /\ bodies[x] = SumBody(x)
      /\ Len(pending) + Len(waiting) <= tried
      /\ Len(pending) + Len(waiting) = tried => \A i \in DOMAIN waiting : ~SumReady(waiting[i])
  BY <1>1 DEF LayoutInv
<1>3. pending = <<>> => Len(pending) = 0 /\ \A x : ~OneOf(x, pending)
  BY DEF OneOf
<1>4. Len(waiting) \in Nat
  BY <1>2
<1>5. ~CannotLayOut
  <2>1. SUFFICES ASSUME pending = <<>>, waiting # <<>>, Len(waiting) = tried PROVE FALSE
    BY DEF CannotLayOut
  <2>2. \A i \in DOMAIN waiting : ~SumReady(waiting[i])
    BY <1>2, <1>3, <1>4, <2>1
  <2>3. \A x \in Sums(program) : x \in DOMAIN bodies \/ OneOf(x, waiting)
    BY <1>2, <1>3, <2>1
  <2>4. PICK w \in Sums(program) : ~SumReady(w)
    <3>1. 1 \in DOMAIN waiting /\ waiting[1] \in Sums(program)
      BY <1>2, <2>1
    <3> QED BY <2>2, <3>1
  <2>5. w \notin DOMAIN bodies
    BY <1>2, <2>4
  <2>6. NamesAre
    BY <1>2, NamesHold
  <2>7. PICK x \in Sums(program) \ DOMAIN bodies : SumReady(x)
    BY <1>2, <2>4, <2>5, <2>6, SomeSumIsReady
  <2>8. OneOf(x, waiting)
    BY <2>3, <2>7
  <2> QED BY <2>2, <2>7, <2>8 DEF OneOf
<1>6. ASSUME Settled, NEW x \in Sums(program)
      PROVE  /\ x \in DOMAIN bodies /\ bodies[x] = SumBody(x)
             /\ \A v \in DOMAIN Variants(x) : Payload(x, v).size > 0 =>
                    /\ Shifted(Payload(x, v).data, PayloadAt(x, v)) \subseteq bodies[x].data
                    /\ PayloadAt(x, v) % Payload(x, v).align = 0
                    /\ bodies[x].align % Payload(x, v).align = 0
  <2>1. pending = <<>> /\ tried = 0
    BY <1>6 DEF Settled
  <2>2. Len(waiting) = 0
    BY <1>2, <1>3, <1>4, <2>1
  <2>3. ~OneOf(x, waiting)
    BY <1>2, <2>2 DEF OneOf
  <2>4. x \in DOMAIN bodies /\ bodies[x] = SumBody(x)
    BY <1>2, <1>3, <2>1, <2>3
  <2>5. PayloadsFit(x, bodies[x])
    BY <1>2, <2>4, SumBodyFits
  <2>6. \A v : PayloadAt(x, v) = bodies[x].at[2]
    BY <2>4 DEF PayloadAt, BodyOf
  <2> QED BY <2>4, <2>5, <2>6 DEF PayloadsFit
<1> QED BY <1>5, <1>6 DEF LayoutsSettle

(* For every program the parser accepts, in whatever order its sums are    *)
(* declared: the rounds never end with a sum that cannot be laid out; once *)
(* they are over each sum has the layout of its payloads, none computed    *)
(* from a sum still opaque; and each payload lies aligned inside field 1   *)
(* of the storage, where construction and matching look for it.            *)
THEOREM SumsAreLaidOut == LayoutSpec => []LayoutsSettle
BY LayoutInvariant, LayoutInvImplies, PTL
=============================================================================
