------------------------------- MODULE Numbers -------------------------------
(***************************************************************************)
(* The algorithms of the standard library that only compute: the integer   *)
(* functions of std/math, the bounded draw of std/rand and the rendering   *)
(* of integers, each beside the definition it is to agree with.            *)
(*                                                                         *)
(* The library's words are of 64 bits; here they are of Bits bits.         *)
(***************************************************************************)
EXTENDS Integers, SequencesExt, FiniteSetsExt

CONSTANT Bits       \* the width of a word

Modulus == 2 ^ Bits
Words == 0 .. Modulus - 1
Wrap(n) == n % Modulus
Signed(n) == IF n >= Modulus \div 2 THEN n - Modulus ELSE n
SignedWords == 0 - Modulus \div 2 .. Modulus \div 2 - 1

\* No words: the result of a call in progress, of a division by zero, and of signed
\* arithmetic that overflows, which the generator declares never to happen (`nsw`).
Pending == 0 - Modulus
Fault == Pending - 1
Overflow == Pending - 2
InRange(n) == IF n \in SignedWords THEN n ELSE Overflow

-----------------------------------------------------------------------------
(* std/math *)

RECURSIVE Gcd(_, _)
Gcd(a, b) == IF b = 0 THEN a ELSE Gcd(b, a % b)

LcmMultiplyingFirst(a, b) ==
    IF a = 0 \/ b = 0 THEN 0 ELSE Wrap(a * b) \div Gcd(a, b)
Lcm(a, b) ==
    IF a = 0 \/ b = 0 THEN 0 ELSE Wrap((a \div Gcd(a, b)) * b)

Times(signed, x, y) ==
    IF ~signed THEN Wrap(x * y)
    ELSE IF Overflow \in {x, y} THEN Overflow ELSE InRange(x * y)

RECURSIVE PowLoop(_, _, _, _)
PowLoop(signed, result, base, e) ==
    IF e = 0 THEN result
    ELSE PowLoop(signed, IF e % 2 = 1 THEN Times(signed, result, base) ELSE result,
                 Times(signed, base, base), e \div 2)
Ipow(base, e) == PowLoop(FALSE, 1, base, e)
IpowI64(base, e) == PowLoop(TRUE, 1, base, e)

\* x + 1 wraps for the greatest word, and n / x then divides by zero.
RECURSIVE RootLoop(_, _, _)
RootLoop(n, x, y) ==
    IF ~(y < x) THEN x
    ELSE IF y = 0 THEN Fault
    ELSE RootLoop(n, y, Wrap(y + n \div y) \div 2)
Isqrt(n) == IF n < 2 THEN n ELSE RootLoop(n, n, Wrap(n + 1) \div 2)

-----------------------------------------------------------------------------
(* std/rand *)

\* next_u64() % bound, for any number that is drawn.
Below(draw, bound) == IF bound = 0 THEN 0 ELSE draw % bound

RangeI64(draw, lo, hi) ==
    IF hi <= lo THEN lo
    ELSE IF InRange(hi - lo) = Overflow THEN Overflow
    ELSE InRange(lo + Signed(Below(draw, hi - lo)))

-----------------------------------------------------------------------------
(* std/io/internal *)

ASCII0 == 48   MinusSign == 45

RECURSIVE FmtU64(_)
FmtU64(n) == (IF n >= 10 THEN FmtU64(n \div 10) ELSE <<>>) \o <<(n % 10) + ASCII0>>

\* (~n as u64) + 1; ~n is -1 - n.
Magnitude(n) == Wrap(Wrap(-1 - n) + 1)

FmtI64(n) == IF n >= 0 THEN FmtU64(n) ELSE <<MinusSign>> \o FmtU64(Magnitude(n))

FmtU64Pad6(n) == [k \in 1 .. 6 |-> ((n \div 10 ^ (6 - k)) % 10) + ASCII0]

-----------------------------------------------------------------------------
(* What they are to agree with. *)

Divides(d, n) == n % d = 0
Greatest(a, b) == Max({d \in 1 .. Max({a, b, 1}) : Divides(d, a) /\ Divides(d, b)})
Power[b \in Words, e \in Nat] == IF e = 0 THEN 1 ELSE Wrap(b * Power[b, e - 1])
\* A power that is out of range once stays out of it.
SignedPower[b \in SignedWords, e \in Nat] ==
    IF e = 0 THEN 1
    ELSE IF SignedPower[b, e - 1] = Overflow THEN Overflow ELSE InRange(b * SignedPower[b, e - 1])
Spelt(t) == FoldLeft(LAMBDA n, c : n * 10 + (c - ASCII0), 0, t)

\* Two exceptions: isqrt's x + 1 of the greatest word, and ranges with more numbers
\* than a signed word can count.
SuccessorWraps(n) == Wrap(n + 1) = 0
SpanOverflows(lo, hi) == hi - lo \notin SignedWords

\* The result of a call, and what it has to agree with.
Result(op, a, b, c) ==
    CASE op = "gcd"   -> Gcd(a, b)
      [] op = "lcm"   -> Lcm(a, b)
      [] op = "pow"   -> Ipow(a, b)
      [] op = "powi"  -> IpowI64(a, b)
      [] op = "root"  -> Isqrt(a)
      [] op = "range" -> RangeI64(a, b, c)

Agrees(op, a, b, c, r) ==
    CASE op = "gcd"   -> (a # 0 \/ b # 0) => r = Greatest(a, b)
      [] op = "lcm"   -> IF a = 0 \/ b = 0 THEN r = 0
                         ELSE LET lcm == (a * b) \div Greatest(a, b)
                              IN  lcm < Modulus => r = lcm
      [] op = "pow"   -> r = Power[a, b]
      [] op = "powi"  -> SignedPower[a, b] # Overflow => r = SignedPower[a, b]
      [] op = "root"  -> ~SuccessorWraps(a) => r \in Words /\ r * r <= a /\ a < (r + 1) * (r + 1)
      [] op = "range" -> IF b < c THEN ~SpanOverflows(b, c) => b <= r /\ r < c ELSE r = b

Renders(n, t) ==
    LET negative == t[1] = MinusSign
        digits == IF negative THEN Tail(t) ELSE t
    IN  /\ n = IF negative THEN 0 - Spelt(digits) ELSE Spelt(digits)
        /\ Len(digits) > 1 => digits[1] # ASCII0
        /\ \A d \in DOMAIN digits : digits[d] \in ASCII0 .. ASCII0 + 9
        /\ n >= 0 => Spelt(FmtU64Pad6(n)) = n

VARIABLES
    call,       \* a call of a function on numbers: [op, a, b, c, r]
    rendered    \* a number and its text: [n, t]

numVars == <<call, rendered>>

Compute ==
    /\ call.r = Pending
    /\ call' = [call EXCEPT !.r = Result(call.op, call.a, call.b, call.c)]
    /\ UNCHANGED rendered

Render ==
    /\ rendered.t = <<>>
    /\ rendered' = [rendered EXCEPT !.t = FmtI64(rendered.n)]
    /\ UNCHANGED call

-----------------------------------------------------------------------------
(* Properties. *)

\* gcd, lcm, ipow and isqrt compute what their comments say, at every boundary of
\* the word: lcm overflows only when its result does, unsigned powers wrap, signed
\* ones are exact whenever they can be, although the loop may square once too often,
\* and the root is exact (SuccessorWraps apart); a draw stays within its range, up to
\* the widest a signed word can count (SpanOverflows; math.ap, rand.ap).  A number's
\* text spells the number, the least one included, without leading zeros; padded, in
\* six digits (fmt_i64, fmt_u64_pad6).
ComputesAsDefined ==
    /\ call.r # Pending => Agrees(call.op, call.a, call.b, call.c, call.r)
    /\ rendered.t # <<>> => Renders(rendered.n, rendered.t)
=============================================================================
