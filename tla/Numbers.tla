------------------------------ MODULE Numbers ------------------------------
(***************************************************************************)
(* The numbers of librep (src/src/numbers.c, src/src/compare.c, built with *)
(* GMP and the compiler's overflow built-ins): fixnums, bignums, rationals *)
(* and floats, what each operation makes of them, and where a result is    *)
(* given the smallest type that holds it.                                  *)
(*                                                                         *)
(* A number is n/d with a type.  A fixnum has FixBits bits in a long of    *)
(* two more, and a C int has IntBits.  GMP computes without limits.        *)
(* Rounding is left out: a float is a number whose type is "float".        *)
(* Infinities, and with them a float as a zero divisor, are left out.      *)
(***************************************************************************)
EXTENDS Integers, SequencesExt

CONSTANTS
  FixBits,   \* rep_LISP_INT_BITS
  IntBits,   \* the bits of an int
  BitMax,    \* bits enough for any number that occurs
  Loaded,    \* the numbers a program starts from
  Radices,   \* the bases numbers are written in
  Limit,     \* bound on the numerators that are computed with
  DenLimit   \* bound on their denominators

ASSUME NumbersAssumption ==
  /\ {FixBits, IntBits, BitMax} \subseteq Nat \ {0}
  /\ FixBits + 2 < BitMax
  /\ Radices \subseteq {2, 8, 10, 16}
  \* What fits by the estimate of rep_parse_number() does fit.
  /\ \A len \in 1 .. FixBits : (27 * len) \div 8 < FixBits => 10 ^ len <= 2 ^ (FixBits - 1)

\* The operation that came last, its arguments and its result.
VARIABLE last

LongBits == FixBits + 2

\* The value that is left of n in w bits of two's complement.
Wrap(n, w) == ((n + 2 ^ (w - 1)) % (2 ^ w)) - 2 ^ (w - 1)
Fits(n, w) == -(2 ^ (w - 1)) <= n /\ n < 2 ^ (w - 1)

Abs(n) == IF n < 0 THEN -n ELSE n
Sign(n) == IF n < 0 THEN -1 ELSE IF n > 0 THEN 1 ELSE 0

\* Division as C does it, towards zero.
Quo(a, b) == Sign(a) * Sign(b) * (Abs(a) \div Abs(b))
Rem(a, b) == a - b * Quo(a, b)

\* Division with the quotient rounded down, for any divisor but 0.
FloorDiv(a, b) == (a * Sign(b)) \div Abs(b)

\* Euclid's algorithm, for m, k >= 0.
Gcd[m \in Nat, k \in Nat] == IF m = 0 THEN k ELSE Gcd[k % m, m]

-----------------------------------------------------------------------------
(* Representation *)

Types == <<"int", "big", "rat", "float">>
Rank(t) == CHOOSE i \in 1 .. 4 : Types[i] = t

Num(t, n, d) == [t |-> t, n |-> n, d |-> d]
Error(why) == Num(why, 0, 1)

rep_MAKE_INT(n) == Num("int", Wrap(n, FixBits), 1)
Big(n) == Num("big", n, 1)

\* n/d in lowest terms.
Frac(t, n, d) ==
  LET g == Gcd[Abs(n), Abs(d)] * Sign(d) IN Num(t, Quo(n, g), Quo(d, g))

rep_INTEGERP(x) == x.t \in {"int", "big"}
rep_NUMERICP(x) == x.t \in {"int", "big", "rat", "float"}
Inexact(x) == x.t = "float"

make_long_int(n) == IF Fits(n, FixBits) THEN rep_MAKE_INT(n) ELSE Big(n)

rep_make_float(n, d, force) ==
  IF ~force /\ d = 1 /\ Fits(n, LongBits) /\ n # -(2 ^ (LongBits - 1))
  THEN make_long_int(n) ELSE Num("float", n, d)

promote_to(x, t) == IF Rank(x.t) >= Rank(t) THEN x ELSE [x EXCEPT !.t = t]

\* The type promote() gives to both operands.
Common(x, y) == IF Rank(x.t) < Rank(y.t) THEN y.t ELSE x.t

maybe_demote(x) ==
  LET z == IF x.t = "rat" /\ x.d = 1 THEN Big(x.n) ELSE x
  IN IF z.t = "big" /\ Fits(z.n, FixBits) THEN rep_MAKE_INT(z.n) ELSE z

\* mpz_get_si() keeps the sign and all bits of the size but the top one of a
\* long, mpz_get_ui() the bits of the size.
mpz_get_si(n) == IF n >= 0 THEN n % 2 ^ (LongBits - 1) ELSE -1 - ((-n - 1) % 2 ^ (LongBits - 1))
mpz_get_ui(n) == Abs(n) % 2 ^ LongBits

coerce(x) == IF x.t = "big" THEN rep_MAKE_INT(mpz_get_si(x.n)) ELSE x

\* What the arithmetic functions store for n/d in their operands' type.
Stored(t, n, d) ==
  IF t = "int" THEN make_long_int(n) ELSE maybe_demote(Frac(t, n, d))

-----------------------------------------------------------------------------
(* Arithmetic *)

\* The functions ending in __ are the ones the fast paths fall back on.
rep_number_add__(x, y) == Stored(Common(x, y), x.n * y.d + y.n * x.d, x.d * y.d)
rep_number_sub__(x, y) == Stored(Common(x, y), x.n * y.d - y.n * x.d, x.d * y.d)
rep_number_mul__(x, y) == Stored(Common(x, y), x.n * y.n, x.d * y.d)

\* A fixnum quotient is stored without a test for overflow.
rep_number_div(x, y) ==
  LET t == Common(x, y) IN
  IF ~Inexact(y) /\ y.n = 0 THEN Error("arith-error")
  ELSE IF t \in {"int", "big"} /\ Rem(x.n, y.n) # 0 THEN Frac("rat", x.n, y.n)
  ELSE IF t = "int" THEN rep_MAKE_INT(Quo(x.n, y.n))
  ELSE maybe_demote(Frac(t, x.n * y.d, x.d * y.n))

rep_number_add1__(x) == Stored(x.t, x.n + x.d, x.d)
rep_number_sub1__(x) == Stored(x.t, x.n - x.d, x.d)

\* The negation of a bignum is not demoted.
rep_number_neg__(x) == IF x.t = "int" THEN make_long_int(-x.n) ELSE [x EXCEPT !.n = -@]

\* Two fixnums and a result that is one are dealt with at once.
Ints(x, y) == x.t = "int" /\ y.t = "int"
rep_number_add(x, y) ==
  IF Ints(x, y) /\ Fits(x.n + y.n, FixBits) THEN rep_MAKE_INT(x.n + y.n) ELSE rep_number_add__(x, y)
rep_number_sub(x, y) ==
  IF Ints(x, y) /\ Fits(x.n - y.n, FixBits) THEN rep_MAKE_INT(x.n - y.n) ELSE rep_number_sub__(x, y)
rep_number_mul(x, y) ==
  IF Ints(x, y) /\ Fits(x.n * y.n, FixBits) THEN rep_MAKE_INT(x.n * y.n) ELSE rep_number_mul__(x, y)
rep_number_neg_Unchecked(x) == IF x.t = "int" THEN rep_MAKE_INT(-x.n) ELSE rep_number_neg__(x)

rep_number_neg(x) ==
  IF x.t = "int" /\ Fits(-x.n, FixBits) THEN rep_MAKE_INT(-x.n) ELSE rep_number_neg__(x)
Fplus1(x) ==
  IF x.t = "int" /\ Fits(x.n + 1, FixBits) THEN rep_MAKE_INT(x.n + 1) ELSE rep_number_add1__(x)
Fsub1(x) ==
  IF x.t = "int" /\ Fits(x.n - 1, FixBits) THEN rep_MAKE_INT(x.n - 1) ELSE rep_number_sub1__(x)

Ffloor__(x) ==
  CASE rep_INTEGERP(x) -> x
    [] x.t = "rat"     -> maybe_demote(Big(x.n \div x.d))
    [] OTHER           -> Num("float", x.n \div x.d, 1)
Fceiling__(x) ==
  CASE rep_INTEGERP(x) -> x
    [] x.t = "rat"     -> maybe_demote(Big(-((-x.n) \div x.d)))
    [] OTHER           -> Num("float", -((-x.n) \div x.d), 1)
Ftruncate__(x) ==
  CASE rep_INTEGERP(x) -> x
    [] x.t = "rat"     -> maybe_demote(Big(Quo(x.n, x.d)))
    [] OTHER           -> Num("float", Quo(x.n, x.d), 1)

\* round_even(): floor(x + 1/2), one less if x + 1/2 is an odd integer.
round_even(n, d) ==
  LET r == (2 * n + d) \div (2 * d)
  IN IF (2 * n + d) % (2 * d) = 0 /\ r % 2 # 0 THEN r - 1 ELSE r
Fround__(x) ==
  CASE rep_INTEGERP(x) -> x
    [] x.t = "rat"     -> make_long_int(round_even(x.n, x.d))
    [] OTHER           -> Num("float", round_even(x.n, x.d), 1)

Ffloor(x) == IF x.t = "int" THEN x ELSE Ffloor__(x)
Fceiling(x) == IF x.t = "int" THEN x ELSE Fceiling__(x)
Ftruncate(x) == IF x.t = "int" THEN x ELSE Ftruncate__(x)
Fround(x) == IF x.t = "int" THEN x ELSE Fround__(x)

\* The operands on their common denominator, as mpq_ code computes d2n1, d1n2.
Fremainder__(x, y) ==
  LET t == Common(x, y) a == x.n * y.d b == y.n * x.d IN
  IF ~Inexact(y) /\ y.n = 0 THEN Error("arith-error")
  ELSE IF t = "int" THEN rep_MAKE_INT(Rem(x.n, y.n))
  ELSE maybe_demote(Frac(t, Rem(a, b), x.d * y.d))

modulo_int(a, b) ==
  LET c == Rem(a, b) IN IF (b < 0 /\ c > 0) \/ (b > 0 /\ c < 0) THEN c + b ELSE c

Fmodulo__(x, y) ==
  LET t == Common(x, y) a == x.n * y.d b == y.n * x.d IN
  IF ~Inexact(y) /\ y.n = 0 THEN Error("arith-error")
  ELSE IF t = "int" THEN rep_MAKE_INT(modulo_int(x.n, y.n))
  ELSE IF t = "rat" THEN maybe_demote(Frac(t, a - FloorDiv(a, b) * b, x.d * y.d))
  ELSE maybe_demote(Frac(t, modulo_int(a, b), x.d * y.d))

Fquotient__(x, y) ==
  LET t == Common(x, y) q == Quo(x.n * y.d, y.n * x.d) IN
  IF ~Inexact(y) /\ y.n = 0 THEN Error("arith-error")
  ELSE IF t = "int" THEN rep_MAKE_INT(q)
  ELSE IF t = "float" THEN Num("float", q, 1)
  ELSE maybe_demote(Big(q))

FastDivision(x, y) == Ints(x, y) /\ y.n # 0
Fremainder(x, y) ==
  IF FastDivision(x, y) THEN rep_MAKE_INT(Rem(x.n, y.n)) ELSE Fremainder__(x, y)
Fmod(x, y) ==
  IF FastDivision(x, y) THEN rep_MAKE_INT(modulo_int(x.n, y.n)) ELSE Fmodulo__(x, y)
Fquotient(x, y) ==
  IF FastDivision(x, y) THEN rep_MAKE_INT(Quo(x.n, y.n)) ELSE Fquotient__(x, y)

-----------------------------------------------------------------------------
(* Bits *)

Bit(n, i) == (n \div 2 ^ i) % 2
FromBits(B(_)) ==
  MapThenSumSet(LAMBDA i : B(i) * 2 ^ i, 0 .. BitMax - 1) - B(BitMax) * 2 ^ BitMax

\* The bitwise functions leave a bignum a bignum.
Bitwise2(x, y, B(_)) ==
  CASE Common(x, y) = "int" -> rep_MAKE_INT(FromBits(B))
    [] Common(x, y) = "big" -> Big(FromBits(B))
    [] OTHER -> Error("bad-arg")

rep_number_logior(x, y) ==
  LET B(i) == IF Bit(x.n, i) + Bit(y.n, i) > 0 THEN 1 ELSE 0 IN Bitwise2(x, y, B)
rep_number_logxor(x, y) ==
  LET B(i) == (Bit(x.n, i) + Bit(y.n, i)) % 2 IN Bitwise2(x, y, B)
rep_number_logand(x, y) ==
  LET B(i) == Bit(x.n, i) * Bit(y.n, i) IN Bitwise2(x, y, B)
rep_number_lognot(x) ==
  CASE x.t = "int" -> rep_MAKE_INT(-x.n - 1)
    [] x.t = "big" -> Big(-x.n - 1)
    [] OTHER -> Error("bad-arg")

\* A fixnum is shifted to the left in a long long unless the shift has the
\* bits of a fixnum or more.
Fash(x, y) ==
  LET s == coerce(y).n IN
  IF ~rep_INTEGERP(x) \/ ~rep_INTEGERP(y) THEN Error("bad-arg")
  ELSE IF x.t = "int" /\ s < FixBits
       THEN make_long_int(IF s > 0 THEN Wrap(x.n * 2 ^ s, LongBits) ELSE x.n \div 2 ^ (-s))
  ELSE maybe_demote(Big(IF s > 0 THEN x.n * 2 ^ s ELSE x.n \div 2 ^ (-s)))

-----------------------------------------------------------------------------
(* Comparison *)

\* An int: the difference of two fixnums loses its upper bits.
rep_compare_numbers_Numerators(x, y) ==
  IF Common(x, y) = "int" THEN Wrap(x.n - y.n, IntBits) ELSE Sign(x.n - y.n)

rep_compare_numbers(x, y) ==
  IF Common(x, y) = "int" THEN Wrap(x.n - y.n, IntBits) ELSE Sign(x.n * y.d - y.n * x.d)

number_cmp(x, y) == IF Inexact(x) # Inexact(y) THEN 1 ELSE rep_compare_numbers(x, y)

Fexact_to_inexact(x) == [x EXCEPT !.t = "float"]

Chosen(x, y, first) ==
  LET m == IF first THEN x ELSE y
  IN IF Inexact(x) \/ Inexact(y) THEN Fexact_to_inexact(m) ELSE m
rep_number_max__(x, y) == Chosen(x, y, rep_compare_numbers(x, y) >= 0)
rep_number_min__(x, y) == Chosen(x, y, rep_compare_numbers(x, y) <= 0)

\* Two fixnums are compared as they are.
rep_number_max(x, y) ==
  IF Ints(x, y) THEN (IF x.n > y.n THEN x ELSE y) ELSE rep_number_max__(x, y)
rep_number_min(x, y) ==
  IF Ints(x, y) THEN (IF x.n < y.n THEN x ELSE y) ELSE rep_number_min__(x, y)

-----------------------------------------------------------------------------
(* Other functions *)

\* A fixnum even where the greatest common divisor is none; a bignum even
\* where it would fit.
rep_integer_gcd(x, y) ==
  LET g == Gcd[Abs(x.n), Abs(y.n)] IN
  IF ~rep_INTEGERP(x) \/ ~rep_INTEGERP(y) THEN Error("bad-arg")
  ELSE IF Common(x, y) = "int" THEN rep_MAKE_INT(g) ELSE Big(g)

\* With an integer for the power, the only case in which the result is known.
\* An integer raised to a fixnum stays a bignum.
Power(n, k) == n ^ k
Fexpt(x, y) ==
  LET k == Abs(y.n) num == Power(x.n, k) den == Power(x.d, k) IN
  CASE rep_INTEGERP(x) /\ y.t = "int" /\ y.n >= 0 -> Big(num)
    [] rep_INTEGERP(x) /\ y.t = "int" /\ y.n < 0 -> rep_number_div(rep_MAKE_INT(1), Big(num))
    [] OTHER ->
       LET p == IF y.n >= 0 THEN Frac("float", num, den) ELSE Frac("float", den, num)
       IN rep_make_float(p.n, p.d, Inexact(x) \/ Inexact(y))

Finexact_to_exact(x) == IF Inexact(x) THEN maybe_demote([x EXCEPT !.t = "rat"]) ELSE x

\* rationalize(): the mantissa, doubled until it is an integer, which is the
\* odd part of the numerator.
OddPart(n) == IF n = 0 THEN 0 ELSE n \div Max({2 ^ i : i \in {j \in 0 .. BitMax : n % (2 ^ j) = 0}})
Fnumerator(x) ==
  IF x.t = "rat" THEN maybe_demote(Big(x.n))
  ELSE rep_make_float(OddPart(x.n), 1, Inexact(x))
Fdenominator(x) ==
  IF x.t = "rat" THEN maybe_demote(Big(x.d))
  ELSE IF x.n = 0 THEN Num("float", 1, 1) ELSE Frac("float", OddPart(x.n) * x.d, x.n)

\* Functions of real numbers, where only the domain and exact roots are known.
Real == Error("real")
Fsqrt(x) ==
  LET Root(n) == {k \in 0 .. n : k * k = n} IN
  IF x.n < 0 THEN Error("arith-error")
  ELSE IF Root(x.n) = {} \/ Root(x.d) = {} THEN Real
  ELSE rep_make_float(Max(Root(x.n)), Max(Root(x.d)), Inexact(x))
Flog(x) == IF x.n >= 0 THEN Real ELSE Error("arith-error")
Fsin(x) == Real
Fasin(x) == IF Abs(x.n) > x.d THEN Error("arith-error") ELSE Real

\* The numbers (random LIMIT) may give.
random_new(x) == {maybe_demote(Big(k)) : k \in 0 .. Abs(x.n) - 1}
Frandom(x) ==
  IF ~rep_INTEGERP(x) \/ rep_compare_numbers(x, rep_MAKE_INT(0)) <= 0 THEN {Error("bad-arg")}
  ELSE random_new(x)

-----------------------------------------------------------------------------
(* Numbers in C code, a long long being a long.  A double that does not    *)
(* fit the type it is converted to gives what the processor makes of it:   *)
(* the bits of the integer, or the limit that is nearest.  Pairs of        *)
(* fixnums, which some of these accept as well, are left out.              *)

rep_make_long_uint(u) == IF u < 2 ^ (FixBits - 1) - 1 THEN rep_MAKE_INT(u) ELSE Big(u)
rep_make_longlong_int(n) == make_long_int(n)

\* The integers that n/d, as a double, may become.
ToUnsigned(n, d) ==
  LET q == Quo(n, d) IN
  IF q \in 0 .. 2 ^ LongBits - 1 THEN {q} ELSE {q % 2 ^ LongBits, IF q < 0 THEN 0 ELSE 2 ^ LongBits - 1}
ToSigned(n, d) ==
  LET q == Quo(n, d) IN
  IF Fits(q, LongBits) THEN {q} ELSE {-(2 ^ (LongBits - 1)), Sign(q) * 2 ^ (LongBits - 1) - (IF q > 0 THEN 1 ELSE 0)}

rep_get_long_uint(x) ==
  CASE x.t = "int" -> {x.n % 2 ^ LongBits}
    [] x.t = "big" -> {mpz_get_ui(x.n)}
    [] OTHER -> ToUnsigned(x.n, x.d)
rep_get_long_int(x) ==
  CASE x.t = "int" -> {x.n}
    [] x.t = "big" -> {mpz_get_si(x.n)}
    [] OTHER -> ToSigned(x.n, x.d)
rep_get_longlong_int(x) == rep_get_long_int(x)
rep_get_float(x) == [n |-> x.n, d |-> x.d]

-----------------------------------------------------------------------------
(* Writing and reading.  A text is its sign, its digits, the digits after  *)
(* a point and those after a slash.                                        *)

Text(kind, neg, digits, tail) == [kind |-> kind, neg |-> neg, digits |-> digits, tail |-> tail]

Digits[n \in Nat, radix \in 2 .. 16] ==
  IF n < radix THEN <<n>> ELSE Append(Digits[n \div radix, radix], n % radix)
Value(digits, radix) == FoldLeft(LAMBDA v, d : v * radix + d, 0, digits)

\* A fixnum is written in base 8 and 16 as the unsigned long it is stored in;
\* a float in base 10 whatever the radix.
rep_print_number_to_string(x, radix) ==
  CASE x.t = "int" /\ radix \in {8, 16} ->
         Text("int", FALSE, Digits[x.n % (2 ^ LongBits), radix], <<>>)
    [] x.t = "rat" -> Text("rat", x.n < 0, Digits[Abs(x.n), radix], Digits[x.d, radix])
    [] x.t = "float" ->
         Text("float", x.n < 0, Digits[Abs(x.n) \div x.d, 10],
              IF x.d = 1 THEN <<>> ELSE Digits[((Abs(x.n) % x.d) * 10) \div x.d, 10])
    [] OTHER -> Text("int", x.n < 0, Digits[Abs(x.n), radix], <<>>)

EstimatedBits_Digits(len, radix) == IF radix = 16 THEN 3 * len ELSE len

EstimatedBits(len, radix) ==
  CASE radix = 2 -> len [] radix = 8 -> 3 * len [] radix = 10 -> (27 * len) \div 8
    [] radix = 16 -> 4 * len

Signed(text, n) == IF text.neg THEN -n ELSE n

rep_parse_number(text, radix, type) ==
  LET n == Value(text.digits, radix) m == Value(text.tail, radix) IN
  CASE type = "rat" /\ m = 0 -> Error("nil")
    [] type = "rat" /\ m # 0 -> maybe_demote(Frac("rat", Signed(text, n), m))
    [] type = "float" ->
         LET scale == 10 ^ Len(text.tail) IN Frac("float", Signed(text, n * scale + m), scale)
    \* A point is no digit.
    [] type = "int" /\ text.kind # "int" -> Error("nil")
    [] OTHER -> IF EstimatedBits(Len(text.digits), radix) < FixBits
                THEN rep_MAKE_INT(Signed(text, n)) ELSE maybe_demote(Big(Signed(text, n)))

Fnumber_to_string(x, radix) == rep_print_number_to_string(x, radix)

\* A slash makes a rational, and a point a float if the base is 10; then the
\* prefix #e or #i applies.
Fstring_to_number(text, radix, prefix) ==
  LET type == CASE text.kind = "rat" -> "rat"
                [] text.kind = "float" /\ radix = 10 -> "float"
                [] OTHER -> "int"
      r == rep_parse_number(text, radix, type)
  IN CASE r.t = "nil" -> r
       [] prefix = "read#e" /\ r.t # "nil" -> Finexact_to_exact(r)
       [] prefix = "read#i" /\ r.t # "nil" -> Fexact_to_inexact(r)
       [] OTHER -> r

-----------------------------------------------------------------------------
(* Lisp functions *)

\* number_foldv() and foldv(): a null result is not looked at before it is an
\* operand again.
foldv(op(_, _), args) ==
  FoldLeft(LAMBDA sum, x : IF rep_NUMERICP(sum) THEN op(sum, x) ELSE Error("crash"),
           Head(args), Tail(args))
integer_foldv(op(_, _), args) ==
  IF \A i \in 1 .. Len(args) : rep_INTEGERP(args[i]) THEN foldv(op, args) ELSE Error("bad-arg")

Bool(b) == IF b THEN Num("t", 1, 1) ELSE Num("nil", 0, 1)

\* APPLY_COMPARISON(): the arguments are compared in pairs.
Compared(Rel(_), args) ==
  Bool(\A i \in 2 .. Len(args) : Rel(rep_compare_numbers(args[i - 1], args[i])))
Fnum_eq(args) == Compared(LAMBDA sign : sign = 0, args)
Fgtthan(args) == Compared(LAMBDA sign : sign > 0, args)
Fgethan(args) == Compared(LAMBDA sign : sign >= 0, args)
Fltthan(args) == Compared(LAMBDA sign : sign < 0, args)
Flethan(args) == Compared(LAMBDA sign : sign <= 0, args)
Fnum_noteq(args) == Bool(Fnum_eq(args) = Bool(FALSE))
Feql(x, y) == Bool(number_cmp(x, y) = 0)
Fzerop(x) == Bool(x.n = 0)
Fintegerp(x) == Bool(rep_INTEGERP(x) \/ (Inexact(x) /\ x.d = 1))
Ffixnump(x) == Bool(x.t = "int")
Fexactp(x) == Bool(~Inexact(x))

Fplus(args) == foldv(rep_number_add, args)
Fproduct(args) == foldv(rep_number_mul, args)
Flogior(args) == foldv(rep_number_logior, args)
Flogxor(args) == foldv(rep_number_logxor, args)
Flogand(args) == foldv(rep_number_logand, args)
Fmax(args) == foldv(rep_number_max, args)
Fmin(args) == foldv(rep_number_min, args)
Fminus(args) ==
  IF Len(args) = 1 THEN rep_number_neg(args[1]) ELSE foldv(rep_number_sub, args)
Fdivide(args) ==
  IF Len(args) = 1 THEN rep_number_div(rep_MAKE_INT(1), args[1]) ELSE foldv(rep_number_div, args)
Fgcd(args) ==
  IF Len(args) = 1 THEN rep_integer_gcd(args[1], args[1]) ELSE integer_foldv(rep_integer_gcd, args)

FoldOps == {"+", "-", "*", "/", "gcd", "logior", "logxor", "logand", "max", "min"}
RelOps == {"=", "/=", "<", "<=", ">", ">="}
UnaryOps == {"1+", "1-", "floor", "ceiling", "truncate", "round", "lognot",
             "exact->inexact", "inexact->exact", "numerator", "denominator",
             "sqrt", "log", "sin", "asin", "zero?", "integer?", "fixnum?", "exact?"}
ReadOps == {"read", "read#e", "read#i"}
BinaryOps == {"remainder", "modulo", "quotient", "ash", "expt", "eqv?"}

CallMany(op, args) ==
  CASE op = "+" -> Fplus(args)
    [] op = "-" -> Fminus(args)
    [] op = "*" -> Fproduct(args)
    [] op = "/" -> Fdivide(args)
    [] op = "gcd" -> Fgcd(args)
    [] op = "logior" -> Flogior(args)
    [] op = "logxor" -> Flogxor(args)
    [] op = "logand" -> Flogand(args)
    [] op = "max" -> Fmax(args)
    [] op = "min" -> Fmin(args)
    [] op = "=" -> Fnum_eq(args)
    [] op = "/=" -> Fnum_noteq(args)
    [] op = "<" -> Fltthan(args)
    [] op = "<=" -> Flethan(args)
    [] op = ">" -> Fgtthan(args)
    [] op = ">=" -> Fgethan(args)
CallUnary(op, x) ==
  CASE op = "1+" -> Fplus1(x)
    [] op = "1-" -> Fsub1(x)
    [] op = "floor" -> Ffloor(x)
    [] op = "ceiling" -> Fceiling(x)
    [] op = "truncate" -> Ftruncate(x)
    [] op = "round" -> Fround(x)
    [] op = "lognot" -> rep_number_lognot(x)
    [] op = "exact->inexact" -> Fexact_to_inexact(x)
    [] op = "inexact->exact" -> Finexact_to_exact(x)
    [] op = "numerator" -> Fnumerator(x)
    [] op = "denominator" -> Fdenominator(x)
    [] op = "sqrt" -> Fsqrt(x)
    [] op = "log" -> Flog(x)
    [] op = "sin" -> Fsin(x)
    [] op = "asin" -> Fasin(x)
    [] op = "zero?" -> Fzerop(x)
    [] op = "integer?" -> Fintegerp(x)
    [] op = "fixnum?" -> Ffixnump(x)
    [] op = "exact?" -> Fexactp(x)
CallBinary(op, x, y) ==
  CASE op = "remainder" -> Fremainder(x, y)
    [] op = "modulo" -> Fmod(x, y)
    [] op = "quotient" -> Fquotient(x, y)
    [] op = "ash" -> Fash(x, y)
    [] op = "expt" -> Fexpt(x, y)
    [] op = "eqv?" -> Feql(x, y)

-----------------------------------------------------------------------------
(* A program computes on with a result it keeps. *)

Kept(x) == [op |-> "kept", args |-> <<>>, r |-> x]

\* A float whose value a double holds, within the bounds.
Usable(x) ==
  /\ rep_NUMERICP(x)
  /\ Abs(x.n) <= Limit /\ x.d <= DenLimit
  /\ Inexact(x) => x.d \in {1, 2}

Ready == last.op = "kept"
Step(op, args, r) == last' = [op |-> op, args |-> args, r |-> r]

NumbersInit == \E x \in Loaded : last = Kept(x)

Keep == ~Ready /\ Usable(last.r) /\ last' = Kept(last.r)
Load == ~Ready /\ \E x \in Loaded : last' = Kept(x)

CallFold ==
  Ready /\ \E op \in FoldOps, y \in Loaded, n \in 1 .. 3 :
    LET args == SubSeq(<<last.r, y, y>>, 1, n)
    IN /\ op = "/" => \A i \in 1 .. n : ~(Inexact(args[i]) /\ args[i].n = 0)
       /\ Step(op, args, CallMany(op, args))

CallRelation ==
  Ready /\ \E op \in RelOps, y \in Loaded, n \in 2 .. 3 :
    LET args == SubSeq(<<last.r, y, last.r>>, 1, n)
    IN Step(op, args, CallMany(op, args))

CallOne == Ready /\ \E op \in UnaryOps : Step(op, <<last.r>>, CallUnary(op, last.r))

\* A power or a shift is small, and a power of zero or of a float with a
\* negative exponent is left out.
CallTwo ==
  Ready /\ \E op \in BinaryOps, y \in Loaded :
    /\ op \in {"ash", "expt"} => y.d = 1 /\ Abs(y.n) <= FixBits
    /\ op = "expt" => Abs(y.n) <= 3 /\ last.r.n # 0
    /\ op \in {"remainder", "modulo", "quotient"} => ~(Inexact(y) /\ y.n = 0)
    /\ Step(op, <<last.r, y>>, CallBinary(op, last.r, y))

CallRandom == Ready /\ \E r \in Frandom(last.r) : Step("random", <<last.r>>, r)

\* C code takes a number and makes one of what it got.
CallC ==
  Ready /\ LET x == last.r
               f == rep_get_float(x)
           IN \/ \E n \in rep_get_long_int(x) : Step("long", <<x>>, make_long_int(n))
              \/ \E n \in rep_get_longlong_int(x) : Step("long long", <<x>>, rep_make_longlong_int(n))
              \/ \E u \in rep_get_long_uint(x) : Step("unsigned long", <<x>>, rep_make_long_uint(u))
              \/ Step("double", <<x>>, rep_make_float(f.n, f.d, Inexact(x)))

\* number->string and string->number with the same radix.
WriteAndRead ==
  Ready /\ \E radix \in Radices, prefix \in ReadOps :
    Step(prefix, <<last.r, Num("int", radix, 1)>>,
         Fstring_to_number(Fnumber_to_string(last.r, radix), radix, prefix))

NumbersNext ==
  \/ Keep
  \/ Load
  \/ CallFold
  \/ CallRelation
  \/ CallOne
  \/ CallTwo
  \/ CallRandom
  \/ CallC
  \/ WriteAndRead
=============================================================================
