---------------------------- MODULE NumbersProps ----------------------------
(***************************************************************************)
(* What the operations of Numbers have to do with arithmetic.  Each        *)
(* property names exactly the inputs for which the code departs from it.   *)
(***************************************************************************)
EXTENDS Numbers

\* Rational arithmetic on the values n/d.
Eq(x, y) == x.n * y.d = y.n * x.d
Lt(x, y) == x.n * y.d < y.n * x.d
Le(x, y) == x.n * y.d <= y.n * x.d
Q(n, d) == [n |-> n, d |-> d]
Plus(x, y) == Q(x.n * y.d + y.n * x.d, x.d * y.d)
Minus(x, y) == Q(x.n * y.d - y.n * x.d, x.d * y.d)
Times(x, y) == Q(x.n * y.n, x.d * y.d)
IsInteger(x) == x.n % x.d = 0
Size(x) == Q(Abs(x.n), x.d)

Least(x) == x.t = "int" /\ x.n = -(2 ^ (FixBits - 1))
MinusOne(x) == x.t = "int" /\ x.n = -1

\* The quotient of the least fixnum and -1 is no fixnum but is stored as one.
WrapsDivision(x, y) == Least(x) /\ MinusOne(y)
\* Neither is their greatest common divisor with 0 or itself.
WrapsGcd(x, y) ==
  /\ Least(x) \/ Least(y)
  /\ \A z \in {x, y} : Least(z) \/ (z.t = "int" /\ z.n = 0)
\* A shift of a fixnum that overflows a long long.
WrapsShift(x, s) == x.t = "int" /\ s.n \in 1 .. FixBits - 1 /\ ~Fits(x.n * 2 ^ s.n, LongBits)

Sums(op, r, args) ==
  LET x == args[1] y == args[2] n == Len(args) IN
  CASE op = "+" /\ n = 2 -> Eq(r, Plus(x, y))
    [] op = "+" /\ n = 3 -> Eq(r, Plus(x, Plus(y, y)))
    [] op = "-" /\ n = 1 -> Eq(Plus(r, x), Q(0, 1))
    [] op = "-" /\ n = 2 -> Eq(Plus(r, y), x)
    [] op = "*" /\ n = 2 -> Eq(r, Times(x, y))
    [] op = "*" /\ n = 3 -> Eq(r, Times(x, Times(y, y)))
    [] op = "/" /\ n = 1 -> Eq(Times(r, x), Q(1, 1))
    [] op = "/" /\ n = 2 -> Eq(Times(r, y), x) # WrapsDivision(x, y)
    [] op = "1+" -> Eq(Minus(r, x), Q(1, 1))
    [] op = "1-" -> Eq(Minus(x, r), Q(1, 1))
    [] op = "expt" /\ y.n \in 0 .. 3 -> Eq(r, Q(x.n ^ y.n, x.d ^ y.n))
    [] op = "sqrt" -> Eq(Times(r, r), x)
    [] OTHER -> TRUE

\* (x - r) / y is an integer and r is on the right side of 0, nearer than y.
Residue(x, y, r, side) ==
  /\ LET k == Minus(x, r) IN (k.n * y.d) % (k.d * Abs(y.n)) = 0
  /\ Lt(Size(r), Size(y))
  /\ r.n # 0 => Sign(r.n) = Sign(side.n)

Divisions(op, r, args) ==
  LET x == args[1] y == args[2] IN
  CASE op = "remainder" -> Residue(x, y, r, x)
    [] op = "modulo" -> Residue(x, y, r, y)
    [] op = "quotient" ->
         (IsInteger(r) /\ Residue(x, y, Minus(x, Times(y, r)), x)) # WrapsDivision(x, y)
    [] op = "floor" -> IsInteger(r) /\ Le(r, x) /\ Lt(x, Plus(r, Q(1, 1)))
    [] op = "ceiling" -> IsInteger(r) /\ Le(x, r) /\ Lt(r, Plus(x, Q(1, 1)))
    [] op = "truncate" -> IsInteger(r) /\ Le(Size(r), Size(x)) /\ Lt(Size(Minus(x, r)), Q(1, 1))
    [] op = "round" ->
         LET off == Size(Minus(x, r))
         IN IsInteger(r) /\ Le(off, Q(1, 2)) /\ (Eq(off, Q(1, 2)) => r.n % 2 = 0)
    [] op = "gcd" /\ Len(args) = 2 ->
         (\A k \in 1 .. Limit :
            (x.n % k = 0 /\ y.n % k = 0) = (r.n % k = 0 /\ r.n >= 0)) # WrapsGcd(x, y)
    [] OTHER -> TRUE

Bits(op, r, args) ==
  LET x == args[1] y == args[2] IN
  CASE op = "ash" /\ rep_INTEGERP(y) ->
         (IF y.n >= 0 THEN r.n = x.n * 2 ^ y.n
          ELSE r.n * 2 ^ (-y.n) <= x.n /\ x.n < (r.n + 1) * 2 ^ (-y.n)) \/ WrapsShift(x, y)
    [] op \in {"logand", "logior"} /\ Len(args) = 2 ->
         \A i \in 0 .. BitMax : Bit(r.n, i) =
           (IF op = "logand" THEN Min({Bit(x.n, i), Bit(y.n, i)}) ELSE Max({Bit(x.n, i), Bit(y.n, i)}))
    [] op = "logxor" /\ Len(args) = 2 ->
         \A i \in 0 .. BitMax : (Bit(r.n, i) = 0) = (Bit(x.n, i) = Bit(y.n, i))
    [] op = "lognot" -> \A i \in 0 .. BitMax : Bit(r.n, i) # Bit(x.n, i)
    [] OTHER -> TRUE

\* What C code gets of a number that its type has room for is the number, cut
\* to an integer where the type is one.
InC(op, r, x) ==
  LET q == Quo(x.n, x.d) IN
  CASE op \in {"long", "long long"} -> Fits(q, LongBits) => r.n = q
    [] op = "unsigned long" -> /\ q \in 0 .. 2 ^ LongBits - 1 => r.n = q
                               \* the size of a negative bignum, two's complement of a fixnum
                               /\ x.t = "big" /\ Abs(q) < 2 ^ LongBits => r.n = Abs(q)
                               /\ x.t = "int" /\ q < 0 => r.n = q + 2 ^ LongBits
    [] op = "double" -> Eq(r, x)
    [] OTHER -> TRUE

\* Of three operands the first two give no result.
FirstFails(op, x, y) ==
  \/ op = "/" /\ y.n = 0
  \/ op \in {"logior", "logxor", "logand"} /\ ~(rep_INTEGERP(x) /\ rep_INTEGERP(y))

\* The operations that leave a bignum that would fit a fixnum.
Undemoted ==
  \/ last.op \in {"logior", "logxor", "logand", "lognot", "gcd"} /\ last.r.t = "big"
  \/ last.op = "-" /\ Len(last.args) = 1
  \/ last.op = "expt" /\ last.args[2].n >= 0
  \/ last.op = "unsigned long" /\ last.r = Big(2 ^ (FixBits - 1) - 1)

\* A number that fits a fixnum is a fixnum and an integer is no rational, so
\* that equal exact numbers are the same object or compare bit for bit: in
\* every result but those of the bitwise functions, the negation, the power
\* and the greatest common divisor of bignums, the greatest fixnum made of an
\* unsigned long, and what passes such a number through.  (numbers.c:388 maybe_demote)
Canonical ==
  LET Proper(x) ==
        /\ x.t = "big" => ~Fits(x.n, FixBits)
        /\ x.t = "rat" => x.d > 1 /\ Gcd[Abs(x.n), x.d] = 1
        /\ x.t = "int" => Fits(x.n, FixBits)
  IN \/ Proper(last.r)
     \/ Undemoted
     \/ last.op = "kept"
     \/ \E i \in 1 .. Len(last.args) : last.args[i] = last.r

\* Every operation that gives a number gives the right one, whatever the
\* types of its operands and however near they are to the limits of a fixnum,
\* but for the quotient of the least fixnum and -1, the greatest common
\* divisor of the least fixnum with itself or 0, and left shifts of fixnums
\* that leave 64 bits.  What C code takes from a number and makes a number of
\* is the same number where the C type has room for it, except that a negative
\* bignum loses its sign as an unsigned long.  When an operation on three operands fails on the first
\* two, the missing result is used as an operand.  The result also has the
\* type it should.  (numbers.c: the arithmetic functions, their fast paths and
\* promotions)
Exact ==
  /\ Canonical
  /\ rep_NUMERICP(last.r) =>
       /\ Sums(last.op, last.r, last.args)
       /\ Divisions(last.op, last.r, last.args)
       /\ Bits(last.op, last.r, last.args)
       /\ last.args # <<>> => InC(last.op, last.r, last.args[1])
  /\ last.r.t = "crash" <=> Len(last.args) = 3 /\ FirstFails(last.op, last.args[1], last.args[2])
  /\ last.op = "random" /\ rep_NUMERICP(last.r) => 0 <= last.r.n /\ last.r.n < Abs(last.args[1].n)

\* A comparison of two numbers says what is true of their values, except that
\* the difference of two fixnums is cut down to an int: then fixnums that
\* differ by a multiple of 2 ^ IntBits are equal.  (numbers.c:782, 822,
\* compare.c:74)
OrderAgrees ==
  LET x == last.args[1] y == last.args[2]
      Cut == Common(x, y) = "int" /\ ~Fits(x.n - y.n, IntBits)
      Holds == CASE last.op = "=" -> Eq(x, y) [] last.op = "/=" -> ~Eq(x, y)
                 [] last.op = "<" -> Lt(x, y) [] last.op = "<=" -> Le(x, y)
                 [] last.op = ">" -> Lt(y, x) [] last.op = ">=" -> Le(y, x)
                 [] last.op = "eqv?" -> Eq(x, y) /\ Inexact(x) = Inexact(y)
  IN last.op \in RelOps \cup {"eqv?"} /\ Len(last.args) = 2 =>
       IF ~Cut THEN last.r = Bool(Holds)
       ELSE last.op \in {"=", "eqv?"} => last.r = Bool((x.n - y.n) % (2 ^ IntBits) = 0)

\* What number->string writes, string->number reads back as the same number,
\* but for negative fixnums in base 8 and 16 and floats in a base other than
\* 10; a bignum that would fit a fixnum comes back as one, and a prefix
\* changes the exactness of the number and not its value.  (numbers.c:921,
\* 1128, 3223)
ReadBack ==
  LET x == last.args[1] radix == last.args[2].n
      Lost == \/ x.t = "int" /\ x.n < 0 /\ radix \in {8, 16}
              \/ Inexact(x) /\ radix # 10
      Wanted == CASE last.op = "read#e" -> Finexact_to_exact(maybe_demote(x))
                  [] last.op = "read#i" -> Fexact_to_inexact(x)
                  [] OTHER -> maybe_demote(x)
  IN last.op \in ReadOps => (last.r = Wanted) # Lost
=============================================================================
