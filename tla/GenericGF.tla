----------------------------- MODULE GenericGF -----------------------------
(***************************************************************************)
(* The finite field of the scanner's error correction and polynomials over *)
(* it: zxing's GenericGF and GenericGFPoly.  A polynomial is the sequence  *)
(* of its coefficients, the highest first, as in the code.                 *)
(*                                                                         *)
(* Operators whose result is used many times build it with SubSeq or       *)
(* Append, which TLC evaluates once; a plain function would be evaluated   *)
(* again at each of its uses.                                              *)
(***************************************************************************)
EXTENDS Integers, SequencesExt

CONSTANTS Size,       \* elements of the field, a power of two up to 256
          Primitive   \* its primitive polynomial, as the bits of a number

ASSUME FieldAssumption == Size \in 2..256 /\ Primitive \in Size..(2 * Size)

Element == 0..(Size - 1)

Bit(x, weight) == (x \div weight) % 2

Differ == [ab \in (0..15) \X (0..15) |->
    LET d(weight) == weight * ((Bit(ab[1], weight) + Bit(ab[2], weight)) % 2)
    IN  d(1) + d(2) + d(4) + d(8)]

\* GenericGF::addOrSubtract: exclusive or, half a byte at a time
Plus(a, b) == 16 * Differ[<<a \div 16, b \div 16>>] + Differ[<<a % 16, b % 16>>]

\* x <<= 1 and the reduction by the primitive polynomial
Double(x) == IF 2 * x >= Size THEN Plus((2 * x) % Size, Primitive % Size) ELSE 2 * x

\* GenericGF::initialize; the powers of 2, from the power 0 at index 1
ExpTable ==
    FoldLeft(LAMBDA t, i : Append(t, Double(Last(t))), <<1>>, [i \in 1..(Size - 1) |-> i])

Exp(i) == ExpTable[i + 1]

LogTable ==
    LET table == ExpTable
    IN  [x \in Element \ {0} |-> CHOOSE i \in 0..(Size - 2) : table[i + 1] = x]

InverseOf(x) == Exp(Size - LogTable[x] - 1)

Times(a, b) ==
    IF a = 0 \/ b = 0 THEN 0 ELSE Exp((LogTable[a] + LogTable[b]) % (Size - 1))

-----------------------------------------------------------------------------

Zero == <<0>>
One == <<1>>

\* GenericGFPoly's constructor drops leading zeros
Poly(c) ==
    IF \A i \in 1..Len(c) : c[i] = 0 THEN Zero
    ELSE SubSeq(c, CHOOSE i \in 1..Len(c) : c[i] # 0 /\ \A j \in 1..(i - 1) : c[j] = 0, Len(c))

Degree(p) == Len(p) - 1
IsZero(p) == p[1] = 0
Coefficient(p, degree) == p[Len(p) - degree]
Leading(p) == p[1]

\* The code's shortcuts for 0 and 1 compute what Horner's rule does.
EvaluateAt(p, a) == FoldLeft(LAMBDA sum, c : Plus(Times(a, sum), c), 0, p)

PlusPoly(p, q) ==
    LET long  == IF Len(p) >= Len(q) THEN p ELSE q
        short == IF Len(p) >= Len(q) THEN q ELSE p
        d     == Len(long) - Len(short)
    IN  Poly([i \in 1..Len(long) |->
                IF i <= d THEN long[i] ELSE Plus(short[i - d], long[i])])

\* multiplyByMonomial; with degree 0, multiply by a scalar
TimesMonomial(p, degree, c) ==
    Poly([i \in 1..(Len(p) + degree) |-> IF i <= Len(p) THEN Times(p[i], c) ELSE 0])

TimesPoly(p, q) ==
    FoldLeft(LAMBDA sum, c : PlusPoly(TimesMonomial(sum, 1, 1), TimesMonomial(q, 0, c)),
             Zero, p)

\* The loop shared by GenericGFPoly::divide and the decoder's Euclidean step:
\* the quotient and the remainder of a by b.
Divide(a, b) ==
    LET step(q, r, d, scale) == [q |-> PlusPoly(q, TimesMonomial(One, d, scale)),
                                 r |-> PlusPoly(r, TimesMonomial(b, d, scale))]
        rest[s \in [{"q", "r"} -> Seq(Element)]] ==
            IF Degree(s.r) < Degree(b) \/ IsZero(s.r) THEN s
            ELSE rest[step(s.q, s.r, Degree(s.r) - Degree(b),
                           Times(Leading(s.r), InverseOf(Leading(b))))]
    IN  rest[[q |-> Zero, r |-> a]]
=============================================================================
