---------------------------- MODULE ReedSolomon ----------------------------
(***************************************************************************)
(* ReedSolomonEncoder and ReedSolomonDecoder of the scanner's zxing, with  *)
(* twoS check symbols: up to twoS \div 2 wrong symbols are put right.  The *)
(* field's generator base is 0, as QR_CODE_FIELD_256's is.                 *)
(***************************************************************************)
EXTENDS GenericGF

\* buildGenerator: the product of x - 2^i for i below degree
Generator(degree) ==
    FoldLeft(LAMBDA g, i : TimesPoly(g, <<1, Exp(i - 1)>>), One, [i \in 1..degree |-> i])

\* ReedSolomonEncoder::encode: data followed by its check symbols
RSEncode(data, twoS) ==
    LET info   == TimesMonomial(Poly(data), twoS, 1)
        checks == Divide(info, Generator(twoS)).r
    IN  data \o [i \in 1..(twoS - Len(checks)) |-> 0] \o checks

-----------------------------------------------------------------------------

Uncorrectable == [failed |-> TRUE]   \* where the code throws
Corrected(word) == [failed |-> FALSE, word |-> word]

\* The received word at the powers of 2, the highest power's value first
Syndromes(word, twoS) == SubSeq([i \in 1..twoS |-> EvaluateAt(word, Exp(twoS - i))], 1, twoS)

\* runEuclideanAlgorithm up to its normalisation: the first remainder of a degree
\* below half of R, and the t that goes with it.
Euclid(a, b, R) ==
    LET step(r, d, tLast, t) == [rLast |-> r, r |-> d.r, tLast |-> t,
                                 t |-> PlusPoly(TimesPoly(d.q, t), tLast)]
        run[s \in [{"rLast", "r", "tLast", "t"} -> Seq(Element)]] ==
            IF Degree(s.r) < R \div 2 \/ IsZero(s.r) THEN s
            ELSE run[step(s.r, Divide(s.rLast, s.r), s.tLast, s.t)]
    IN  run[[rLast |-> a, r |-> b, tLast |-> Zero, t |-> One]]

\* findErrorLocations: the inverses of the locator's roots
ErrorLocations(sigma) ==
    {InverseOf(i) : i \in {i \in Element \ {0} : EvaluateAt(sigma, i) = 0}}

\* Mutant: the product is not inverted.
ErrorMagnitudeTimesProduct(omega, locations, xInverse) ==
    LET product[rest \in SUBSET locations] ==
            IF rest = {} THEN 1
            ELSE LET y == CHOOSE y \in rest : TRUE
                 IN  Times(product[rest \ {y}], Plus(Times(y, xInverse), 1))
    IN  Times(EvaluateAt(omega, xInverse),
              product[{y \in locations : y # InverseOf(xInverse)}])

\* findErrorMagnitudes (Forney), for one location; "term +/- 1" flips the last bit
ErrorMagnitude(omega, locations, xInverse) ==
    LET product[rest \in SUBSET locations] ==
            IF rest = {} THEN 1
            ELSE LET y == CHOOSE y \in rest : TRUE
                 IN  Times(product[rest \ {y}], Plus(Times(y, xInverse), 1))
    IN  Times(EvaluateAt(omega, xInverse),
              InverseOf(product[{y \in locations : y # InverseOf(xInverse)}]))

\* The end of decode: the word with its errors put right; that is not checked again.
PutRight(word, sigma, omega, locations) ==
    LET at == {Len(word) - LogTable[x] : x \in locations}
    IN  IF Cardinality(locations) # Degree(sigma) \/ \E i \in at : i < 1 THEN Uncorrectable
        ELSE Corrected(SubSeq([i \in 1..Len(word) |->
                 IF i \in at
                 THEN Plus(word[i], ErrorMagnitude(omega, locations, InverseOf(Exp(Len(word) - i))))
                 ELSE word[i]], 1, Len(word)))

\* runEuclideanAlgorithm's normalisation: the locator starts with 1
Normalised(word, so, inverse) ==
    LET sigma == TimesMonomial(so.t, 0, inverse)
    IN  PutRight(word, sigma, TimesMonomial(so.r, 0, inverse), ErrorLocations(sigma))

Solve(word, so, R) ==
    IF Degree(so.r) >= R \div 2 \/ Coefficient(so.t, 0) = 0 THEN Uncorrectable
    ELSE Normalised(word, so, InverseOf(Coefficient(so.t, 0)))

\* ReedSolomonDecoder::decode
RSDecode(word, twoS) ==
    LET syndromes == Syndromes(word, twoS)
    IN  IF IsZero(Poly(syndromes)) THEN Corrected(word)
        ELSE Solve(word, Euclid(TimesMonomial(One, twoS, 1), Poly(syndromes), twoS), twoS)
=============================================================================
