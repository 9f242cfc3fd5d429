-------------------------- MODULE MCSessionToasts --------------------------
\* SessionToasts with the bills and the amounts interchangeable.
EXTENDS SessionToasts, TLC

SessionSymmetry == Permutations(Bills) \cup Permutations(Amounts)

\* Bound: one arrival at a time, and no tipcard.
OneArrival ==
    tip = "idle" /\ giving + claiming + (IF scanning THEN 1 ELSE 0) <= 1
=============================================================================
