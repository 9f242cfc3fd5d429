--------------------------- MODULE MCBillSession ---------------------------
\* BillSession on two or three bills.
EXTENDS BillSession, TLC

\* The bills are interchangeable: no definition orders them.
BillSymmetry == Permutations(Bills)
=============================================================================
