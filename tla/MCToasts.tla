------------------------------ MODULE MCToasts ------------------------------
(* Toasts with the tasks and the amounts interchangeable.                  *)
EXTENDS Toasts, TLC

ToastSymmetry == Permutations(Amounts) \cup Permutations(Consumers)
=============================================================================
