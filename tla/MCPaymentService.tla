--------------------------- MODULE MCPaymentService ---------------------------
(***************************************************************************)
(* PaymentService on small instances.                                      *)
(***************************************************************************)
EXTENDS PaymentService, TLC

\* Threads are interchangeable.
ThreadSymmetry == Permutations(Threads)
=============================================================================
