----------------------------- MODULE MCCheckout -----------------------------
(* One invoice, and manual payments of one unit. *)
EXTENDS PaymentCheckout, TLC

CONSTANTS w1, w2, momo, card, k1, k2

WorkerSymmetry == Permutations(Worker)

Symmetry == WorkerSymmetry \cup Permutations(Provider) \cup Permutations(Key)
=============================================================================
