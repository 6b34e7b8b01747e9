--------------------------- MODULE MCFiatDeposit ---------------------------
(* FiatDeposit on small sets. *)
EXTENDS FiatDeposit, TLC

Symmetry == Permutations(Deposit) \cup Permutations(Handler)

=============================================================================
