-------------------------- MODULE MCFiatWithdrawal --------------------------
(* FiatWithdrawal on small sets. *)
EXTENDS FiatWithdrawal, TLC

Symmetry == Permutations(Withdrawal) \cup Permutations(Worker)

=============================================================================
