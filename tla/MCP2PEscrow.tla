---------------------------- MODULE MCP2PEscrow ----------------------------
(* P2PEscrow on small sets. *)
EXTENDS P2PEscrow, TLC

SellOne == {[side |-> "SELL", minFiat |-> 1, maxFiat |-> 1]}
BuyOrSellUpToTwo ==
    {[side |-> s, minFiat |-> 1, maxFiat |-> 2] : s \in {"SELL", "BUY"}}

\* Users, offers, trades and workers are interchangeable.
Symmetry == Permutations(User) \cup Permutations(Offer)
            \cup Permutations(Trade) \cup Permutations(Worker)

=============================================================================
