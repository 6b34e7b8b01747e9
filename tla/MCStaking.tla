------------------------------ MODULE MCStaking ------------------------------
(* Staking on small sets. *)
EXTENDS Staking, TLC

CONSTANTS u1, a1

MCFee(amount, terms) == (amount * terms.apy * terms.fee) \div 10000
MCNet(amount, terms) == (amount * terms.apy) \div 100 - MCFee(amount, terms)

Capped == [lock |-> 1, cooldown |-> 1, min |-> 4, cap |-> 4, apy |-> 50, fee |-> 50]
Slow   == [lock |-> 1, cooldown |-> 1, min |-> 1, cap |-> 8, apy |-> 75, fee |-> 0]
MCTerms == {Capped, Slow}

\* A pool, and what an administrator makes of it.
MCRows == {[asset |-> "BTC", terms |-> Capped, isActive |-> TRUE],
           [asset |-> "USDT", terms |-> Slow, isActive |-> FALSE]}

MCRoles == {<<u1, "ADMIN">>, <<a1, "ADMIN">>, <<a1, "TREASURY">>}

=============================================================================
