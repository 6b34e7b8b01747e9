------------------------- MODULE MCCryptoWithdrawal -------------------------
(* Withdrawals on chain from two tabs. *)
EXTENDS CryptoWithdrawal, TLC

CONSTANTS t1, t2

Tabs     == {t1, t2}

=============================================================================
