---------------------------- MODULE MCTradeRoom ----------------------------
(* The trade room on small sets. *)
EXTENDS TradeRoom, TLC

=============================================================================
