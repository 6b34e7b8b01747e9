--------------------------- MODULE MCDepositPage ---------------------------
(* The page and its calls on small sets; amounts around the minimum of 3 and *)
(* the fee of 1, and a chain of six blocks.                                  *)
EXTENDS DepositPage, TLC

=============================================================================
