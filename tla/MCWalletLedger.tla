--------------------------- MODULE MCWalletLedger ---------------------------
(* WalletLedger with two wallets and calls on both. *)
EXTENDS WalletLedger, TLC

CONSTANTS a, b

Calls(ops, amounts) ==
    {c \in [op : ops, from : {a, b}, to : {a, b}, amount : amounts] : c.from # c.to}

CreditAndLock == Calls({"applyBalanceChange"}, {1, -2})
                 \cup Calls({"transferInternal", "moveToLocked"}, {1})
AllCalls      == Calls({"applyBalanceChange"}, {1, -2})
                 \cup Calls({"transferInternal"} \cup LockingOp, {1})

Symmetry == Permutations(Tx) \cup Permutations(Wallet)

=============================================================================
