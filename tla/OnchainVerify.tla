---------------------------- MODULE OnchainVerify ----------------------------
(***************************************************************************)
(* What onchain-verify.ts makes of a txid and of what a node says about    *)
(* it, and what submitDepositTxid makes of that: the functions that        *)
(* CryptoDeposit takes as given.  Amounts count the smallest unit of the   *)
(* token, 0.000001.  CHAIN_USDT_DECIMALS and the keys of the nodes are     *)
(* left out.                                                               *)
(***************************************************************************)
EXTENDS Integers, Sequences, FiniteSets, FiniteSetsExt, SequencesExt

CONSTANTS
    Hash,      \* transaction hashes, 64 hexadecimal digits
    OtherText, \* what else a user may type
    Value,     \* amounts of transfers
    Height,    \* numbers of the newest block; 0 if the node does not say
    MaxLogs,   \* bound: logs of a transaction
    MinNet, ServiceFee, Required \* minAmount, serviceFeeUsdt, confirmationsRequired

ASSUME OnchainVerifyAssumption ==
    /\ Value \subseteq Nat /\ Height \subseteq Nat
    /\ MinNet \in Nat /\ ServiceFee \in Nat /\ Required \in Nat \ {0}
    /\ MaxLogs \in Nat

Network == {"TRC20", "EVM"}

\* A txid as it is written.
Written == [body : Hash \cup OtherText, prefix : {"", "0x", "0X"}, upper : BOOLEAN, spaces : BOOLEAN]

trim(t) == [t EXCEPT !.spaces = FALSE]

normalizeEvmTxid(t) ==
    IF t.prefix # "" \/ t.body \in Hash
    THEN [trim(t) EXCEPT !.prefix = "0x", !.upper = FALSE] ELSE trim(t)

normalizeTronTxid(t) == [trim(t) EXCEPT !.prefix = "", !.upper = FALSE]

normalizeTxIdForStore(network, t) ==
    IF network = "TRC20" THEN normalizeTronTxid(t) ELSE normalizeEvmTxid(t)

\* The txid that the node is asked for.
LookedUp(network, t) ==
    IF network = "TRC20" THEN normalizeTronTxid(t) ELSE normalizeEvmTxid(t)

\* The hashes a node finds: their digits in either case.
Names(network, t) ==
    IF t.body \in Hash /\ ~t.spaces /\ t.prefix = (IF network = "TRC20" THEN "" ELSE "0x")
    THEN {t.body} ELSE {}

-----------------------------------------------------------------------------

\* A transaction: its transfers, and the block it is in.
Log == [usdt : BOOLEAN, platform : BOOLEAN, value : Value]
Tx  == [logs : SeqOf(Log, MaxLogs), success : BOOLEAN, block : Height \ {0}]

\* What a node tells of it: an error, nothing, or what has happened; a node
\* of Tron may not know the block yet.
View == [tells : {"error", "nothing", "no block", "all"}, head : Height]

Counts(log) == log.usdt /\ log.platform

Transfers(tx) == {n \in DOMAIN tx.logs : Counts(tx.logs[n])}

\* The greatest transfer on Tron, and the first one elsewhere.
AmountOf(network, tx) ==
    IF network = "TRC20" THEN Max({tx.logs[n].value : n \in Transfers(tx)})
    ELSE tx.logs[Min(Transfers(tx))].value

Confirmations(network, tx, view) ==
    IF network = "TRC20" /\ view.head = 0 THEN 0 ELSE view.head - tx.block + 1

No(code) == [ok |-> FALSE, code |-> code]

\* No intent has a memo (memoTag is null), which would fail it.
verifyUsdtIncomingPayment(network, tx, view) ==
    CASE view.tells = "error"   -> No("RPC_ERROR")
      [] view.tells = "nothing" -> No("NOT_FOUND")
      [] ~tx.success            -> No("NOT_CONFIRMED")
      [] Transfers(tx) = {}   -> No("WRONG_RECIPIENT")
      [] AmountOf(network, tx) + 1 < MinNet + ServiceFee -> No("AMOUNT_BELOW_MIN")
      [] network = "TRC20" /\ view.tells = "no block"    -> No("NOT_CONFIRMED")
      [] OTHER -> [ok |-> TRUE, amount |-> AmountOf(network, tx),
                   confirmations |-> Confirmations(network, tx, view)]
-----------------------------------------------------------------------------

\* Mutant: what the node does not know yet is given up.
FatalIfUnknown == {"WRONG_RECIPIENT", "WRONG_ASSET", "MEMO_MISMATCH", "AMOUNT_BELOW_MIN", "NOT_FOUND"}

Fatal == {"WRONG_RECIPIENT", "WRONG_ASSET", "MEMO_MISMATCH", "AMOUNT_BELOW_MIN"}

Pending == [status |-> "PENDING_VALIDATION", credit |-> 0]
Failed  == [status |-> "FAILED", credit |-> 0]

\* submitDepositTxid, from the answer of the node to the status of the intent
\* and what the user is credited.
Verdict(network, tx, view) ==
    LET v == verifyUsdtIncomingPayment(network, tx, view) IN
    CASE ~v.ok -> IF v.code \in Fatal THEN Failed ELSE Pending
      [] v.ok /\ v.confirmations < Required -> Pending
      [] v.ok /\ v.confirmations >= Required ->
           IF v.amount - ServiceFee < MinNet THEN Failed
           ELSE [status |-> "CONFIRMED", credit |-> v.amount - ServiceFee]

-----------------------------------------------------------------------------
(* Properties. *)

\* However a user writes a txid, UsedOnchainTxid has one form of it: what is
\* stored is what the node was asked for, a refresh stores it again as it
\* is, and two writings that find the same transaction are stored alike.
OneFormPerTxid ==
    \A network \in Network, t \in Written :
      LET stored == normalizeTxIdForStore(network, t) IN
      /\ LookedUp(network, t) = stored
      /\ normalizeTxIdForStore(network, stored) = stored
      /\ \A u \in Written :
           Names(network, stored) \cap Names(network, normalizeTxIdForStore(network, u)) # {}
             => stored = normalizeTxIdForStore(network, u)

\* What is credited has been paid: the transaction succeeded, has enough
\* blocks on it, and moved the credit and the fee to the platform in USDT;
\* and it is not less than the minimum.
CreditIsBacked ==
    \A network \in Network, tx \in Tx, view \in View :
      LET o == Verdict(network, tx, view) IN
      o.status = "CONFIRMED" =>
        /\ tx.success /\ view.head - tx.block + 1 >= Required
        /\ \E n \in DOMAIN tx.logs :
             tx.logs[n] = [usdt |-> TRUE, platform |-> TRUE, value |-> o.credit + ServiceFee]
        /\ o.credit >= MinNet

\* A node comes to know more of a transaction, as its chain grows, or does
\* not answer.
Later(v, w) ==
    /\ w.head >= v.head
    /\ w.tells = "error" \/ v.tells \in {"error", "nothing"}
       \/ (v.tells = "no block" /\ w.tells # "nothing") \/ w.tells = "all"

\* The order of the checks, which are not all repeated once a deposit FAILED,
\* never fails a payment too early: what failed would be credited at no later
\* time, whatever the node did not know yet.
FailedForGood ==
    \A network \in Network, tx \in Tx, v, w \in View :
      Later(v, w) /\ Verdict(network, tx, v) = Failed =>
        Verdict(network, tx, w).status # "CONFIRMED"

\* The form of a txid, the checks and their order let a payment be credited
\* under one name only, as far as it is backed, and not failed too early.
VerifierIsSound == OneFormPerTxid /\ CreditIsBacked /\ FailedForGood

=============================================================================
