--------------------------- MODULE CryptoDeposit ---------------------------
(***************************************************************************)
(* On-chain USDT deposits on one network: crypto/crypto-deposit.service,   *)
(* and the chain as onchain-verify.ts reads it.                            *)
(*                                                                         *)
(* Users submit a txid for their deposit intent, any txid, as often as     *)
(* they like and from several tabs.  Each call is a Worker at its next     *)
(* step; between two steps lies an await.  The crediting transaction is    *)
(* one step; it stands on three unique columns: the Transaction reference  *)
(* DEP_<intent>, and the txid and the intent of UsedOnchainTxid.  A credit *)
(* is kept as the number of DEPOSIT_CRYPTO_ONCHAIN entries per intent and  *)
(* txid; the fee goes to the treasury in the same transaction.             *)
(***************************************************************************)
EXTENDS Integers

CONSTANTS
    Intent,  \* identifiers of CryptoDepositIntent rows
    Txid,    \* transactions on chain, normalised
    Payment, \* those that pay the platform the minimum and the fee, or more
    Worker,  \* calls served at the same time
    None,    \* no txid, no intent
    MaxFailures \* bound: calls that are cut short

ASSUME CryptoDepositAssumption ==
    /\ Payment \subseteq Txid
    /\ None \notin Intent \cup Txid
    /\ MaxFailures \in Nat

VARIABLES
    status,  \* CryptoDepositIntent.status ("NONE": no row)
    txid,    \* CryptoDepositIntent.txid
    used,    \* UsedOnchainTxid: the intent the txid was credited to
    credits, \* ledger entries of each intent for each txid
    chain,   \* how far the chain is with each transaction
    worker,  \* what each worker does next, for which intent and txid
    raced,   \* history: calls for the intent overlapped
    failures \* calls cut short so far

rows == <<status, txid, used, credits>>
vars == <<rows, chain, worker, raced, failures>>

Status == {"NONE", "AWAITING_TX", "PENDING_VALIDATION", "CONFIRMED", "FAILED"}
Idle   == [step |-> "idle"]
Task   == [step : {"clash", "mark", "verify", "postpone", "fail", "credit"},
           id : Intent, txid : Txid]

TypeOK ==
    /\ status \in [Intent -> Status]
    /\ txid \in [Intent -> Txid \cup {None}]
    /\ used \in [Txid -> Intent \cup {None}]
    /\ credits \in [Intent -> [Txid -> Nat]]
    /\ chain \in [Txid -> {"unseen", "mined", "confirmed"}]
    /\ worker \in [Worker -> {Idle} \cup Task]
    /\ raced \in [Intent -> BOOLEAN]
    /\ failures \in Nat

Init ==
    /\ status = [i \in Intent |-> "NONE"]
    /\ txid = [i \in Intent |-> None]
    /\ used = [x \in Txid |-> None]
    /\ credits = [i \in Intent |-> [x \in Txid |-> 0]]
    /\ chain = [x \in Txid |-> "unseen"]
    /\ worker = [k \in Worker |-> Idle]
    /\ raced = [i \in Intent |-> FALSE]
    /\ failures = 0

-----------------------------------------------------------------------------

At(k, step)   == worker[k].step = step
Goto(k, step) == worker' = [worker EXCEPT ![k].step = step]
Ends(k)       == worker' = [worker EXCEPT ![k] = Idle]

SetStatus(i, s) == status' = [status EXCEPT ![i] = s]

CreateIntent(i) ==
    /\ status[i] = "NONE"
    /\ SetStatus(i, "AWAITING_TX")
    /\ UNCHANGED <<txid, used, credits, chain, worker, raced, failures>>

Served(i) == \E k \in Worker : worker[k] # Idle /\ worker[k].id = i

Take(k, i, x) ==
    /\ worker[k] = Idle
    /\ worker' = [worker EXCEPT ![k] = [step |-> "clash", id |-> i, txid |-> x]]
    /\ raced' = [raced EXCEPT ![i] = @ \/ Served(i)]
    /\ UNCHANGED <<rows, chain, failures>>

\* Mutant: a deposit that is confirmed already is looked at again.
SubmitConfirmed(k, i, x) ==
    /\ status[i] \in {"AWAITING_TX", "PENDING_VALIDATION", "CONFIRMED"}
    /\ Take(k, i, x)

\* Other statuses end the call at once.
Submit(k, i, x) ==
    /\ status[i] \in {"AWAITING_TX", "PENDING_VALIDATION"}
    /\ Take(k, i, x)

\* The row's txid again; that the row is read a second time shows nothing
\* new, for Submit may come with any txid.
Refresh(k, i) ==
    /\ txid[i] # None
    /\ Submit(k, i, txid[i])

\* Mutant: a txid that another intent names is refused.
CheckClashNamed(k) ==
    /\ At(k, "clash")
    /\ IF \E j \in Intent \ {worker[k].id} : txid[j] = worker[k].txid
       THEN Ends(k) ELSE Goto(k, "mark")
    /\ UNCHANGED <<rows, chain, raced, failures>>

\* TXID_REUSED, if the txid has been credited to another intent by now.
CheckClash(k) ==
    /\ At(k, "clash")
    /\ IF used[worker[k].txid] \in {None, worker[k].id} THEN Goto(k, "mark") ELSE Ends(k)
    /\ UNCHANGED <<rows, chain, raced, failures>>

\* The row is written whatever its status is by now.
Mark(k) ==
    /\ At(k, "mark")
    /\ SetStatus(worker[k].id, "PENDING_VALIDATION")
    /\ txid' = [txid EXCEPT ![worker[k].id] = worker[k].txid]
    /\ Goto(k, "verify")
    /\ UNCHANGED <<used, credits, chain, raced, failures>>

-----------------------------------------------------------------------------
(* verifyUsdtIncomingPayment. *)

\* Not found, reverted, too few confirmations, or the node has a problem.
VerifyLater(k) ==
    /\ At(k, "verify")
    /\ Goto(k, "postpone")
    /\ UNCHANGED <<rows, chain, raced, failures>>

\* Another recipient or asset, or less than the minimum: confirmations are
\* not waited for.
VerifyFatal(k) ==
    /\ At(k, "verify")
    /\ chain[worker[k].txid] # "unseen" /\ worker[k].txid \notin Payment
    /\ Goto(k, "fail")
    /\ UNCHANGED <<rows, chain, raced, failures>>

VerifyOk(k) ==
    /\ At(k, "verify")
    /\ chain[worker[k].txid] = "confirmed" /\ worker[k].txid \in Payment
    /\ Goto(k, "credit")
    /\ UNCHANGED <<rows, chain, raced, failures>>

ChainMoves(x, from, to) ==
    /\ chain[x] = from
    /\ chain' = [chain EXCEPT ![x] = to]
    /\ UNCHANGED <<rows, worker, raced, failures>>

-----------------------------------------------------------------------------
(* What the answer makes of the intent. *)

Postpone(k) ==
    /\ At(k, "postpone")
    /\ SetStatus(worker[k].id, "PENDING_VALIDATION")
    /\ Ends(k)
    /\ UNCHANGED <<txid, used, credits, chain, raced, failures>>

Fail(k) ==
    /\ At(k, "fail")
    /\ SetStatus(worker[k].id, "FAILED")
    /\ Ends(k)
    /\ UNCHANGED <<txid, used, credits, chain, raced, failures>>

HasCredit(i) == \E x \in Txid : credits[i][x] > 0

\* Mutant: the txid of UsedOnchainTxid is not unique.
CreditReused(k) ==
    /\ At(k, "credit")
    /\ LET i == worker[k].id
           x == worker[k].txid
       IN  IF ~ HasCredit(i)
           THEN /\ credits' = [credits EXCEPT ![i][x] = @ + 1]
                /\ used' = [used EXCEPT ![x] = i]
                /\ SetStatus(i, "CONFIRMED")
           ELSE UNCHANGED <<credits, used, status>>
    /\ Ends(k)
    /\ UNCHANGED <<txid, chain, raced, failures>>

\* A violated unique column rolls the transaction back, and the call fails.
Credit(k) ==
    /\ At(k, "credit")
    /\ LET i == worker[k].id
           x == worker[k].txid
       IN  IF ~ HasCredit(i) /\ used[x] = None /\ (\A y \in Txid : used[y] # i)
           THEN /\ credits' = [credits EXCEPT ![i][x] = @ + 1]
                /\ used' = [used EXCEPT ![x] = i]
                /\ SetStatus(i, "CONFIRMED")
           ELSE UNCHANGED <<credits, used, status>>
    /\ Ends(k)
    /\ UNCHANGED <<txid, chain, raced, failures>>

\* The node or the database throws, no treasury is configured, or the
\* process stops.
CutShort(k) ==
    /\ worker[k] # Idle
    /\ failures < MaxFailures
    /\ failures' = failures + 1
    /\ Ends(k)
    /\ UNCHANGED <<rows, chain, raced>>

-----------------------------------------------------------------------------

Continue(k) ==
    \/ CheckClash(k) \/ Mark(k)
    \/ VerifyLater(k) \/ VerifyFatal(k) \/ VerifyOk(k)
    \/ Postpone(k) \/ Fail(k) \/ Credit(k)

Next ==
    \/ \E i \in Intent :
         \/ CreateIntent(i)
         \/ \E k \in Worker : Refresh(k, i) \/ \E x \in Txid : Submit(k, i, x)
    \/ \E k \in Worker : Continue(k) \/ CutShort(k)
    \/ \E x \in Txid : ChainMoves(x, "unseen", "mined") \/ ChainMoves(x, "mined", "confirmed")

Spec == Init /\ [][Next]_vars

-----------------------------------------------------------------------------
(* Properties. *)

\* Whoever submits a txid, for whichever intents, at the same time or later,
\* each transaction on chain is credited at most once, each intent is
\* credited at most once, and only with a payment the chain has confirmed.
CreditedOnce ==
    \A i, j \in Intent, x, y \in Txid :
      credits[i][x] > 0 =>
        /\ x \in Payment /\ chain[x] = "confirmed" /\ credits[i][x] = 1
        /\ credits[j][y] > 0 /\ (i = j \/ x = y) => i = j /\ x = y

\* The status the user sees says whether the deposit was credited, unless
\* calls for the intent overlapped: an older one may overwrite CONFIRMED.
StatusTellsCredit ==
    \A i \in Intent : ~ raced[i] => (status[i] = "CONFIRMED" <=> HasCredit(i))

=============================================================================
