---------------------------- MODULE WalletLedger ----------------------------
(***************************************************************************)
(* backend/src/services/ledger.service on PostgreSQL at READ COMMITTED,    *)
(* the level Prisma's $transaction gets when none is asked for.            *)
(*                                                                         *)
(* A plain SELECT reads the last committed row and locks nothing.  SELECT  *)
(* ... FOR UPDATE waits for the row's lock, then reads the last committed  *)
(* row.  UPDATE waits for the lock too, but writes the value computed from *)
(* what was read before.  Locks are held until COMMIT or ROLLBACK, so the  *)
(* writes of a transaction can be made visible all at once by its commit.  *)
(*                                                                         *)
(* LedgerEntry rows are kept as the sum of their amounts, per wallet.      *)
(* Wallets exist; the branch that creates one is a wallet of 0/0.  Amounts *)
(* are integers in the last decimal of the columns.                        *)
(***************************************************************************)
EXTENDS Integers, FiniteSets, Functions

CONSTANTS
    Wallet,          \* WalletAccount rows, of one kind and currency
    Tx,              \* database transactions; each runs one call
    Call,            \* the ledger calls requests make
    InitialBalance,  \* of every wallet
    ConnectionLimit, \* transactions open at the same time
    None             \* nobody holds the lock

LockingOp   == {"moveToLocked", "finalizeLocked", "refundLocked",
                "releaseLocked"}
UnlockingOp == {"applyBalanceChange", "transferInternal"}

ASSUME LedgerAssumption ==
    /\ IsFiniteSet(Tx)
    /\ Call \subseteq [op : LockingOp \cup UnlockingOp, from : Wallet,
                       to : Wallet, amount : Int]
    /\ \A c \in Call :
         /\ c.op \in {"releaseLocked", "transferInternal"} => c.from # c.to
         /\ c.op # "applyBalanceChange" => c.amount \in Nat \ {0}
    /\ InitialBalance \in Nat
    /\ ConnectionLimit \in Nat
    /\ None \notin Tx

VARIABLES
    balance,    \* WalletAccount.balance, committed
    locked,     \* WalletAccount.lockedBalance, committed
    entrySum,   \* sum of the amounts of the wallet's LedgerEntry rows
    holder,     \* the transaction that holds the row's lock
    pc,         \* where each transaction is
    call,       \* the call it runs
    from,       \* the first row as it read it
    to          \* the second row as it read it

store == <<balance, locked, entrySum>>
reads == <<from, to>>
vars  == <<store, holder, pc, call, reads>>

Row == [balance : Nat, locked : Nat]
NoRow == [balance |-> 0, locked |-> 0]
NoCall == [op |-> "none"]

Phase == {"new", "begin", "second", "update", "updateTo", "ready",
          "committed", "aborted"}

TypeOK ==
    /\ balance \in [Wallet -> Nat]
    /\ locked \in [Wallet -> Nat]
    /\ entrySum \in [Wallet -> Int]
    /\ holder \in [Wallet -> Tx \cup {None}]
    /\ pc \in [Tx -> Phase]
    /\ call \in [Tx -> Call \cup {NoCall}]
    /\ from \in [Tx -> Row]
    /\ to \in [Tx -> Row]

Init ==
    /\ balance = [w \in Wallet |-> InitialBalance]
    /\ locked = [w \in Wallet |-> 0]
    /\ entrySum = [w \in Wallet |-> 0]
    /\ holder = [w \in Wallet |-> None]
    /\ pc = [t \in Tx |-> "new"]
    /\ call = [t \in Tx |-> NoCall]
    /\ from = [t \in Tx |-> NoRow]
    /\ to = [t \in Tx |-> NoRow]

-----------------------------------------------------------------------------

Open(t) == pc[t] \in {"begin", "second", "update", "updateTo", "ready"}

Committed(w) == [balance |-> balance[w], locked |-> locked[w]]

\* The check each call makes on the first row it reads.
Enough(c, row) ==
    CASE c.op = "applyBalanceChange" -> row.balance + c.amount >= 0
      [] c.op \in {"moveToLocked", "transferInternal"} -> row.balance >= c.amount
      [] OTHER -> row.locked >= c.amount

Go(t, phase) == pc' = [pc EXCEPT ![t] = phase]

Lock(t, w) == holder[w] = None /\ holder' = [holder EXCEPT ![w] = t]

\* $transaction takes a connection from the pool.
Begin(t, c) ==
    /\ pc[t] = "new"
    /\ Cardinality({x \in Tx : Open(x)}) < ConnectionLimit
    /\ call' = [call EXCEPT ![t] = c]
    /\ Go(t, "begin")
    /\ UNCHANGED <<store, holder, reads>>

\* Mutant: the first row is read without FOR UPDATE.
LockFromUnlocked(t) ==
    /\ pc[t] = "begin" /\ call[t].op \in LockingOp
    /\ Enough(call[t], Committed(call[t].from))
    /\ from' = [from EXCEPT ![t] = Committed(call[t].from)]
    /\ Go(t, IF call[t].op = "releaseLocked" THEN "second" ELSE "ready")
    /\ UNCHANGED <<store, holder, call, to>>

\* lockWalletRow on the wallet that pays.
LockFrom(t) ==
    /\ pc[t] = "begin" /\ call[t].op \in LockingOp
    /\ Lock(t, call[t].from)
    /\ Enough(call[t], Committed(call[t].from))
    /\ from' = [from EXCEPT ![t] = Committed(call[t].from)]
    /\ Go(t, IF call[t].op = "releaseLocked" THEN "second" ELSE "ready")
    /\ UNCHANGED <<store, call, to>>

\* lockWalletRow on the buyer's wallet.
LockTo(t) ==
    /\ pc[t] = "second" /\ call[t].op = "releaseLocked"
    /\ Lock(t, call[t].to)
    /\ to' = [to EXCEPT ![t] = Committed(call[t].to)]
    /\ Go(t, "ready")
    /\ UNCHANGED <<store, call, from>>

\* findUnique: applyBalanceChangeTx and transferInternalAtomic lock nothing.
ReadFrom(t) ==
    /\ pc[t] = "begin" /\ call[t].op \in UnlockingOp
    /\ Enough(call[t], Committed(call[t].from))
    /\ from' = [from EXCEPT ![t] = Committed(call[t].from)]
    /\ Go(t, IF call[t].op = "transferInternal" THEN "second" ELSE "update")
    /\ UNCHANGED <<store, holder, call, to>>

ReadTo(t) ==
    /\ pc[t] = "second" /\ call[t].op = "transferInternal"
    /\ to' = [to EXCEPT ![t] = Committed(call[t].to)]
    /\ Go(t, "update")
    /\ UNCHANGED <<store, holder, call, from>>

\* The UPDATE statements of the same two calls wait for the rows' locks.
UpdateFrom(t) ==
    /\ pc[t] = "update"
    /\ Lock(t, call[t].from)
    /\ Go(t, IF call[t].op = "transferInternal" THEN "updateTo" ELSE "ready")
    /\ UNCHANGED <<store, call, reads>>

UpdateTo(t) ==
    /\ pc[t] = "updateTo"
    /\ Lock(t, call[t].to)
    /\ Go(t, "ready")
    /\ UNCHANGED <<store, call, reads>>

Unlock(t) ==
    holder' = [w \in Wallet |-> IF holder[w] = t THEN None ELSE holder[w]]

Entry(w, amount) == entrySum' = [entrySum EXCEPT ![w] = @ + amount]

\* What each call writes: values computed from the rows as read.
ApplyBalanceChange(t, c) ==
    /\ c.op = "applyBalanceChange"
    /\ balance' = [balance EXCEPT ![c.from] = from[t].balance + c.amount]
    /\ Entry(c.from, c.amount)
    /\ UNCHANGED locked

MoveToLocked(t, c) ==
    /\ c.op = "moveToLocked"
    /\ balance' = [balance EXCEPT ![c.from] = from[t].balance - c.amount]
    /\ locked' = [locked EXCEPT ![c.from] = from[t].locked + c.amount]
    /\ Entry(c.from, -c.amount)

\* The entry's amount is 0: the funds left the balance when they were locked.
FinalizeLocked(t, c) ==
    /\ c.op = "finalizeLocked"
    /\ locked' = [locked EXCEPT ![c.from] = from[t].locked - c.amount]
    /\ Entry(c.from, 0)
    /\ UNCHANGED balance

RefundLocked(t, c) ==
    /\ c.op = "refundLocked"
    /\ balance' = [balance EXCEPT ![c.from] = from[t].balance + c.amount]
    /\ locked' = [locked EXCEPT ![c.from] = from[t].locked - c.amount]
    /\ Entry(c.from, c.amount)

\* Only the buyer's side gets a LedgerEntry.
ReleaseLocked(t, c) ==
    /\ c.op = "releaseLocked"
    /\ locked' = [locked EXCEPT ![c.from] = from[t].locked - c.amount]
    /\ balance' = [balance EXCEPT ![c.to] = to[t].balance + c.amount]
    /\ Entry(c.to, c.amount)

\* Mutant: the entry of the wallet that receives is forgotten.
TransferInternalHalf(t, c) ==
    /\ c.op = "transferInternal"
    /\ balance' = [balance EXCEPT ![c.from] = from[t].balance - c.amount,
                                  ![c.to] = to[t].balance + c.amount]
    /\ Entry(c.from, -c.amount)
    /\ UNCHANGED locked

TransferInternal(t, c) ==
    /\ c.op = "transferInternal"
    /\ balance' = [balance EXCEPT ![c.from] = from[t].balance - c.amount,
                                  ![c.to] = to[t].balance + c.amount]
    /\ entrySum' = [entrySum EXCEPT ![c.from] = @ - c.amount,
                                    ![c.to] = @ + c.amount]
    /\ UNCHANGED locked

Commit(t) ==
    /\ pc[t] = "ready"
    /\ \/ ApplyBalanceChange(t, call[t])
       \/ MoveToLocked(t, call[t])
       \/ FinalizeLocked(t, call[t])
       \/ RefundLocked(t, call[t])
       \/ ReleaseLocked(t, call[t])
       \/ TransferInternal(t, call[t])
    /\ Unlock(t)
    /\ Go(t, "committed")
    /\ UNCHANGED <<call, reads>>

Rollback(t) ==
    /\ Open(t)
    /\ Unlock(t)
    /\ Go(t, "aborted")
    /\ UNCHANGED <<store, call, reads>>

\* Mutant: without the funds the call waits for them.
CheckFailsWaits(t) ==
    /\ pc[t] = "begin"
    /\ call[t].op \in LockingOp => holder[call[t].from] = None
    /\ ~Enough(call[t], Committed(call[t].from))
    /\ UNCHANGED vars

\* INSUFFICIENT_FUNDS, ESCROW_MISMATCH or LOCK_MISMATCH on the first row.
CheckFails(t) ==
    /\ pc[t] = "begin"
    /\ call[t].op \in LockingOp => holder[call[t].from] = None
    /\ ~Enough(call[t], Committed(call[t].from))
    /\ Rollback(t)

\* The row whose lock the transaction waits for.
WaitsFor(t, w) ==
    /\ \/ pc[t] = "begin" /\ call[t].op \in LockingOp /\ w = call[t].from
       \/ pc[t] = "second" /\ call[t].op \in LockingOp /\ w = call[t].to
       \/ pc[t] = "update" /\ w = call[t].from
       \/ pc[t] = "updateTo" /\ w = call[t].to
    /\ holder[w] # None

Deadlocked(t) ==
    \E S \in SUBSET Tx :
      t \in S /\ \A x \in S : \E w \in Wallet : WaitsFor(x, w) /\ holder[w] \in S

\* PostgreSQL chooses a victim among the transactions of a deadlock.
DeadlockVictim(t) == Deadlocked(t) /\ Rollback(t)

\* A connection lost, the transaction's timeout, a later statement that fails.
Fails(t) == Rollback(t)

Step(t) == LockFrom(t) \/ LockTo(t) \/ ReadFrom(t) \/ ReadTo(t)
           \/ UpdateFrom(t) \/ UpdateTo(t) \/ Commit(t) \/ CheckFails(t)
           \/ DeadlockVictim(t)

\* All the calls of the model have been served.
Done == (\A t \in Tx : pc[t] \in {"committed", "aborted"}) /\ UNCHANGED vars

Next ==
    \/ \E t \in Tx : (\E c \in Call : Begin(t, c)) \/ Step(t) \/ Fails(t)
    \/ Done

Spec == Init /\ [][Next]_vars

\* The database executes the statements of an open transaction, and breaks
\* deadlocks; nothing forces a failure, and no client has to call.
FairSpec == Spec /\ \A t \in Tx : WF_vars(Step(t))

-----------------------------------------------------------------------------
(* Properties. *)

\* The available balance is what the ledger entries of the wallet add up to:
\* the books explain every balance.
BalanceIsEntrySum ==
    \A w \in Wallet : balance[w] = InitialBalance + entrySum[w]

\* A call that locks computes what it writes from the row as it is: between
\* its read and its commit nobody, not even a call that does not lock what it
\* reads, changes the row.
LockedReadsAreCurrent ==
    \A t \in Tx : call[t].op \in LockingOp =>
      /\ pc[t] \in {"second", "ready"} => from[t] = Committed(call[t].from)
      /\ pc[t] = "ready" /\ call[t].op = "releaseLocked" =>
           to[t] = Committed(call[t].to)

\* What a call moves into its first wallet's locked balance.
Locks(c) ==
    IF c.op = "moveToLocked" THEN c.amount
    ELSE IF c.op \in {"refundLocked", "releaseLocked", "finalizeLocked"}
    THEN -c.amount ELSE 0

LocksOn(w) ==
    [t \in Tx |-> IF pc[t] = "committed" /\ call[t].from = w
                  THEN Locks(call[t]) ELSE 0]

\* The escrow of a wallet is the sum of what committed calls locked in it and
\* took out of it.  It survives the lost updates of the available balance:
\* every writer of lockedBalance reads it under the row's lock.
EscrowIsExact ==
    \A w \in Wallet : locked[w] = SumFunctionOnSet(LocksOn(w), Tx)

\* No call that locks nothing has committed so far.
OnlyLocking == \A t \in Tx : pc[t] = "committed" => call[t].op \in LockingOp

\* As long as only calls that lock have changed it, every balance is what its
\* entries add up to, whatever the calls that do not lock have read or begun.
LockingKeepsBooks == OnlyLocking => BalanceIsEntrySum

\* The arithmetic of every call is right: a transaction that commits while
\* what it read still holds changes each balance by what it enters for it.
\* Balances drift from their entries only through commits on stale reads.
CurrentCommitsMatchEntries ==
    [][\A t \in Tx :
         /\ pc[t] = "ready" /\ pc'[t] = "committed"
         /\ from[t] = Committed(call[t].from)
         /\ call[t].op \in {"releaseLocked", "transferInternal"} =>
              to[t] = Committed(call[t].to)
         => \A w \in Wallet : balance'[w] - balance[w] = entrySum'[w] - entrySum[w]]_vars

\* A transaction that began commits or rolls back, also when transactions
\* lock the same two wallets in opposite orders.
TransactionsEnd ==
    \A t \in Tx : pc[t] = "begin" ~> pc[t] \in {"committed", "aborted"}

=============================================================================
