------------------------- MODULE WalletLedgerProofs -------------------------
(***************************************************************************)
(* Theorems of WalletLedger, for every set of wallets, transactions and    *)
(* calls: what row locks give the calls that take them before they read.   *)
(***************************************************************************)
EXTENDS WalletLedger, SumLemmas, TLAPS

\* A transaction holds the locks of the rows it is about to write, and the
\* first row it read has enough.
HoldsWhatItWrites ==
    \A t \in Tx : Open(t) =>
      /\ call[t] \in Call
      /\ pc[t] = "second" =>
           call[t].op \in {"releaseLocked", "transferInternal"}
      /\ pc[t] \in {"update", "updateTo"} => call[t].op \in UnlockingOp
      /\ pc[t] = "updateTo" => call[t].op = "transferInternal"
      /\ pc[t] # "begin" => Enough(call[t], from[t])
      /\ pc[t] \in {"updateTo", "ready"} => holder[call[t].from] = t
      /\ pc[t] = "second" /\ call[t].op = "releaseLocked" =>
           holder[call[t].from] = t
      /\ pc[t] = "ready" /\ call[t].op \in {"releaseLocked", "transferInternal"}
           => holder[call[t].to] = t

LInv == TypeOK /\ HoldsWhatItWrites /\ LockedReadsAreCurrent

\* An open transaction's call, by its fields.
LEMMA CallType ==
    ASSUME NEW c \in Call
    PROVE  /\ c.op \in LockingOp \cup UnlockingOp
           /\ c.from \in Wallet /\ c.to \in Wallet /\ c.amount \in Int
           /\ c.op # "applyBalanceChange" => c.amount \in Nat
           /\ c.op \in {"releaseLocked", "transferInternal"} => c.from # c.to
BY LedgerAssumption

\* No transaction has begun.
LEMMA InitLInv == Init => LInv
BY LedgerAssumption
   DEF Init, LInv, TypeOK, HoldsWhatItWrites, LockedReadsAreCurrent, Open, Phase,
       NoCall, NoRow, Row, LockingOp

\* Types, action by action.
LEMMA CommittedType ==
    ASSUME TypeOK, NEW w \in Wallet
    PROVE  Committed(w) \in Row
BY DEF TypeOK, Committed, Row

\* A commit writes rows of the right type.
LEMMA CommitType ==
    ASSUME LInv, NEW t \in Tx, Commit(t)
    PROVE  TypeOK'
<1> DEFINE c == call[t]
<1>1. /\ c \in Call /\ Enough(c, from[t])
      /\ from[t].balance \in Nat /\ from[t].locked \in Nat
      /\ to[t].balance \in Nat
  BY DEF LInv, TypeOK, HoldsWhatItWrites, Commit, Open, Row
<1>2. /\ holder' \in [Wallet -> Tx \cup {None}]
      /\ pc' \in [Tx -> Phase]
  BY DEF Commit, Unlock, Go, LInv, TypeOK, Phase
<1>3. UNCHANGED <<call, from, to>>
  BY DEF Commit, reads
<1>4. /\ balance' \in [Wallet -> Nat] /\ locked' \in [Wallet -> Nat]
      /\ entrySum' \in [Wallet -> Int]
  <2>1. CASE ApplyBalanceChange(t, c)
    BY <1>1, <2>1, CallType DEF ApplyBalanceChange, Entry, Enough, LInv, TypeOK
  <2>2. CASE MoveToLocked(t, c)
    BY <1>1, <2>2, CallType DEF MoveToLocked, Entry, Enough, LInv, TypeOK
  <2>3. CASE FinalizeLocked(t, c)
    BY <1>1, <2>3, CallType DEF FinalizeLocked, Entry, Enough, LInv, TypeOK
  <2>4. CASE RefundLocked(t, c)
    BY <1>1, <2>4, CallType DEF RefundLocked, Entry, Enough, LInv, TypeOK
  <2>5. CASE ReleaseLocked(t, c)
    BY <1>1, <2>5, CallType DEF ReleaseLocked, Entry, Enough, LInv, TypeOK
  <2>6. CASE TransferInternal(t, c)
    <3>1. /\ from[t].balance - c.amount \in Nat
          /\ to[t].balance + c.amount \in Nat
      BY <1>1, <2>6, CallType DEF TransferInternal, Enough
    <3> QED
      BY <1>1, <2>6, <3>1, CallType DEF TransferInternal, LInv, TypeOK
  <2> QED
    BY <2>1, <2>2, <2>3, <2>4, <2>5, <2>6 DEF Commit
<1> QED
  BY <1>2, <1>3, <1>4 DEF LInv, TypeOK

\* So does everything before it.
LEMMA OtherType ==
    ASSUME LInv, NEW t \in Tx,
           \/ \E c \in Call : Begin(t, c)
           \/ LockFrom(t) \/ LockTo(t) \/ ReadFrom(t) \/ ReadTo(t)
           \/ UpdateFrom(t) \/ UpdateTo(t) \/ Rollback(t)
    PROVE  TypeOK'
<1>1. CASE \E c \in Call : Begin(t, c)
  BY <1>1 DEF Begin, Go, LInv, TypeOK, Phase, store, reads
<1>2. CASE LockFrom(t) \/ ReadFrom(t)
  <2>1. Committed(call[t].from) \in Row
    BY <1>2, CallType, CommittedType
       DEF LockFrom, ReadFrom, LInv, HoldsWhatItWrites, Open
  <2> QED
    BY <1>2, <2>1 DEF LockFrom, ReadFrom, Lock, Go, LInv, TypeOK, Phase, store
<1>3. CASE LockTo(t) \/ ReadTo(t)
  <2>1. Committed(call[t].to) \in Row
    BY <1>3, CallType, CommittedType
       DEF LockTo, ReadTo, LInv, HoldsWhatItWrites, Open
  <2> QED
    BY <1>3, <2>1 DEF LockTo, ReadTo, Lock, Go, LInv, TypeOK, Phase, store
<1>4. CASE UpdateFrom(t) \/ UpdateTo(t)
  BY <1>4 DEF UpdateFrom, UpdateTo, Lock, Go, LInv, TypeOK, Phase, store, reads
<1>5. CASE Rollback(t)
  BY <1>5 DEF Rollback, Unlock, Go, LInv, TypeOK, Phase, store, reads
<1> QED
  BY <1>1, <1>2, <1>3, <1>4, <1>5

-----------------------------------------------------------------------------
(* What a step of one transaction leaves to the others. *)

\* Nobody but its holder takes a lock away or changes a locked row.
Respects(t) ==
    /\ \A x \in Tx \ {t} : /\ pc'[x] = pc[x] /\ call'[x] = call[x]
                           /\ from'[x] = from[x] /\ to'[x] = to[x]
    /\ \A w \in Wallet : holder[w] \notin {t, None} =>
         /\ holder'[w] = holder[w]
         /\ balance'[w] = balance[w] /\ locked'[w] = locked[w]

\* A commit gives its locks back and leaves the others theirs.
LEMMA CommitRespects ==
    ASSUME LInv, NEW t \in Tx, Commit(t)
    PROVE  Respects(t)
<1> DEFINE c == call[t]
<1>1. /\ c \in Call /\ holder[c.from] = t
      /\ c.op \in {"releaseLocked", "transferInternal"} => holder[c.to] = t
  BY DEF LInv, HoldsWhatItWrites, LockedReadsAreCurrent, Commit, Open
<1>2. /\ \A x \in Tx \ {t} : pc'[x] = pc[x]
      /\ UNCHANGED <<call, from, to>>
  BY DEF Commit, Go, reads, LInv, TypeOK
<1>3. \A w \in Wallet : holder[w] \notin {t, None} =>
        balance'[w] = balance[w] /\ locked'[w] = locked[w]
  <2>1. CASE ApplyBalanceChange(t, c)
    BY <1>1, <2>1 DEF ApplyBalanceChange, LInv, TypeOK
  <2>2. CASE MoveToLocked(t, c) \/ RefundLocked(t, c)
    BY <1>1, <2>2 DEF MoveToLocked, RefundLocked, LInv, TypeOK
  <2>3. CASE FinalizeLocked(t, c)
    BY <1>1, <2>3 DEF FinalizeLocked, LInv, TypeOK
  <2>4. CASE ReleaseLocked(t, c)
    BY <1>1, <2>4 DEF ReleaseLocked, LInv, TypeOK
  <2>5. CASE TransferInternal(t, c)
    BY <1>1, <2>5 DEF TransferInternal, LInv, TypeOK
  <2> QED
    BY <2>1, <2>2, <2>3, <2>4, <2>5 DEF Commit
<1>4. \A w \in Wallet : holder[w] \notin {t, None} => holder'[w] = holder[w]
  BY DEF Commit, Unlock
<1> QED
  BY <1>2, <1>3, <1>4 DEF Respects

\* The steps before it write no row, and respect the locks.
LEMMA OtherRespects ==
    ASSUME LInv, NEW t \in Tx,
           \/ \E c \in Call : Begin(t, c)
           \/ LockFrom(t) \/ LockTo(t) \/ ReadFrom(t) \/ ReadTo(t)
           \/ UpdateFrom(t) \/ UpdateTo(t) \/ Rollback(t)
    PROVE  Respects(t) /\ UNCHANGED store
<1>1. CASE \E c \in Call : Begin(t, c)
  BY <1>1 DEF Begin, Go, Respects, LInv, TypeOK, store, reads
<1>2. CASE LockFrom(t) \/ LockTo(t)
  BY <1>2 DEF LockFrom, LockTo, Lock, Go, Respects, LInv, TypeOK, store
<1>3. CASE ReadFrom(t) \/ ReadTo(t)
  BY <1>3 DEF ReadFrom, ReadTo, Go, Respects, LInv, TypeOK, store
<1>4. CASE UpdateFrom(t) \/ UpdateTo(t)
  BY <1>4 DEF UpdateFrom, UpdateTo, Lock, Go, Respects, LInv, TypeOK, store, reads
<1>5. CASE Rollback(t)
  BY <1>5 DEF Rollback, Unlock, Go, Respects, LInv, TypeOK, store, reads
<1> QED
  BY <1>1, <1>2, <1>3, <1>4, <1>5

\* HoldsWhatItWrites and LockedReadsAreCurrent, for one transaction.
Holds(t) ==
    Open(t) =>
      /\ call[t] \in Call
      /\ pc[t] = "second" =>
           call[t].op \in {"releaseLocked", "transferInternal"}
      /\ pc[t] \in {"update", "updateTo"} => call[t].op \in UnlockingOp
      /\ pc[t] = "updateTo" => call[t].op = "transferInternal"
      /\ pc[t] # "begin" => Enough(call[t], from[t])
      /\ pc[t] \in {"updateTo", "ready"} => holder[call[t].from] = t
      /\ pc[t] = "second" /\ call[t].op = "releaseLocked" =>
           holder[call[t].from] = t
      /\ pc[t] = "ready" /\ call[t].op \in {"releaseLocked", "transferInternal"}
           => holder[call[t].to] = t

Current(t) ==
    call[t].op \in LockingOp =>
      /\ pc[t] \in {"second", "ready"} => from[t] = Committed(call[t].from)
      /\ pc[t] = "ready" /\ call[t].op = "releaseLocked" =>
           to[t] = Committed(call[t].to)

\* A transaction that does not move keeps its locks and its reads current.
LEMMA BystanderStep ==
    ASSUME LInv, NEW t \in Tx, Respects(t), NEW x \in Tx, x # t
    PROVE  Holds(x)' /\ Current(x)'
<1>1. /\ pc'[x] = pc[x] /\ call'[x] = call[x]
      /\ from'[x] = from[x] /\ to'[x] = to[x]
  BY DEF Respects
<1>2. ASSUME NEW w \in Wallet, holder[w] = x
      PROVE  holder'[w] = x /\ Committed(w)' = Committed(w)
  BY <1>2, LedgerAssumption DEF Respects, Committed
<1>3. Open(x) => call[x] \in Call
  BY DEF LInv, HoldsWhatItWrites
<1>4. Open(x)' <=> Open(x)
  BY <1>1 DEF Open
<1>5. Holds(x)'
  <2>1. Holds(x)
    BY DEF LInv, HoldsWhatItWrites, Holds
  <2> QED
    BY <1>1, <1>2, <1>3, <1>4, <2>1, CallType DEF Holds, Enough
<1>6. Current(x)'
  <2>1. Current(x) /\ Holds(x)
    BY DEF LInv, HoldsWhatItWrites, LockedReadsAreCurrent, Current, Holds
  <2>2. SUFFICES ASSUME call[x].op \in LockingOp, pc[x] \in {"second", "ready"}
                 PROVE  Current(x)'
    BY <1>1 DEF Current
  <2>3. Open(x) /\ call[x] \in Call
    BY <1>3, <2>2 DEF Open
  <2>4. /\ holder[call[x].from] = x
        /\ pc[x] = "ready" /\ call[x].op = "releaseLocked" => holder[call[x].to] = x
    BY <2>1, <2>2, <2>3 DEF Holds, LockingOp
  <2> QED
    BY <1>1, <1>2, <2>1, <2>3, <2>4, CallType DEF Current
<1> QED
  BY <1>5, <1>6

\* The transaction that moves.
LEMMA MoverStep ==
    ASSUME LInv, NEW t \in Tx,
           \/ \E c \in Call : Begin(t, c)
           \/ LockFrom(t) \/ LockTo(t) \/ ReadFrom(t) \/ ReadTo(t)
           \/ UpdateFrom(t) \/ UpdateTo(t) \/ Rollback(t) \/ Commit(t)
    PROVE  Holds(t)' /\ Current(t)'
<1> USE DEF Holds, Current, Open, Go
<1>0. Holds(t) /\ Current(t)
  BY DEF LInv, HoldsWhatItWrites, LockedReadsAreCurrent
<1>1. CASE \E c \in Call : Begin(t, c)
  BY <1>1 DEF Begin, LInv, TypeOK
<1>2. CASE LockFrom(t)
  <2> DEFINE c == call[t]
             next == IF c.op = "releaseLocked" THEN "second" ELSE "ready"
  <2>1. c \in Call /\ c.op \in LockingOp
    BY <1>0, <1>2 DEF LockFrom
  <2>2. /\ pc'[t] = next /\ call'[t] = c
        /\ from'[t] = Committed(c.from) /\ holder'[c.from] = t
        /\ Committed(c.from)' = Committed(c.from)
    BY <1>2, <2>1, CallType DEF LockFrom, Lock, LInv, TypeOK, store, Committed
  <2>3. Enough(c, Committed(c.from))
    BY <1>2 DEF LockFrom
  <2>4. Enough(call[t], from[t])'
    BY <2>2, <2>3 DEF Enough
  <2>5. CASE c.op = "releaseLocked"
    BY <2>1, <2>2, <2>4, <2>5 DEF LockingOp, UnlockingOp
  <2>6. CASE c.op # "releaseLocked"
    BY <2>1, <2>2, <2>4, <2>6 DEF LockingOp, UnlockingOp
  <2> QED
    BY <2>5, <2>6
<1>3. CASE LockTo(t)
  <2> DEFINE c == call[t]
  <2>1. /\ c \in Call /\ c.op = "releaseLocked" /\ Enough(c, from[t])
        /\ holder[c.from] = t /\ from[t] = Committed(c.from)
    BY <1>0, <1>3 DEF LockTo, LockingOp
  <2>2. /\ pc'[t] = "ready" /\ call'[t] = c /\ from'[t] = from[t]
        /\ to'[t] = Committed(c.to) /\ holder'[c.to] = t /\ holder'[c.from] = t
        /\ Committed(c.from)' = Committed(c.from)
        /\ Committed(c.to)' = Committed(c.to)
    BY <1>3, <2>1, CallType DEF LockTo, Lock, LInv, TypeOK, store, Committed
  <2>3. Enough(call[t], from[t])'
    BY <2>1, <2>2 DEF Enough
  <2> QED
    BY <2>1, <2>2, <2>3
<1>4. CASE ReadFrom(t)
  <2> DEFINE c == call[t]
             next == IF c.op = "transferInternal" THEN "second" ELSE "update"
  <2>1. c \in Call /\ c.op \in UnlockingOp
    BY <1>0, <1>4 DEF ReadFrom
  <2>2. pc'[t] = next /\ call'[t] = c /\ from'[t] = Committed(c.from)
    BY <1>4 DEF ReadFrom, LInv, TypeOK
  <2>3. Enough(call[t], from[t])'
    BY <1>4, <2>2 DEF ReadFrom, Enough
  <2> QED
    BY <2>1, <2>2, <2>3 DEF UnlockingOp, LockingOp
<1>5. CASE ReadTo(t)
  <2>1. /\ call[t] \in Call /\ call[t].op = "transferInternal"
        /\ Enough(call[t], from[t])
    BY <1>0, <1>5 DEF ReadTo
  <2>2. /\ pc'[t] = "update" /\ call'[t] = call[t] /\ from'[t] = from[t]
    BY <1>5 DEF ReadTo, LInv, TypeOK
  <2>3. Enough(call[t], from[t])'
    BY <2>1, <2>2 DEF Enough
  <2> QED
    BY <2>1, <2>2, <2>3 DEF UnlockingOp, LockingOp
<1>6. CASE UpdateFrom(t)
  <2> DEFINE c == call[t]
             next == IF c.op = "transferInternal" THEN "updateTo" ELSE "ready"
  <2>1. c \in Call /\ c.op \in UnlockingOp /\ Enough(c, from[t])
    BY <1>0, <1>6 DEF UpdateFrom
  <2>2. /\ pc'[t] = next /\ call'[t] = c /\ from'[t] = from[t]
        /\ holder'[c.from] = t
    BY <1>6, <2>1, CallType DEF UpdateFrom, Lock, LInv, TypeOK, reads
  <2>3. Enough(call[t], from[t])'
    BY <2>1, <2>2 DEF Enough
  <2> QED
    BY <2>1, <2>2, <2>3 DEF UnlockingOp, LockingOp
<1>7. CASE UpdateTo(t)
  <2> DEFINE c == call[t]
  <2>1. /\ c \in Call /\ c.op = "transferInternal" /\ Enough(c, from[t])
        /\ holder[c.from] = t
    BY <1>0, <1>7 DEF UpdateTo
  <2>2. /\ pc'[t] = "ready" /\ call'[t] = c /\ from'[t] = from[t]
        /\ holder'[c.from] = t /\ holder'[c.to] = t
    BY <1>7, <2>1, CallType DEF UpdateTo, Lock, LInv, TypeOK, reads
  <2>3. Enough(call[t], from[t])'
    BY <2>1, <2>2 DEF Enough
  <2> QED
    BY <2>1, <2>2, <2>3 DEF LockingOp
<1>8. CASE Rollback(t) \/ Commit(t)
  <2>1. pc'[t] \in {"aborted", "committed"}
    BY <1>8 DEF Rollback, Commit, LInv, TypeOK
  <2> QED
    BY <2>1
<1> QED
  BY <1>1, <1>2, <1>3, <1>4, <1>5, <1>6, <1>7, <1>8

\* Every step is a step of one transaction, or changes nothing.
TxStep(t) ==
    \/ \E c \in Call : Begin(t, c)
    \/ LockFrom(t) \/ LockTo(t) \/ ReadFrom(t) \/ ReadTo(t)
    \/ UpdateFrom(t) \/ UpdateTo(t) \/ Rollback(t) \/ Commit(t)

\* Every step is one of a transaction.
LEMMA NextIsTxStep ==
    ASSUME [Next]_vars
    PROVE  UNCHANGED vars \/ \E t \in Tx : TxStep(t)
BY DEF Next, Step, Fails, CheckFails, DeadlockVictim, Done, TxStep

\* Every step keeps the locks and what was read under them.
LEMMA LInvStep ==
    ASSUME LInv, [Next]_vars
    PROVE  LInv'
<1>1. CASE UNCHANGED vars
  BY <1>1 DEF vars, store, reads, LInv, TypeOK, HoldsWhatItWrites,
              LockedReadsAreCurrent, Open, Enough, Committed
<1>2. CASE \E t \in Tx : TxStep(t)
  <2> PICK t \in Tx : TxStep(t)
    BY <1>2
  <2>1. TypeOK'
    BY CommitType, OtherType DEF TxStep
  <2>2. Respects(t)
    BY CommitRespects, OtherRespects DEF TxStep
  <2>3. \A x \in Tx : Holds(x)' /\ Current(x)'
    BY <2>2, BystanderStep, MoverStep DEF TxStep
  <2> QED
    BY <2>1, <2>3 DEF LInv, HoldsWhatItWrites, LockedReadsAreCurrent, Holds,
                      Current
<1> QED
  BY <1>1, <1>2, NextIsTxStep

\* The inductive invariant of the transactions holds.
THEOREM LedgerInvariance == Spec => []LInv
BY InitLInv, LInvStep, PTL DEF Spec

-----------------------------------------------------------------------------
(* The theorems. *)

\* No interleaving of ledger calls, and no rollback, drives an available or
\* a locked balance below zero.
THEOREM LedgerTypesHold == Spec => []TypeOK
BY LedgerInvariance, PTL DEF LInv

\* Whatever else runs, a call that locks its rows before it reads them writes
\* values computed from the rows as they are.
THEOREM LockedReadsAreCurrentHolds == Spec => []LockedReadsAreCurrent
BY LedgerInvariance, PTL DEF LInv

\* As long as only calls that lock have committed, the books explain every
\* balance, for any number of concurrent transactions.
THEOREM LockingLedgerIsExact == Spec => []LockingKeepsBooks
<1>1. Init => LockingKeepsBooks
  BY LedgerAssumption DEF Init, BalanceIsEntrySum, LockingKeepsBooks
<1>2. ASSUME LInv, LockingKeepsBooks, [Next]_vars
      PROVE  LockingKeepsBooks'
  <2> SUFFICES ASSUME OnlyLocking'
               PROVE  BalanceIsEntrySum'
    BY DEF LockingKeepsBooks
  <2>1. CASE UNCHANGED vars
    BY <1>2, <2>1 DEF vars, store, BalanceIsEntrySum, LockingKeepsBooks, OnlyLocking
  <2>2. ASSUME NEW t \in Tx, TxStep(t)
        PROVE  BalanceIsEntrySum
    <3>1. Respects(t)
      BY <1>2, <2>2, CommitRespects, OtherRespects DEF TxStep
    <3>2. pc[t] # "committed"
      BY <2>2 DEF TxStep, Begin, LockFrom, LockTo, ReadFrom, ReadTo, UpdateFrom,
                  UpdateTo, Rollback, Commit, Open
    <3>3. OnlyLocking
      BY <3>1, <3>2 DEF OnlyLocking, Respects
    <3> QED
      BY <1>2, <3>3 DEF LockingKeepsBooks
  <2>3. ASSUME NEW t \in Tx, TxStep(t), ~Commit(t)
        PROVE  BalanceIsEntrySum'
    <3>1. UNCHANGED store
      BY <1>2, <2>3, OtherRespects DEF TxStep
    <3> QED
      BY <2>2, <2>3, <3>1 DEF store, BalanceIsEntrySum
  <2>4. ASSUME NEW t \in Tx, Commit(t)
        PROVE  BalanceIsEntrySum'
    <3> DEFINE c == call[t]
    <3>1. c.op \in LockingOp
      BY <1>2, <2>4 DEF Commit, Go, OnlyLocking, LInv, TypeOK
    <3>2. c \in Call
      BY <1>2, <2>4 DEF LInv, HoldsWhatItWrites, Commit, Open
    <3>3. /\ from[t] = Committed(c.from)
          /\ c.op = "releaseLocked" => to[t] = Committed(c.to)
      BY <1>2, <2>4, <3>1 DEF LInv, LockedReadsAreCurrent, Commit
    <3>4. /\ from[t].balance = balance[c.from]
          /\ c.op = "releaseLocked" => to[t].balance = balance[c.to]
      BY <3>3 DEF Committed
    <3>5. BalanceIsEntrySum
      BY <2>2, <2>4 DEF TxStep
    <3>6. CASE MoveToLocked(t, c)
      BY <1>2, <3>2, <3>4, <3>5, <3>6, CallType, LedgerAssumption
         DEF MoveToLocked, Entry, BalanceIsEntrySum, LInv, TypeOK
    <3>7. CASE RefundLocked(t, c)
      BY <1>2, <3>2, <3>4, <3>5, <3>7, CallType, LedgerAssumption
         DEF RefundLocked, Entry, BalanceIsEntrySum, LInv, TypeOK
    <3>8. CASE FinalizeLocked(t, c)
      BY <1>2, <3>2, <3>4, <3>5, <3>8, CallType, LedgerAssumption
         DEF FinalizeLocked, Entry, BalanceIsEntrySum, LInv, TypeOK
    <3>9. CASE ReleaseLocked(t, c)
      BY <1>2, <3>2, <3>4, <3>5, <3>9, CallType, LedgerAssumption
         DEF ReleaseLocked, Entry, BalanceIsEntrySum, LInv, TypeOK
    <3>10. ~ApplyBalanceChange(t, c) /\ ~TransferInternal(t, c)
      BY <3>1 DEF ApplyBalanceChange, TransferInternal, LockingOp
    <3> QED
      BY <2>4, <3>6, <3>7, <3>8, <3>9, <3>10 DEF Commit
  <2> QED
    BY <1>2, <2>1, <2>3, <2>4, NextIsTxStep
<1> QED
  BY <1>1, <1>2, LedgerInvariance, PTL DEF Spec

\* A commit on reads that still hold changes each balance by what it enters
\* for it, whichever of the six calls it is.
THEOREM CommitArithmetic == Spec => CurrentCommitsMatchEntries
<1> DEFINE Matches(t) ==
      /\ pc[t] = "ready" /\ pc'[t] = "committed"
      /\ from[t] = Committed(call[t].from)
      /\ call[t].op \in {"releaseLocked", "transferInternal"} =>
           to[t] = Committed(call[t].to)
      => \A w \in Wallet : balance'[w] - balance[w] = entrySum'[w] - entrySum[w]
<1>1. ASSUME LInv, [Next]_vars
      PROVE  [\A t \in Tx : Matches(t)]_vars
  <2> SUFFICES ASSUME ~UNCHANGED vars, NEW t \in Tx,
                      pc[t] = "ready", pc'[t] = "committed",
                      from[t] = Committed(call[t].from),
                      call[t].op \in {"releaseLocked", "transferInternal"} =>
                        to[t] = Committed(call[t].to),
                      NEW w \in Wallet
               PROVE  balance'[w] - balance[w] = entrySum'[w] - entrySum[w]
    OBVIOUS
  <2> DEFINE c == call[t]
  <2>1. PICK x \in Tx : TxStep(x)
    BY <1>1, NextIsTxStep
  <2>2. x = t
    <3>1. Respects(x)
      BY <1>1, <2>1, CommitRespects, OtherRespects DEF TxStep
    <3> QED
      BY <3>1 DEF Respects
  <2>3. Commit(t)
    BY <1>1, <2>1, <2>2 DEF TxStep, Begin, LockFrom, LockTo, ReadFrom, ReadTo,
       UpdateFrom, UpdateTo, Rollback, Go, LInv, TypeOK
  <2>4. c \in Call
    BY <1>1, <2>3 DEF LInv, HoldsWhatItWrites, Commit, Open
  <2>5. /\ from[t].balance = balance[c.from]
        /\ c.op \in {"releaseLocked", "transferInternal"} =>
             to[t].balance = balance[c.to]
    BY DEF Committed
  <2>6. /\ balance \in [Wallet -> Nat] /\ entrySum \in [Wallet -> Int]
        /\ c.from \in Wallet /\ c.to \in Wallet /\ c.amount \in Int
        /\ c.op \in {"releaseLocked", "transferInternal"} => c.from # c.to
    BY <1>1, <2>4, CallType DEF LInv, TypeOK
  <2> HIDE DEF c
  <2>7. CASE ApplyBalanceChange(t, c) \/ MoveToLocked(t, c) \/ RefundLocked(t, c)
    BY <2>5, <2>6, <2>7 DEF ApplyBalanceChange, MoveToLocked, RefundLocked, Entry
  <2>8. CASE FinalizeLocked(t, c)
    BY <2>6, <2>8 DEF FinalizeLocked, Entry
  <2>9. CASE ReleaseLocked(t, c)
    BY <2>5, <2>6, <2>9 DEF ReleaseLocked, Entry
  <2>10. CASE TransferInternal(t, c)
    BY <2>5, <2>6, <2>10 DEF TransferInternal
  <2> QED
    BY <2>3, <2>7, <2>8, <2>9, <2>10 DEF Commit, c
<1> QED
  BY <1>1, LedgerInvariance, PTL DEF Spec, CurrentCommitsMatchEntries

-----------------------------------------------------------------------------
(* The escrow is exact. *)

CommittedCalls == \A t \in Tx : pc[t] = "committed" => call[t] \in Call

LocksAreInt == \A w \in Wallet, t \in Tx : LocksOn(w)[t] \in Int

\* Every share that is summed is a number.
LEMMA LocksInt == CommittedCalls => LocksAreInt
<1> SUFFICES ASSUME CommittedCalls, NEW w \in Wallet, NEW t \in Tx
             PROVE  LocksOn(w)[t] \in Int
  BY DEF LocksAreInt
<1>1. pc[t] = "committed" => call[t].amount \in Int
  BY CallType DEF CommittedCalls
<1> QED
  BY <1>1 DEF LocksOn, Locks

\* What a commit does to the locked balances.
LEMMA CommitLocks ==
    ASSUME LInv, NEW t \in Tx, Commit(t), NEW w \in Wallet
    PROVE  locked'[w] = locked[w] + IF call[t].from = w THEN Locks(call[t]) ELSE 0
<1> DEFINE c == call[t]
<1>1. c \in Call
  BY DEF LInv, HoldsWhatItWrites, Commit, Open
<1>2. c.op \in LockingOp => from[t].locked = locked[c.from]
  <2>1. c.op \in LockingOp => from[t] = Committed(c.from)
    BY DEF LInv, LockedReadsAreCurrent, Commit
  <2> QED
    BY <2>1 DEF Committed
<1>3. locked \in [Wallet -> Nat] /\ c.from \in Wallet /\ c.amount \in Int
  BY <1>1, CallType DEF LInv, TypeOK
<1> HIDE DEF c
<1>4. CASE ApplyBalanceChange(t, c) \/ TransferInternal(t, c)
  BY <1>3, <1>4 DEF ApplyBalanceChange, TransferInternal, Locks, c
<1>5. CASE MoveToLocked(t, c)
  BY <1>2, <1>3, <1>5 DEF MoveToLocked, Locks, LockingOp, c
<1>6. CASE FinalizeLocked(t, c) \/ RefundLocked(t, c) \/ ReleaseLocked(t, c)
  BY <1>2, <1>3, <1>6 DEF FinalizeLocked, RefundLocked, ReleaseLocked, Locks,
                          LockingOp, c
<1> QED
  BY <1>4, <1>5, <1>6 DEF Commit, c

\* Every step keeps the escrow equal to what the calls have put there.
LEMMA EscrowStep ==
    ASSUME LInv, CommittedCalls, CommittedCalls', EscrowIsExact, NEW t \in Tx, TxStep(t)
    PROVE  EscrowIsExact'
<1> SUFFICES ASSUME NEW w \in Wallet
             PROVE  locked'[w] = SumFunctionOnSet(LocksOn(w)', Tx)
  BY DEF EscrowIsExact
<1>1. /\ IsFiniteSet(Tx)
      /\ \A x \in Tx : LocksOn(w)[x] \in Int /\ LocksOn(w)'[x] \in Int
  <2>1. LocksAreInt'
    BY LocksInt, PTL
  <2> QED
    BY <2>1, LocksInt, LedgerAssumption DEF LocksAreInt
<1>2. \A x \in Tx : x # t => LocksOn(w)'[x] = LocksOn(w)[x]
  <2>1. Respects(t)
    BY CommitRespects, OtherRespects DEF TxStep
  <2> QED
    BY <2>1 DEF Respects, LocksOn, Locks
<1>3. LocksOn(w)[t] = 0
  BY DEF TxStep, Begin, LockFrom, LockTo, ReadFrom, ReadTo, UpdateFrom, UpdateTo,
         Rollback, Commit, Open, LocksOn
<1>4. SumFunctionOnSet(LocksOn(w)', Tx)
        = SumFunctionOnSet(LocksOn(w), Tx) + LocksOn(w)'[t] - LocksOn(w)[t]
  BY <1>1, <1>2, SumPoint
<1>5. locked[w] = SumFunctionOnSet(LocksOn(w), Tx) /\ locked[w] \in Int
  BY DEF EscrowIsExact, LInv, TypeOK
<1>6. locked'[w] = locked[w] + LocksOn(w)'[t]
  <2>1. CASE Commit(t)
    <3>1. pc'[t] = "committed" /\ call' = call
      BY <2>1 DEF Commit, Go, LInv, TypeOK
    <3> QED
      BY <2>1, <3>1, CommitLocks DEF LocksOn, Locks
  <2>2. CASE ~Commit(t)
    <3>1. UNCHANGED store
      BY <2>2, OtherRespects DEF TxStep
    <3>2. pc'[t] # "committed"
      BY <2>2 DEF TxStep, Begin, LockFrom, LockTo, ReadFrom, ReadTo, UpdateFrom,
                  UpdateTo, Rollback, Go, LInv, TypeOK
    <3> QED
      BY <1>5, <3>1, <3>2 DEF store, LocksOn
  <2> QED
    BY <2>1, <2>2
<1> QED
  BY <1>1, <1>3, <1>4, <1>5, <1>6

\* Committed calls stay as they are.
LEMMA CommittedCallsStep ==
    ASSUME LInv, CommittedCalls, NEW t \in Tx, TxStep(t)
    PROVE  CommittedCalls'
<1>1. Respects(t)
  BY CommitRespects, OtherRespects DEF TxStep
<1>2. CASE Commit(t)
  <2>1. call[t] \in Call /\ call' = call
    BY <1>2 DEF LInv, HoldsWhatItWrites, Commit, Open
  <2> QED
    BY <1>1, <2>1 DEF Respects, CommittedCalls
<1>3. CASE ~Commit(t)
  <2>1. pc'[t] # "committed"
    BY <1>3 DEF TxStep, Begin, LockFrom, LockTo, ReadFrom, ReadTo, UpdateFrom,
                UpdateTo, Rollback, Go, LInv, TypeOK
  <2> QED
    BY <1>1, <2>1 DEF Respects, CommittedCalls
<1> QED
  BY <1>2, <1>3

\* Whatever updates of available balances are lost, lockedBalance is what the
\* committed calls put there and took out: no escrow is lost or made up.
THEOREM EscrowIsExactHolds == Spec => []EscrowIsExact
<1>1. Init => CommittedCalls /\ EscrowIsExact
  <2> SUFFICES ASSUME Init PROVE CommittedCalls /\ EscrowIsExact
    OBVIOUS
  <2>1. ASSUME NEW w \in Wallet PROVE SumFunctionOnSet(LocksOn(w), Tx) = 0
    <3>1. \A t \in Tx : LocksOn(w)[t] = 0
      BY DEF Init, LocksOn
    <3> QED
      BY <3>1, SumZero, LedgerAssumption
  <2> QED
    BY <2>1 DEF Init, CommittedCalls, EscrowIsExact
<1>2. ASSUME LInv, CommittedCalls, EscrowIsExact, [Next]_vars
      PROVE  CommittedCalls' /\ EscrowIsExact'
  <2>1. CASE UNCHANGED vars
    <3>1. \A w \in Wallet : LocksOn(w)' = LocksOn(w)
      BY <2>1 DEF vars, LocksOn, Locks
    <3> QED
      BY <1>2, <2>1, <3>1 DEF vars, store, CommittedCalls, EscrowIsExact
  <2>2. CASE \E t \in Tx : TxStep(t)
    BY <1>2, <2>2, CommittedCallsStep, EscrowStep
  <2> QED
    BY <1>2, <2>1, <2>2, NextIsTxStep
<1> QED
  BY <1>1, <1>2, LedgerInvariance, PTL DEF Spec

=============================================================================
