------------------------ MODULE CryptoDepositProofs ------------------------
(***************************************************************************)
(* Each transaction on chain is credited at most once, each intent is      *)
(* credited at most once, only with a confirmed payment; and the status of *)
(* an intent whose calls did not overlap tells whether it was credited.    *)
(*                                                                         *)
(* The first is an invariant of the books alone: the ledger entries are    *)
(* exactly the rows of UsedOnchainTxid, which name each intent and each    *)
(* txid once.  The second needs that a call which is alone with its intent *)
(* has seen it uncredited, and nobody else can have credited it since.     *)
(*                                                                         *)
(* Then the page: it implements the service, it never tells a user more    *)
(* than the rows do, and what the verifier accepts is a payment, however   *)
(* many logs the transaction has.                                          *)
(***************************************************************************)
EXTENDS DepositPage, SumLemmas, TLAPS

\* The ledger entries are the rows of UsedOnchainTxid.
BooksMatchTable ==
    \A i \in Intent, x \in Txid : credits[i][x] = IF used[x] = i THEN 1 ELSE 0

TableIsInjective ==
    \A x, y \in Txid : used[x] = used[y] /\ used[x] # None => x = y

Paid(x) == x \in Payment /\ chain[x] = "confirmed"

TableIsPaid ==
    /\ \A x \in Txid : used[x] # None => Paid(x)
    /\ \A k \in Worker : At(k, "credit") => Paid(worker[k].txid)

\* A call that is alone with its intent serves one that has no credit.
SoloIsUncredited ==
    \A k \in Worker : worker[k] # Idle /\ ~ raced[worker[k].id] =>
      /\ ~ HasCredit(worker[k].id)
      /\ \A j \in Worker \ {k} : worker[j] # Idle => worker[j].id # worker[k].id

BooksInv == TypeOK /\ BooksMatchTable /\ TableIsInjective /\ TableIsPaid
IInv     == BooksInv /\ SoloIsUncredited /\ StatusTellsCredit

-----------------------------------------------------------------------------

\* Nothing has been created, paid or submitted yet.
LEMMA InitHolds == Init => IInv
  BY CryptoDepositAssumption
  DEF Init, IInv, BooksInv, TypeOK, BooksMatchTable, TableIsInjective, TableIsPaid,
      SoloIsUncredited, StatusTellsCredit, HasCredit, Idle, At, Status

\* Credits and intents that go one to one give one credit for each payment.
LEMMA BooksImply == BooksInv => CreditedOnce
  BY CryptoDepositAssumption
  DEF BooksInv, BooksMatchTable, TableIsInjective, TableIsPaid, Paid, CreditedOnce

(* A worker at a step is a task, not idle. *)
LEMMA WorkerAtStep ==
  ASSUME TypeOK, NEW k \in Worker, NEW step, At(k, step), step # "idle"
  PROVE  worker[k] \in Task /\ worker[k] # Idle /\ worker[k].step = step
  BY DEF TypeOK, At, Idle, Task

\* A worker that rests is not about to credit.
LEMMA IdleIsNoStep == Idle.step # "credit"
  BY DEF Idle

(* An intent has a credit when the table names it. *)
LEMMA CreditIsRow ==
  ASSUME BooksMatchTable, NEW i \in Intent
  PROVE  HasCredit(i) <=> \E x \in Txid : used[x] = i
  BY DEF BooksMatchTable, HasCredit

-----------------------------------------------------------------------------
(* The steps of a call that has begun, but for the credit: the books stay,  *)
(* and the status becomes neither CONFIRMED nor anything but a status.      *)
CallStep(k) ==
    /\ worker[k] \in Task /\ worker[k] # Idle
    /\ UNCHANGED <<used, credits, chain, raced>>
    /\ txid' \in [Intent -> Txid \cup {None}]
    /\ failures' \in Nat
    /\ \/ UNCHANGED status
       \/ \E s \in Status \ {"CONFIRMED"} : SetStatus(worker[k].id, s)
    /\ \E task \in {Idle} \cup Task :
         /\ worker' = [worker EXCEPT ![k] = task]
         /\ task # Idle => task.id = worker[k].id /\ task.txid = worker[k].txid
         /\ task.step = "credit" => Paid(worker[k].txid)

\* A step of a request that does not credit.
LEMMA CallStepPreserves ==
  ASSUME IInv, NEW k \in Worker, CallStep(k)
  PROVE  IInv'
  <1> USE DEF IInv, BooksInv
  <1>1. PICK task \in {Idle} \cup Task :
          /\ worker' = [worker EXCEPT ![k] = task]
          /\ task # Idle => task.id = worker[k].id /\ task.txid = worker[k].txid
          /\ task.step = "credit" => Paid(worker[k].txid)
    BY DEF CallStep
  <1>2. worker[k] # Idle /\ worker[k].id \in Intent /\ worker[k].txid \in Txid
    BY DEF CallStep, Task
  <1>3. UNCHANGED <<used, credits, chain, raced>>
    BY DEF CallStep
  <1>4. worker'[k] = task /\ \A j \in Worker \ {k} : worker'[j] = worker[j]
    BY <1>1 DEF TypeOK
  <1>5. TypeOK'
    <2>1. status' \in [Intent -> Status]
      BY <1>2 DEF CallStep, SetStatus, TypeOK
    <2>2. QED
      BY <1>1, <1>3, <2>1 DEF TypeOK, CallStep
  <1>6. BooksMatchTable' /\ TableIsInjective'
    BY <1>3 DEF BooksMatchTable, TableIsInjective
  <1>7. TableIsPaid'
    <2>1. \A x \in Txid : used'[x] # None => Paid(x)'
      BY <1>3 DEF TableIsPaid, Paid
    <2>2. ASSUME NEW j \in Worker, worker'[j].step = "credit"
          PROVE  worker'[j].txid \in Payment /\ chain'[worker'[j].txid] = "confirmed"
      <3>1. CASE j = k
        BY <1>1, <1>3, <1>4, <2>2, <3>1 DEF Paid, Idle
      <3>2. CASE j # k
        BY <1>3, <1>4, <2>2, <3>2 DEF TableIsPaid, Paid, At
      <3>3. QED
        BY <3>1, <3>2
    <2>3. QED
      BY <2>1, <2>2 DEF TableIsPaid, Paid, At
  <1>8. \A i \in Intent : HasCredit(i)' <=> HasCredit(i)
    BY <1>3 DEF HasCredit
  <1>9. SoloIsUncredited'
    <2> SUFFICES ASSUME NEW j \in Worker, worker'[j] # Idle, ~ raced[worker'[j].id]
                 PROVE  /\ ~ \E x \in Txid : credits[worker'[j].id][x] > 0
                        /\ \A i \in Worker \ {j} :
                             worker'[i] # Idle => worker'[i].id # worker'[j].id
      BY <1>3 DEF SoloIsUncredited, HasCredit
    <2>1. worker[j] # Idle /\ worker'[j].id = worker[j].id
      BY <1>1, <1>2, <1>4
    <2>2. \A i \in Worker : worker'[i] # Idle => worker[i] # Idle /\ worker'[i].id = worker[i].id
      BY <1>1, <1>2, <1>4
    <2>3. QED
      BY <2>1, <2>2 DEF SoloIsUncredited, HasCredit
  <1>10. StatusTellsCredit'
    <2> SUFFICES ASSUME NEW i \in Intent, ~ raced[i]
                 PROVE  status'[i] = "CONFIRMED" <=> HasCredit(i)
      BY <1>3, <1>8 DEF StatusTellsCredit
    <2>1. CASE i = worker[k].id
      BY <1>2, <2>1 DEF SoloIsUncredited, StatusTellsCredit, CallStep, SetStatus, TypeOK
    <2>2. CASE i # worker[k].id
      BY <2>2 DEF StatusTellsCredit, CallStep, SetStatus, TypeOK
    <2>3. QED
      BY <2>1, <2>2
  <1>11. QED
    BY <1>5, <1>6, <1>7, <1>9, <1>10

\* The steps of submitDeposit before its last transaction are such steps.
LEMMA ContinueIsCallStep ==
  ASSUME BooksInv, NEW k \in Worker,
         \/ CheckClash(k) \/ Mark(k) \/ VerifyLater(k) \/ VerifyFatal(k)
         \/ VerifyOk(k) \/ Postpone(k) \/ Fail(k) \/ CutShort(k)
  PROVE  CallStep(k)
  <1> USE DEF BooksInv
  <1>1. worker[k] \in Task /\ worker[k] # Idle
    BY WorkerAtStep DEF CheckClash, Mark, VerifyLater, VerifyFatal, VerifyOk, Postpone,
       Fail, CutShort, TypeOK
  <1>2. UNCHANGED <<used, credits, chain, raced>>
    BY DEF CheckClash, Mark, VerifyLater, VerifyFatal, VerifyOk, Postpone, Fail,
           CutShort, rows
  <1>3. txid' \in [Intent -> Txid \cup {None}] /\ failures' \in Nat
    BY <1>1 DEF CheckClash, Mark, VerifyLater, VerifyFatal, VerifyOk, Postpone, Fail,
       CutShort, rows, TypeOK, Task
  <1>4. \/ UNCHANGED status
        \/ \E s \in Status \ {"CONFIRMED"} : SetStatus(worker[k].id, s)
    BY DEF CheckClash, Mark, VerifyLater, VerifyFatal, VerifyOk, Postpone, Fail,
           CutShort, rows, Status
  <1>5. ASSUME NEW step \in {"mark", "verify", "postpone", "fail", "credit"},
               Goto(k, step), step = "credit" => Paid(worker[k].txid)
        PROVE  CallStep(k)
    <2> DEFINE task == [worker[k] EXCEPT !.step = step]
    <2>1. task \in Task /\ task.id = worker[k].id /\ task.txid = worker[k].txid
          /\ task.step = step
      BY <1>1 DEF Task
    <2>2. worker' = [worker EXCEPT ![k] = task]
      BY <1>5 DEF Goto
    <2> HIDE DEF task
    <2>3. QED
      BY <1>1, <1>2, <1>3, <1>4, <1>5, <2>1, <2>2 DEF CallStep
  <1>6. ASSUME Ends(k)
        PROVE  CallStep(k)
    BY <1>1, <1>2, <1>3, <1>4, <1>6, IdleIsNoStep DEF CallStep, Ends
  <1>7. CASE VerifyOk(k)
    BY <1>5, <1>7 DEF VerifyOk, Paid
  <1>8. CASE ~ VerifyOk(k)
    <2>1. Ends(k) \/ \E step \in {"mark", "verify", "postpone", "fail"} : Goto(k, step)
      BY <1>8 DEF CheckClash, Mark, VerifyLater, VerifyFatal, Postpone, Fail, CutShort
    <2>2. QED
      BY <1>5, <1>6, <2>1
  <1>9. QED
    BY <1>7, <1>8

-----------------------------------------------------------------------------

\* The transaction that credits: it is the first for its payment.
LEMMA CreditPreserves ==
  ASSUME IInv, NEW k \in Worker, Credit(k)
  PROVE  IInv'
  <1> USE DEF IInv, BooksInv
  <1>1. worker[k] \in Task /\ worker[k] # Idle
    BY WorkerAtStep DEF Credit
  <1>2. PICK i \in Intent, x \in Txid : i = worker[k].id /\ x = worker[k].txid /\ Paid(x)
    BY <1>1 DEF Task, Credit, TableIsPaid
  <1>3. CASE ~ (~ HasCredit(i) /\ used[x] = None /\ \A y \in Txid : used[y] # i)
    <2>1. Ends(k) /\ UNCHANGED <<rows, chain, raced, failures>>
      BY <1>2, <1>3 DEF Credit, rows
    <2>2. CallStep(k)
      BY <1>1, <2>1, IdleIsNoStep DEF CallStep, Ends, rows, TypeOK
    <2>3. QED
      BY <2>2, CallStepPreserves
  <1>4. CASE ~ HasCredit(i) /\ used[x] = None /\ \A y \in Txid : used[y] # i
    <2>1. /\ credits' = [credits EXCEPT ![i][x] = @ + 1]
          /\ used' = [used EXCEPT ![x] = i]
          /\ status' = [status EXCEPT ![i] = "CONFIRMED"]
          /\ worker' = [worker EXCEPT ![k] = Idle]
          /\ UNCHANGED <<txid, chain, raced, failures>>
      BY <1>2, <1>4 DEF Credit, Ends, SetStatus
    <2>2. credits[i][x] = 0 /\ i # None
      BY <1>2, <1>4, CryptoDepositAssumption DEF BooksMatchTable
    <2>3. \A j \in Intent, y \in Txid :
            credits'[j][y] = IF j = i /\ y = x THEN 1 ELSE credits[j][y]
      BY <2>1, <2>2 DEF TypeOK
    <2>4. \A y \in Txid : used'[y] = IF y = x THEN i ELSE used[y]
      BY <2>1 DEF TypeOK
    <2>5. TypeOK'
      <3>1. [credits[i] EXCEPT ![x] = credits[i][x] + 1] \in [Txid -> Nat]
        BY <2>2 DEF TypeOK
      <3>2. credits' \in [Intent -> [Txid -> Nat]]
        BY <2>1, <3>1 DEF TypeOK
      <3>3. QED
        BY <2>1, <3>2 DEF TypeOK, Status
    <2>6. BooksMatchTable'
      BY <1>4, <2>3, <2>4, CryptoDepositAssumption DEF BooksMatchTable
    <2>7. TableIsInjective'
      BY <1>4, <2>4 DEF TableIsInjective
    <2>8. TableIsPaid'
      BY <1>2, <2>1, <2>4 DEF TableIsPaid, Paid, At, TypeOK, Idle
    <2>9. \A j \in Intent \ {i} : HasCredit(j)' <=> HasCredit(j)
      BY <2>3 DEF HasCredit
    <2>10. HasCredit(i)'
      BY <2>3 DEF HasCredit
    <2>11. SoloIsUncredited'
      <3> SUFFICES ASSUME NEW j \in Worker, worker'[j] # Idle, ~ raced[worker[j].id]
                   PROVE  /\ ~ \E y \in Txid : credits'[worker[j].id][y] > 0
                          /\ \A l \in Worker \ {j} :
                               worker'[l] # Idle => worker[l].id # worker[j].id
        BY <2>1 DEF SoloIsUncredited, HasCredit, TypeOK
      <3>1. j # k /\ worker'[j] = worker[j] /\ worker[j].id \in Intent
        BY <2>1 DEF TypeOK, Task
      <3>2. worker[j].id # i
        BY <1>1, <1>2, <3>1 DEF SoloIsUncredited
      <3>3. QED
        BY <2>1, <2>3, <3>1, <3>2 DEF SoloIsUncredited, HasCredit, TypeOK
    <2>12. StatusTellsCredit'
      BY <2>1, <2>9, <2>10 DEF StatusTellsCredit, TypeOK
    <2>13. QED
      BY <2>5, <2>6, <2>7, <2>8, <2>11, <2>12
  <1>5. QED
    BY <1>3, <1>4

\* A hash is submitted.
LEMMA SubmitPreserves ==
  ASSUME IInv, NEW k \in Worker, NEW i \in Intent, NEW x \in Txid, Submit(k, i, x)
  PROVE  IInv'
  <1> USE DEF IInv, BooksInv
  <1> DEFINE task == [step |-> "clash", id |-> i, txid |-> x]
  <1>1. task \in Task /\ task.id = i /\ task.step = "clash"
    BY DEF Task
  <1>2. /\ worker' = [worker EXCEPT ![k] = task]
        /\ raced' = [raced EXCEPT ![i] = raced[i] \/ Served(i)]
        /\ worker[k] = Idle /\ status[i] # "CONFIRMED"
        /\ UNCHANGED <<rows, chain, failures>>
    BY DEF Submit, Take
  <1> HIDE DEF task
  <1>3. TypeOK'
    <2>1. (raced[i] \/ Served(i)) \in BOOLEAN
      BY DEF TypeOK, Served
    <2>2. raced' \in [Intent -> BOOLEAN]
      BY <1>2, <2>1 DEF TypeOK
    <2>3. QED
      BY <1>1, <1>2, <2>2 DEF TypeOK, rows
  <1>4. BooksMatchTable' /\ TableIsInjective'
    BY <1>2 DEF BooksMatchTable, TableIsInjective, rows
  <1>5. worker'[k] = task /\ \A j \in Worker \ {k} : worker'[j] = worker[j]
    BY <1>2 DEF TypeOK
  <1>6. TableIsPaid'
    BY <1>1, <1>2, <1>5 DEF TableIsPaid, Paid, At, rows
  <1>7. \A j \in Intent : ~ raced'[j] => ~ raced[j] /\ (j = i => ~ Served(i))
    BY <1>2 DEF TypeOK
  <1>8. \A j \in Intent : HasCredit(j)' <=> HasCredit(j)
    BY <1>2 DEF HasCredit, rows
  <1>9. SoloIsUncredited'
    <2> SUFFICES ASSUME NEW j \in Worker, worker'[j] # Idle, ~ raced'[worker'[j].id]
                 PROVE  /\ ~ \E y \in Txid : credits[worker'[j].id][y] > 0
                        /\ \A l \in Worker \ {j} :
                             worker'[l] # Idle => worker'[l].id # worker'[j].id
      BY <1>2 DEF SoloIsUncredited, HasCredit, rows
    <2>1. CASE j = k
      <3>1. ~ raced[i] /\ ~ Served(i)
        BY <1>1, <1>5, <1>7, <2>1
      <3>2. ~ HasCredit(i)
        BY <1>2, <3>1 DEF StatusTellsCredit
      <3>3. QED
        BY <1>1, <1>5, <2>1, <3>1, <3>2 DEF Served, HasCredit
    <2>2. CASE j # k
      <3>1. worker'[j] = worker[j] /\ worker[j] # Idle /\ worker[j].id \in Intent
        BY <1>5, <2>2 DEF TypeOK, Task
      <3>2. ~ raced[worker[j].id] /\ worker[j].id # i
        BY <1>7, <3>1 DEF Served
      <3>3. QED
        BY <1>1, <1>5, <3>1, <3>2 DEF SoloIsUncredited, HasCredit
    <2>3. QED
      BY <2>1, <2>2
  <1>10. StatusTellsCredit'
    BY <1>2, <1>7, <1>8 DEF StatusTellsCredit, rows
  <1>11. QED
    BY <1>3, <1>4, <1>6, <1>9, <1>10

\* An intent is created.
LEMMA CreatePreserves ==
  ASSUME IInv, NEW i \in Intent, CreateIntent(i)
  PROVE  IInv'
  <1> USE DEF IInv, BooksInv
  <1>1. /\ status' = [status EXCEPT ![i] = "AWAITING_TX"] /\ status[i] = "NONE"
        /\ UNCHANGED <<txid, used, credits, chain, worker, raced, failures>>
    BY DEF CreateIntent, SetStatus
  <1>2. TypeOK'
    BY <1>1 DEF TypeOK, Status
  <1>3. BooksMatchTable' /\ TableIsInjective' /\ TableIsPaid' /\ SoloIsUncredited'
    BY <1>1 DEF BooksMatchTable, TableIsInjective, TableIsPaid, SoloIsUncredited, Paid,
       At, HasCredit
  <1>4. StatusTellsCredit'
    BY <1>1 DEF StatusTellsCredit, HasCredit, TypeOK
  <1>5. QED
    BY <1>2, <1>3, <1>4

\* The chain moves on, whatever the requests are doing.
LEMMA ChainPreserves ==
  ASSUME IInv, NEW x \in Txid,
         ChainMoves(x, "unseen", "mined") \/ ChainMoves(x, "mined", "confirmed")
  PROVE  IInv'
  <1> USE DEF IInv, BooksInv
  <1>1. /\ \A y \in Txid : chain[y] = "confirmed" => chain'[y] = "confirmed"
        /\ chain' \in [Txid -> {"unseen", "mined", "confirmed"}]
        /\ UNCHANGED <<rows, worker, raced, failures>>
    BY DEF ChainMoves, TypeOK
  <1>2. TypeOK'
    BY <1>1 DEF TypeOK, rows
  <1>3. TableIsPaid'
    <2>1. \A k \in Worker : At(k, "credit") => worker[k].txid \in Txid
      BY WorkerAtStep DEF Task
    <2>2. QED
      BY <1>1, <2>1 DEF TableIsPaid, Paid, At, rows
  <1>4. BooksMatchTable' /\ TableIsInjective' /\ SoloIsUncredited' /\ StatusTellsCredit'
    BY <1>1 DEF BooksMatchTable, TableIsInjective, SoloIsUncredited, StatusTellsCredit,
       HasCredit, rows
  <1>5. QED
    BY <1>2, <1>3, <1>4

-----------------------------------------------------------------------------

(* Every step keeps the inductive invariant.                               *)
LEMMA DepositStep == IInv /\ [Next]_vars => IInv'
  <1> SUFFICES ASSUME IInv, [Next]_vars PROVE IInv'
    OBVIOUS
  <1>1. CASE UNCHANGED vars
    BY <1>1 DEF vars, rows, IInv, BooksInv, TypeOK, BooksMatchTable, TableIsInjective,
       TableIsPaid, Paid, At, SoloIsUncredited, StatusTellsCredit, HasCredit
  <1>2. ASSUME NEW k \in Worker, NEW i \in Intent, Refresh(k, i)
        PROVE  IInv'
    BY <1>2, SubmitPreserves DEF Refresh, IInv, BooksInv, TypeOK
  <1>3. ASSUME NEW k \in Worker, Continue(k) \/ CutShort(k)
        PROVE  IInv'
    BY <1>3, ContinueIsCallStep, CallStepPreserves, CreditPreserves DEF Continue, IInv
  <1>4. QED
    BY <1>1, <1>2, <1>3, CreatePreserves, SubmitPreserves, ChainPreserves DEF Next

(* The inductive invariant holds in every reachable state. *)
THEOREM DepositInvariance == Spec => []IInv
  BY InitHolds, DepositStep, PTL DEF Spec

(* Each transaction on chain and each intent is credited at most once, and  *)
(* only a confirmed payment is (submitDepositTxid).                         *)
THEOREM CreditedOnceHolds == Spec => []CreditedOnce
  <1>1. IInv => CreditedOnce
    BY BooksImply DEF IInv
  <1>2. QED
    BY <1>1, DepositInvariance, PTL

(* The status of an intent whose calls did not overlap tells whether the    *)
(* deposit was credited (submitDepositTxid).                                *)
THEOREM StatusTellsCreditHolds == Spec => []StatusTellsCredit
  <1>1. IInv => StatusTellsCredit
    BY DEF IInv
  <1>2. QED
    BY <1>1, DepositInvariance, PTL

-----------------------------------------------------------------------------
(* The page.  Its calls are told by their worker, and what they find is    *)
(* what the user is shown: the proof keeps apart the one call that the     *)
(* page waits for, which alone serves the page's intent as long as every   *)
(* answer got through, and the calls of everybody else.                    *)

\* A call is for an intent that exists, and CONFIRMED is only written with a
\* credit, whether or not calls of an intent overlap.
CallsKnown   == \A k \in Worker : worker[k] # Idle => status[worker[k].id] # "NONE"
ConfirmedHas == \A i \in Intent : status[i] = "CONFIRMED" => HasCredit(i)

\* The address that the page shows is that of a row of its own, and nothing
\* is shown before there is one.
PageStands ==
    IF page.phase = "details"
    THEN /\ page.intent \in Intent \ Others /\ status[page.intent] # "NONE"
         /\ page.known \in {"AWAITING_TX", "PENDING_VALIDATION", "CONFIRMED"}
    ELSE page.intent = None /\ page.known = "none" /\ page.outcome = "none"

\* The page waits for a call only with an address, and for one of its own.
PageWaits ==
    /\ page.busy \in {"sent"} \cup Worker => page.phase = "details"
    /\ page.busy \in Worker =>
         worker[page.busy] # Idle /\ worker[page.busy].id = page.intent

\* No other call serves the page's intent, unless an answer was lost.
CallsHeard ==
    \A k \in Worker :
      worker[k] # Idle /\ worker[k].id = page.intent =>
        k = page.busy \/ page.intent \in unheard

\* The call that the page waits for has found the row open.
CallFoundOpen ==
    page.busy \in Worker /\ page.intent \notin unheard =>
      status[page.intent] \in {"AWAITING_TX", "PENDING_VALIDATION"}

\* The outcome is the status even while the page waits.
OutcomeStands ==
    page.outcome # "none" /\ page.intent \notin unheard =>
      status[page.intent] = page.outcome

PInv == /\ PageTypeOK /\ CallsKnown /\ ConfirmedHas
        /\ PageStands /\ PageWaits /\ CallsHeard /\ CallFoundOpen
        /\ OutcomeStands /\ SuccessIsCredit

(* The page starts without an address, and nobody has called.              *)
LEMMA PageInitHolds == PageInit => PInv
  BY DepositPageAssumption
  DEF PageInit, Init, Fresh, PInv, PageTypeOK, CallsKnown, ConfirmedHas, PageStands,
      PageWaits, CallsHeard, CallFoundOpen, OutcomeStands, SuccessIsCredit, ShowsSuccess,
      Outcome, Idle

(* What the page shows follows from the invariant.                         *)
LEMMA PageInvImplies == PInv => PageTellsTruth
  BY DEF PInv, PageTellsTruth, PageStands, OutcomeStands, OutcomeIsStatus, AlwaysAButton,
     SentOffered, FormOffered, ShowsSuccess, PageTypeOK

-----------------------------------------------------------------------------
(* What the server does, seen from the page. *)

\* A call of worker k goes on, and if it ends the page may take the outcome.
CallGoes(k, outcome) ==
    /\ worker[k] \in Task /\ worker[k] # Idle
    /\ \A j \in Worker \ {k} : worker'[j] = worker[j]
    /\ worker'[k] = Idle \/ (worker'[k] \in Task /\ worker'[k].id = worker[k].id)
    /\ worker'[k] # Idle => credits' = credits
    /\ \A i \in Intent \ {worker[k].id} :
         status'[i] = status[i] /\ credits'[i] = credits[i]
    /\ LET s == status'[worker[k].id] IN
       \/ /\ credits' = credits /\ status' = status
          /\ worker'[k] = Idle => outcome = page.outcome
       \/ /\ credits' = credits /\ s = "PENDING_VALIDATION"
          /\ worker'[k] = Idle => outcome = s
       \/ /\ credits' = credits /\ s = "FAILED"
          /\ worker'[k] = Idle /\ outcome = s
       \/ /\ credits' # credits /\ s = "CONFIRMED" /\ worker'[k] = Idle
          /\ \E i \in Intent : i = worker[k].id /\ HasCredit(i)'

\* A call of worker k for intent i begins.
CallBegins(k, i) ==
    /\ worker[k] = Idle
    /\ \A j \in Worker \ {k} : worker'[j] = worker[j]
    /\ worker'[k] \in Task /\ worker'[k].id = i
    /\ status[i] \in {"AWAITING_TX", "PENDING_VALIDATION"}
    /\ UNCHANGED <<status, credits>>

(* A worker that goes on to another step serves the same intent.           *)
LEMMA GotoGoes ==
  ASSUME TypeOK, NEW k \in Worker, worker[k] \in Task, NEW step, Goto(k, step),
         step \in {"clash", "mark", "verify", "postpone", "fail", "credit"}
  PROVE  /\ \A j \in Worker \ {k} : worker'[j] = worker[j]
         /\ worker'[k] # Idle /\ worker'[k] \in Task /\ worker'[k].id = worker[k].id
  <1>1. worker'[k] = [worker[k] EXCEPT !.step = step]
    BY DEF Goto, TypeOK
  <1>2. \A j \in Worker \ {k} : worker'[j] = worker[j]
    BY DEF Goto, TypeOK
  <1>3. worker'[k] \in Task /\ worker'[k].id = worker[k].id /\ worker'[k].step = step
    BY <1>1 DEF Task
  <1>4. QED
    BY <1>2, <1>3 DEF Idle

(* A worker whose call ends is idle.                                       *)
LEMMA EndsGoes ==
  ASSUME TypeOK, NEW k \in Worker, Ends(k)
  PROVE  worker'[k] = Idle /\ \A j \in Worker \ {k} : worker'[j] = worker[j]
  BY DEF Ends, TypeOK

(* submitDepositTxid answers with the status it writes, and if it writes   *)
(* none with an error, or goes on.                                         *)
LEMMA ContinueGoes ==
  ASSUME TypeOK, NEW k \in Worker, Continue(k)
  PROVE  CallGoes(k, OutcomeOf(k))
  <1>1. worker[k] \in Task /\ worker[k] # Idle /\ worker[k].id \in Intent
    BY WorkerAtStep DEF Continue, CheckClash, Mark, VerifyLater, VerifyFatal, VerifyOk,
       Postpone, Fail, Credit, Task
  <1>2. CASE CheckClash(k)
    <2>1. credits' = credits /\ status' = status /\ OutcomeOf(k) = page.outcome
      BY <1>2 DEF CheckClash, rows, OutcomeOf, ErrorOutcome, At
    <2>2. Ends(k) \/ Goto(k, "mark")
      BY <1>2 DEF CheckClash
    <2>3. QED
      BY <1>1, <2>1, <2>2, GotoGoes, EndsGoes DEF CallGoes
  <1>3. CASE Mark(k)
    <2>1. /\ credits' = credits /\ status'[worker[k].id] = "PENDING_VALIDATION"
          /\ \A i \in Intent \ {worker[k].id} : status'[i] = status[i]
          /\ Goto(k, "verify")
      BY <1>1, <1>3 DEF Mark, SetStatus, TypeOK
    <2>2. QED
      BY <1>1, <2>1, GotoGoes DEF CallGoes
  <1>4. CASE VerifyLater(k) \/ VerifyFatal(k) \/ VerifyOk(k)
    <2>1. /\ credits' = credits /\ status' = status
          /\ \E step \in {"postpone", "fail", "credit"} : Goto(k, step)
      BY <1>4 DEF VerifyLater, VerifyFatal, VerifyOk, rows
    <2>2. QED
      BY <1>1, <2>1, GotoGoes DEF CallGoes
  <1>5. CASE Postpone(k)
    <2>1. /\ credits' = credits /\ status'[worker[k].id] = "PENDING_VALIDATION"
          /\ \A i \in Intent \ {worker[k].id} : status'[i] = status[i]
          /\ Ends(k) /\ OutcomeOf(k) = "PENDING_VALIDATION"
      BY <1>1, <1>5 DEF Postpone, SetStatus, TypeOK, OutcomeOf, At
    <2>2. QED
      BY <1>1, <2>1, EndsGoes DEF CallGoes
  <1>6. CASE Fail(k)
    <2>1. /\ credits' = credits /\ status'[worker[k].id] = "FAILED"
          /\ \A i \in Intent \ {worker[k].id} : status'[i] = status[i]
          /\ Ends(k) /\ OutcomeOf(k) = "FAILED"
      BY <1>1, <1>6 DEF Fail, SetStatus, TypeOK, OutcomeOf, At
    <2>2. QED
      BY <1>1, <2>1, EndsGoes DEF CallGoes
  <1>7. CASE Credit(k)
    <2>1. Ends(k)
      BY <1>7 DEF Credit
    <2>2. CASE UNCHANGED <<credits, used, status>>
      <3>1. OutcomeOf(k) = page.outcome
        BY <1>7, <2>2 DEF Credit, OutcomeOf, ErrorOutcome, At
      <3>2. QED
        BY <1>1, <2>1, <2>2, <3>1, EndsGoes DEF CallGoes
    <2>3. CASE ~ UNCHANGED <<credits, used, status>>
      <3>1. PICK i \in Intent, x \in Txid : i = worker[k].id /\ x = worker[k].txid
        BY <1>1 DEF Task
      <3>2. /\ credits' = [credits EXCEPT ![i][x] = @ + 1]
            /\ status' = [status EXCEPT ![i] = "CONFIRMED"]
        BY <1>7, <2>3, <3>1 DEF Credit, SetStatus
      <3>3. credits'[i][x] = credits[i][x] + 1 /\ credits[i][x] \in Nat
        BY <3>2 DEF TypeOK
      <3>4. credits' # credits /\ HasCredit(i)'
        BY <3>3 DEF HasCredit
      <3>5. \A j \in Intent \ {i} : status'[j] = status[j] /\ credits'[j] = credits[j]
        BY <3>2 DEF TypeOK
      <3>6. status'[i] = "CONFIRMED"
        BY <3>2 DEF TypeOK
      <3>7. QED
        BY <1>1, <2>1, <3>1, <3>4, <3>5, <3>6, EndsGoes DEF CallGoes
    <2>4. QED
      BY <2>2, <2>3
  <1>8. QED
    BY <1>2, <1>3, <1>4, <1>5, <1>6, <1>7 DEF Continue

(* A call that is cut short writes nothing, and the page is told an error. *)
LEMMA CutShortGoes ==
  ASSUME TypeOK, NEW k \in Worker, CutShort(k)
  PROVE  CallGoes(k, ErrorOutcome)
  BY EndsGoes DEF CutShort, CallGoes, ErrorOutcome, rows, TypeOK

(* A call begins for an intent that is open.                               *)
LEMMA SubmitBegins ==
  ASSUME TypeOK, NEW k \in Worker, NEW i \in Intent, NEW x, x \in Txid, Submit(k, i, x)
  PROVE  CallBegins(k, i)
  <1> DEFINE task == [step |-> "clash", id |-> i, txid |-> x]
  <1>1. task \in Task /\ task.id = i
    BY DEF Task
  <1>2. worker' = [worker EXCEPT ![k] = task]
    BY DEF Submit, Take
  <1> HIDE DEF task
  <1>3. QED
    BY <1>1, <1>2 DEF Submit, Take, CallBegins, TypeOK, rows

(* Another look is a call for the row's txid.                              *)
LEMMA RefreshBegins ==
  ASSUME TypeOK, NEW k \in Worker, NEW i \in Intent, Refresh(k, i)
  PROVE  CallBegins(k, i)
  <1>1. txid[i] \in Txid /\ Submit(k, i, txid[i])
    BY DEF Refresh, TypeOK
  <1>2. QED
    BY <1>1, SubmitBegins

-----------------------------------------------------------------------------
(* The steps of the page. *)

(* A call that goes on, the page's or another's, keeps the invariant, if   *)
(* the page makes of it what Hears says.                                   *)
LEMMA GoesKeepsPage ==
  ASSUME TypeOK, PInv, NEW k \in Worker, NEW outcome, outcome \in Outcome,
         CallGoes(k, outcome), Hears(k, outcome)
  PROVE  PInv'
  <1> USE DEF PInv
  <1> DEFINE i == worker[k].id
  <1>1. i \in Intent /\ worker[k] # Idle /\ unheard' = unheard
    BY DEF CallGoes, Task, Hears
  <1>2. /\ \A j \in Worker : worker'[j] # Idle =>
             worker[j] # Idle /\ worker'[j].id = worker[j].id
        /\ \A j \in Worker \ {k} : worker'[j] = worker[j]
    BY <1>1 DEF CallGoes
  <1>3. \A j \in Intent : j # i => status'[j] = status[j] /\ (HasCredit(j) <=> HasCredit(j)')
    BY DEF CallGoes, HasCredit
  <1>4. HasCredit(i) => \A j \in Intent : j = i => HasCredit(j)'
    BY <1>1 DEF CallGoes, HasCredit
  <1>5. \A j \in Intent : HasCredit(j) => HasCredit(j)'
    BY <1>3, <1>4
  <1>6. status[i] # "NONE" /\ status'[i] # "NONE"
    BY <1>1 DEF CallGoes, CallsKnown
  <1>7. CallsKnown'
    <2> SUFFICES ASSUME NEW j \in Worker, worker'[j] # Idle
                 PROVE  status'[worker[j].id] # "NONE"
      BY <1>2 DEF CallsKnown
    <2>1. worker[j].id \in Intent
      BY <1>2 DEF TypeOK, Task
    <2>2. QED
      BY <1>2, <1>3, <1>6, <2>1 DEF CallsKnown
  <1>8. ConfirmedHas'
    <2> SUFFICES ASSUME NEW j \in Intent, status'[j] = "CONFIRMED" PROVE HasCredit(j)'
      BY DEF ConfirmedHas
    <2>1. CASE j # i
      BY <1>3, <2>1 DEF ConfirmedHas
    <2>2. CASE j = i
      BY <1>5, <2>2 DEF ConfirmedHas, CallGoes
    <2>3. QED
      BY <2>1, <2>2
  <1>9. CASE page.busy = k /\ worker'[k] = Idle
    <2>1. i = page.intent /\ page.phase = "details" /\ i \in Intent \ Others
      BY <1>9 DEF PageWaits, PageStands
    <2>2. page'.busy = "no" /\ page'.phase = page.phase /\ page'.intent = page.intent
      BY <1>9, DepositPageAssumption DEF Hears, PageTypeOK
    <2>3. "no" \notin {"sent"} \cup Worker
      BY DepositPageAssumption
    <2>4. PageWaits' /\ CallFoundOpen'
      BY <2>2, <2>3 DEF PageWaits, CallFoundOpen
    <2>5. CallsHeard'
      BY <1>1, <1>2, <1>9, <2>2 DEF CallsHeard
    <2>6. CASE credits' # credits
      <3>1. PICK s \in Reread(page.intent) :
              page' = [page EXCEPT !.busy = "no", !.outcome = "CONFIRMED", !.known = s]
        BY <1>9, <2>6 DEF Hears
      <3>2. s \in {"PENDING_VALIDATION", "CONFIRMED"}
        BY DEF Reread
      <3>3. page'.outcome = "CONFIRMED" /\ page'.known = s
        BY <3>1 DEF PageTypeOK
      <3>4. status'[i] = "CONFIRMED" /\ (\A j \in Intent : j = i => HasCredit(j)')
        BY <2>6 DEF CallGoes
      <3>5. PageTypeOK'
        BY <1>1, <3>1, <3>2 DEF PageTypeOK, Hears, Outcome, Status
      <3>6. PageStands'
        BY <1>6, <2>1, <2>2, <3>2, <3>3 DEF PageStands
      <3>7. SuccessIsCredit'
        BY <2>1, <2>2, <3>4 DEF SuccessIsCredit
      <3>8. OutcomeStands'
        BY <2>1, <2>2, <3>3, <3>4 DEF OutcomeStands
      <3>9. QED
        BY <1>7, <1>8, <2>4, <2>5, <3>5, <3>6, <3>7, <3>8
    <2>7. CASE credits' = credits
      <3>1. page' = [page EXCEPT !.busy = "no", !.outcome = outcome]
        BY <1>9, <2>7 DEF Hears
      <3>2. page'.outcome = outcome /\ page'.known = page.known
        BY <3>1 DEF PageTypeOK
      <3>3. \/ status' = status /\ outcome = page.outcome
            \/ status'[i] = outcome /\ outcome # "CONFIRMED"
        BY <1>9, <2>7 DEF CallGoes
      <3>4. PageTypeOK'
        BY <1>1, <3>1 DEF PageTypeOK, Hears
      <3>5. PageStands'
        BY <1>6, <2>1, <2>2, <3>2 DEF PageStands
      <3>6. SuccessIsCredit'
        <4>1. ShowsSuccess' => ShowsSuccess
          BY <3>2, <3>3 DEF ShowsSuccess
        <4>2. ShowsSuccess => \A j \in Intent : j = page.intent => HasCredit(j)'
          BY <1>5 DEF SuccessIsCredit
        <4>3. QED
          BY <2>1, <2>2, <4>1, <4>2 DEF SuccessIsCredit
      <3>7. OutcomeStands'
        BY <1>1, <2>1, <2>2, <3>2, <3>3 DEF OutcomeStands
      <3>8. QED
        BY <1>7, <1>8, <2>4, <2>5, <3>4, <3>5, <3>6, <3>7
    <2>8. QED
      BY <2>6, <2>7
  <1>10. CASE ~ (page.busy = k /\ worker'[k] = Idle)
    <2>1. page' = page
      BY <1>10 DEF Hears
    <2>2. PageTypeOK'
      BY <1>1, <2>1 DEF PageTypeOK, Hears
    <2>3. PageStands'
      BY <1>3, <1>6, <2>1 DEF PageStands
    <2>4. PageWaits'
      BY <1>10, <1>2, <2>1 DEF PageWaits, CallGoes
    <2>5. CallsHeard'
      BY <1>1, <1>2, <2>1 DEF CallsHeard
    <2>6. page.intent \in Intent => (HasCredit(page.intent) => \A j \in Intent : j = page.intent => HasCredit(j)')
      BY <1>5
    <2>7. SuccessIsCredit'
      <3> SUFFICES ASSUME ShowsSuccess PROVE \A j \in {page.intent} : HasCredit(j)'
        BY <2>1 DEF SuccessIsCredit, ShowsSuccess
      <3>1. page.intent \in Intent
        BY DEF ShowsSuccess, PageStands
      <3>2. QED
        BY <2>6, <3>1 DEF SuccessIsCredit
    <2>8. CASE page.intent # i \/ page.intent \in unheard
      <3>1. page.intent \in Intent /\ page.intent \notin unheard => status'[page.intent] = status[page.intent]
        BY <1>3, <2>8
      <3>2. page.outcome # "none" \/ page.busy \in Worker => page.intent \in Intent
        BY DEF PageStands, PageWaits
      <3>3. QED
        BY <1>1, <1>7, <1>8, <2>1, <2>2, <2>3, <2>4, <2>5, <2>7, <3>1, <3>2
           DEF OutcomeStands, CallFoundOpen
    <2>9. CASE page.intent = i /\ page.intent \notin unheard
      <3>1. k = page.busy /\ worker'[k] # Idle
        BY <1>1, <1>10, <2>9 DEF CallsHeard
      <3>2. status[i] \in {"AWAITING_TX", "PENDING_VALIDATION"}
        BY <2>9, <3>1 DEF CallFoundOpen
      <3>3. status'[i] \in {status[i], "PENDING_VALIDATION"}
        BY <3>1 DEF CallGoes
      <3>4. page.outcome # "none" => page.outcome = "PENDING_VALIDATION"
        BY <2>9, <3>2 DEF OutcomeStands, PageTypeOK, Outcome
      <3>5. QED
        BY <1>1, <1>7, <1>8, <2>1, <2>2, <2>3, <2>4, <2>5, <2>7, <2>9, <3>2, <3>3, <3>4
           DEF OutcomeStands, CallFoundOpen
    <2>10. QED
      BY <2>8, <2>9
  <1>11. QED
    BY <1>9, <1>10

(* A call of the page begins: every other call for its intent is one that  *)
(* was given up.                                                           *)
LEMMA AskKeepsPage ==
  ASSUME TypeOK, PInv, NEW k \in Worker, CanAsk, Asks(k), CallBegins(k, page.intent)
  PROVE  PInv'
  <1> USE DEF PInv
  <1>1. /\ page.phase = "details" /\ page.intent \in Intent \ Others /\ page.busy = "no"
        /\ k # "no" /\ "no" \notin Worker
    BY DepositPageAssumption DEF CanAsk, FormOffered, PageStands
  <1>2. /\ page'.busy = k /\ page'.phase = page.phase /\ page'.intent = page.intent
        /\ page'.known = page.known /\ page'.outcome = page.outcome
        /\ unheard' = unheard /\ asked' \subseteq Worker
    BY DEF Asks, PageTypeOK
  <1>3. PageTypeOK'
    BY <1>2 DEF Asks, PageTypeOK
  <1>4. /\ worker'[k] # Idle /\ worker'[k].id = page.intent
        /\ \A j \in Worker \ {k} : worker'[j] = worker[j]
        /\ UNCHANGED <<status, credits>>
        /\ status[page.intent] \in {"AWAITING_TX", "PENDING_VALIDATION"}
    BY DEF CallBegins, Task, Idle
  <1>5. CallsKnown'
    BY <1>4 DEF CallsKnown
  <1>6. ConfirmedHas'
    BY <1>4 DEF ConfirmedHas, HasCredit
  <1>7. PageStands' /\ PageWaits' /\ CallFoundOpen' /\ OutcomeStands'
    BY <1>1, <1>2, <1>4 DEF PageStands, PageWaits, CallFoundOpen, OutcomeStands
  <1>8. CallsHeard'
    BY <1>1, <1>2, <1>4 DEF CallsHeard
  <1>9. SuccessIsCredit'
    BY <1>2, <1>4 DEF SuccessIsCredit, ShowsSuccess, HasCredit
  <1>10. QED
    BY <1>3, <1>5, <1>6, <1>7, <1>8, <1>9

(* The row of a new address has no calls, and nothing is known of it.      *)
LEMMA CreatedKeepsPage ==
  ASSUME TypeOK, PInv, NEW i \in Intent, Created(i)
  PROVE  PInv'
  <1> USE DEF PInv
  <1>1. /\ page.busy = "create" /\ i \notin Others /\ status[i] = "NONE"
        /\ status' = [status EXCEPT ![i] = "AWAITING_TX"]
        /\ UNCHANGED <<credits, worker, asked, unheard>>
    BY DEF Created, CreateIntent, SetStatus
  <1>2. /\ page'.phase = "details" /\ page'.intent = i /\ page'.known = "AWAITING_TX"
        /\ page'.outcome = "none" /\ page'.busy = "no"
    BY DEF Created, PageTypeOK
  <1>3. PageTypeOK'
    BY <1>1 DEF Created, PageTypeOK, Outcome, Status
  <1>4. "no" \notin {"sent"} \cup Worker
    BY DepositPageAssumption
  <1>5. status'[i] = "AWAITING_TX" /\ \A j \in Intent \ {i} : status'[j] = status[j]
    BY <1>1 DEF TypeOK
  <1>6. \A k \in Worker : worker[k] # Idle => worker[k].id \in Intent /\ worker[k].id # i
    BY <1>1 DEF CallsKnown, TypeOK, Task
  <1>7. CallsKnown' /\ CallsHeard'
    BY <1>1, <1>2, <1>5, <1>6 DEF CallsKnown, CallsHeard
  <1>8. ConfirmedHas'
    BY <1>1, <1>5 DEF ConfirmedHas, HasCredit
  <1>9. PageStands' /\ PageWaits' /\ CallFoundOpen' /\ OutcomeStands'
    BY <1>1, <1>2, <1>4, <1>5 DEF PageStands, PageWaits, CallFoundOpen, OutcomeStands
  <1>10. SuccessIsCredit'
    BY <1>2 DEF SuccessIsCredit, ShowsSuccess
  <1>11. QED
    BY <1>3, <1>7, <1>8, <1>9, <1>10

(* Steps of the page alone: its buttons, the answers that need no call, an *)
(* answer that is given up, and leaving.                                   *)
LEMMA PageAloneKeepsPage ==
  ASSUME TypeOK, PInv,
         \/ PickNetwork \/ Agree \/ Cancel \/ PressCreate \/ PressSent \/ SentAnswered
         \/ PressForFinal \/ GivesUp \/ Leave
  PROVE  PInv'
  <1> USE DEF PInv
  <1>1. UNCHANGED <<status, credits, worker, asked>>
    BY DEF PickNetwork, Agree, Cancel, PressCreate, PressSent, SentAnswered,
       PressForFinal, AnsweredAtOnce, GivesUp, Leave, vars, rows
  <1>2. CallsKnown' /\ ConfirmedHas'
    BY <1>1 DEF CallsKnown, ConfirmedHas, HasCredit
  <1>3. \A i \in Intent : HasCredit(i) <=> HasCredit(i)'
    BY <1>1 DEF HasCredit
  <1>4. CASE PickNetwork \/ Agree \/ Cancel \/ PressCreate
    <2>1. PICK p \in {"pick", "risk", "agreed"}, b \in {page.busy, "create"} :
            page' = [page EXCEPT !.phase = p, !.busy = b]
      <3>1. CASE PickNetwork \/ Agree \/ Cancel
        <4>1. \A p \in {"pick", "risk", "agreed"} :
                [page EXCEPT !.phase = p] = [page EXCEPT !.phase = p, !.busy = page.busy]
          BY DEF PageTypeOK
        <4>2. QED
          BY <3>1, <4>1 DEF PickNetwork, Agree, Cancel
      <3>2. CASE PressCreate
        <4>1. page.phase = "agreed"
              /\ [page EXCEPT !.busy = "create"] = [page EXCEPT !.phase = "agreed", !.busy = "create"]
          BY <3>2 DEF PageTypeOK, PressCreate
        <4>2. QED
          BY <3>2, <4>1 DEF PressCreate
      <3>3. QED
        BY <1>4, <3>1, <3>2
    <2>2. page.phase # "details" /\ unheard' = unheard
      BY <1>4 DEF PickNetwork, Agree, Cancel, PressCreate
    <2>3. /\ page'.phase = p /\ page'.busy = b /\ page'.intent = page.intent
          /\ page'.known = page.known /\ page'.outcome = page.outcome
      BY <2>1 DEF PageTypeOK
    <2>4. b \in {"no", "create"} /\ b \notin {"sent"} \cup Worker
      BY <2>2, DepositPageAssumption DEF PageWaits, PageTypeOK
    <2>5. PageTypeOK'
      BY <1>1, <2>1, <2>2, <2>4 DEF PageTypeOK
    <2>6. PageStands' /\ PageWaits' /\ CallFoundOpen' /\ OutcomeStands' /\ SuccessIsCredit'
      BY <2>2, <2>3, <2>4
         DEF PageStands, PageWaits, CallFoundOpen, OutcomeStands, SuccessIsCredit, ShowsSuccess
    <2>7. CallsHeard'
      <3>1. page.intent = None /\ \A k \in Worker : worker[k] # Idle => worker[k].id # None
        BY <2>2, CryptoDepositAssumption DEF PageStands, TypeOK, Task
      <3>2. QED
        BY <1>1, <2>3, <3>1 DEF CallsHeard
    <2>8. QED
      BY <1>2, <2>5, <2>6, <2>7
  <1>5. CASE PressSent \/ SentAnswered
    <2>1. PICK b \in {"no", "sent"}, s \in BOOLEAN : page' = [page EXCEPT !.sent = s, !.busy = b]
      <3>1. page = [page EXCEPT !.sent = page.sent]
        BY DEF PageTypeOK
      <3>2. CASE PressSent
        BY <3>1, <3>2 DEF PressSent, PageTypeOK
      <3>3. CASE SentAnswered
        <4>1. (page.sent \/ status[page.intent] = "AWAITING_TX") \in BOOLEAN
          BY DEF PageTypeOK
        <4>2. QED
          BY <3>3, <4>1 DEF SentAnswered
      <3>4. QED
        BY <1>5, <3>2, <3>3
    <2>2. page.phase = "details" /\ unheard' = unheard /\ page.busy \in {"no", "sent"}
      BY <1>5 DEF PressSent, SentAnswered, SentOffered, PageWaits
    <2>3. /\ page'.phase = page.phase /\ page'.busy = b /\ page'.intent = page.intent
          /\ page'.known = page.known /\ page'.outcome = page.outcome
      BY <2>1 DEF PageTypeOK
    <2>4. b \notin Worker /\ page.busy \notin Worker
      BY <2>2, DepositPageAssumption
    <2>5. PageTypeOK'
      BY <1>1, <2>1, <2>2 DEF PageTypeOK
    <2>6. PageStands' /\ PageWaits' /\ CallFoundOpen' /\ OutcomeStands'
      BY <1>1, <2>2, <2>3, <2>4 DEF PageStands, PageWaits, CallFoundOpen, OutcomeStands
    <2>7. SuccessIsCredit'
      BY <1>1, <2>3 DEF SuccessIsCredit, ShowsSuccess, HasCredit
    <2>8. CallsHeard'
      BY <1>1, <2>2, <2>3, <2>4 DEF CallsHeard
    <2>9. QED
      BY <1>2, <2>5, <2>6, <2>7, <2>8
  <1>6. CASE PressForFinal
    <2>1. /\ page.phase = "details" /\ page.busy = "no" /\ unheard' = unheard
          /\ page.intent \in Intent \ Others /\ status[page.intent] # "NONE"
      BY <1>6 DEF PressForFinal, CanAsk, FormOffered, AnsweredAtOnce, PageStands
    <2>2. PICK o \in Outcome, n \in {"CONFIRMED", page.known} :
            /\ page' = [page EXCEPT !.outcome = o, !.known = n]
            /\ o # page.outcome => o = status[page.intent]
            /\ n # page.known \/ o = "CONFIRMED" => HasCredit(page.intent)
      <3>1. page = [page EXCEPT !.known = page.known]
        BY DEF PageTypeOK
      <3>2. CASE status[page.intent] = "CONFIRMED"
        <4>1. HasCredit(page.intent)
          BY <2>1, <3>2 DEF ConfirmedHas
        <4>2. page' = [page EXCEPT !.outcome = "CONFIRMED", !.known = "CONFIRMED"]
          BY <1>6, <3>2 DEF PressForFinal, AnsweredAtOnce
        <4>3. QED
          BY <3>2, <4>1, <4>2 DEF Outcome
      <3>3. CASE status[page.intent] = "FAILED"
        <4>1. page' = [page EXCEPT !.outcome = page.outcome] \/ page' = [page EXCEPT !.outcome = "FAILED"]
          BY <1>6, <3>3 DEF PressForFinal, AnsweredAtOnce
        <4>2. page.outcome = "CONFIRMED" => HasCredit(page.intent)
          BY DEF SuccessIsCredit, ShowsSuccess
        <4>3. [page EXCEPT !.outcome = "FAILED"] = [page EXCEPT !.outcome = "FAILED", !.known = page.known]
              /\ [page EXCEPT !.outcome = page.outcome] = [page EXCEPT !.outcome = page.outcome, !.known = page.known]
          BY DEF PageTypeOK
        <4>4. page.outcome \in Outcome /\ "FAILED" \in Outcome
          BY DEF PageTypeOK, Outcome
        <4>5. QED
          BY <3>3, <4>1, <4>2, <4>3, <4>4
      <3>4. QED
        BY <1>6, <3>2, <3>3 DEF PressForFinal, AnsweredAtOnce
    <2>3. /\ page'.phase = "details" /\ page'.busy = "no" /\ page'.intent = page.intent
          /\ page'.known = n /\ page'.outcome = o
      BY <2>1, <2>2 DEF PageTypeOK
    <2>4. "no" \notin {"sent"} \cup Worker
      BY DepositPageAssumption
    <2>5. PageTypeOK'
      BY <1>1, <2>1, <2>2 DEF PageTypeOK, Status
    <2>6. PageStands' /\ PageWaits' /\ CallFoundOpen' /\ OutcomeStands'
      BY <1>1, <2>1, <2>2, <2>3, <2>4 DEF PageStands, PageWaits, CallFoundOpen, OutcomeStands
    <2>7. SuccessIsCredit'
      BY <1>1, <2>2, <2>3 DEF SuccessIsCredit, ShowsSuccess, HasCredit
    <2>8. CallsHeard'
      BY <1>1, <2>1, <2>3 DEF CallsHeard
    <2>9. QED
      BY <1>2, <2>5, <2>6, <2>7, <2>8
  <1>7. CASE GivesUp
    <2>1. /\ page'.phase = page.phase /\ page'.busy = "no" /\ page'.intent = page.intent
          /\ page'.known = page.known /\ page'.outcome = page.outcome
      BY <1>7 DEF GivesUp, Idles, PageTypeOK
    <2>2. /\ unheard \subseteq unheard' /\ unheard' \subseteq Intent
          /\ page.busy \in Worker => page.intent \in unheard'
      BY <1>7 DEF GivesUp, PageTypeOK, PageWaits, PageStands
    <2>3. "no" \notin {"sent"} \cup Worker
      BY DepositPageAssumption
    <2>4. PageTypeOK'
      BY <1>1, <1>7, <2>2 DEF GivesUp, Idles, PageTypeOK
    <2>5. PageStands' /\ PageWaits' /\ CallFoundOpen' /\ OutcomeStands'
      BY <1>1, <2>1, <2>2, <2>3 DEF PageStands, PageWaits, CallFoundOpen, OutcomeStands
    <2>6. SuccessIsCredit'
      BY <1>1, <2>1 DEF SuccessIsCredit, ShowsSuccess, HasCredit
    <2>7. CallsHeard'
      BY <1>1, <2>1, <2>2 DEF CallsHeard
    <2>8. QED
      BY <1>2, <2>4, <2>5, <2>6, <2>7
  <1>8. CASE Leave
    <2>1. page' = Fresh /\ unheard' = unheard
      BY <1>8 DEF Leave
    <2>2. /\ Fresh.phase = "pick" /\ Fresh.intent = None /\ Fresh.known = "none"
          /\ Fresh.busy = "no" /\ Fresh.outcome = "none"
      BY DEF Fresh
    <2>3. PageTypeOK'
      BY <1>1, <2>1 DEF PageTypeOK, Fresh, Outcome
    <2>4. \A k \in Worker : worker[k] # Idle => worker[k].id # None
      BY CryptoDepositAssumption DEF TypeOK, Task
    <2>5. PageStands' /\ PageWaits' /\ CallFoundOpen' /\ OutcomeStands' /\ SuccessIsCredit'
      BY <2>1, <2>2, DepositPageAssumption
         DEF PageStands, PageWaits, CallFoundOpen, OutcomeStands, SuccessIsCredit, ShowsSuccess
    <2>6. CallsHeard'
      BY <1>1, <2>1, <2>2, <2>4 DEF CallsHeard
    <2>7. QED
      BY <1>2, <2>3, <2>5, <2>6
  <1>9. QED
    BY <1>4, <1>5, <1>6, <1>7, <1>8

\* What others make of intent i and of the calls.
OthersGo(i) ==
    /\ \A j \in Intent \ {i} : status'[j] = status[j]
    /\ status[i] # "NONE" => status'[i] # "NONE"
    /\ status'[i] = "CONFIRMED" => status[i] = "CONFIRMED"
    /\ \A k \in Worker : worker'[k] # Idle =>
         \/ worker[k] # Idle /\ worker'[k] = worker[k]
         \/ worker[k] = Idle /\ worker'[k].id = i /\ status'[i] # "NONE"
    /\ \A k \in Worker : worker[k] # Idle => worker'[k] = worker[k]

(* Other users and clients call for other intents; what they are credited  *)
(* is theirs.                                                              *)
LEMMA OthersKeepPage ==
  ASSUME TypeOK, PInv, NEW i \in Intent, OthersCall(i)
  PROVE  PInv'
  <1> USE DEF PInv
  <1>1. /\ i \in Others /\ page' = page /\ unheard' = unheard /\ asked' = asked
        /\ credits' = credits
    BY DEF OthersCall, CreateIntent, Refresh, Submit, Take, rows, pageVars
  <1>2. page.intent # i
    BY <1>1, CryptoDepositAssumption DEF PageStands
  <1>3. OthersGo(i)
    <2>1. CASE CreateIntent(i)
      BY <2>1 DEF CreateIntent, SetStatus, TypeOK, OthersGo
    <2>2. ASSUME NEW k \in Worker, CallBegins(k, i) PROVE  OthersGo(i)
      BY <2>2 DEF CallBegins, OthersGo
    <2>3. QED
      BY <2>1, <2>2, RefreshBegins, SubmitBegins, DepositPageAssumption DEF OthersCall
  <1> USE DEF OthersGo
  <1>4. CallsKnown'
    <2> SUFFICES ASSUME NEW k \in Worker, worker'[k] # Idle
                 PROVE  status'[worker'[k].id] # "NONE"
      BY DEF CallsKnown
    <2>1. CASE worker[k] # Idle /\ worker'[k] = worker[k]
      <3>1. worker[k].id \in Intent /\ status[worker[k].id] # "NONE"
        BY <2>1 DEF CallsKnown, TypeOK, Task
      <3>2. QED
        BY <1>3, <2>1, <3>1
    <2>2. QED
      BY <1>3, <2>1
  <1>5. ConfirmedHas'
    BY <1>1, <1>3 DEF ConfirmedHas, HasCredit
  <1>6. PageTypeOK' /\ SuccessIsCredit'
    BY <1>1 DEF PageTypeOK, SuccessIsCredit, ShowsSuccess, HasCredit
  <1>7. PageStands' /\ PageWaits'
    BY <1>1, <1>2, <1>3 DEF PageStands, PageWaits
  <1>8. page.outcome # "none" \/ page.busy \in Worker => page.intent \in Intent
    BY DEF PageStands, PageWaits
  <1>9. OutcomeStands' /\ CallFoundOpen'
    BY <1>1, <1>2, <1>3, <1>8 DEF OutcomeStands, CallFoundOpen
  <1>10. CallsHeard'
    BY <1>1, <1>2, <1>3 DEF CallsHeard
  <1>11. QED
    BY <1>4, <1>5, <1>6, <1>7, <1>9, <1>10

(* Every step keeps the invariant of the page, and is one of the server's  *)
(* or none of its business.                                                *)
LEMMA PageStep == IInv /\ PInv /\ [PageNext]_allVars => PInv' /\ [Next]_vars
  <1> SUFFICES ASSUME IInv, PInv, [PageNext]_allVars
               PROVE  PInv' /\ [Next]_vars
    OBVIOUS
  <1>1. TypeOK
    BY DEF IInv, BooksInv
  <1>2. ASSUME UNCHANGED <<status, credits, worker, pageVars>>
        PROVE  PInv'
    BY <1>2 DEF pageVars, PInv, PageTypeOK, CallsKnown, ConfirmedHas, PageStands,
       PageWaits, CallsHeard, CallFoundOpen, OutcomeStands, SuccessIsCredit, ShowsSuccess,
       HasCredit
  <1>3. CASE UNCHANGED allVars
    BY <1>2, <1>3 DEF allVars, vars, rows
  <1>4. CASE \/ PickNetwork \/ Agree \/ Cancel \/ PressCreate \/ PressSent \/ SentAnswered
             \/ PressForFinal \/ GivesUp \/ Leave
    <2>1. UNCHANGED vars
      BY <1>4 DEF PickNetwork, Agree, Cancel, PressCreate, PressSent, SentAnswered,
         PressForFinal, AnsweredAtOnce, GivesUp, Leave
    <2>2. QED
      BY <1>1, <1>4, <2>1, PageAloneKeepsPage
  <1>5. ASSUME NEW i \in Intent, Created(i) \/ OthersCall(i)
        PROVE  PInv' /\ [Next]_vars
    <2>1. Next
      BY <1>5, DepositPageAssumption DEF Created, OthersCall, Next
    <2>2. QED
      BY <1>1, <1>5, <2>1, CreatedKeepsPage, OthersKeepPage
  <1>6. ASSUME NEW k \in Worker,
               PressRefresh(k) \/ \E x \in Txid : PressSubmit(k, x)
        PROVE  PInv' /\ [Next]_vars
    <2>1. CanAsk /\ Asks(k) /\ page.intent \in Intent
      BY <1>6 DEF PressRefresh, PressSubmit, PInv, PageStands, CanAsk, FormOffered
    <2>2. CallBegins(k, page.intent) /\ Next
      BY <1>1, <1>6, <2>1, RefreshBegins, SubmitBegins DEF PressRefresh, PressSubmit, Next
    <2>3. QED
      BY <1>1, <2>1, <2>2, AskKeepsPage
  <1>7. ASSUME NEW k \in Worker, Goes(k)
        PROVE  PInv' /\ [Next]_vars
    <2>1. OutcomeOf(k) \in Outcome /\ ErrorOutcome \in Outcome
      BY DEF OutcomeOf, ErrorOutcome, Outcome, PInv, PageTypeOK
    <2>2. PInv'
      BY <1>1, <1>7, <2>1, ContinueGoes, CutShortGoes, GoesKeepsPage DEF Goes
    <2>3. QED
      BY <1>7, <2>2 DEF Goes, Next
  <1>8. ASSUME NEW x \in Txid, ChainGrows(x)
        PROVE  PInv' /\ [Next]_vars
    BY <1>2, <1>8 DEF ChainGrows, ChainMoves, Next, rows
  <1>9. QED
    BY <1>3, <1>4, <1>5, <1>6, <1>7, <1>8 DEF PageNext

(* The invariants of the server and of the page hold in every state that   *)
(* the page can bring about.                                               *)
THEOREM PageInvariance == PageSpec => [](IInv /\ PInv)
  <1>1. PageInit => IInv /\ PInv
    BY InitHolds, PageInitHolds DEF PageInit
  <1>2. QED
    BY <1>1, PageStep, DepositStep, PTL DEF PageSpec

(* The page and the others ask nothing of the server that CryptoDeposit    *)
(* does not allow, so what is proved of it holds behind the page.          *)
THEOREM PageImplements == PageSpec => Spec
  <1>1. PageInit => Init
    BY DEF PageInit
  <1>2. QED
    BY <1>1, PageInvariance, PageStep, PTL DEF PageSpec, Spec

(* What wallet/crypto/deposit shows of a deposit is so: a success is a     *)
(* credit, an outcome is the row's status unless an answer was lost, and   *)
(* there is a button to press until the deposit has succeeded.             *)
THEOREM PageTellsTruthHolds == PageSpec => []PageTellsTruth
  BY PageInvariance, PageInvImplies, PTL

-----------------------------------------------------------------------------
(* The verifier. *)

\* Whether s is the form of txid t on a network.
IsForm(network, t, s) ==
    /\ s \in Written /\ s.body = t.body /\ s.spaces = FALSE
    /\ network = "TRC20" => s.prefix = "" /\ s.upper = FALSE
    /\ network # "TRC20" => s.prefix = "" \/ (s.prefix = "0x" /\ s.upper = FALSE)
    /\ normalizeTxIdForStore(network, s) = s

(* What normalizeTxIdForStore makes of a txid.                             *)
LEMMA FormOfTxid ==
  ASSUME NEW network \in Network, NEW t \in Written
  PROVE  IsForm(network, t, normalizeTxIdForStore(network, t))
  <1> DEFINE s == normalizeTxIdForStore(network, t)
  <1>1. trim(t) \in Written /\ trim(t).body = t.body /\ trim(t).prefix = t.prefix
        /\ trim(t).upper = t.upper /\ trim(t).spaces = FALSE
    BY DEF trim, Written
  <1>2. trim(t) = trim(trim(t))
    BY DEF trim, Written
  <1>3. CASE network = "TRC20"
    <2>1. s = [trim(t) EXCEPT !.prefix = "", !.upper = FALSE]
      BY <1>3 DEF normalizeTxIdForStore, normalizeTronTxid
    <2>2. s \in Written /\ s.body = t.body /\ s.spaces = FALSE /\ s.prefix = "" /\ s.upper = FALSE
      BY <1>1, <2>1 DEF Written
    <2> HIDE DEF s
    <2>3. [trim(s) EXCEPT !.prefix = "", !.upper = FALSE] = s
      BY <2>2 DEF Written, trim
    <2>4. normalizeTxIdForStore(network, s) = s
      BY <1>3, <2>3 DEF normalizeTxIdForStore, normalizeTronTxid
    <2>5. QED
      BY <1>3, <2>2, <2>4 DEF IsForm, s
  <1>4. CASE network # "TRC20" /\ (t.prefix # "" \/ t.body \in Hash)
    <2>1. s = [trim(t) EXCEPT !.prefix = "0x", !.upper = FALSE]
      BY <1>4 DEF normalizeTxIdForStore, normalizeEvmTxid
    <2>2. s \in Written /\ s.body = t.body /\ s.spaces = FALSE /\ s.prefix = "0x" /\ s.upper = FALSE
      BY <1>1, <2>1 DEF Written
    <2> HIDE DEF s
    <2>3. [trim(s) EXCEPT !.prefix = "0x", !.upper = FALSE] = s
      BY <2>2 DEF Written, trim
    <2>4. normalizeTxIdForStore(network, s) = s
      BY <1>4, <2>2, <2>3 DEF normalizeTxIdForStore, normalizeEvmTxid
    <2>5. QED
      BY <1>4, <2>2, <2>4 DEF IsForm, s
  <1>5. CASE network # "TRC20" /\ t.prefix = "" /\ t.body \notin Hash
    <2>1. s = trim(t)
      BY <1>5 DEF normalizeTxIdForStore, normalizeEvmTxid
    <2>2. s \in Written /\ s.body = t.body /\ s.spaces = FALSE /\ s.prefix = ""
      BY <1>1, <1>5, <2>1
    <2> HIDE DEF s
    <2>3. normalizeTxIdForStore(network, s) = s
      BY <1>2, <1>5, <2>1, <2>2 DEF normalizeTxIdForStore, normalizeEvmTxid
    <2>4. QED
      BY <1>5, <2>2, <2>3 DEF IsForm, s
  <1>6. QED
    BY <1>3, <1>4, <1>5

(* A txid has one form, on either network.                                 *)
LEMMA OneForm == OneFormPerTxid
  <1> SUFFICES ASSUME NEW network \in Network, NEW t \in Written,
                      NEW stored, stored = normalizeTxIdForStore(network, t)
               PROVE  /\ LookedUp(network, t) = stored
                      /\ normalizeTxIdForStore(network, stored) = stored
                      /\ \A u \in Written :
                           Names(network, stored)
                               \cap Names(network, normalizeTxIdForStore(network, u)) # {}
                             => stored = normalizeTxIdForStore(network, u)
    BY DEF OneFormPerTxid
  <1>1. LookedUp(network, t) = stored
    BY DEF LookedUp, normalizeTxIdForStore
  <1>2. ASSUME NEW u \in Written, NEW other, other = normalizeTxIdForStore(network, u),
               Names(network, stored) \cap Names(network, other) # {}
        PROVE  stored = other
    <2>1. stored.body = other.body /\ stored.prefix = other.prefix
          /\ stored.prefix = (IF network = "TRC20" THEN "" ELSE "0x")
      BY <1>2 DEF Names
    <2>2. IsForm(network, t, stored) /\ IsForm(network, u, other)
      BY <1>2, FormOfTxid
    <2>3. stored.upper = FALSE /\ other.upper = FALSE
      BY <2>1, <2>2 DEF IsForm
    <2>4. ASSUME NEW w \in Written
          PROVE  w = [body |-> w.body, prefix |-> w.prefix, upper |-> w.upper, spaces |-> w.spaces]
      BY DEF Written
    <2>5. QED
      BY <2>1, <2>2, <2>3, <2>4 DEF IsForm
  <1>3. IsForm(network, t, stored)
    BY FormOfTxid
  <1>4. QED
    BY <1>1, <1>2, <1>3 DEF IsForm

(* Finitely many numbers have a greatest and a least.                      *)
LEMMA Extremes ==
  ASSUME NEW S, S \subseteq Int, IsFiniteSet(S), S # {}
  PROVE  Max(S) \in S /\ Min(S) \in S
  <1> DEFINE K == {T \in SUBSET S : T = {} \/ ((\E x \in T : \A y \in T : x >= y)
                                               /\ (\E x \in T : \A y \in T : x <= y))}
  <1>1. ASSUME NEW T \in SUBSET S, T # {}, \A x \in T : T \ {x} \in K
        PROVE  T \in K
    <2>1. PICK z \in T : T \ {z} \in K
      BY <1>1
    <2>2. CASE T \ {z} = {}
      BY <2>1, <2>2
    <2>3. CASE T \ {z} # {}
      <3>1. PICK x \in T \ {z} : \A y \in T \ {z} : x >= y
        BY <2>1, <2>3
      <3>2. PICK w \in T \ {z} : \A y \in T \ {z} : w <= y
        BY <2>1, <2>3
      <3>3. \E v \in T : \A y \in T : v >= y
        <4>1. CASE x >= z
          BY <3>1, <4>1
        <4>2. CASE ~ (x >= z)
          BY <2>1, <3>1, <4>2
        <4>3. QED
          BY <4>1, <4>2
      <3>4. \E v \in T : \A y \in T : v <= y
        <4>1. CASE w <= z
          BY <3>2, <4>1
        <4>2. CASE ~ (w <= z)
          BY <2>1, <3>2, <4>2
        <4>3. QED
          BY <4>1, <4>2
      <3>5. QED
        BY <3>3, <3>4
    <2>4. QED
      BY <2>2, <2>3
  <1>2. SUBSET S \subseteq K
    <2>1. {} \in K
      OBVIOUS
    <2> HIDE DEF K
    <2>2. QED
      BY <1>1, <2>1, SubsetSets
  <1>3. QED
    BY <1>2 DEF Max, Min

(* The amount is that of a transfer to the platform.                       *)
LEMMA AmountIsTransfer ==
  ASSUME NEW network, NEW tx \in Tx, Transfers(tx) # {}
  PROVE  \E n \in DOMAIN tx.logs : Counts(tx.logs[n]) /\ tx.logs[n] \in Log
                                   /\ AmountOf(network, tx) = tx.logs[n].value
  <1>1. PICK m \in 0..MaxLogs : tx.logs \in [1..m -> Log]
    BY OnchainVerifyAssumption DEF Tx, SeqOf
  <1>2. Transfers(tx) \subseteq 1..m /\ \A n \in Transfers(tx) : tx.logs[n] \in Log /\ Counts(tx.logs[n])
    BY <1>1 DEF Transfers
  <1>3. IsFiniteSet(Transfers(tx))
    BY <1>1, <1>2, FS_Interval, FS_Subset
  <1>4. CASE network = "TRC20"
    <2> DEFINE Amounts == {tx.logs[n].value : n \in Transfers(tx)}
               amount == [n \in Transfers(tx) |-> tx.logs[n].value]
    <2>1. IsFiniteSet(Amounts)
      <3>1. amount \in Surjection(Transfers(tx), Amounts)
        BY DEF Surjection
      <3> HIDE DEF Amounts, amount
      <3>2. QED
        BY <1>3, <3>1, FS_Surjection DEF ExistsSurjection
    <2>2. Amounts \subseteq Int /\ Amounts # {}
      <3>1. \A n \in Transfers(tx) : tx.logs[n].value \in Value
        BY <1>2 DEF Log
      <3>2. Value \subseteq Int
        BY OnchainVerifyAssumption
      <3>3. QED
        BY <3>1, <3>2
    <2>3. Max(Amounts) \in Amounts
      <3> HIDE DEF Amounts
      <3> QED
        BY <2>1, <2>2, Extremes
    <2>4. AmountOf(network, tx) = Max(Amounts)
      BY <1>4 DEF AmountOf
    <2>5. QED
      BY <1>1, <1>2, <2>3, <2>4
  <1>5. CASE network # "TRC20"
    <2>1. Transfers(tx) \subseteq Int
      BY <1>1, <1>2
    <2>2. Min(Transfers(tx)) \in Transfers(tx)
      BY <1>3, <2>1, Extremes
    <2>3. QED
      BY <1>1, <1>2, <1>5, <2>2 DEF AmountOf
  <1>6. QED
    BY <1>4, <1>5

\* A transfer of this amount reached the platform, in log n.
Transferred(tx, n, amount) ==
    tx.logs[n] = [usdt |-> TRUE, platform |-> TRUE, value |-> amount]

(* A log that counts is a transfer of its value.                           *)
LEMMA CountedLog ==
  ASSUME NEW log \in Log, Counts(log)
  PROVE  /\ log = [usdt |-> TRUE, platform |-> TRUE, value |-> log.value]
         /\ log.value \in Nat
  <1>1. log = [usdt |-> log.usdt, platform |-> log.platform, value |-> log.value]
    BY DEF Log
  <1>2. log.usdt = TRUE /\ log.platform = TRUE
    BY Zenon DEF Log, Counts
  <1>3. log.value \in Nat
    BY OnchainVerifyAssumption DEF Log
  <1>4. QED
    BY <1>1, <1>2, <1>3

\* The answer of the node is a refusal of the transaction or of what is known
\* of it, or the amount and how deep it is.
Refusal(tx, amount, v) ==
    /\ v.ok = FALSE
    /\ v.code \in Fatal => Transfers(tx) = {} \/ amount + 1 < MinNet + ServiceFee
Acceptance(tx, amount, depth, v) ==
    /\ v.ok = TRUE /\ v.amount = amount /\ v.confirmations = depth /\ depth \in Int
    /\ tx.success /\ Transfers(tx) # {}

(* verifyUsdtIncomingPayment refuses or accepts.                           *)
LEMMA AnswerForms ==
  ASSUME NEW network, NEW tx \in Tx, NEW view \in View,
         NEW v, v = verifyUsdtIncomingPayment(network, tx, view)
  PROVE  \/ Refusal(tx, AmountOf(network, tx), v)
         \/ Acceptance(tx, AmountOf(network, tx), Confirmations(network, tx, view), v)
  <1>1. Confirmations(network, tx, view) \in Int
    <2>1. view.head \in Height
      BY DEF View
    <2>2. tx.block \in Height
      BY DEF Tx
    <2>3. view.head \in Int /\ tx.block \in Int
      <3>1. \A n \in Height : n \in Int
        BY OnchainVerifyAssumption
      <3>2. QED
        BY <2>1, <2>2, <3>1, Zenon
    <2>4. view.head - tx.block + 1 \in Int
      BY <2>3
    <2>5. QED
      BY <2>4 DEF Confirmations
  <1>2. \A code \in {"RPC_ERROR", "NOT_FOUND", "NOT_CONFIRMED"} :
          No(code).ok = FALSE /\ No(code).code \notin Fatal
    BY DEF No, Fatal
  <1>3. \A code \in {"WRONG_RECIPIENT", "AMOUNT_BELOW_MIN"} : No(code).ok = FALSE
    BY DEF No
  <1> DEFINE yes == [ok |-> TRUE, amount |-> AmountOf(network, tx),
                     confirmations |-> Confirmations(network, tx, view)]
  <1>4. yes.ok = TRUE /\ yes.amount = AmountOf(network, tx)
        /\ yes.confirmations = Confirmations(network, tx, view)
    OBVIOUS
  <1>5. \/ \E code \in {"RPC_ERROR", "NOT_FOUND", "NOT_CONFIRMED"} : v = No(code)
        \/ Transfers(tx) = {} /\ v = No("WRONG_RECIPIENT")
        \/ AmountOf(network, tx) + 1 < MinNet + ServiceFee /\ v = No("AMOUNT_BELOW_MIN")
        \/ tx.success /\ Transfers(tx) # {} /\ v = yes
    <2>1. v = CASE view.tells = "error"   -> No("RPC_ERROR")
                [] view.tells = "nothing" -> No("NOT_FOUND")
                [] ~tx.success            -> No("NOT_CONFIRMED")
                [] Transfers(tx) = {}     -> No("WRONG_RECIPIENT")
                [] AmountOf(network, tx) + 1 < MinNet + ServiceFee -> No("AMOUNT_BELOW_MIN")
                [] network = "TRC20" /\ view.tells = "no block"    -> No("NOT_CONFIRMED")
                [] OTHER -> yes
      BY DEF verifyUsdtIncomingPayment
    <2> HIDE DEF yes
    <2>2. CASE view.tells \in {"error", "nothing"} \/ ~tx.success
      BY <2>1, <2>2, Zenon
    <2>3. QED
      BY <2>1, <2>2
  <1> HIDE DEF yes
  <1>6. QED
    BY <1>1, <1>2, <1>3, <1>4, <1>5 DEF Refusal, Acceptance

(* What makes a deposit CONFIRMED.                                         *)
LEMMA Confirmed ==
  ASSUME NEW network, NEW tx \in Tx, NEW view \in View,
         Verdict(network, tx, view).status = "CONFIRMED"
  PROVE  /\ tx.success /\ Transfers(tx) # {}
         /\ ~ (AmountOf(network, tx) - ServiceFee < MinNet)
         /\ Verdict(network, tx, view).credit = AmountOf(network, tx) - ServiceFee
         /\ Confirmations(network, tx, view) >= Required
  <1> DEFINE v == verifyUsdtIncomingPayment(network, tx, view)
             paid == [status |-> "CONFIRMED", credit |-> v.amount - ServiceFee]
  <1>1. /\ Pending.status # "CONFIRMED" /\ Failed.status # "CONFIRMED"
        /\ paid.credit = v.amount - ServiceFee
    BY DEF Pending, Failed
  <1>2. Verdict(network, tx, view) =
          CASE ~v.ok -> IF v.code \in Fatal THEN Failed ELSE Pending
            [] v.ok /\ v.confirmations < Required -> Pending
            [] v.ok /\ v.confirmations >= Required ->
                 IF v.amount - ServiceFee < MinNet THEN Failed ELSE paid
    BY DEF Verdict
  <1>3. \/ Refusal(tx, AmountOf(network, tx), v)
        \/ Acceptance(tx, AmountOf(network, tx), Confirmations(network, tx, view), v)
    BY AnswerForms
  <1> HIDE DEF v, paid
  <1>4. CASE Refusal(tx, AmountOf(network, tx), v)
    BY <1>1, <1>2, <1>4 DEF Refusal
  <1>5. CASE Acceptance(tx, AmountOf(network, tx), Confirmations(network, tx, view), v)
    BY <1>1, <1>2, <1>5, OnchainVerifyAssumption DEF Acceptance
  <1>6. QED
    BY <1>3, <1>4, <1>5

(* What makes it FAILED lies in the transaction, and not in what the node  *)
(* knows of it.                                                            *)
LEMMA FailedIsFinal ==
  ASSUME NEW network, NEW tx \in Tx, NEW view \in View,
         Verdict(network, tx, view) = Failed
  PROVE  \/ Transfers(tx) = {}
         \/ AmountOf(network, tx) + 1 < MinNet + ServiceFee
         \/ AmountOf(network, tx) - ServiceFee < MinNet
  <1> DEFINE v == verifyUsdtIncomingPayment(network, tx, view)
             paid == [status |-> "CONFIRMED", credit |-> v.amount - ServiceFee]
  <1>1. Pending # Failed /\ paid # Failed
    BY DEF Pending, Failed
  <1>2. Verdict(network, tx, view) =
          CASE ~v.ok -> IF v.code \in Fatal THEN Failed ELSE Pending
            [] v.ok /\ v.confirmations < Required -> Pending
            [] v.ok /\ v.confirmations >= Required ->
                 IF v.amount - ServiceFee < MinNet THEN Failed ELSE paid
    BY DEF Verdict
  <1>3. \/ Refusal(tx, AmountOf(network, tx), v)
        \/ Acceptance(tx, AmountOf(network, tx), Confirmations(network, tx, view), v)
    BY AnswerForms
  <1> HIDE DEF v, paid
  <1>4. CASE Refusal(tx, AmountOf(network, tx), v)
    BY <1>1, <1>2, <1>4 DEF Refusal
  <1>5. CASE Acceptance(tx, AmountOf(network, tx), Confirmations(network, tx, view), v)
    BY <1>1, <1>2, <1>5, OnchainVerifyAssumption DEF Acceptance
  <1>6. QED
    BY <1>3, <1>4, <1>5

(* What is credited has been paid, with the fee, and is deep enough.       *)
LEMMA Backed == CreditIsBacked
  <1> SUFFICES ASSUME NEW network \in Network, NEW tx \in Tx, NEW view \in View,
                      NEW o, o = Verdict(network, tx, view), o.status = "CONFIRMED"
               PROVE  /\ tx.success /\ view.head - tx.block + 1 >= Required
                      /\ \E n \in DOMAIN tx.logs : Transferred(tx, n, o.credit + ServiceFee)
                      /\ o.credit >= MinNet
    BY DEF CreditIsBacked, Transferred
  <1>1. /\ tx.success /\ Transfers(tx) # {}
        /\ ~ (AmountOf(network, tx) - ServiceFee < MinNet)
        /\ o.credit = AmountOf(network, tx) - ServiceFee
        /\ Confirmations(network, tx, view) >= Required
    BY Confirmed
  <1>2. PICK n \in DOMAIN tx.logs : Counts(tx.logs[n]) /\ tx.logs[n] \in Log
                                    /\ AmountOf(network, tx) = tx.logs[n].value
    BY <1>1, AmountIsTransfer
  <1>3. Transferred(tx, n, tx.logs[n].value) /\ tx.logs[n].value \in Nat
    BY <1>2, CountedLog DEF Transferred
  <1>4. view.head - tx.block + 1 >= Required
    BY <1>1, OnchainVerifyAssumption DEF Confirmations
  <1>5. o.credit + ServiceFee = tx.logs[n].value /\ o.credit >= MinNet
    BY <1>1, <1>2, <1>3, OnchainVerifyAssumption
  <1>6. QED
    BY <1>1, <1>3, <1>4, <1>5

(* What has failed would be credited at no other time.                     *)
LEMMA ForGood == FailedForGood
  <1> SUFFICES ASSUME NEW network \in Network, NEW tx \in Tx, NEW v \in View, NEW w \in View,
                      Verdict(network, tx, v) = Failed,
                      Verdict(network, tx, w).status = "CONFIRMED"
               PROVE  FALSE
    BY DEF FailedForGood
  <1>1. Transfers(tx) # {} /\ ~ (AmountOf(network, tx) - ServiceFee < MinNet)
    BY Confirmed
  <1>2. AmountOf(network, tx) \in Nat
    BY <1>1, AmountIsTransfer, CountedLog
  <1>3. QED
    BY <1>1, <1>2, FailedIsFinal, OnchainVerifyAssumption

(* Whatever a node may say of a transaction, and however users write its   *)
(* txid: it has one name, what is credited was paid, and what is failed    *)
(* could never be credited (onchain-verify.ts and submitDepositTxid).      *)
THEOREM VerifierSound == VerifierIsSound
  BY OneForm, Backed, ForGood DEF VerifierIsSound

(* The rows behind the page are what they may be, and the verifier that    *)
(* CryptoDeposit takes as given is sound.                                  *)
THEOREM VerifiedSoundlyHolds == PageSpec => []VerifiedSoundly
  <1>1. IInv => VerifiedSoundly
    BY VerifierSound DEF IInv, BooksInv, VerifiedSoundly
  <1>2. QED
    BY <1>1, PageInvariance, PTL

=============================================================================
