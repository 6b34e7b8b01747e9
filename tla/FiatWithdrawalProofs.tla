------------------------ MODULE FiatWithdrawalProofs ------------------------
(***************************************************************************)
(* No withdrawal that PawaPay pays out is given back by the request or by  *)
(* a callback, unless PawaPay's own answer was an error; whatever the      *)
(* number of calls, callbacks and reviews served at once, and wherever     *)
(* they are cut short.                                                     *)
(*                                                                         *)
(* The invariant follows the bad news: a FAILED callback, a worker on the  *)
(* way to the reversal, and the reversal itself exist only for a payout    *)
(* PawaPay has refused or failed, or answered with an error; and such a    *)
(* payout is never completed, or keeps its error for ever.                 *)
(***************************************************************************)
EXTENDS FiatWithdrawal, SumLemmas, TLAPS

Errs(w) == withdrawal[w] # Absent /\ withdrawal[w].httpError
Dead(w) == provider[w] \in {"rejected", "failed"} \/ Errs(w)

UnwindingStep == {"FAILED", "failAgain", "void", "reverse"}

WorkersKnow ==
    \A k \in Worker :
      worker[k] # Idle /\ worker[k].step \in UnwindingStep => Dead(worker[k].id)

RowsExist ==
    \A k \in Worker : worker[k] # Idle /\ worker[k].step # "debit" =>
      withdrawal[worker[k].id] # Absent

CallbacksKnow ==
    \A w \in Withdrawal : "FAILED" \in sent[w] => provider[w] \in {"rejected", "failed"}

ReversalsKnow == \A w \in Withdrawal : reversed[w] # 0 => Dead(w)

\* A request about to debit is alone with its identifier.
DebitsFresh ==
    \A k \in Worker : worker[k] # Idle /\ worker[k].step = "debit" =>
      /\ withdrawal[worker[k].id] = Absent
      /\ \A j \in Worker \ {k} : worker[j] # Idle => worker[j].id # worker[k].id

IInv ==
    /\ TypeOK
    /\ WorkersKnow
    /\ RowsExist
    /\ DebitsFresh
    /\ CallbacksKnow
    /\ ReversalsKnow

-----------------------------------------------------------------------------

\* No payout has been requested yet.
LEMMA InitHolds == Init => IInv
  BY WithdrawalAssumption
  DEF Init, IInv, TypeOK, WorkersKnow, RowsExist, DebitsFresh, CallbacksKnow, ReversalsKnow, Idle, Absent

\* The property is a part of the inductive invariant.
LEMMA InvImplies == IInv => NeverPaidAndReversed
  BY DEF IInv, TypeOK, ReversalsKnow, Dead, Errs, NeverPaidAndReversed, Made

(* A worker at a step is a task, not idle. *)
LEMMA WorkerAtStep ==
  ASSUME TypeOK, NEW k \in Worker, NEW step, At(k, step), step # "idle"
  PROVE  worker[k] \in Task /\ worker[k] # Idle /\ worker[k].step = step
  BY DEF TypeOK, At, Idle, Task

(* A call that reads the wallet keeps its place. *)
SameTasks ==
    \A k \in Worker : /\ worker'[k] # Idle <=> worker[k] # Idle
                      /\ worker'[k].step = worker[k].step
                      /\ worker'[k] # Idle => /\ worker'[k].id = worker[k].id
                                             /\ worker'[k].amount = worker[k].amount

\* Reading the wallet changes nothing but what the call has seen.
LEMMA ReadKeepsTasks ==
  ASSUME TypeOK, NEW k \in Worker, ReadBalance(k)
  PROVE  /\ TypeOK' /\ SameTasks /\ UNCHANGED <<rows, money, psp, failures>>
         /\ worker'[k].seen = balance
         /\ \A j \in Worker : j # k => worker'[j] = worker[j]
  <1> DEFINE task == [worker[k] EXCEPT !.seen = balance]
  <1>1. worker[k] \in Task /\ worker[k] # Idle
    BY WorkerAtStep DEF ReadBalance
  <1>2. /\ task \in Task /\ task.step = worker[k].step /\ task.id = worker[k].id
        /\ task.amount = worker[k].amount /\ task.seen = balance
    BY <1>1 DEF Task, TypeOK
  <1>3. worker' = [worker EXCEPT ![k] = task] /\ UNCHANGED <<rows, money, psp, failures>>
    BY DEF ReadBalance
  <1>4. task # Idle
    <2>1. worker[k].step # "idle"
      BY <1>1 DEF Task
    <2>2. QED
      BY <1>2, <2>1 DEF Idle
  <1> HIDE DEF task
  <1>5. worker'[k] = task /\ \A j \in Worker : j # k => worker'[j] = worker[j]
    BY <1>3 DEF TypeOK
  <1>6. TypeOK'
    BY <1>2, <1>3 DEF TypeOK, rows, money, wallet, day, psp
  <1>7. SameTasks
    BY <1>1, <1>2, <1>4, <1>5 DEF SameTasks
  <1>8. QED
    BY <1>2, <1>3, <1>5, <1>6, <1>7

\* So it keeps everything that is known of the calls.
LEMMA ReadPreserves ==
  ASSUME IInv, NEW k \in Worker, ReadBalance(k)
  PROVE  IInv'
  <1>1. TypeOK' /\ SameTasks /\ UNCHANGED <<rows, money, psp, failures>>
    BY ReadKeepsTasks DEF IInv
  <1>2. \A w \in Withdrawal : Dead(w)' <=> Dead(w)
    BY <1>1 DEF Dead, Errs, rows, psp
  <1>3. \A j \in Worker : worker[j] # Idle => worker[j].id \in Withdrawal
    BY DEF IInv, TypeOK, Task
  <1>4. WorkersKnow'
    BY <1>1, <1>2, <1>3 DEF IInv, WorkersKnow, SameTasks
  <1>5. RowsExist' /\ DebitsFresh'
    BY <1>1, <1>3 DEF IInv, RowsExist, DebitsFresh, SameTasks, rows
  <1>6. CallbacksKnow' /\ ReversalsKnow'
    BY <1>1, <1>2 DEF IInv, CallbacksKnow, ReversalsKnow, psp, money
  <1>7. QED
    BY <1>1, <1>4, <1>5, <1>6 DEF IInv

Debits(k, w) == worker[k] # Idle /\ worker[k].step = "debit" /\ worker[k].id = w

(* A worker takes up its own withdrawal, one that has a row, or a new one. *)
MayHold(k, task) ==
    \/ worker[k] # Idle /\ task.id = worker[k].id /\ task.step # "debit"
    \/ task.step # "debit" /\ withdrawal[task.id] # Absent
    \/ /\ withdrawal'[task.id] = Absent
       /\ \A j \in Worker : worker[j] # Idle => worker[j].id # task.id

(* What a call does to the rows and the reversals, and to its own task. *)
CallStep(k) ==
    /\ UNCHANGED psp
    /\ \E task \in {Idle} \cup Task :
         /\ worker' = [worker EXCEPT ![k] = task]
         /\ task # Idle => /\ task.step \in UnwindingStep => Dead(task.id)'
                           /\ task.step # "debit" => withdrawal'[task.id] # Absent
                           /\ MayHold(k, task)
    /\ \A w \in Withdrawal : /\ withdrawal[w] # Absent => withdrawal'[w] # Absent
                             /\ Dead(w) => Dead(w)'
                             /\ \/ withdrawal'[w] # Absent => withdrawal[w] # Absent
                                \/ Debits(k, w)
    /\ \A w \in Withdrawal : reversed'[w] # 0 => reversed[w] # 0 \/ Dead(w)

\* A step of a request or a callback on the withdrawal it serves.
LEMMA CallStepPreserves ==
  ASSUME IInv, TypeOK', NEW k \in Worker, CallStep(k)
  PROVE  IInv'
  <1> USE DEF IInv
  <1>1. PICK task \in {Idle} \cup Task :
          /\ worker' = [worker EXCEPT ![k] = task]
          /\ task # Idle => /\ task.step \in UnwindingStep => Dead(task.id)'
                            /\ task.step # "debit" => withdrawal'[task.id] # Absent
                            /\ MayHold(k, task)
    BY DEF CallStep
  <1>2. \A w \in Withdrawal : /\ withdrawal[w] # Absent => withdrawal'[w] # Absent
                              /\ Dead(w) => Dead(w)'
                              /\ \/ withdrawal'[w] # Absent => withdrawal[w] # Absent
                                 \/ Debits(k, w)
    BY DEF CallStep
  <1>3. ASSUME NEW j \in Worker, worker'[j] # Idle, j # k
        PROVE  worker'[j] = worker[j] /\ worker[j].id \in Withdrawal
    BY <1>1, <1>3 DEF TypeOK, Task
  <1>4. worker'[k] = task
    BY <1>1 DEF TypeOK
  <1>5. WorkersKnow'
    <2> SUFFICES ASSUME NEW j \in Worker, worker'[j] # Idle,
                        worker'[j].step \in UnwindingStep
                 PROVE  Dead(worker[j].id)'
      BY DEF WorkersKnow
    <2>1. CASE j = k
      BY <1>1, <1>4, <2>1 DEF Dead, Errs
    <2>2. CASE j # k
      BY <1>2, <1>3, <2>2 DEF WorkersKnow, Dead, Errs
    <2>3. QED
      BY <2>1, <2>2
  <1>6. RowsExist'
    <2> SUFFICES ASSUME NEW j \in Worker, worker'[j] # Idle, worker'[j].step # "debit"
                 PROVE  withdrawal'[worker'[j].id] # Absent
      BY DEF RowsExist
    <2>1. CASE j = k
      BY <1>1, <1>4, <2>1
    <2>2. CASE j # k
      BY <1>2, <1>3, <2>2 DEF RowsExist
    <2>3. QED
      BY <2>1, <2>2
  <1>7. CallbacksKnow'
    BY DEF CallbacksKnow, CallStep, psp
  <1>8. ReversalsKnow'
    BY <1>2 DEF ReversalsKnow, CallStep
  <1>9. DebitsFresh'
    <2> SUFFICES ASSUME NEW j \in Worker, worker'[j] # Idle, worker'[j].step = "debit"
                 PROVE  /\ withdrawal'[worker'[j].id] = Absent
                        /\ \A i \in Worker \ {j} :
                             worker'[i] # Idle => worker'[i].id # worker'[j].id
      BY DEF DebitsFresh
    <2>1. CASE j = k
      BY <1>1, <1>3, <1>4, <2>1 DEF MayHold
    <2>2. CASE j # k
      <3>1. worker'[j] = worker[j] /\ worker[j].id \in Withdrawal
        BY <1>3, <2>2
      <3>2. /\ withdrawal[worker[j].id] = Absent
            /\ \A i \in Worker \ {j} : worker[i] # Idle => worker[i].id # worker[j].id
        BY <3>1 DEF DebitsFresh
      <3>3. withdrawal'[worker[j].id] = Absent
        BY <1>2, <2>2, <3>1, <3>2 DEF Debits
      <3>4. worker'[k] # Idle => worker'[k].id # worker[j].id
        BY <1>1, <1>4, <2>2, <3>1, <3>2 DEF MayHold
      <3>5. QED
        BY <1>3, <3>1, <3>2, <3>3, <3>4
    <2>3. QED
      BY <2>1, <2>2
  <1>10. QED
    BY <1>5, <1>6, <1>7, <1>8, <1>9

-----------------------------------------------------------------------------

(* Writing a row that exists: it stays a row, and keeps its error. *)
LEMMA RowWrites ==
  ASSUME TypeOK, NEW w \in Withdrawal, withdrawal[w] # Absent,
         NEW status \in {"SUCCESS", "FAILED"},
         SetStatus(w, status) \/ HttpError(w) \/ Review(w, status),
         UNCHANGED provider
  PROVE  /\ withdrawal' \in [Withdrawal -> {Absent} \cup Row]
         /\ \A v \in Withdrawal : /\ withdrawal[v] # Absent => withdrawal'[v] # Absent
                                  /\ Dead(v) => Dead(v)'
                                  /\ withdrawal'[v] # Absent => withdrawal[v] # Absent
                                  /\ withdrawal'[v].amount = withdrawal[v].amount
         /\ HttpError(w) => Dead(w)'
  <1>1. withdrawal[w] \in Row
    BY DEF TypeOK
  <1>2. PICK row \in Row :
          /\ withdrawal' = [withdrawal EXCEPT ![w] = row]
          /\ withdrawal[w].httpError => row.httpError
          /\ HttpError(w) => row.httpError
          /\ row.amount = withdrawal[w].amount
    <2>1. CASE SetStatus(w, status) /\ ~ HttpError(w)
      <3>1. [withdrawal[w] EXCEPT !.status = status] \in Row
            /\ [withdrawal[w] EXCEPT !.status = status].httpError = withdrawal[w].httpError
            /\ [withdrawal[w] EXCEPT !.status = status].amount = withdrawal[w].amount
        BY <1>1 DEF Row
      <3>2. withdrawal' = [withdrawal EXCEPT ![w] = [withdrawal[w] EXCEPT !.status = status]]
        BY <2>1 DEF SetStatus
      <3>3. QED
        BY <2>1, <3>1, <3>2
    <2>2. CASE Review(w, status) /\ ~ HttpError(w)
      <3> DEFINE row == [withdrawal[w] EXCEPT !.status = status, !.reviewed = TRUE]
      <3>1. row \in Row /\ row.httpError = withdrawal[w].httpError
            /\ row.amount = withdrawal[w].amount
        BY <1>1 DEF Row
      <3>2. withdrawal' = [withdrawal EXCEPT ![w] = row]
        BY <1>1, <2>2 DEF Review, TypeOK
      <3>3. QED
        BY <2>2, <3>1, <3>2
    <2>3. CASE HttpError(w)
      <3> DEFINE row == [withdrawal[w] EXCEPT !.status = "FAILED", !.httpError = TRUE]
      <3>1. row \in Row /\ row.httpError = TRUE /\ row.amount = withdrawal[w].amount
        BY <1>1 DEF Row
      <3>2. withdrawal' = [withdrawal EXCEPT ![w] = row]
        BY <1>1, <2>3 DEF HttpError, TypeOK
      <3>3. QED
        BY <2>3, <3>1, <3>2
    <2>4. QED
      BY <2>1, <2>2, <2>3
  <1>3. row # Absent
    BY DEF Row, Absent
  <1>4. QED
    BY <1>2, <1>3 DEF TypeOK, Dead, Errs

(* The steps that write the status of a row. *)
LEMMA StatusStepsAreCallSteps ==
  ASSUME IInv, NEW k \in Worker,
         \/ ResponseError(k) \/ FailAgain(k) \/ PayoutCompleted(k)
         \/ PayoutFailed(k) \/ Approve(k) \/ MarkRejected(k)
  PROVE  TypeOK' /\ CallStep(k)
  <1> USE DEF IInv
  <1>1. worker[k] \in Task /\ worker[k] # Idle /\ worker[k].step # "debit"
    BY WorkerAtStep DEF ResponseError, FailAgain, PayoutCompleted, PayoutFailed,
       Approve, MarkRejected, At
  <1>2. PICK w \in Withdrawal : w = worker[k].id /\ withdrawal[w] # Absent
    BY <1>1 DEF Task, RowsExist
  <1>3. UNCHANGED <<payout, money, psp, failures>>
    BY DEF ResponseError, FailAgain, PayoutCompleted, PayoutFailed, Approve,
           MarkRejected, rows
  <1>4. ASSUME NEW step \in {"failAgain", "void", "confirm"}
        PROVE  [worker[k] EXCEPT !.step = step] \in Task
               /\ [worker[k] EXCEPT !.step = step].step = step
               /\ [worker[k] EXCEPT !.step = step].id = w
    BY <1>1, <1>2 DEF Task
  <1>5. ASSUME NEW status \in {"SUCCESS", "FAILED"},
               SetStatus(w, status) \/ HttpError(w) \/ Review(w, status),
               NEW task \in {Idle} \cup Task,
               worker' = [worker EXCEPT ![k] = task],
               task # Idle => /\ task.id = w /\ task.step # "debit"
                              /\ task.step \in UnwindingStep => Dead(w)'
        PROVE  TypeOK' /\ CallStep(k)
    <2>1. /\ withdrawal' \in [Withdrawal -> {Absent} \cup Row]
          /\ \A v \in Withdrawal : /\ withdrawal[v] # Absent => withdrawal'[v] # Absent
                                   /\ Dead(v) => Dead(v)'
                                   /\ withdrawal'[v] # Absent => withdrawal[v] # Absent
      BY <1>2, <1>3, <1>5, RowWrites DEF psp
    <2>2. TypeOK'
      BY <1>3, <1>5, <2>1 DEF TypeOK, money, wallet, day, psp
    <2>3. CallStep(k)
      BY <1>1, <1>2, <1>3, <1>5, <2>1 DEF CallStep, MayHold, money
    <2>4. QED
      BY <2>2, <2>3
  <1>6. CASE ResponseError(k)
    <2>1. HttpError(w) /\ Goto(k, "failAgain")
      BY <1>2, <1>6 DEF ResponseError
    <2>2. Dead(w)'
      BY <1>2, <1>3, <2>1, RowWrites DEF psp
    <2>3. QED
      BY <1>2, <1>4, <1>5, <2>1, <2>2 DEF Goto
  <1>7. CASE FailAgain(k)
    <2>1. HttpError(w) /\ Goto(k, "void")
      BY <1>2, <1>7 DEF FailAgain
    <2>2. Dead(w)'
      BY <1>2, <1>3, <2>1, RowWrites DEF psp
    <2>3. QED
      BY <1>2, <1>4, <1>5, <2>1, <2>2 DEF Goto
  <1>8. CASE PayoutCompleted(k) /\ withdrawal[w].status = "PENDING"
    <2>1. SetStatus(w, "SUCCESS") /\ Goto(k, "confirm")
      BY <1>2, <1>8 DEF PayoutCompleted
    <2>2. QED
      BY <1>2, <1>4, <1>5, <2>1 DEF Goto, UnwindingStep
  <1>9. CASE PayoutFailed(k) /\ withdrawal[w].status = "PENDING"
    <2>1. SetStatus(w, "FAILED") /\ Goto(k, "void") /\ Dead(w)
      BY <1>1, <1>2, <1>9 DEF PayoutFailed, WorkersKnow, UnwindingStep, At
    <2>2. Dead(w)'
      BY <1>2, <1>3, <2>1, RowWrites DEF psp
    <2>3. QED
      BY <1>2, <1>4, <1>5, <2>1, <2>2 DEF Goto
  <1>10. CASE (PayoutCompleted(k) \/ PayoutFailed(k)) /\ withdrawal[w].status # "PENDING"
    <2>1. Ends(k) /\ UNCHANGED withdrawal
      BY <1>2, <1>10 DEF PayoutCompleted, PayoutFailed
    <2>2. QED
      BY <1>3, <2>1 DEF TypeOK, CallStep, Ends, money, wallet, day, psp, Dead, Errs
  <1>11. CASE Approve(k) \/ MarkRejected(k)
    <2>1. PICK status \in {"SUCCESS", "FAILED"} : Review(w, status) /\ Ends(k)
      BY <1>2, <1>11 DEF Approve, MarkRejected
    <2>2. QED
      BY <1>5, <2>1 DEF Ends
  <1>12. QED
    BY <1>6, <1>7, <1>8, <1>9, <1>10, <1>11

(* The steps that leave the rows' status alone. *)
LEMMA OtherStepsAreCallSteps ==
  ASSUME IInv, NEW k \in Worker,
         \/ InsufficientFunds(k) \/ Count(k) \/ ResponseOk(k) \/ CallThrows(k)
         \/ Void(k) \/ Reverse(k) \/ Confirm(k) \/ Reject(k) \/ CutShort(k)
  PROVE  TypeOK' /\ CallStep(k)
  <1> DEFINE w == worker[k].id
  <1> USE DEF IInv
  <1>1. worker[k] \in Task /\ worker[k] # Idle
    BY WorkerAtStep DEF InsufficientFunds, Count, ResponseOk, CallThrows, Void,
       Reverse, Confirm, Reject, CutShort, TypeOK
  <1>2. w \in Withdrawal /\ worker[k].amount \in Nat
    BY <1>1, WithdrawalAssumption DEF Task
  <1>10. UNCHANGED withdrawal /\ UNCHANGED psp
    BY DEF InsufficientFunds, Count, ResponseOk, CallThrows, Void, Reverse,
           Confirm, Reject, CutShort, rows
  <1>11. \A v \in Withdrawal : Dead(v) => Dead(v)'
    BY <1>10 DEF Dead, Errs, psp
  <1>3. CASE \/ InsufficientFunds(k) \/ ResponseOk(k) \/ CallThrows(k) \/ CutShort(k)
    BY <1>3, <1>11 DEF InsufficientFunds, ResponseOk, CallThrows, CutShort, TypeOK,
       CallStep, Ends, rows, money, wallet, day, psp
  <1>4. CASE Count(k)
    <2>1. [worker[k] EXCEPT !.step = "call"] \in Task
          /\ [worker[k] EXCEPT !.step = "call"].step = "call"
          /\ [worker[k] EXCEPT !.step = "call"].id = w
      BY <1>1 DEF Task
    <2>2. withdrawal[w] # Absent
      BY <1>1, <1>4 DEF RowsExist, Count, At
    <2>3. worker' \in {[worker EXCEPT ![k] = Idle],
                       [worker EXCEPT ![k] = [worker[k] EXCEPT !.step = "call"]]}
      BY <1>4 DEF Count, Goto, Ends
    <2>4. TypeOK'
      BY <1>2, <1>4, <2>1, <2>3 DEF TypeOK, Count, rows, wallet, psp
    <2>5. CallStep(k)
      BY <1>1, <1>4, <1>11, <2>1, <2>2, <2>3 DEF CallStep, MayHold, Count, rows, UnwindingStep
    <2>6. QED
      BY <2>4, <2>5
  <1>5. CASE Void(k)
    <2>1. [worker[k] EXCEPT !.step = "reverse"] \in Task
          /\ [worker[k] EXCEPT !.step = "reverse"].step = "reverse"
          /\ [worker[k] EXCEPT !.step = "reverse"].id = w
      BY <1>1 DEF Task
    <2>2. withdrawal[w] # Absent /\ Dead(w)
      BY <1>1, <1>5 DEF RowsExist, WorkersKnow, UnwindingStep, Void, At
    <2>3. worker' = [worker EXCEPT ![k] = [worker[k] EXCEPT !.step = "reverse"]]
      BY <1>5 DEF Void, Goto
    <2>4. TypeOK'
      BY <1>2, <1>5, <2>1, <2>3 DEF TypeOK, Void, money, wallet, day, psp
    <2>5. CallStep(k)
      BY <1>1, <1>2, <1>5, <1>11, <2>1, <2>2, <2>3 DEF CallStep, MayHold, Void, money
    <2>6. QED
      BY <2>4, <2>5
  <1>6. CASE Reverse(k)
    <2>1. Dead(w)
      BY <1>1, <1>6 DEF WorkersKnow, UnwindingStep, Reverse, At
    <2>2. TypeOK'
      <3>1. /\ balance' \in Nat /\ entries' \in Int /\ exposed' \in Nat
            /\ reversed' \in [Withdrawal -> Nat]
        BY <1>1, <1>2, <1>6 DEF TypeOK, Reverse, Reading, Change, wallet, Task, Unread
      <3>2. QED
        BY <1>6, <3>1 DEF TypeOK, Reverse, Ends, rows, day, psp
    <2>3. CallStep(k)
      BY <1>2, <1>6, <1>11, <2>1 DEF TypeOK, CallStep, Reverse, Ends, rows
    <2>4. QED
      BY <2>2, <2>3
  <1>7. CASE Confirm(k)
    BY <1>2, <1>7, <1>11 DEF Confirm, TypeOK, CallStep, Ends, money, wallet, day, psp
  <1>8. CASE Reject(k)
    <2> DEFINE task == [worker[k] EXCEPT !.step = "markRejected", !.seen = Unread]
    <2>1. task \in Task /\ task.step = "markRejected" /\ task.id = w
      BY <1>1 DEF Task
    <2>2. withdrawal[w] # Absent
      BY <1>1, <1>8 DEF RowsExist, Reject, At
    <2>3. worker' = [worker EXCEPT ![k] = task]
      BY <1>8 DEF Reject, Written
    <2> HIDE DEF task
    <2>4. TypeOK'
      <3>1. /\ balance' \in Nat /\ entries' \in Int /\ exposed' \in Nat
            /\ rejected' \in [Withdrawal -> Nat]
        BY <1>1, <1>2, <1>8 DEF TypeOK, Reject, Reading, Change, Task, Unread
      <3>2. QED
        BY <1>8, <2>1, <2>3, <3>1 DEF TypeOK, Reject, rows, day, psp
    <2>5. CallStep(k)
      BY <1>1, <1>8, <1>11, <2>1, <2>2, <2>3 DEF CallStep, MayHold, Reject, rows, UnwindingStep
    <2>6. QED
      BY <2>4, <2>5
  <1>9. QED
    BY <1>3, <1>4, <1>5, <1>6, <1>7, <1>8

\* The debit is such a step: it creates the row that it serves.
LEMMA DebitIsCallStep ==
  ASSUME IInv, NEW k \in Worker, Debit(k)
  PROVE  TypeOK' /\ CallStep(k)
  <1> DEFINE w == worker[k].id
             row == [status |-> "PENDING", amount |-> worker[k].amount,
                     httpError |-> FALSE, reviewed |-> FALSE]
             task == [worker[k] EXCEPT !.step = "count", !.seen = Unread]
  <1> USE DEF IInv
  <1>0. worker[k] \in Task /\ worker[k] # Idle /\ worker[k].step = "debit"
    BY WorkerAtStep DEF Debit
  <1>1. worker[k] \in Task
    BY <1>0
  <1>2. w \in Withdrawal /\ worker[k].amount \in Nat /\ row \in Row /\ row # Absent
    BY <1>1, WithdrawalAssumption DEF Task, Row, Absent
  <1>3. task \in Task /\ task.step = "count" /\ task.id = w
    BY <1>1 DEF Task
  <1>4. /\ withdrawal' = [withdrawal EXCEPT ![w] = row]
        /\ worker' = [worker EXCEPT ![k] = task]
    BY <1>2 DEF Debit, Written, TypeOK
  <1>5. TypeOK'
    <2>1. balance' \in Nat /\ entries' \in Int /\ exposed' \in Nat
      BY <1>0, <1>2 DEF Debit, Reading, Change, TypeOK, Task, Unread
    <2>2. QED
      BY <1>2, <1>3, <1>4, <2>1 DEF Debit, TypeOK, Row, day, psp
  <1>6. withdrawal'[w] # Absent /\ \A v \in Withdrawal :
          withdrawal[v] # Absent => withdrawal'[v] # Absent
    BY <1>2, <1>4 DEF TypeOK
  <1>7. \A v \in Withdrawal : Dead(v) => Dead(v)'
    <2>1. withdrawal[w] = Absent
      BY <1>0 DEF DebitsFresh
    <2>2. QED
      BY <1>2, <1>4, <2>1 DEF TypeOK, Dead, Errs, Debit, psp
  <1>8. CallStep(k)
    BY <1>0, <1>2, <1>3, <1>4, <1>6, <1>7 DEF Debit, CallStep, MayHold, Debits, TypeOK,
       UnwindingStep
  <1>9. QED
    BY <1>5, <1>8

(* Callbacks and requests start. *)
LEMMA StartsAreCallSteps ==
  ASSUME IInv, NEW k \in Worker, NEW w \in Withdrawal,
         \/ \E amount \in Amount : CheckLimit(k, w, amount)
         \/ \E status \in Callback : CallbackRead(k, w, status)
         \/ \E decision \in {"approve", "reject"} : ReviewRead(k, w, decision)
  PROVE  TypeOK' /\ CallStep(k)
  <1> USE DEF IInv
  <1>1. UNCHANGED <<rows, money, psp, failures>>
    BY DEF CheckLimit, CallbackRead, ReviewRead
  <1>2. \A v \in Withdrawal : (Dead(v) => Dead(v)') /\ withdrawal'[v] = withdrawal[v]
    BY <1>1 DEF Dead, Errs, rows, psp
  <1>3. ASSUME NEW task \in Task, worker' = [worker EXCEPT ![k] = task],
               task.step \in UnwindingStep => Dead(task.id),
               task.step # "debit" => withdrawal[task.id] # Absent,
               MayHold(k, task)
        PROVE  TypeOK' /\ CallStep(k)
    <2>1. TypeOK'
      BY <1>1, <1>3 DEF TypeOK, rows, money, wallet, day, psp
    <2>2. task.id \in Withdrawal
      BY DEF Task
    <2>3. CallStep(k)
      BY <1>1, <1>2, <1>3, <2>2 DEF CallStep, money
    <2>4. QED
      BY <2>1, <2>3
  <1>4. CASE \E amount \in Amount : CheckLimit(k, w, amount)
    <2>1. PICK amount \in Amount : CheckLimit(k, w, amount)
      BY <1>4
    <2> DEFINE task == [step |-> "debit", id |-> w, amount |-> amount, seen |-> Unread]
    <2>2. task \in Task /\ worker' = [worker EXCEPT ![k] = task]
          /\ task.step = "debit" /\ task.id = w
      BY <2>1 DEF CheckLimit, Takes, Task
    <2> HIDE DEF task
    <2>3. MayHold(k, task)
      BY <1>2, <2>1, <2>2 DEF MayHold, CheckLimit, Served
    <2>4. QED
      BY <1>3, <2>2, <2>3 DEF UnwindingStep
  <1>5. ASSUME NEW step \in Callback \cup {"approve", "reject"},
               step = "FAILED" => Dead(w), withdrawal[w] \in Row,
               Takes(k, step, w, withdrawal[w].amount)
        PROVE  TypeOK' /\ CallStep(k)
    <2> DEFINE task == [step |-> step, id |-> w, amount |-> withdrawal[w].amount,
                        seen |-> Unread]
    <2>1. task \in Task /\ worker' = [worker EXCEPT ![k] = task]
          /\ task.step = step /\ task.id = w
      BY <1>5 DEF Takes, Task, Callback, Row
    <2> HIDE DEF task
    <2>2. withdrawal[w] # Absent
      BY <1>5 DEF Row, Absent
    <2>3. step # "debit" /\ (step \in UnwindingStep => step = "FAILED")
      BY DEF Callback, UnwindingStep
    <2>4. QED
      BY <1>3, <1>5, <2>1, <2>2, <2>3 DEF MayHold
  <1>6. CASE \E status \in Callback : CallbackRead(k, w, status)
    <2>1. PICK status \in Callback : CallbackRead(k, w, status)
      BY <1>6
    <2>2. withdrawal[w] \in Row
      BY <2>1 DEF CallbackRead, TypeOK, Absent, Row
    <2>3. status = "FAILED" => Dead(w)
      BY <2>1 DEF CallbackRead, CallbacksKnow, Dead
    <2>4. QED
      BY <1>5, <2>1, <2>2, <2>3 DEF CallbackRead
  <1>7. CASE \E decision \in {"approve", "reject"} : ReviewRead(k, w, decision)
    <2>1. PICK decision \in {"approve", "reject"} : ReviewRead(k, w, decision)
      BY <1>7
    <2>2. withdrawal[w] \in Row
      BY <2>1 DEF ReviewRead, TypeOK, Absent, Row
    <2>3. QED
      BY <1>5, <2>1, <2>2 DEF ReviewRead
  <1>8. QED
    BY <1>4, <1>6, <1>7

(* PawaPay moves a payout on: never out of its end. *)
LEMMA ProviderPreserves ==
  ASSUME IInv, NEW w \in Withdrawal,
         \/ ProviderAccepts(w) \/ ProviderRejects(w)
         \/ ProviderCompletes(w) \/ ProviderFails(w)
  PROVE  IInv'
  <1> USE DEF IInv
  <1>1. PICK move \in {<<"none", "processing", {}>>, <<"none", "rejected", {"FAILED"}>>,
                       <<"processing", "completed", {"COMPLETED"}>>,
                       <<"processing", "failed", {"FAILED"}>>} :
          /\ provider[w] = move[1]
          /\ provider' = [provider EXCEPT ![w] = move[2]]
          /\ sent' = [sent EXCEPT ![w] = @ \cup move[3]]
          /\ UNCHANGED <<rows, money, worker, failures>>
    BY DEF ProviderAccepts, ProviderRejects, ProviderCompletes, ProviderFails,
           ProviderMoves
  <1>2. TypeOK'
    BY <1>1 DEF TypeOK, rows, money, wallet, day, Callback
  <1>3. \A v \in Withdrawal : Dead(v) => Dead(v)'
    BY <1>1 DEF Dead, Errs, TypeOK, rows
  <1>4. WorkersKnow' /\ RowsExist' /\ DebitsFresh'
    <2>1. \A k \in Worker : worker[k] # Idle => worker[k].id \in Withdrawal
      BY DEF TypeOK, Task
    <2>2. QED
      BY <1>1, <1>3, <2>1 DEF WorkersKnow, RowsExist, DebitsFresh, rows
  <1>5. CallbacksKnow'
    <2> SUFFICES ASSUME NEW v \in Withdrawal, "FAILED" \in sent'[v]
                 PROVE  provider'[v] \in {"rejected", "failed"}
      BY DEF CallbacksKnow
    <2>1. CASE "FAILED" \in sent[v]
      BY <1>1, <2>1 DEF CallbacksKnow, TypeOK
    <2>2. CASE "FAILED" \notin sent[v]
      BY <1>1, <2>2 DEF TypeOK
    <2>3. QED
      BY <2>1, <2>2
  <1>6. ReversalsKnow'
    BY <1>1, <1>3 DEF ReversalsKnow, money
  <1>7. QED
    BY <1>2, <1>4, <1>5, <1>6

-----------------------------------------------------------------------------

(* The inductive invariant holds in every reachable state. *)
THEOREM WithdrawalInvariance == Spec => []IInv
  <1>1. IInv /\ [Next]_vars => IInv'
    <2> SUFFICES ASSUME IInv, [Next]_vars PROVE IInv'
      OBVIOUS
    <2>1. CASE UNCHANGED vars
      BY <2>1 DEF vars, rows, money, wallet, day, psp, IInv, TypeOK, WorkersKnow, RowsExist,
                  DebitsFresh, CallbacksKnow, ReversalsKnow, Dead, Errs
    <2>2. ASSUME NEW k \in Worker, NEW w \in Withdrawal,
                 \/ \E amount \in Amount : CheckLimit(k, w, amount)
                 \/ \E status \in Callback : CallbackRead(k, w, status)
                 \/ \E decision \in {"approve", "reject"} : ReviewRead(k, w, decision)
          PROVE  IInv'
      BY <2>2, StartsAreCallSteps, CallStepPreserves
    <2>3. ASSUME NEW k \in Worker, Continue(k) \/ CutShort(k)
          PROVE  IInv'
      BY <2>3, ReadPreserves, DebitIsCallStep, StatusStepsAreCallSteps,
         OtherStepsAreCallSteps, CallStepPreserves DEF Continue
    <2>4. ASSUME NEW w \in Withdrawal,
                 \/ ProviderAccepts(w) \/ ProviderRejects(w)
                 \/ ProviderCompletes(w) \/ ProviderFails(w)
          PROVE  IInv'
      BY <2>4, ProviderPreserves
    <2>5. QED
      BY <2>1, <2>2, <2>3, <2>4 DEF Next
  <1>2. QED
    BY <1>1, InitHolds, PTL DEF Spec

(* A withdrawal PawaPay pays out is given back neither by the request nor   *)
(* by a callback, unless PawaPay's answer was an error (requestWithdrawal,  *)
(* handlePayoutCallback).                                                   *)
THEOREM NeverPaidAndReversedHolds == Spec => []NeverPaidAndReversed
  BY WithdrawalInvariance, InvImplies, PTL

-----------------------------------------------------------------------------
(* The books: reversals, the balance and the day's limit. *)

\* What a task pays back is what its row says.
AmountsKnown ==
    \A k \in Worker : worker[k] # Idle /\ worker[k].step # "debit" =>
      worker[k].amount = withdrawal[worker[k].id].amount

\* The ledger entries are what was taken and not given back.
EntriesMatch == entries + SumFunctionOnSet(Kept, Withdrawal) = 0

NoneYet == \A w \in Withdrawal \ Made : Refunds(w) = 0

BooksInv ==
    /\ AmountsKnown
    /\ NoneYet
    /\ ReversedOnce
    /\ EntriesMatch

\* What the requests about to debit ask for, and what the requests that are
\* not counted yet took or will take.
StepAmount(k, steps) ==
    IF worker[k] # Idle /\ worker[k].step \in steps THEN worker[k].amount ELSE 0
Asking == [k \in Worker |-> StepAmount(k, {"debit"})]
Open   == [k \in Worker |-> StepAmount(k, {"debit", "count"})]
Most   == Max(Amount)

\* What is taken or asked for is counted, or soon, or its call was cut short.
CountedSoon ==
    SumFunctionOnSet(Taken, Withdrawal) + SumFunctionOnSet(Asking, Worker)
      <= daily + SumFunctionOnSet(Open, Worker) + failures * Most

\* The request that passed the last check passed it with the others open.
RacersOnly ==
    SumFunctionOnSet(Taken, Withdrawal) + SumFunctionOnSet(Asking, Worker)
      <= Limit + (Cardinality(Worker) - 1 + failures) * Most

CountedInv == CountedSoon /\ RacersOnly

\* Without Redis each request is measured alone.
EachWithin ==
    /\ \A w \in Made : withdrawal[w].amount <= Limit
    /\ \A k \in Worker : worker[k] # Idle /\ worker[k].step = "debit" =>
         worker[k].amount <= Limit

LimitInv == IF redis THEN CountedInv ELSE EachWithin

\* How far a balance, or what a call has seen of it, is from the ledger.
Drift(value) == value - (InitialBalance + entries)

DriftInv ==
    /\ Drift(balance) \in -exposed..exposed
    /\ \A k \in Worker : Reading(k) => Drift(worker[k].seen) \in -exposed..exposed

-----------------------------------------------------------------------------

(* The largest amount. *)
LEMMA MostIsMost == Most \in Amount /\ Most \in Nat /\ \A amount \in Amount : amount <= Most
  <1>1. \E most \in Amount : \A amount \in Amount : most >= amount
    BY WithdrawalAssumption
  <1>2. Most \in Amount /\ \A amount \in Amount : Most >= amount
    BY <1>1 DEF Most, Max
  <1>3. QED
    BY <1>2, WithdrawalAssumption

(* The parts of the sums are numbers. *)
PartsInt ==
    /\ \A w \in Withdrawal : /\ Taken[w] \in Nat /\ Refunds(w) \in Nat
                             /\ Kept[w] \in Int /\ Kept[w] = Taken[w] * (1 - Refunds(w))
    /\ \A k \in Worker : Asking[k] \in Nat /\ Open[k] \in Nat /\ Open[k] <= Most

\* Every share that is summed is a number.
LEMMA PartsAreInt == TypeOK => PartsInt
  <1> SUFFICES ASSUME TypeOK PROVE PartsInt
    OBVIOUS
  <1>1. ASSUME NEW w \in Withdrawal
        PROVE  /\ Taken[w] \in Nat /\ Refunds(w) \in Nat
               /\ Kept[w] \in Int /\ Kept[w] = Taken[w] * (1 - Refunds(w))
    <2>1. Taken[w] \in Nat
      BY WithdrawalAssumption DEF TypeOK, Taken, Made, Row
    <2>2. Refunds(w) \in Nat
      BY DEF TypeOK, Refunds
    <2>3. Kept[w] = Taken[w] * (1 - Refunds(w))
      BY DEF Kept
    <2>4. QED
      BY <2>1, <2>2, <2>3
  <1>2. ASSUME NEW k \in Worker
        PROVE  Asking[k] \in Nat /\ Open[k] \in Nat /\ Open[k] <= Most
    <2>1. worker[k] # Idle => worker[k].amount \in Amount
      BY DEF TypeOK, Task
    <2>2. ASSUME NEW steps PROVE StepAmount(k, steps) \in Nat /\ StepAmount(k, steps) <= Most
      <3>1. Most \in Nat /\ \A amount \in Amount : amount \in Nat /\ amount <= Most
        BY MostIsMost, WithdrawalAssumption
      <3>2. CASE worker[k] # Idle /\ worker[k].step \in steps
        BY <2>1, <3>1, <3>2 DEF StepAmount
      <3>3. CASE ~ (worker[k] # Idle /\ worker[k].step \in steps)
        BY <3>1, <3>3 DEF StepAmount
      <3>4. QED
        BY <3>2, <3>3
    <2>3. QED
      BY <2>2 DEF Asking, Open
  <1>3. QED
    BY <1>1, <1>2 DEF PartsInt

(* The sums are numbers. *)
SumsInt ==
    /\ SumFunctionOnSet(Taken, Withdrawal) \in Int
    /\ SumFunctionOnSet(Kept, Withdrawal) \in Int
    /\ SumFunctionOnSet(Asking, Worker) \in Int
    /\ SumFunctionOnSet(Open, Worker) \in Int

\* So are the sums.
LEMMA SumsAreInt == TypeOK => SumsInt
  BY PartsAreInt, SumInt, WithdrawalAssumption DEF PartsInt, SumsInt

(* When only one worker moves, the workers' sums move with it. *)
LEMMA WorkerSums ==
  ASSUME TypeOK, TypeOK', NEW k \in Worker,
         \A j \in Worker : j # k => worker'[j] = worker[j]
  PROVE  /\ SumFunctionOnSet(Asking, Worker)'
              = SumFunctionOnSet(Asking, Worker) + Asking'[k] - Asking[k]
         /\ SumFunctionOnSet(Open, Worker)'
              = SumFunctionOnSet(Open, Worker) + Open'[k] - Open[k]
  <1>1. PartsInt /\ PartsInt'
    BY PartsAreInt, PTL
  <1>2. \A j \in Worker : j # k => Asking'[j] = Asking[j] /\ Open'[j] = Open[j]
    BY DEF Asking, Open, StepAmount
  <1>3. \A j \in Worker : /\ Asking[j] \in Int /\ Asking'[j] \in Int
                          /\ Open[j] \in Int /\ Open'[j] \in Int
    BY <1>1 DEF PartsInt
  <1>4. SumFunctionOnSet(Asking', Worker)
          = SumFunctionOnSet(Asking, Worker) + Asking'[k] - Asking[k]
    BY <1>2, <1>3, SumPoint, WithdrawalAssumption
  <1>5. SumFunctionOnSet(Open', Worker)
          = SumFunctionOnSet(Open, Worker) + Open'[k] - Open[k]
    BY <1>2, <1>3, SumPoint, WithdrawalAssumption
  <1>6. QED
    BY <1>4, <1>5

(* When only one withdrawal's part moves, the withdrawals' sums do. *)
LEMMA RowSums ==
  ASSUME TypeOK, TypeOK', NEW w \in Withdrawal,
         \A v \in Withdrawal : v # w => Taken'[v] = Taken[v] /\ Kept'[v] = Kept[v]
  PROVE  /\ SumFunctionOnSet(Taken, Withdrawal)'
              = SumFunctionOnSet(Taken, Withdrawal) + Taken'[w] - Taken[w]
         /\ SumFunctionOnSet(Kept, Withdrawal)'
              = SumFunctionOnSet(Kept, Withdrawal) + Kept'[w] - Kept[w]
  <1>1. PartsInt /\ PartsInt'
    BY PartsAreInt, PTL
  <1>2. \A v \in Withdrawal : /\ Taken[v] \in Int /\ Taken'[v] \in Int
                              /\ Kept[v] \in Int /\ Kept'[v] \in Int
    BY <1>1 DEF PartsInt
  <1>3. SumFunctionOnSet(Taken', Withdrawal)
          = SumFunctionOnSet(Taken, Withdrawal) + Taken'[w] - Taken[w]
    BY <1>2, SumPoint, WithdrawalAssumption
  <1>4. SumFunctionOnSet(Kept', Withdrawal)
          = SumFunctionOnSet(Kept, Withdrawal) + Kept'[w] - Kept[w]
    BY <1>2, SumPoint, WithdrawalAssumption
  <1>5. QED
    BY <1>3, <1>4

-----------------------------------------------------------------------------

\* No withdrawal is added, and no amount changes.
RowsKept ==
    \A w \in Withdrawal :
      /\ withdrawal'[w] # Absent <=> withdrawal[w] # Absent
      /\ withdrawal[w] # Absent => withdrawal'[w].amount = withdrawal[w].amount

\* A step of a worker that touches neither the money nor the count.
Quiet(k) ==
    /\ RowsKept
    /\ UNCHANGED money
    /\ \/ Ends(k)
       \/ /\ worker[k].step \notin {"debit", "count"}
          /\ \E step \in {"failAgain", "void", "reverse", "confirm"} : Goto(k, step)
    /\ \/ worker[k].step # "count" /\ failures' = failures
       \/ Ends(k) /\ failures' = failures + 1

(* The steps that only write the status of rows, or end. *)
LEMMA QuietSteps ==
  ASSUME IInv, NEW k \in Worker,
         \/ InsufficientFunds(k) \/ ResponseOk(k) \/ ResponseError(k)
         \/ CallThrows(k) \/ FailAgain(k) \/ Void(k) \/ PayoutCompleted(k)
         \/ Confirm(k) \/ PayoutFailed(k) \/ Approve(k) \/ MarkRejected(k)
         \/ CutShort(k)
  PROVE  worker[k] \in Task /\ worker[k] # Idle /\ Quiet(k)
  <1> USE DEF IInv
  <1> DEFINE w == worker[k].id
  <1>1. worker[k] \in Task /\ worker[k] # Idle
    BY WorkerAtStep DEF InsufficientFunds, ResponseOk, ResponseError, CallThrows,
       FailAgain, Void, PayoutCompleted, Confirm, PayoutFailed, Approve,
       MarkRejected, CutShort, TypeOK
  <1>2. CASE \/ InsufficientFunds(k) \/ ResponseOk(k) \/ CallThrows(k) \/ CutShort(k)
             \/ Void(k) \/ Confirm(k)
    <2>1. RowsKept
      BY <1>2 DEF RowsKept, InsufficientFunds, ResponseOk, CallThrows, CutShort,
         Void, Confirm, rows
    <2>2. UNCHANGED money
      BY <1>2 DEF InsufficientFunds, ResponseOk, CallThrows, CutShort, Void, Confirm
    <2>3. QED
      BY <1>1, <1>2, <2>1, <2>2 DEF Quiet, InsufficientFunds, ResponseOk, CallThrows,
         CutShort, Void, Confirm, At
  <1>3. CASE \/ ResponseError(k) \/ FailAgain(k) \/ PayoutCompleted(k)
             \/ PayoutFailed(k) \/ Approve(k) \/ MarkRejected(k)
    <2>1. w \in Withdrawal /\ withdrawal[w] # Absent
      BY <1>1, <1>3 DEF Task, RowsExist, ResponseError, FailAgain, PayoutCompleted,
         PayoutFailed, Approve, MarkRejected, At
    <2>2. UNCHANGED <<money, psp, failures>>
      BY <1>3 DEF ResponseError, FailAgain, PayoutCompleted, PayoutFailed, Approve,
         MarkRejected
    <2>3. \/ UNCHANGED withdrawal
          \/ \E status \in {"SUCCESS", "FAILED"} :
               SetStatus(w, status) \/ HttpError(w) \/ Review(w, status)
      BY <1>3 DEF ResponseError, FailAgain, PayoutCompleted, PayoutFailed, Approve,
         MarkRejected
    <2>4. RowsKept
      <3>1. CASE UNCHANGED withdrawal
        BY <3>1 DEF RowsKept
      <3>2. ASSUME NEW status \in {"SUCCESS", "FAILED"},
                   SetStatus(w, status) \/ HttpError(w) \/ Review(w, status)
            PROVE  RowsKept
        BY <2>1, <2>2, <3>2, RowWrites DEF RowsKept, psp
      <3>3. QED
        BY <2>3, <3>1, <3>2
    <2>5. /\ worker[k].step \notin {"debit", "count"}
          /\ \/ Ends(k)
             \/ \E step \in {"failAgain", "void", "reverse", "confirm"} : Goto(k, step)
      BY <1>3 DEF ResponseError, FailAgain, PayoutCompleted, PayoutFailed, Approve,
         MarkRejected, At
    <2>6. QED
      BY <1>1, <2>2, <2>4, <2>5 DEF Quiet
  <1>4. QED
    BY <1>2, <1>3

(* The amounts stay known when a worker knows its own. *)
LEMMA AmountsStay ==
  ASSUME IInv, IInv', AmountsKnown, NEW k \in Worker,
         \A w \in Withdrawal : withdrawal[w] # Absent =>
           withdrawal'[w].amount = withdrawal[w].amount,
         \A j \in Worker : j # k => worker'[j] = worker[j],
         worker'[k] # Idle /\ worker'[k].step # "debit" =>
           worker'[k].amount = withdrawal'[worker'[k].id].amount
  PROVE  AmountsKnown'
  <1> SUFFICES ASSUME NEW j \in Worker, worker'[j] # Idle, worker'[j].step # "debit"
               PROVE  worker'[j].amount = withdrawal'[worker'[j].id].amount
    BY DEF AmountsKnown
  <1>1. CASE j = k
    BY <1>1
  <1>2. CASE j # k
    <2>1. worker'[j] = worker[j] /\ worker[j].id \in Withdrawal
      BY <1>2 DEF IInv, TypeOK, Task
    <2>2. withdrawal[worker[j].id] # Absent
      BY <2>1 DEF IInv, RowsExist
    <2>3. QED
      BY <2>1, <2>2 DEF AmountsKnown
  <1>3. QED
    BY <1>1, <1>2

(* When the rows keep their amounts, what is taken stays. *)
LEMMA RowsKeptTaken ==
  ASSUME RowsKept
  PROVE  /\ Taken' = Taken
         /\ \A w \in Withdrawal : w \in Made' <=> w \in Made
  BY DEF RowsKept, Taken, Made

\* A step that moves no money and counts nothing keeps the books.
LEMMA QuietKeepsBooks ==
  ASSUME IInv, IInv', BooksInv, NEW k \in Worker,
         worker[k] \in Task, worker[k] # Idle, Quiet(k)
  PROVE  BooksInv'
  <1> USE DEF BooksInv
  <1>1. \A j \in Worker : j # k => worker'[j] = worker[j]
    BY DEF Quiet, Ends, Goto, IInv, TypeOK
  <1>2. worker'[k] = Idle \/ /\ worker[k].step # "debit"
                             /\ worker'[k].amount = worker[k].amount
                             /\ worker'[k].id = worker[k].id
    BY DEF Quiet, Ends, Goto, IInv, TypeOK, Task
  <1>3. \A w \in Withdrawal : withdrawal[w] # Absent =>
          withdrawal'[w].amount = withdrawal[w].amount
    BY DEF Quiet, RowsKept
  <1>4. worker'[k] # Idle => worker'[k].amount = withdrawal'[worker'[k].id].amount
    BY <1>2, <1>3 DEF AmountsKnown, IInv, RowsExist, Task
  <1>5. AmountsKnown'
    BY <1>1, <1>3, <1>4, AmountsStay
  <1>6. Taken' = Taken /\ \A w \in Withdrawal : Refunds(w)' = Refunds(w)
    BY RowsKeptTaken DEF Quiet, Refunds, money
  <1>7. NoneYet'
    BY <1>6, RowsKeptTaken DEF NoneYet, Quiet
  <1>8. Kept' = Kept
    BY <1>6 DEF Kept
  <1>9. QED
    BY <1>5, <1>7, <1>8 DEF Quiet, ReversedOnce, EntriesMatch, money, wallet

(* A quiet step opens nothing, and only a failure drops what is not counted. *)
LEMMA QuietKeepsLimit ==
  ASSUME IInv, IInv', CountedInv, NEW k \in Worker,
         worker[k] \in Task, worker[k] # Idle, Quiet(k)
  PROVE  CountedInv'
  <1> DEFINE takenSum  == SumFunctionOnSet(Taken, Withdrawal)
             askingSum == SumFunctionOnSet(Asking, Worker)
             openSum   == SumFunctionOnSet(Open, Worker)
             room(n)   == Limit + (Cardinality(Worker) - 1 + n) * Most
  <1>1. \A j \in Worker : j # k => worker'[j] = worker[j]
    BY DEF Quiet, Ends, Goto, IInv, TypeOK
  <1>2. PartsInt /\ PartsInt' /\ SumsInt /\ Most \in Nat /\ Most' = Most
    <2>1. TypeOK /\ TypeOK'
      BY DEF IInv
    <2>2. PartsInt /\ PartsInt' /\ SumsInt
      BY <2>1, PartsAreInt, SumsAreInt, PTL
    <2>3. QED
      BY <2>2, MostIsMost DEF Most
  <1>3. \/ worker'[k] = Idle
        \/ worker[k].step \notin {"debit", "count"} /\ worker'[k].step \notin {"debit", "count"}
    BY DEF Quiet, Ends, Goto, IInv, TypeOK, Task
  <1>4. Asking'[k] = 0 /\ Open'[k] = 0
    BY <1>3 DEF Asking, Open, StepAmount
  <1>5. Open[k] = IF worker[k].step = "count" THEN Open[k] ELSE Asking[k]
    BY DEF Asking, Open, StepAmount
  <1>6. Asking[k] = IF worker[k].step = "count" THEN 0 ELSE Asking[k]
    BY DEF Asking, StepAmount
  <1>7. /\ askingSum' = askingSum - Asking[k]
        /\ openSum' = openSum - Open[k]
    <2>1. /\ askingSum' = askingSum + Asking'[k] - Asking[k]
          /\ openSum' = openSum + Open'[k] - Open[k]
      BY <1>1, WorkerSums DEF IInv
    <2>2. askingSum \in Int /\ openSum \in Int /\ Asking[k] \in Int /\ Open[k] \in Int
      BY <1>2 DEF SumsInt, PartsInt
    <2> HIDE DEF askingSum, openSum
    <2>3. QED
      BY <2>1, <2>2, <1>4
  <1>8. takenSum' = takenSum /\ daily' = daily
    BY RowsKeptTaken DEF Quiet, money, day
  <1>9. /\ takenSum \in Int /\ askingSum \in Int /\ openSum \in Int
        /\ Asking[k] \in Nat /\ Open[k] \in Nat /\ Open[k] <= Most
        /\ daily \in Nat /\ failures \in Nat
    BY <1>2 DEF SumsInt, PartsInt, IInv, TypeOK
  <1>10. /\ takenSum + askingSum <= daily + openSum + failures * Most
         /\ takenSum + askingSum <= room(failures)
    BY DEF CountedInv, CountedSoon, RacersOnly
  <1>11. \A n \in Nat : room(n) \in Int /\ room(n + 1) = room(n) + Most
    BY <1>2, FS_CardinalityType, WithdrawalAssumption
  <1>12. failures * Most \in Nat /\ (failures + 1) * Most = failures * Most + Most
    BY <1>2, <1>9
  <1>13. \/ worker[k].step # "count" /\ failures' = failures
         \/ failures' = failures + 1
    BY DEF Quiet
  <1>14. CountedInv' = (/\ takenSum' + askingSum' <= daily' + openSum' + failures' * Most
                      /\ takenSum' + askingSum' <= room(failures'))
    BY <1>2 DEF CountedInv, CountedSoon, RacersOnly
  <1> HIDE DEF takenSum, askingSum, openSum, room
  <1>15. /\ takenSum' + askingSum' <= daily' + openSum' + failures' * Most
         /\ takenSum' + askingSum' <= room(failures')
    <2>1. CASE worker[k].step # "count" /\ failures' = failures
      BY <2>1, <1>2, <1>5, <1>7, <1>8, <1>9, <1>10, <1>11, <1>12
    <2>2. CASE failures' = failures + 1
      BY <2>2, <1>2, <1>5, <1>6, <1>7, <1>8, <1>9, <1>10, <1>11, <1>12
    <2>3. QED
      BY <1>13, <2>1, <2>2
  <1>16. QED
    BY <1>14, <1>15

(* A call or a review starts with the amount of its row. *)
LEMMA ReadsKeepBooks ==
  ASSUME IInv, IInv', BooksInv, NEW k \in Worker, NEW w \in Withdrawal,
         \/ \E status \in Callback : CallbackRead(k, w, status)
         \/ \E decision \in {"approve", "reject"} : ReviewRead(k, w, decision)
  PROVE  BooksInv' /\ (redis /\ CountedInv => CountedInv')
  <1>1. PICK step \in Callback \cup {"approve", "reject"} :
          /\ withdrawal[w] # Absent
          /\ Takes(k, step, w, withdrawal[w].amount)
          /\ UNCHANGED <<rows, money, psp, failures>>
    BY DEF CallbackRead, ReviewRead, Absent
  <1>2. /\ worker[k] = Idle
        /\ worker' = [worker EXCEPT ![k] = [step |-> step, id |-> w,
                                            amount |-> withdrawal[w].amount,
                                            seen |-> Unread]]
    BY <1>1 DEF Takes
  <1>3. /\ worker'[k].step = step /\ worker'[k].id = w
        /\ worker'[k].amount = withdrawal[w].amount
        /\ \A j \in Worker : j # k => worker'[j] = worker[j]
    BY <1>2 DEF IInv, TypeOK
  <1>4. step \notin {"debit", "count"}
    BY DEF Callback
  <1>5. AmountsKnown'
    BY <1>1, <1>3, AmountsStay DEF BooksInv, rows
  <1>6. UNCHANGED <<Taken, Kept>>
    BY <1>1 DEF Taken, Kept, Refunds, Made, rows, money
  <1>7. BooksInv'
    BY <1>1, <1>5, <1>6 DEF BooksInv, NoneYet, Made, Refunds, ReversedOnce,
       EntriesMatch, rows, money, wallet
  <1>8. UNCHANGED <<Asking, Open>>
    <2>1. \A j \in Worker : StepAmount(j, {"debit"})' = StepAmount(j, {"debit"})
      BY <1>2, <1>3, <1>4 DEF StepAmount
    <2>2. \A j \in Worker :
            StepAmount(j, {"debit", "count"})' = StepAmount(j, {"debit", "count"})
      BY <1>2, <1>3, <1>4 DEF StepAmount
    <2>3. QED
      BY <2>1, <2>2 DEF Asking, Open
  <1>9. CountedInv => CountedInv'
    BY <1>1, <1>6, <1>8 DEF CountedInv, CountedSoon, RacersOnly, Most, money, day
  <1>10. QED
    BY <1>7, <1>9

(* PawaPay's own steps leave the books alone. *)
LEMMA ProviderKeepsBooks ==
  ASSUME BooksInv, UNCHANGED <<rows, money, worker, failures>>
  PROVE  BooksInv' /\ (redis /\ CountedInv => CountedInv')
  <1>1. UNCHANGED <<Taken, Kept, Asking, Open>>
    BY DEF Taken, Kept, Refunds, Made, Asking, Open, StepAmount, rows, money
  <1>2. BooksInv'
    BY <1>1 DEF BooksInv, AmountsKnown, NoneYet, Made, Refunds, ReversedOnce,
       EntriesMatch, rows, money, wallet
  <1>3. CountedInv => CountedInv'
    BY <1>1 DEF CountedInv, CountedSoon, RacersOnly, Most, money, day
  <1>4. QED
    BY <1>2, <1>3

(* A request passes the check: the others may be open, it was not. *)
LEMMA CheckKeepsBooks ==
  ASSUME IInv, IInv', BooksInv, NEW k \in Worker, NEW w \in Withdrawal,
         NEW amount \in Amount, CheckLimit(k, w, amount)
  PROVE  BooksInv' /\ (redis /\ CountedInv => CountedInv')
  <1> DEFINE takenSum  == SumFunctionOnSet(Taken, Withdrawal)
             askingSum == SumFunctionOnSet(Asking, Worker)
             openSum   == SumFunctionOnSet(Open, Worker)
             others    == Cardinality(Worker) - 1
  <1>1. /\ worker[k] = Idle
        /\ worker' = [worker EXCEPT ![k] = [step |-> "debit", id |-> w,
                                            amount |-> amount, seen |-> Unread]]
        /\ Today + amount <= Limit
        /\ UNCHANGED <<rows, money, psp, failures>>
    BY DEF CheckLimit, Takes
  <1>2. /\ worker'[k] # Idle /\ worker'[k].step = "debit" /\ worker'[k].amount = amount
        /\ \A j \in Worker : j # k => worker'[j] = worker[j]
    BY <1>1 DEF IInv, TypeOK, Idle
  <1>3. UNCHANGED <<Taken, Kept>>
    BY <1>1 DEF Taken, Kept, Refunds, Made, rows, money
  <1>4. BooksInv'
    <2>1. AmountsKnown'
      BY <1>1, <1>2, AmountsStay DEF BooksInv, rows
    <2>2. QED
      BY <1>1, <1>3, <2>1 DEF BooksInv, NoneYet, Made, Refunds, ReversedOnce,
         EntriesMatch, rows, money, wallet
  <1>5. Asking[k] = 0 /\ Open[k] = 0 /\ Asking'[k] = amount /\ Open'[k] = amount
    BY <1>1, <1>2 DEF Asking, Open, StepAmount
  <1>6. TypeOK /\ TypeOK'
    BY DEF IInv
  <1>7. PartsInt /\ SumsInt
    BY <1>6, PartsAreInt, SumsAreInt
  <1>8. /\ takenSum \in Int /\ askingSum \in Int /\ openSum \in Int
        /\ amount \in Nat /\ daily \in Nat /\ failures \in Nat /\ Limit \in Nat
        /\ Most \in Nat /\ Most' = Most
    BY <1>6, <1>7, MostIsMost, WithdrawalAssumption DEF SumsInt, TypeOK, Most
  <1>9. askingSum' = askingSum + amount /\ openSum' = openSum + amount
    <2>1. /\ askingSum' = askingSum + Asking'[k] - Asking[k]
          /\ openSum' = openSum + Open'[k] - Open[k]
      BY <1>2, <1>6, WorkerSums
    <2> HIDE DEF askingSum, openSum
    <2>2. QED
      BY <1>5, <1>8, <2>1
  <1>10. openSum <= others * Most
    <2>1. IsFiniteSet(Worker \ {k}) /\ Cardinality(Worker \ {k}) = others
      BY FS_RemoveElement, WithdrawalAssumption
    <2>2. \A j \in Worker : Open[j] \in Int /\ Open[j] <= Most
      BY <1>7 DEF PartsInt
    <2>3. SumFunctionOnSet(Open, Worker \ {k}) <= others * Most
      <3>1. SumFunctionOnSet(Open, Worker \ {k}) <= Cardinality(Worker \ {k}) * Most
        BY <1>8, <2>1, <2>2, SumBounded
      <3>2. QED
        BY <2>1, <3>1
    <2>4. openSum = Open[k] + SumFunctionOnSet(Open, Worker \ {k})
      BY <2>2, SumRemove, WithdrawalAssumption
    <2>5. SumFunctionOnSet(Open, Worker \ {k}) \in Int
      BY <2>1, <2>2, SumInt
    <2> HIDE DEF others
    <2>6. QED
      BY <1>5, <2>3, <2>4, <2>5
  <1>11. takenSum' = takenSum /\ daily' = daily /\ failures' = failures
    BY <1>1, <1>3 DEF money, day
  <1>12. CountedInv => takenSum + askingSum <= daily + openSum + failures * Most
    BY DEF CountedInv, CountedSoon
  <1>13. others \in Int /\ (others + failures) * Most = others * Most + failures * Most
         /\ others * Most \in Int /\ failures * Most \in Int
    <2>1. others \in Int
      BY FS_CardinalityType, WithdrawalAssumption
    <2> HIDE DEF others
    <2>2. QED
      BY <1>8, <2>1
  <1>14. CountedInv' = (/\ takenSum' + askingSum' <= daily' + openSum' + failures' * Most
                      /\ takenSum' + askingSum' <= Limit + (others + failures') * Most)
    BY <1>8 DEF CountedInv, CountedSoon, RacersOnly
  <1> HIDE DEF takenSum, askingSum, openSum, others
  <1>15. ASSUME redis, CountedInv PROVE CountedInv'
    <2>1. daily + amount <= Limit
      BY <1>1, <1>15 DEF Today
    <2>2. takenSum + askingSum <= daily + openSum + failures * Most
      BY <1>12, <1>15
    <2>3. takenSum' + askingSum' <= daily' + openSum' + failures' * Most
      BY <1>8, <1>9, <1>11, <1>13, <2>2
    <2>4. takenSum' + askingSum' <= Limit + (others * Most + failures * Most)
      BY <1>8, <1>9, <1>10, <1>11, <1>13, <2>1, <2>2
    <2>5. QED
      BY <1>11, <1>13, <1>14, <2>3, <2>4
  <1>16. QED
    BY <1>4, <1>15

(* A debit moves an amount from what is asked for to what is taken. *)
LEMMA DebitKeepsBooks ==
  ASSUME IInv, IInv', BooksInv, NEW k \in Worker, Debit(k)
  PROVE  BooksInv' /\ (redis /\ CountedInv => CountedInv')
  <1> DEFINE w == worker[k].id
             amount    == worker[k].amount
             takenSum  == SumFunctionOnSet(Taken, Withdrawal)
             keptSum   == SumFunctionOnSet(Kept, Withdrawal)
             askingSum == SumFunctionOnSet(Asking, Worker)
             openSum   == SumFunctionOnSet(Open, Worker)
  <1>1. worker[k] \in Task /\ worker[k] # Idle /\ worker[k].step = "debit"
    BY WorkerAtStep DEF IInv, Debit
  <1>2. TypeOK /\ TypeOK' /\ w \in Withdrawal /\ withdrawal[w] = Absent
    BY <1>1 DEF IInv, Task, DebitsFresh
  <1>3. /\ withdrawal'[w] # Absent /\ withdrawal'[w].amount = amount
        /\ \A v \in Withdrawal : v # w => withdrawal'[v] = withdrawal[v]
    BY <1>2 DEF Debit, TypeOK, Absent
  <1>4. /\ worker'[k] # Idle /\ worker'[k].step = "count" /\ worker'[k].amount = amount
        /\ worker'[k].id = w
        /\ \A j \in Worker : j # k => worker'[j] = worker[j]
    <2> DEFINE task == [worker[k] EXCEPT !.step = "count", !.seen = Unread]
    <2>1. worker' = [worker EXCEPT ![k] = task]
      BY DEF Debit, Written
    <2>2. task # Idle /\ task.step = "count" /\ task.amount = amount /\ task.id = w
      BY <1>1 DEF Task, Idle
    <2> HIDE DEF task, amount, w
    <2>3. QED
      BY <1>2, <2>1, <2>2 DEF TypeOK
  <1>5. /\ entries' = entries - amount
        /\ UNCHANGED <<reversed, rejected, daily, failures>>
    <2>1. amount \in Nat /\ entries \in Int
      BY <1>1, <1>2, WithdrawalAssumption DEF TypeOK, Task
    <2>2. QED
      BY <2>1 DEF Debit, Change, day
  <1>6. PartsInt /\ PartsInt' /\ SumsInt
    BY <1>2, PartsAreInt, SumsAreInt, PTL
  <1>7. AmountsKnown'
    BY <1>2, <1>3, <1>4, AmountsStay DEF BooksInv
  <1>8. /\ Refunds(w) = 0
        /\ \A v \in Withdrawal : Refunds(v)' = Refunds(v)
    BY <1>2, <1>5 DEF BooksInv, NoneYet, Made, Refunds
  <1>9. /\ Taken[w] = 0 /\ Taken'[w] = amount
        /\ \A v \in Withdrawal : v # w => Taken'[v] = Taken[v]
    BY <1>2, <1>3 DEF Taken, Made
  <1>10. amount \in Nat /\ Kept[w] = 0 /\ Kept'[w] = amount
    <2>1. amount \in Nat
      BY <1>1, WithdrawalAssumption DEF Task
    <2>2. \A v \in Withdrawal :
            Kept[v] = Taken[v] * (1 - Refunds(v)) /\ Kept'[v] = Taken'[v] * (1 - Refunds(v))
      BY <1>8 DEF Kept
    <2>3. Kept[w] = Taken[w] * (1 - Refunds(w)) /\ Kept'[w] = Taken'[w] * (1 - Refunds(w))
      BY <1>2, <2>2
    <2> HIDE DEF amount, w
    <2>4. QED
      BY <1>8, <1>9, <2>1, <2>3
  <1>11. \A v \in Withdrawal : v # w => Kept'[v] = Kept[v]
    BY <1>8, <1>9 DEF Kept
  <1>12. /\ Asking[k] = amount /\ Open[k] = amount
         /\ Asking'[k] = 0 /\ Open'[k] = amount
    BY <1>1, <1>4 DEF Asking, Open, StepAmount
  <1>13. /\ takenSum' = takenSum + Taken'[w] - Taken[w]
         /\ keptSum' = keptSum + Kept'[w] - Kept[w]
         /\ askingSum' = askingSum + Asking'[k] - Asking[k]
         /\ openSum' = openSum + Open'[k] - Open[k]
    BY <1>2, <1>4, <1>9, <1>11, RowSums, WorkerSums
  <1>14. /\ takenSum \in Int /\ keptSum \in Int /\ askingSum \in Int /\ openSum \in Int
         /\ entries \in Int
    BY <1>2, <1>6 DEF SumsInt, TypeOK
  <1>15. entries + keptSum = 0
    BY DEF BooksInv, EntriesMatch
  <1>16. EntriesMatch' = (entries' + keptSum' = 0)
    BY DEF EntriesMatch
  <1>17. NoneYet' /\ ReversedOnce'
    BY <1>3, <1>5, <1>8 DEF BooksInv, NoneYet, Made, Refunds, ReversedOnce
  <1>18. /\ CountedInv = (/\ takenSum + askingSum <= daily + openSum + failures * Most
                        /\ takenSum + askingSum
                             <= Limit + (Cardinality(Worker) - 1 + failures) * Most)
         /\ CountedInv' = (/\ takenSum' + askingSum' <= daily + openSum' + failures * Most
                         /\ takenSum' + askingSum'
                              <= Limit + (Cardinality(Worker) - 1 + failures) * Most)
    BY <1>5 DEF CountedInv, CountedSoon, RacersOnly, Most
  <1> HIDE DEF takenSum, keptSum, askingSum, openSum, amount, w
  <1>19. /\ takenSum' + askingSum' = takenSum + askingSum /\ openSum' = openSum
         /\ entries' + keptSum' = 0
    BY <1>5, <1>9, <1>10, <1>12, <1>13, <1>14, <1>15
  <1>20. QED
    BY <1>7, <1>16, <1>17, <1>18, <1>19 DEF BooksInv

(* Counting closes a request. *)
LEMMA CountKeepsBooks ==
  ASSUME IInv, IInv', BooksInv, NEW k \in Worker, Count(k)
  PROVE  BooksInv' /\ (redis /\ CountedInv => CountedInv')
  <1> DEFINE amount    == worker[k].amount
             takenSum  == SumFunctionOnSet(Taken, Withdrawal)
             askingSum == SumFunctionOnSet(Asking, Worker)
             openSum   == SumFunctionOnSet(Open, Worker)
  <1>1. worker[k] \in Task /\ worker[k] # Idle /\ worker[k].step = "count"
    BY WorkerAtStep DEF IInv, Count
  <1>2. /\ worker'[k] = Idle \/ /\ worker'[k].step = "call"
                                /\ worker'[k].amount = amount
                                /\ worker'[k].id = worker[k].id
        /\ \A j \in Worker : j # k => worker'[j] = worker[j]
    BY <1>1 DEF Count, Goto, Ends, IInv, TypeOK, Task
  <1>3. /\ redis => daily' = daily + amount
        /\ UNCHANGED <<rows, reversed, rejected, entries, failures>>
    BY DEF Count, wallet
  <1>4. TypeOK /\ TypeOK' /\ amount \in Nat
    BY <1>1, WithdrawalAssumption DEF IInv, Task
  <1>5. UNCHANGED <<Taken, Kept>>
    BY <1>3 DEF Taken, Kept, Refunds, Made, rows
  <1>6. worker'[k] # Idle => worker'[k].amount = withdrawal'[worker'[k].id].amount
    BY <1>1, <1>2, <1>3 DEF BooksInv, AmountsKnown, rows
  <1>7. AmountsKnown'
    BY <1>2, <1>3, <1>6, AmountsStay DEF BooksInv, rows
  <1>8. BooksInv'
    BY <1>3, <1>5, <1>7 DEF BooksInv, NoneYet, Made, Refunds, ReversedOnce,
       EntriesMatch, rows
  <1>9. /\ Asking[k] = 0 /\ Asking'[k] = 0 /\ Open[k] = amount /\ Open'[k] = 0
    BY <1>1, <1>2 DEF Asking, Open, StepAmount
  <1>10. /\ askingSum' = askingSum + Asking'[k] - Asking[k]
         /\ openSum' = openSum + Open'[k] - Open[k]
    BY <1>2, <1>4, WorkerSums
  <1>11. askingSum \in Int /\ openSum \in Int /\ takenSum \in Int /\ daily \in Nat
    BY <1>4, SumsAreInt DEF SumsInt, TypeOK
  <1>12. takenSum' = takenSum
    BY <1>5
  <1>13. /\ CountedInv = (/\ takenSum + askingSum <= daily + openSum + failures * Most
                        /\ takenSum + askingSum
                             <= Limit + (Cardinality(Worker) - 1 + failures) * Most)
         /\ CountedInv' = (/\ takenSum' + askingSum' <= daily' + openSum' + failures * Most
                         /\ takenSum' + askingSum'
                              <= Limit + (Cardinality(Worker) - 1 + failures) * Most)
    BY <1>3 DEF CountedInv, CountedSoon, RacersOnly, Most
  <1> HIDE DEF takenSum, askingSum, openSum, amount
  <1>14. askingSum' = askingSum /\ (redis => daily' + openSum' = daily + openSum)
    BY <1>3, <1>4, <1>9, <1>10, <1>11
  <1>15. QED
    BY <1>8, <1>12, <1>13, <1>14

(* A refund of a withdrawal, by the reversal or by staff. *)
LEMMA RefundKeepsBooks ==
  ASSUME IInv, IInv', BooksInv, NEW k \in Worker, Reverse(k) \/ Reject(k)
  PROVE  BooksInv'
  <1> DEFINE w == worker[k].id
             amount    == worker[k].amount
             keptSum   == SumFunctionOnSet(Kept, Withdrawal)
  <1>1. worker[k] \in Task /\ worker[k] # Idle /\ worker[k].step \in {"reverse", "reject"}
    BY WorkerAtStep DEF IInv, Reverse, Reject
  <1>2. TypeOK /\ TypeOK' /\ w \in Withdrawal /\ w \in Made
    BY <1>1 DEF IInv, Task, RowsExist, Made
  <1>3. /\ worker'[k] = Idle \/ /\ worker'[k].amount = amount
                                /\ worker'[k].id = w
        /\ \A j \in Worker : j # k => worker'[j] = worker[j]
    BY <1>1, <1>2 DEF Reverse, Reject, Written, Ends, TypeOK, Task
  <1>4. UNCHANGED rows
    BY DEF Reverse, Reject
  <1>5. Taken' = Taken /\ Made' = Made /\ Taken[w] = amount /\ amount \in Nat
    BY <1>1, <1>2, <1>4, WithdrawalAssumption DEF Taken, Made, rows, BooksInv,
       AmountsKnown, Task
  <1>6. AmountsKnown'
    BY <1>1, <1>2, <1>3, <1>4, AmountsStay DEF BooksInv, AmountsKnown, rows
  <1>7. CASE UNCHANGED <<reversed, rejected, entries>>
    <2>1. Kept' = Kept
      BY <1>5, <1>7 DEF Kept, Refunds
    <2>2. QED
      BY <1>5, <1>6, <1>7, <2>1 DEF BooksInv, NoneYet, Refunds, ReversedOnce,
         EntriesMatch
  <1>8. CASE /\ entries' = entries + amount
             /\ \/ /\ reversed[w] = 0 /\ reversed' = [reversed EXCEPT ![w] = 1]
                   /\ UNCHANGED rejected
                \/ /\ rejected' = [rejected EXCEPT ![w] = @ + 1]
                   /\ UNCHANGED reversed
    <2>1. \A v \in Withdrawal : Refunds(v)' = IF v = w THEN Refunds(v) + 1 ELSE Refunds(v)
      BY <1>2, <1>8 DEF TypeOK, Refunds
    <2>2. PartsInt /\ PartsInt' /\ SumsInt
      BY <1>2, PartsAreInt, SumsAreInt, PTL
    <2>3. \A v \in Withdrawal : v # w => Kept'[v] = Kept[v]
      BY <1>5, <2>1 DEF Kept
    <2>4. Kept'[w] = Kept[w] - amount
      <3>1. \A v \in Withdrawal : Kept[v] = Taken[v] * (1 - Refunds(v))
                                  /\ Kept'[v] = Taken[v] * (1 - Refunds(v)')
        BY <1>5 DEF Kept
      <3>2. PICK n \in Nat : n = Refunds(w)
        BY <1>2, <2>2 DEF PartsInt
      <3>3. Kept[w] = amount * (1 - n) /\ Kept'[w] = amount * (1 - (n + 1))
        BY <1>2, <1>5, <2>1, <3>1, <3>2
      <3> HIDE DEF amount, w
      <3>4. amount * (1 - (n + 1)) = amount * (1 - n) - amount
        BY <1>5, <3>2
      <3>5. QED
        BY <3>3, <3>4
    <2>5. keptSum' = keptSum + Kept'[w] - Kept[w]
      BY <1>2, <1>5, <2>3, RowSums
    <2>6. keptSum \in Int /\ Kept[w] \in Int /\ entries \in Int
      BY <1>2, <2>2 DEF SumsInt, PartsInt, TypeOK
    <2>7. entries + keptSum = 0
      BY DEF BooksInv, EntriesMatch
    <2>8. EntriesMatch' = (entries' + keptSum' = 0)
      BY DEF EntriesMatch
    <2>9. NoneYet' /\ ReversedOnce'
      BY <1>2, <1>5, <1>8, <2>1 DEF BooksInv, NoneYet, ReversedOnce, TypeOK
    <2> HIDE DEF keptSum, w, amount
    <2>10. entries' + keptSum' = 0
      BY <1>5, <1>8, <2>4, <2>5, <2>6, <2>7
    <2>11. QED
      BY <1>6, <2>8, <2>9, <2>10 DEF BooksInv
  <1>9. QED
    BY <1>7, <1>8 DEF Reverse, Reject, Change, wallet

(* A refund opens and counts nothing. *)
LEMMA RefundKeepsLimit ==
  ASSUME IInv, IInv', CountedInv, NEW k \in Worker, Reverse(k) \/ Reject(k)
  PROVE  CountedInv'
  <1>1. worker[k] \in Task /\ worker[k] # Idle /\ worker[k].step \in {"reverse", "reject"}
    BY WorkerAtStep DEF IInv, Reverse, Reject
  <1>2. /\ worker'[k] = Idle \/ worker'[k].step = "markRejected"
        /\ \A j \in Worker : j # k => worker'[j] = worker[j]
    BY <1>1 DEF IInv, Reverse, Reject, Written, Ends, TypeOK, Task
  <1>3. UNCHANGED <<rows, daily, failures>>
    BY DEF Reverse, Reject, day
  <1>4. UNCHANGED Taken
    BY <1>3 DEF Taken, Made, rows
  <1>5. UNCHANGED <<Asking, Open>>
    <2>1. \A j \in Worker : /\ StepAmount(j, {"debit"})' = StepAmount(j, {"debit"})
                            /\ StepAmount(j, {"debit", "count"})'
                                 = StepAmount(j, {"debit", "count"})
      BY <1>1, <1>2 DEF StepAmount
    <2>2. QED
      BY <2>1 DEF Asking, Open
  <1>6. QED
    BY <1>3, <1>4, <1>5 DEF CountedInv, CountedSoon, RacersOnly, Most

\* Reading the wallet moves no money.
LEMMA ReadKeepsBooks ==
  ASSUME IInv, IInv', BooksInv, NEW k \in Worker, ReadBalance(k)
  PROVE  BooksInv' /\ (CountedInv => CountedInv') /\ (EachWithin => EachWithin')
  <1>1. SameTasks /\ UNCHANGED <<rows, money, psp, failures>>
    BY ReadKeepsTasks DEF IInv
  <1>2. UNCHANGED <<Taken, Kept, Made>>
    BY <1>1 DEF Taken, Kept, Refunds, Made, rows, money
  <1>3. UNCHANGED <<Asking, Open>>
    <2>1. \A j \in Worker : \A steps : StepAmount(j, steps)' = StepAmount(j, steps)
      BY <1>1 DEF StepAmount, SameTasks
    <2>2. QED
      BY <2>1 DEF Asking, Open
  <1>4. AmountsKnown'
    BY <1>1 DEF BooksInv, AmountsKnown, SameTasks, rows
  <1>5. BooksInv'
    BY <1>1, <1>2, <1>4 DEF BooksInv, NoneYet, Refunds, ReversedOnce, EntriesMatch,
       money, wallet
  <1>6. CountedInv => CountedInv'
    BY <1>1, <1>2, <1>3 DEF CountedInv, CountedSoon, RacersOnly, Most, money, day
  <1>7. EachWithin => EachWithin'
    BY <1>1, <1>2 DEF EachWithin, SameTasks, rows
  <1>8. QED
    BY <1>5, <1>6, <1>7

(* What is made or asked for stays within the limit, if nothing is added. *)
LEMMA EachStays ==
  ASSUME EachWithin,
         \A w \in Made' : w \in Made /\ withdrawal'[w].amount = withdrawal[w].amount,
         \A j \in Worker : \/ worker'[j] = worker[j] \/ worker'[j] = Idle
                           \/ worker'[j].step # "debit"
  PROVE  EachWithin'
  BY DEF EachWithin

\* Only a request that passed the check alone adds an amount.
LEMMA EachStep ==
  ASSUME IInv, IInv', BooksInv, EachWithin, ~ redis, [Next]_vars
  PROVE  EachWithin'
  <1>0. TypeOK
    BY DEF IInv
  <1>1. ASSUME UNCHANGED <<rows, worker>> PROVE EachWithin'
    BY <1>1 DEF EachWithin, Made, rows
  <1>2. ASSUME NEW k \in Worker, NEW w \in Withdrawal, NEW amount \in Amount,
               CheckLimit(k, w, amount)
        PROVE  EachWithin'
    <2>1. amount <= Limit
      BY <1>2, WithdrawalAssumption DEF CheckLimit, Today
    <2>2. /\ worker'[k].amount = amount
          /\ \A j \in Worker : j # k => worker'[j] = worker[j]
      BY <1>0, <1>2 DEF CheckLimit, Takes, TypeOK
    <2>3. UNCHANGED rows
      BY <1>2 DEF CheckLimit
    <2>4. QED
      BY <2>1, <2>2, <2>3 DEF EachWithin, Made, rows
  <1>3. ASSUME NEW k \in Worker, NEW w \in Withdrawal,
               \/ \E status \in Callback : CallbackRead(k, w, status)
               \/ \E decision \in {"approve", "reject"} : ReviewRead(k, w, decision)
        PROVE  EachWithin'
    <2>1. PICK step \in Callback \cup {"approve", "reject"} :
            Takes(k, step, w, withdrawal[w].amount) /\ UNCHANGED rows
      BY <1>3 DEF CallbackRead, ReviewRead, rows
    <2>2. worker'[k].step # "debit" /\ \A j \in Worker : j # k => worker'[j] = worker[j]
      BY <1>0, <2>1 DEF Takes, TypeOK, Callback
    <2>3. QED
      BY <2>1, <2>2, EachStays DEF Made, rows
  <1>4. ASSUME NEW k \in Worker, Debit(k) PROVE EachWithin'
    <2>1. worker[k] \in Task /\ worker[k] # Idle /\ worker[k].step = "debit"
      BY <1>0, <1>4, WorkerAtStep DEF Debit
    <2>2. worker[k].id \in Withdrawal /\ worker[k].amount <= Limit
      BY <2>1 DEF EachWithin, Task
    <2>3. \A w \in Withdrawal :
            IF w = worker[k].id THEN withdrawal'[w].amount = worker[k].amount
                                ELSE withdrawal'[w] = withdrawal[w]
      BY <1>0, <1>4, <2>2 DEF Debit, TypeOK
    <2>4. worker'[k].step = "count" /\ \A j \in Worker : j # k => worker'[j] = worker[j]
      BY <1>0, <1>4, <2>1 DEF Debit, Written, TypeOK, Task
    <2>5. QED
      BY <2>2, <2>3, <2>4 DEF EachWithin, Made
  <1>5. ASSUME NEW k \in Worker, Count(k) \/ Reverse(k) \/ Reject(k)
        PROVE  EachWithin'
    <2>1. worker[k] \in Task /\ worker[k] # Idle
      BY <1>0, <1>5, WorkerAtStep DEF Count, Reverse, Reject
    <2>2. /\ worker'[k] = Idle \/ worker'[k].step \in {"call", "markRejected"}
          /\ \A j \in Worker : j # k => worker'[j] = worker[j]
      BY <1>0, <1>5, <2>1 DEF Count, Reverse, Reject, Goto, Written, Ends, TypeOK, Task
    <2>3. UNCHANGED rows
      BY <1>5 DEF Count, Reverse, Reject
    <2>4. QED
      BY <2>2, <2>3, EachStays DEF Made, rows
  <1>6. ASSUME NEW k \in Worker, worker[k] \in Task, worker[k] # Idle, Quiet(k)
        PROVE  EachWithin'
    <2>1. /\ worker'[k] = Idle \/ worker'[k].step # "debit"
          /\ \A j \in Worker : j # k => worker'[j] = worker[j]
      BY <1>0, <1>6 DEF Quiet, Goto, Ends, TypeOK, Task
    <2>2. \A w \in Made' : w \in Made /\ withdrawal'[w].amount = withdrawal[w].amount
      BY <1>6 DEF Quiet, RowsKept, Made
    <2>3. QED
      BY <2>1, <2>2, EachStays
  <1>7. ASSUME NEW k \in Worker, Continue(k) \/ CutShort(k) PROVE EachWithin'
    BY <1>4, <1>5, <1>6, <1>7, QuietSteps, ReadKeepsBooks DEF Continue
  <1>8. QED
    BY <1>1, <1>2, <1>3, <1>7 DEF Next, vars, ProviderAccepts, ProviderRejects,
       ProviderCompletes, ProviderFails, ProviderMoves

(* A commit moves the drift of the others by its amount, and exposes as much. *)
LEMMA ChangeKeepsDrift ==
  ASSUME TypeOK, DriftInv, NEW k \in Worker, Reading(k),
         NEW amount \in {worker[k].amount, -worker[k].amount},
         Change(k, amount),
         worker'[k] = Idle \/ worker'[k].seen = Unread,
         \A j \in Worker : j # k => worker'[j] = worker[j]
  PROVE  DriftInv'
  <1>1. /\ worker[k].seen \in Int /\ worker[k].amount \in Nat
        /\ amount \in Int /\ -worker[k].amount <= amount /\ amount <= worker[k].amount
    <2>1. worker[k] \in Task /\ worker[k].seen # Unread
      BY DEF TypeOK, Reading
    <2>2. worker[k].seen \in Nat \cup {Unread} /\ worker[k].amount \in Amount
      BY <2>1 DEF Task
    <2>3. worker[k].seen \in Int
      BY <2>2 DEF Unread
    <2>4. worker[k].amount \in Nat
      BY <2>2, WithdrawalAssumption
    <2>5. QED
      BY <2>3, <2>4
  <1>2. entries \in Int /\ exposed \in Nat /\ InitialBalance \in Int
    BY WithdrawalAssumption DEF TypeOK
  <1>3. Drift(worker[k].seen) \in -exposed..exposed
    BY DEF DriftInv
  <1>4. exposed' \in {exposed, exposed + worker[k].amount}
    BY DEF Change
  <1>5. Drift(balance)' \in -exposed'..exposed'
    BY <1>1, <1>2, <1>3, <1>4 DEF Change, Drift
  <1>6. ASSUME NEW j \in Worker, Reading(j)'
        PROVE  Drift(worker[j].seen)' \in -exposed'..exposed'
    <2>1. j # k /\ worker'[j] = worker[j] /\ Reading(j)
      BY <1>6 DEF Reading
    <2>2. exposed' = exposed + worker[k].amount /\ entries' = entries + amount
      BY <2>1 DEF Change
    <2>3. worker[j].seen \in Int /\ Drift(worker[j].seen) \in -exposed..exposed
      BY <2>1 DEF TypeOK, Reading, Task, Unread, DriftInv
    <2>4. QED
      BY <1>1, <1>2, <2>1, <2>2, <2>3 DEF Drift
  <1>7. QED
    BY <1>5, <1>6 DEF DriftInv

(* A step that leaves the wallet alone, and reads nothing. *)
LEMMA WalletStays ==
  ASSUME DriftInv, UNCHANGED wallet,
         \A j \in Worker : Reading(j)' => Reading(j) /\ worker'[j].seen = worker[j].seen
  PROVE  DriftInv'
  BY DEF DriftInv, Drift, wallet

\* Every step keeps the balance, and what is seen of it, near the ledger.
LEMMA DriftStep == IInv /\ DriftInv /\ [Next]_vars => DriftInv'
  <1> SUFFICES ASSUME IInv, DriftInv, [Next]_vars PROVE DriftInv'
    OBVIOUS
  <1>0. TypeOK
    BY DEF IInv
  <1>1. ASSUME UNCHANGED <<wallet, worker>> PROVE DriftInv'
    BY <1>1, WalletStays DEF Reading
  <1>2. ASSUME NEW k \in Worker, NEW w \in Withdrawal,
               \/ \E amount \in Amount : CheckLimit(k, w, amount)
               \/ \E status \in Callback : CallbackRead(k, w, status)
               \/ \E decision \in {"approve", "reject"} : ReviewRead(k, w, decision)
        PROVE  DriftInv'
    <2>1. UNCHANGED wallet /\ \E step, amount : Takes(k, step, w, amount)
      BY <1>2 DEF CheckLimit, CallbackRead, ReviewRead, money
    <2>2. worker'[k].seen = Unread /\ \A j \in Worker : j # k => worker'[j] = worker[j]
      BY <1>0, <2>1 DEF Takes, TypeOK
    <2>3. QED
      BY <2>1, <2>2, WalletStays DEF Reading
  <1>3. ASSUME NEW k \in Worker, Debit(k) \/ Reject(k) PROVE DriftInv'
    <2>1. worker[k] \in Task /\ worker[k] # Idle
      BY <1>0, <1>3, WorkerAtStep DEF Debit, Reject
    <2>2. worker'[k].seen = Unread /\ \A j \in Worker : j # k => worker'[j] = worker[j]
      BY <1>0, <1>3, <2>1 DEF Debit, Reject, Written, TypeOK, Task
    <2>3. PICK amount \in {worker[k].amount, -worker[k].amount} : Change(k, amount)
      BY <1>3 DEF Debit, Reject
    <2>4. QED
      BY <1>0, <1>3, <2>2, <2>3, ChangeKeepsDrift DEF Debit, Reject
  <1>4. ASSUME NEW k \in Worker, Reverse(k) PROVE DriftInv'
    <2>1. worker'[k] = Idle /\ \A j \in Worker : j # k => worker'[j] = worker[j]
      BY <1>0, <1>4 DEF Reverse, Ends, TypeOK
    <2>2. CASE Change(k, worker[k].amount)
      BY <1>0, <1>4, <2>1, <2>2, ChangeKeepsDrift DEF Reverse
    <2>3. CASE UNCHANGED wallet
      BY <2>1, <2>3, WalletStays DEF Reading
    <2>4. QED
      BY <1>4, <2>2, <2>3 DEF Reverse
  <1>5. ASSUME NEW k \in Worker, ReadBalance(k) PROVE DriftInv'
    <2>1. /\ UNCHANGED wallet /\ worker'[k].seen = balance
          /\ \A j \in Worker : j # k => worker'[j] = worker[j]
      BY <1>0, <1>5, ReadKeepsTasks DEF money
    <2>2. QED
      BY <2>1 DEF DriftInv, Drift, Reading, wallet
  <1>6. ASSUME NEW k \in Worker, Count(k) \/ Quiet(k), worker[k] \in Task, worker[k] # Idle
        PROVE  DriftInv'
    <2>1. UNCHANGED wallet /\ (Ends(k) \/ \E step : Goto(k, step))
      BY <1>6 DEF Count, Quiet, money
    <2>2. /\ worker'[k] = Idle \/ worker'[k].seen = worker[k].seen
          /\ \A j \in Worker : j # k => worker'[j] = worker[j]
      BY <1>0, <1>6, <2>1 DEF Ends, Goto, TypeOK, Task
    <2>3. QED
      BY <1>6, <2>1, <2>2, WalletStays DEF Reading
  <1>7. ASSUME NEW k \in Worker, Continue(k) \/ CutShort(k) PROVE DriftInv'
    <2>1. Count(k) => worker[k] \in Task /\ worker[k] # Idle
      BY <1>0, WorkerAtStep DEF Count
    <2>2. QED
      BY <1>3, <1>4, <1>5, <1>6, <1>7, <2>1, QuietSteps DEF Continue
  <1>8. QED
    BY <1>1, <1>2, <1>7 DEF Next, vars, money, ProviderAccepts, ProviderRejects,
       ProviderCompletes, ProviderFails, ProviderMoves

\* At the start the wallet is what it is said to be.
LEMMA DriftInit == Init => DriftInv
  BY WithdrawalAssumption DEF Init, DriftInv, Drift, Reading

\* At the start there is nothing to count.
LEMMA BooksInit == Init => BooksInv /\ LimitInv
  <1> SUFFICES ASSUME Init PROVE BooksInv /\ LimitInv
    OBVIOUS
  <1>1. /\ withdrawal = [w \in Withdrawal |-> Absent]
        /\ reversed = [w \in Withdrawal |-> 0] /\ rejected = [w \in Withdrawal |-> 0]
        /\ worker = [k \in Worker |-> Idle]
        /\ entries = 0 /\ daily = 0 /\ failures = 0
    BY DEF Init
  <1>2. \A w \in Withdrawal : w \notin Made /\ Refunds(w) = 0
    BY <1>1 DEF Made, Refunds
  <1>3. \A w \in Withdrawal : Taken[w] = 0 /\ Kept[w] = 0
    BY <1>2 DEF Taken, Kept
  <1>4. \A k \in Worker : Asking[k] = 0 /\ Open[k] = 0
    BY <1>1 DEF Asking, Open, StepAmount
  <1>5. /\ SumFunctionOnSet(Taken, Withdrawal) = 0
        /\ SumFunctionOnSet(Kept, Withdrawal) = 0
        /\ SumFunctionOnSet(Asking, Worker) = 0
        /\ SumFunctionOnSet(Open, Worker) = 0
    BY <1>3, <1>4, SumZero, WithdrawalAssumption
  <1>6. BooksInv
    <2>1. EntriesMatch
      BY <1>1, <1>5 DEF EntriesMatch
    <2>2. QED
      BY <1>1, <1>2, <2>1 DEF BooksInv, AmountsKnown, NoneYet, ReversedOnce
  <1>7. Cardinality(Worker) \in Nat /\ Cardinality(Worker) # 0 /\ Most \in Nat
        /\ Limit \in Nat
    BY MostIsMost, FS_CardinalityType, FS_EmptySet, WithdrawalAssumption
  <1>8. Limit + (Cardinality(Worker) - 1 + 0) * Most >= 0 /\ 0 * Most = 0
    <2>1. PICK n \in Nat : Cardinality(Worker) - 1 + 0 = n
      BY <1>7
    <2>2. n * Most \in Nat
      BY <1>7, <2>1
    <2>3. QED
      BY <1>7, <2>1, <2>2
  <1>9. CountedInv
    BY <1>1, <1>5, <1>8 DEF CountedInv, CountedSoon, RacersOnly
  <1>10. EachWithin
    BY <1>1, <1>2 DEF EachWithin, Made
  <1>11. QED
    BY <1>6, <1>9, <1>10 DEF LimitInv

\* Every step keeps the books, and the day's limit when it is counted.
LEMMA BooksStep ==
  ASSUME IInv, IInv', BooksInv, [Next]_vars
  PROVE  BooksInv' /\ (redis /\ CountedInv => CountedInv') /\ redis' = redis
  <1> DEFINE Kept2 == BooksInv' /\ (redis /\ CountedInv => CountedInv')
  <1>1. CASE UNCHANGED vars
    BY <1>1, ProviderKeepsBooks DEF vars, money, day
  <1>2. ASSUME NEW k \in Worker, NEW w \in Withdrawal,
               \/ \E status \in Callback : CallbackRead(k, w, status)
               \/ \E decision \in {"approve", "reject"} : ReviewRead(k, w, decision)
        PROVE  Kept2 /\ redis' = redis
    BY <1>2, ReadsKeepBooks DEF CallbackRead, ReviewRead, money, day
  <1>3. ASSUME NEW k \in Worker, NEW w \in Withdrawal, NEW amount \in Amount,
               CheckLimit(k, w, amount)
        PROVE  Kept2 /\ redis' = redis
    BY <1>3, CheckKeepsBooks DEF CheckLimit, money, day
  <1>4. ASSUME NEW k \in Worker, Continue(k) \/ CutShort(k)
        PROVE  Kept2 /\ redis' = redis
    <2>1. CASE Debit(k)
      BY <2>1, DebitKeepsBooks DEF Debit, day
    <2>2. CASE Count(k)
      BY <2>2, CountKeepsBooks DEF Count
    <2>3. CASE Reverse(k) \/ Reject(k)
      <3>1. Kept2
        BY <2>3, RefundKeepsBooks, RefundKeepsLimit
      <3>2. QED
        BY <2>3, <3>1 DEF Reverse, Reject, day
    <2>4. CASE \/ InsufficientFunds(k) \/ ResponseOk(k) \/ ResponseError(k)
               \/ CallThrows(k) \/ FailAgain(k) \/ Void(k) \/ PayoutCompleted(k)
               \/ Confirm(k) \/ PayoutFailed(k) \/ Approve(k) \/ MarkRejected(k)
               \/ CutShort(k)
      <3>1. worker[k] \in Task /\ worker[k] # Idle /\ Quiet(k)
        BY <2>4, QuietSteps
      <3>2. QED
        BY <3>1, QuietKeepsBooks, QuietKeepsLimit DEF Quiet, money, day
    <2>5. CASE ReadBalance(k)
      BY <2>5, ReadKeepsBooks DEF ReadBalance, money, day
    <2>6. QED
      BY <1>4, <2>1, <2>2, <2>3, <2>4, <2>5 DEF Continue
  <1>5. ASSUME NEW w \in Withdrawal,
               \/ ProviderAccepts(w) \/ ProviderRejects(w)
               \/ ProviderCompletes(w) \/ ProviderFails(w)
        PROVE  Kept2 /\ redis' = redis
    BY <1>5, ProviderKeepsBooks DEF ProviderAccepts, ProviderRejects,
       ProviderCompletes, ProviderFails, ProviderMoves, money, day
  <1>6. QED
    BY <1>1, <1>2, <1>3, <1>4, <1>5 DEF Next

(* What is asked for comes on top of what was taken. *)
LEMMA LimitImplies == TypeOK /\ LimitInv => LimitOvershootBounded
  <1> SUFFICES ASSUME TypeOK, LimitInv, redis PROVE LimitOvershootBounded
    BY DEF LimitInv, EachWithin, LimitOvershootBounded
  <1> DEFINE takenSum  == SumFunctionOnSet(Taken, Withdrawal)
             askingSum == SumFunctionOnSet(Asking, Worker)
             zero      == [k \in Worker |-> 0]
             room      == (Cardinality(Worker) - 1 + failures) * Most
  <1>1. PartsInt /\ SumsInt
    BY PartsAreInt, SumsAreInt
  <1>2. askingSum >= 0
    <2>1. \A k \in Worker : zero[k] = 0 /\ zero[k] \in Int /\ Asking[k] \in Int
                            /\ zero[k] <= Asking[k]
      BY <1>1 DEF PartsInt
    <2>2. SumFunctionOnSet(zero, Worker) <= askingSum
      <3> HIDE DEF zero
      <3>1. QED
        BY <2>1, SumAtMost, WithdrawalAssumption
    <2>3. SumFunctionOnSet(zero, Worker) = 0
      BY SumZero, WithdrawalAssumption
    <2>4. QED
      BY <1>1, <2>2, <2>3 DEF SumsInt
  <1>3. takenSum \in Int /\ askingSum \in Int /\ Limit \in Nat /\ room \in Int
    <2>1. Cardinality(Worker) \in Nat /\ failures \in Nat /\ Most \in Nat
      BY MostIsMost, FS_CardinalityType, WithdrawalAssumption DEF TypeOK
    <2>2. PICK n \in Int : n = Cardinality(Worker) - 1 + failures
      BY <2>1
    <2>3. n * Most \in Int
      BY <2>1, <2>2
    <2>4. QED
      BY <1>1, <2>2, <2>3, WithdrawalAssumption DEF SumsInt
  <1>4. takenSum + askingSum <= Limit + room
    BY DEF LimitInv, CountedInv, RacersOnly
  <1>5. LimitOvershootBounded = (takenSum <= Limit + room)
    BY DEF LimitOvershootBounded, Most
  <1> HIDE DEF takenSum, askingSum, room
  <1>6. takenSum <= Limit + room
    BY <1>2, <1>3, <1>4
  <1>7. QED
    BY <1>5, <1>6

(* The books' invariant and the limit's hold in every reachable state. *)
THEOREM BooksInvariance == Spec => [](IInv /\ BooksInv /\ LimitInv /\ DriftInv)
  <1>1. Spec => []IInv
    BY WithdrawalInvariance
  <1>2. IInv /\ IInv' /\ BooksInv /\ LimitInv /\ [Next]_vars => BooksInv' /\ LimitInv'
    <2> SUFFICES ASSUME IInv, IInv', BooksInv, LimitInv, [Next]_vars
                 PROVE  BooksInv' /\ LimitInv'
      OBVIOUS
    <2>1. BooksInv' /\ (redis /\ CountedInv => CountedInv') /\ redis' = redis
      BY BooksStep
    <2>2. ~ redis => EachWithin'
      BY EachStep DEF LimitInv
    <2>3. QED
      BY <2>1, <2>2 DEF LimitInv
  <1>3. Spec => [](BooksInv /\ LimitInv)
    BY <1>1, <1>2, BooksInit, PTL DEF Spec
  <1>4. Spec => []DriftInv
    BY <1>1, DriftInit, DriftStep, PTL DEF Spec
  <1>5. QED
    BY <1>1, <1>3, <1>4, PTL

(* The error path of the request and the callbacks give a withdrawal back   *)
(* once between them (the unique reference REFUND_<id>).                    *)
THEOREM ReversedOnceHolds == Spec => []ReversedOnce
  <1>1. BooksInv => ReversedOnce
    BY DEF BooksInv
  <1>2. QED
    BY <1>1, BooksInvariance, PTL

(* The ledger entries are what was taken and not given back, and the        *)
(* balance, read without a lock and written as a sum (applyBalanceChangeTx), *)
(* differs from them by no more than what was committed beside a call that  *)
(* had read it already.                                                     *)
THEOREM BalanceMatchesWithdrawalsHolds == Spec => []BalanceMatchesWithdrawals
  <1>1. BooksInv /\ DriftInv => BalanceMatchesWithdrawals
    BY DEF BooksInv, EntriesMatch, DriftInv, Drift, BalanceMatchesWithdrawals
  <1>2. QED
    BY <1>1, BooksInvariance, PTL

(* The day's limit is exceeded by no more than the racing requests and the  *)
(* ones that stopped before they were counted (requestWithdrawal); without  *)
(* Redis, where nothing is counted, it bounds each withdrawal alone.        *)
THEOREM LimitOvershootBoundedHolds == Spec => []LimitOvershootBounded
  <1>1. IInv /\ LimitInv => LimitOvershootBounded
    BY LimitImplies DEF IInv
  <1>2. QED
    BY <1>1, BooksInvariance, PTL

-----------------------------------------------------------------------------
(* The records: status, Transaction and refund of a withdrawal. *)

\* What must still be done for a withdrawal is being done for it.
Busy == {"confirm", "failAgain", "void", "reverse", "markRejected"}

Doing(w, steps) ==
    \E k \in Worker : /\ worker[k] # Idle
                      /\ worker[k].id = w
                      /\ worker[k].step \in steps

\* Staff did not review it, and PawaPay's answer was true.
Clean(w) == withdrawal[w] # Absent /\ ~ withdrawal[w].reviewed /\ ~ Misled(w)

PendingStory(w) == payout[w] = "PENDING" /\ reversed[w] = 0

SuccessStory(w) ==
    /\ provider[w] = "completed"
    /\ reversed[w] = 0
    /\ \/ payout[w] = "SUCCESS"
       \/ payout[w] = "PENDING" /\ Doing(w, {"confirm"})

FailedStory(w) ==
    /\ provider[w] \in {"rejected", "failed"}
    /\ payout[w] \in {"PENDING", "FAILED"}
    /\ \/ Doing(w, {"failAgain", "void"})
       \/ payout[w] = "FAILED" /\ (Doing(w, {"reverse"}) \/ reversed[w] = 1)

StoryOf(w) ==
    /\ rejected[w] # 0 => Doing(w, {"markRejected"})
    /\ withdrawal[w].status = "PENDING" => PendingStory(w)
    /\ withdrawal[w].status = "SUCCESS" => SuccessStory(w)
    /\ withdrawal[w].status = "FAILED" => FailedStory(w)
    /\ Doing(w, {"confirm"}) => withdrawal[w].status = "SUCCESS"
    /\ Doing(w, {"failAgain", "void", "reverse"}) => withdrawal[w].status = "FAILED"

Stories == failures = 0 => \A w \in Withdrawal : Clean(w) => StoryOf(w)

\* Only a payout that PawaPay completed is announced as completed.
Completions ==
    /\ \A w \in Withdrawal : "COMPLETED" \in sent[w] => provider[w] = "completed"
    /\ \A k \in Worker : worker[k] # Idle /\ worker[k].step = "COMPLETED" =>
         provider[worker[k].id] = "completed"

\* An error is an answer.
ErrorsAnswered ==
    \A w \in Made : withdrawal[w].httpError => provider[w] # "none"

RecordsInv == Stories /\ Completions /\ ErrorsAnswered

-----------------------------------------------------------------------------

\* At the start there is nothing to tell.
LEMMA RecordsInit == Init => RecordsInv
  BY DEF Init, RecordsInv, Stories, Completions, ErrorsAnswered, Clean, Made

(* Nothing is served for a withdrawal whose records agree. *)
LEMMA RecordsImply == TypeOK /\ RecordsInv => RecordsAgree
  <1> SUFFICES ASSUME TypeOK, RecordsInv, NEW w \in Made, ~ Served(w), failures = 0,
                      ~ Misled(w), ~ withdrawal[w].reviewed
               PROVE  /\ payout[w] = withdrawal[w].status
                      /\ Refunds(w) = IF withdrawal[w].status = "FAILED" THEN 1 ELSE 0
    BY DEF RecordsAgree
  <1>1. w \in Withdrawal /\ StoryOf(w)
    BY DEF RecordsInv, Stories, Clean, Made
  <1>2. \A steps : ~ Doing(w, steps)
    BY DEF Doing, Served
  <1>3. withdrawal[w].status \in {"PENDING", "SUCCESS", "FAILED"}
    BY DEF TypeOK, Made, Row
  <1>4. rejected[w] = 0
    BY <1>1, <1>2 DEF StoryOf
  <1>5. CASE withdrawal[w].status = "PENDING"
    BY <1>1, <1>4, <1>5 DEF StoryOf, PendingStory, Refunds
  <1>6. CASE withdrawal[w].status = "SUCCESS"
    BY <1>1, <1>2, <1>4, <1>6 DEF StoryOf, SuccessStory, Refunds
  <1>7. CASE withdrawal[w].status = "FAILED"
    BY <1>1, <1>2, <1>4, <1>7 DEF StoryOf, FailedStory, Refunds
  <1>8. QED
    BY <1>3, <1>5, <1>6, <1>7

(* A withdrawal whose records and busy workers stay keeps its story. *)
LEMMA StoryStays ==
  ASSUME NEW w \in Withdrawal, StoryOf(w),
         withdrawal'[w] = withdrawal[w], payout'[w] = payout[w],
         reversed'[w] = reversed[w], rejected'[w] = rejected[w],
         \/ provider'[w] = provider[w]
         \/ provider[w] \in {"none", "processing"},
         \A k \in Worker :
           \/ worker'[k] = worker[k]
           \/ /\ worker[k] # Idle /\ worker[k].id = w => worker[k].step \notin Busy
              /\ worker'[k] # Idle /\ worker'[k].id = w => worker'[k].step \notin Busy
  PROVE  StoryOf(w)'
  <1>1. ASSUME NEW steps \in SUBSET Busy
        PROVE  Doing(w, steps)' <=> Doing(w, steps)
    BY DEF Doing
  <1>2. /\ Doing(w, {"confirm"})' <=> Doing(w, {"confirm"})
        /\ Doing(w, {"markRejected"})' <=> Doing(w, {"markRejected"})
        /\ Doing(w, {"reverse"})' <=> Doing(w, {"reverse"})
        /\ Doing(w, {"failAgain", "void"})' <=> Doing(w, {"failAgain", "void"})
        /\ Doing(w, {"failAgain", "void", "reverse"})'
             <=> Doing(w, {"failAgain", "void", "reverse"})
    <2>1. /\ {"confirm"} \in SUBSET Busy /\ {"markRejected"} \in SUBSET Busy
          /\ {"reverse"} \in SUBSET Busy /\ {"failAgain", "void"} \in SUBSET Busy
          /\ {"failAgain", "void", "reverse"} \in SUBSET Busy
      BY DEF Busy
    <2>2. QED
      BY <1>1, <2>1
  <1>3. QED
    BY <1>2 DEF StoryOf, PendingStory, SuccessStory, FailedStory

(* The fields of the row that a status is written to. *)
LEMMA WrittenFields ==
  ASSUME TypeOK, NEW w \in Withdrawal, withdrawal[w] # Absent, NEW status
  PROVE  /\ SetStatus(w, status) => /\ withdrawal'[w].status = status
                                    /\ withdrawal'[w].httpError = withdrawal[w].httpError
                                    /\ withdrawal'[w].reviewed = withdrawal[w].reviewed
         /\ HttpError(w) => /\ withdrawal'[w].status = "FAILED"
                            /\ withdrawal'[w].httpError = TRUE
                            /\ withdrawal'[w].reviewed = withdrawal[w].reviewed
         /\ Review(w, status) => /\ withdrawal'[w].reviewed = TRUE
                                 /\ withdrawal'[w].httpError = withdrawal[w].httpError
         /\ SetStatus(w, status) \/ HttpError(w) \/ Review(w, status) =>
              \A v \in Withdrawal : v # w => withdrawal'[v] = withdrawal[v]
  <1>1. withdrawal[w] \in Row /\ DOMAIN withdrawal = Withdrawal
    BY DEF TypeOK
  <1>2. QED
    BY <1>1 DEF SetStatus, HttpError, Review, Row

(* What is done by the others for a withdrawal. *)
Others(k, w, steps) ==
    \E j \in Worker \ {k} : worker[j] # Idle /\ worker[j].id = w /\ worker[j].step \in steps

\* Worker k goes on with its withdrawal at a step, or ends.
Moves(k, step) ==
    /\ \A j \in Worker \ {k} : worker'[j] = worker[j]
    /\ worker'[k] # Idle /\ worker'[k].id = worker[k].id /\ worker'[k].step = step

Leaves(k) ==
    /\ \A j \in Worker \ {k} : worker'[j] = worker[j]
    /\ worker'[k] = Idle

\* What goes on moves, and what ends leaves.
LEMMA GotoMoves ==
  ASSUME TypeOK, NEW k \in Worker, worker[k] \in Task
  PROVE  /\ \A step : step # "idle" /\ (Goto(k, step) \/ Written(k, step)) => Moves(k, step)
         /\ Ends(k) => Leaves(k)
  <1>1. DOMAIN worker = Worker
    BY DEF TypeOK
  <1>2. ASSUME NEW step, step # "idle", Goto(k, step)
        PROVE  Moves(k, step)
    <2>1. worker'[k] = [worker[k] EXCEPT !.step = step]
      BY <1>1, <1>2 DEF Goto
    <2>2. worker'[k].step = step /\ worker'[k].id = worker[k].id
      BY <2>1 DEF Task
    <2>3. QED
      BY <1>1, <1>2, <2>2 DEF Goto, Moves, Idle
  <1>3. ASSUME NEW step, step # "idle", Written(k, step)
        PROVE  Moves(k, step)
    <2> DEFINE task == [worker[k] EXCEPT !.step = step, !.seen = Unread]
    <2>1. worker' = [worker EXCEPT ![k] = task]
      BY <1>3 DEF Written
    <2>2. task.step = step /\ task.id = worker[k].id
      BY DEF Task
    <2> HIDE DEF task
    <2>3. QED
      BY <1>1, <1>3, <2>1, <2>2 DEF Moves, Idle
  <1>4. QED
    BY <1>1, <1>2, <1>3 DEF Ends, Leaves

\* Who is at work on a withdrawal, before and after one of them moves.
LEMMA DoingMoves ==
  ASSUME TypeOK, NEW k \in Worker, worker[k] \in Task, worker[k] # Idle, NEW w, w = worker[k].id
  PROVE  /\ \A steps : Doing(w, steps) <=> worker[k].step \in steps \/ Others(k, w, steps)
         /\ \A step : Moves(k, step) =>
              \A steps : Doing(w, steps)' <=> step \in steps \/ Others(k, w, steps)
         /\ Leaves(k) => \A steps : Doing(w, steps)' <=> Others(k, w, steps)
  BY DEF Doing, Others, Moves, Leaves

(* A payout that PawaPay refused or failed, whose withdrawal is clean. *)
LEMMA CleanDead ==
  ASSUME NEW w \in Withdrawal, Clean(w), Dead(w)
  PROVE  provider[w] \in {"rejected", "failed"}
  BY DEF Clean, Dead, Errs, Misled

(* The request's error path. *)
LEMMA ErrorStory ==
  ASSUME IInv, RecordsInv, failures = 0, NEW k \in Worker, NEW w \in Withdrawal,
         w = worker[k].id, ResponseError(k) \/ FailAgain(k), Clean(w)'
  PROVE  StoryOf(w)'
  <1>1. worker[k] \in Task /\ worker[k] # Idle /\ worker[k].step \in {"call", "failAgain"}
    BY WorkerAtStep DEF IInv, ResponseError, FailAgain, At
  <1>2. PICK step \in {"failAgain", "void"} : Goto(k, step)
    BY DEF ResponseError, FailAgain
  <1>3. HttpError(w) /\ UNCHANGED <<payout, money, psp>>
    BY DEF ResponseError, FailAgain
  <1>4. TypeOK /\ withdrawal[w] # Absent
    BY <1>1 DEF IInv, RowsExist
  <1>5. /\ withdrawal'[w].status = "FAILED" /\ withdrawal'[w].httpError = TRUE
        /\ withdrawal'[w].reviewed = withdrawal[w].reviewed
    BY <1>3, <1>4, WrittenFields
  <1>6. provider[w] = "rejected"
    BY <1>3, <1>5 DEF Clean, Misled, psp
  <1>7. Clean(w) /\ StoryOf(w)
    BY <1>4, <1>5, <1>6 DEF Clean, Misled, RecordsInv, Stories
  <1>8. Moves(k, step)
    BY <1>1, <1>2, <1>4, GotoMoves
  <1>9. \A steps : /\ Doing(w, steps) <=> worker[k].step \in steps \/ Others(k, w, steps)
                   /\ Doing(w, steps)' <=> step \in steps \/ Others(k, w, steps)
    BY <1>1, <1>4, <1>8, DoingMoves
  <1>10. withdrawal[w].status \in {"PENDING", "SUCCESS", "FAILED"}
    BY <1>4 DEF TypeOK, Row
  <1>11. /\ withdrawal[w].status \in {"PENDING", "FAILED"}
         /\ payout[w] \in {"PENDING", "FAILED"}
         /\ rejected[w] # 0 => Doing(w, {"markRejected"})
         /\ ~ Doing(w, {"confirm"})
    BY <1>6, <1>7, <1>10 DEF StoryOf, PendingStory, SuccessStory, FailedStory
  <1>12. FailedStory(w)'
    BY <1>2, <1>3, <1>6, <1>9, <1>11 DEF FailedStory, psp
  <1>13. (rejected'[w] # 0 => Doing(w, {"markRejected"})') /\ ~ Doing(w, {"confirm"})'
    BY <1>1, <1>3, <1>9, <1>11 DEF money
  <1>14. QED
    BY <1>5, <1>12, <1>13 DEF StoryOf

(* The tail of a failed payout. *)
LEMMA UnwindStory ==
  ASSUME IInv, ReversedOnce, RecordsInv, failures = 0, NEW k \in Worker,
         NEW w \in Withdrawal, w = worker[k].id, Void(k) \/ Reverse(k), Clean(w)'
  PROVE  StoryOf(w)'
  <1>1. worker[k] \in Task /\ worker[k] # Idle /\ worker[k].step \in {"void", "reverse"}
    BY WorkerAtStep DEF IInv, Void, Reverse, At
  <1>2. TypeOK /\ UNCHANGED <<withdrawal, rejected, provider>>
    BY DEF IInv, Void, Reverse, rows, money, psp
  <1>3. Clean(w) /\ StoryOf(w)
    BY <1>2 DEF Clean, Misled, RecordsInv, Stories
  <1>4. \A steps : Doing(w, steps) <=> worker[k].step \in steps \/ Others(k, w, steps)
    BY <1>1, <1>2, DoingMoves
  <1>5. /\ withdrawal[w].status = "FAILED" /\ FailedStory(w)
        /\ rejected[w] # 0 => Others(k, w, {"markRejected"})
        /\ ~ Others(k, w, {"confirm"})
    BY <1>1, <1>3, <1>4 DEF StoryOf
  <1>6. CASE Void(k)
    <2>1. Moves(k, "reverse")
      BY <1>1, <1>2, <1>6, GotoMoves DEF Void
    <2>2. \A steps : Doing(w, steps)' <=> "reverse" \in steps \/ Others(k, w, steps)
      BY <1>1, <1>2, <2>1, DoingMoves
    <2>3. payout'[w] = "FAILED"
      BY <1>2, <1>5, <1>6 DEF Void, FailedStory, TypeOK
    <2>4. FailedStory(w)'
      BY <1>2, <1>5, <2>2, <2>3 DEF FailedStory
    <2>5. QED
      BY <1>2, <1>5, <2>2, <2>4 DEF StoryOf
  <1>7. CASE Reverse(k)
    <2>1. Leaves(k)
      BY <1>1, <1>2, <1>7, GotoMoves DEF Reverse
    <2>2. \A steps : Doing(w, steps)' <=> Others(k, w, steps)
      BY <1>1, <1>2, <2>1, DoingMoves
    <2>3. reversed'[w] = 1 /\ payout' = payout
      BY <1>2, <1>7 DEF Reverse, ReversedOnce, TypeOK, rows
    <2>4. worker[k].step = "reverse"
      BY <1>7 DEF Reverse, At
    <2>5. FailedStory(w)'
      BY <1>2, <1>4, <1>5, <2>2, <2>3, <2>4 DEF FailedStory
    <2>6. QED
      BY <1>2, <1>5, <2>2, <2>5 DEF StoryOf
  <1>8. QED
    BY <1>6, <1>7

(* PawaPay's callbacks, while the row is PENDING. *)
LEMMA CallbackStory ==
  ASSUME IInv, RecordsInv, failures = 0, NEW k \in Worker, NEW w \in Withdrawal,
         w = worker[k].id, PayoutCompleted(k) \/ PayoutFailed(k),
         withdrawal[w].status = "PENDING", Clean(w)'
  PROVE  StoryOf(w)'
  <1>1. worker[k] \in Task /\ worker[k] # Idle
        /\ worker[k].step = IF PayoutCompleted(k) THEN "COMPLETED" ELSE "FAILED"
    BY WorkerAtStep DEF IInv, PayoutCompleted, PayoutFailed, At
  <1>2. TypeOK /\ withdrawal[w] # Absent /\ UNCHANGED <<payout, money, psp>>
    BY <1>1 DEF IInv, RowsExist, PayoutCompleted, PayoutFailed
  <1>3. PICK status \in {"SUCCESS", "FAILED"} :
          /\ SetStatus(w, status)
          /\ worker[k].step = IF status = "SUCCESS" THEN "COMPLETED" ELSE "FAILED"
          /\ Goto(k, IF status = "SUCCESS" THEN "confirm" ELSE "void")
    BY <1>1 DEF PayoutCompleted, PayoutFailed
  <1>4. /\ withdrawal'[w].status = status
        /\ withdrawal'[w].httpError = withdrawal[w].httpError
        /\ withdrawal'[w].reviewed = withdrawal[w].reviewed
    BY <1>2, <1>3, WrittenFields
  <1>5. Clean(w) /\ StoryOf(w)
    BY <1>2, <1>4 DEF Clean, Misled, RecordsInv, Stories, psp
  <1>6. Moves(k, IF status = "SUCCESS" THEN "confirm" ELSE "void")
    BY <1>1, <1>2, <1>3, GotoMoves
  <1>7. \A steps :
          /\ Doing(w, steps) <=> worker[k].step \in steps \/ Others(k, w, steps)
          /\ Doing(w, steps)' <=> \/ (IF status = "SUCCESS" THEN "confirm" ELSE "void") \in steps
                                  \/ Others(k, w, steps)
    BY <1>1, <1>2, <1>6, DoingMoves
  <1>8. /\ payout[w] = "PENDING" /\ reversed[w] = 0
        /\ rejected[w] # 0 => Others(k, w, {"markRejected"})
        /\ ~ Others(k, w, {"confirm"})
        /\ ~ Others(k, w, {"failAgain", "void", "reverse"})
    BY <1>1, <1>5, <1>7 DEF StoryOf, PendingStory
  <1>9. CASE status = "SUCCESS"
    <2>1. provider[w] = "completed"
      BY <1>1, <1>3, <1>9 DEF RecordsInv, Completions
    <2>2. SuccessStory(w)'
      BY <1>2, <1>7, <1>8, <1>9, <2>1 DEF SuccessStory, money, psp
    <2>3. QED
      BY <1>2, <1>4, <1>7, <1>8, <1>9, <2>2 DEF StoryOf, money
  <1>10. CASE status = "FAILED"
    <2>1. provider[w] \in {"rejected", "failed"}
      BY <1>1, <1>3, <1>5, <1>10, CleanDead DEF IInv, WorkersKnow, UnwindingStep
    <2>2. FailedStory(w)'
      BY <1>2, <1>7, <1>8, <1>10, <2>1 DEF FailedStory, psp
    <2>3. QED
      BY <1>2, <1>4, <1>7, <1>8, <1>10, <2>2 DEF StoryOf, money
  <1>11. QED
    BY <1>9, <1>10

\* The Transaction of a payout that went through is confirmed.
LEMMA ConfirmStory ==
  ASSUME IInv, RecordsInv, failures = 0, NEW k \in Worker, NEW w \in Withdrawal,
         w = worker[k].id, Confirm(k), Clean(w)'
  PROVE  StoryOf(w)'
  <1>1. worker[k] \in Task /\ worker[k] # Idle /\ worker[k].step = "confirm"
    BY WorkerAtStep DEF IInv, Confirm, At
  <1>2. TypeOK /\ UNCHANGED <<withdrawal, money, psp>>
    BY DEF IInv, Confirm
  <1>3. Clean(w) /\ StoryOf(w)
    BY <1>2 DEF Clean, Misled, RecordsInv, Stories, psp
  <1>4. Leaves(k)
    BY <1>1, <1>2, GotoMoves DEF Confirm
  <1>5. \A steps : /\ Doing(w, steps) <=> worker[k].step \in steps \/ Others(k, w, steps)
                   /\ Doing(w, steps)' <=> Others(k, w, steps)
    BY <1>1, <1>2, <1>4, DoingMoves
  <1>6. /\ withdrawal[w].status = "SUCCESS" /\ SuccessStory(w)
        /\ rejected[w] # 0 => Others(k, w, {"markRejected"})
        /\ ~ Others(k, w, {"failAgain", "void", "reverse"})
    BY <1>1, <1>3, <1>5 DEF StoryOf
  <1>7. payout'[w] = "SUCCESS"
    BY <1>2, <1>6 DEF Confirm, SuccessStory, TypeOK
  <1>8. SuccessStory(w)'
    BY <1>2, <1>6, <1>7 DEF SuccessStory, money, psp
  <1>9. QED
    BY <1>2, <1>5, <1>6, <1>8 DEF StoryOf, money

\* Staff who reject a payout give it back.
LEMMA RejectStory ==
  ASSUME IInv, RecordsInv, failures = 0, NEW k \in Worker, NEW w \in Withdrawal,
         w = worker[k].id, Reject(k), Clean(w)'
  PROVE  StoryOf(w)'
  <1>1. worker[k] \in Task /\ worker[k] # Idle /\ worker[k].step = "reject"
    BY WorkerAtStep DEF IInv, Reject, At
  <1>2. TypeOK /\ UNCHANGED <<withdrawal, payout, reversed, provider>>
    BY DEF IInv, Reject, rows, psp
  <1>3. Clean(w) /\ StoryOf(w)
    BY <1>2 DEF Clean, Misled, RecordsInv, Stories
  <1>4. Moves(k, "markRejected")
    BY <1>1, <1>2, GotoMoves DEF Reject
  <1>5. \A steps : /\ Doing(w, steps) <=> worker[k].step \in steps \/ Others(k, w, steps)
                   /\ Doing(w, steps)' <=> "markRejected" \in steps \/ Others(k, w, steps)
    BY <1>1, <1>2, <1>4, DoingMoves
  <1>6. /\ Doing(w, {"markRejected"})'
        /\ Doing(w, {"confirm"})' <=> Doing(w, {"confirm"})
        /\ Doing(w, {"reverse"})' <=> Doing(w, {"reverse"})
        /\ Doing(w, {"failAgain", "void"})' <=> Doing(w, {"failAgain", "void"})
        /\ Doing(w, {"failAgain", "void", "reverse"})'
             <=> Doing(w, {"failAgain", "void", "reverse"})
    BY <1>1, <1>5
  <1>7. QED
    BY <1>2, <1>3, <1>6 DEF StoryOf, PendingStory, SuccessStory, FailedStory

(* A new row: nobody is busy for it. *)
LEMMA DebitStory ==
  ASSUME IInv, BooksInv, NEW k \in Worker, NEW w \in Withdrawal,
         w = worker[k].id, Debit(k)
  PROVE  StoryOf(w)' /\ withdrawal'[w].httpError = FALSE
  <1>1. worker[k] \in Task /\ worker[k] # Idle /\ worker[k].step = "debit"
    BY WorkerAtStep DEF IInv, Debit, At
  <1>2. TypeOK /\ withdrawal[w] = Absent
        /\ \A j \in Worker \ {k} : worker[j] # Idle => worker[j].id # w
    BY <1>1 DEF IInv, DebitsFresh
  <1>3. Moves(k, "count")
    BY <1>1, <1>2, GotoMoves DEF Debit
  <1>4. \A steps : Doing(w, steps)' <=> "count" \in steps
    <2>1. \A steps : ~ Others(k, w, steps)
      BY <1>2 DEF Others
    <2>2. QED
      BY <1>1, <1>2, <1>3, <2>1, DoingMoves
  <1>5. /\ withdrawal'[w].status = "PENDING" /\ withdrawal'[w].httpError = FALSE
        /\ payout'[w] = "PENDING"
    BY <1>2 DEF Debit, TypeOK
  <1>6. reversed'[w] = 0 /\ rejected'[w] = 0
    BY <1>2 DEF BooksInv, NoneYet, Made, Refunds, Debit, TypeOK
  <1>7. QED
    BY <1>4, <1>5, <1>6 DEF StoryOf, PendingStory

\* A call does something else than reading the wallet.
Acts(k) ==
    \/ Debit(k) \/ InsufficientFunds(k) \/ Count(k)
    \/ ResponseOk(k) \/ ResponseError(k) \/ CallThrows(k)
    \/ FailAgain(k) \/ Void(k) \/ Reverse(k)
    \/ PayoutCompleted(k) \/ Confirm(k) \/ PayoutFailed(k)
    \/ Approve(k) \/ Reject(k) \/ MarkRejected(k)

(* A call touches no other withdrawal than its own. *)
LEMMA ElsewhereSame ==
  ASSUME IInv, NEW k \in Worker, Acts(k)
  PROVE  /\ worker[k] \in Task /\ worker[k] # Idle
         /\ UNCHANGED <<psp, failures>>
         /\ Leaves(k) \/ \E step \in Busy \cup {"count", "call"} : Moves(k, step)
         /\ \A w \in Withdrawal : w # worker[k].id =>
              /\ withdrawal'[w] = withdrawal[w] /\ payout'[w] = payout[w]
              /\ reversed'[w] = reversed[w] /\ rejected'[w] = rejected[w]
  <1>1. worker[k] \in Task /\ worker[k] # Idle
    BY WorkerAtStep DEF IInv, Acts, Debit, InsufficientFunds, Count, ResponseOk,
       ResponseError, CallThrows, FailAgain, Void, Reverse, PayoutCompleted, Confirm,
       PayoutFailed, Approve, Reject, MarkRejected
  <1>2. TypeOK
    BY DEF IInv
  <1>3. UNCHANGED <<psp, failures>>
    BY DEF Acts, Debit, InsufficientFunds, Count, ResponseOk, ResponseError,
       CallThrows, FailAgain, Void, Reverse, PayoutCompleted, Confirm, PayoutFailed,
       Approve, Reject, MarkRejected
  <1>4. Ends(k) \/ \E step \in Busy \cup {"count", "call"} : Goto(k, step) \/ Written(k, step)
    BY DEF Acts, Debit, InsufficientFunds, Count, ResponseOk, ResponseError,
       CallThrows, FailAgain, Void, Reverse, PayoutCompleted, Confirm, PayoutFailed,
       Approve, Reject, MarkRejected, Busy
  <1>5. \A step \in Busy \cup {"count", "call"} : step # "idle"
    BY DEF Busy
  <1>6. Leaves(k) \/ \E step \in Busy \cup {"count", "call"} : Moves(k, step)
    BY <1>1, <1>2, <1>4, <1>5, GotoMoves
  <1>7. ASSUME NEW w \in Withdrawal, w # worker[k].id
        PROVE  /\ withdrawal'[w] = withdrawal[w] /\ payout'[w] = payout[w]
               /\ reversed'[w] = reversed[w] /\ rejected'[w] = rejected[w]
    <2>1. CASE \/ ResponseError(k) \/ FailAgain(k) \/ PayoutCompleted(k)
               \/ PayoutFailed(k) \/ Approve(k) \/ MarkRejected(k)
      <3>1. worker[k].id \in Withdrawal /\ withdrawal[worker[k].id] # Absent
        BY <1>1, <2>1 DEF IInv, RowsExist, Task, ResponseError, FailAgain,
           PayoutCompleted, PayoutFailed, Approve, MarkRejected, At
      <3>2. UNCHANGED <<payout, money>>
        BY <2>1 DEF ResponseError, FailAgain, PayoutCompleted, PayoutFailed, Approve,
           MarkRejected
      <3>3. \/ UNCHANGED withdrawal
            \/ \E status \in {"SUCCESS", "FAILED"} : \/ SetStatus(worker[k].id, status)
                                                     \/ HttpError(worker[k].id)
                                                     \/ Review(worker[k].id, status)
        BY <2>1 DEF ResponseError, FailAgain, PayoutCompleted, PayoutFailed, Approve,
           MarkRejected
      <3>4. withdrawal'[w] = withdrawal[w]
        BY <1>2, <1>7, <3>1, <3>3, WrittenFields
      <3>5. QED
        BY <3>2, <3>4 DEF money
    <2>2. CASE Debit(k) \/ Void(k) \/ Confirm(k)
      BY <1>2, <1>7, <2>2 DEF TypeOK, Debit, Void, Confirm, money
    <2>3. CASE Reverse(k) \/ Reject(k)
      BY <1>2, <1>7, <2>3 DEF TypeOK, Reverse, Reject, rows
    <2>4. CASE InsufficientFunds(k) \/ Count(k) \/ ResponseOk(k) \/ CallThrows(k)
      BY <2>4 DEF InsufficientFunds, Count, ResponseOk, CallThrows, rows, money
    <2>5. QED
      BY <2>1, <2>2, <2>3, <2>4 DEF Acts
  <1>8. QED
    BY <1>1, <1>3, <1>6, <1>7

(* A step that only ends a call, or counts it, leaves its story. *)
LEMMA IdleStory ==
  ASSUME IInv, RecordsInv, failures = 0, NEW k \in Worker, NEW w \in Withdrawal,
         \/ InsufficientFunds(k) \/ Count(k) \/ ResponseOk(k) \/ CallThrows(k)
         \/ /\ PayoutCompleted(k) \/ PayoutFailed(k)
            /\ withdrawal[worker[k].id].status # "PENDING",
         Clean(w)'
  PROVE  StoryOf(w)'
  <1>1. /\ UNCHANGED <<withdrawal, payout, reversed, rejected, psp>>
        /\ worker[k].step \in {"debit", "count", "call", "COMPLETED", "FAILED"}
        /\ Ends(k) \/ Goto(k, "call")
    BY DEF InsufficientFunds, Count, ResponseOk, CallThrows, PayoutCompleted,
       PayoutFailed, At, rows, money
  <1>2. Clean(w) /\ StoryOf(w)
    BY <1>1 DEF Clean, Misled, RecordsInv, Stories, psp
  <1>3. worker[k].step \notin Busy
    BY <1>1 DEF Busy
  <1>4. Acts(k)
    BY DEF Acts
  <1>5. Leaves(k) \/ Moves(k, "call")
    BY <1>1, <1>4, ElsewhereSame, GotoMoves DEF IInv
  <1>6. "call" \notin Busy
    BY DEF Busy
  <1>7. ASSUME NEW j \in Worker
        PROVE  \/ worker'[j] = worker[j]
               \/ /\ worker[j] # Idle /\ worker[j].id = w => worker[j].step \notin Busy
                  /\ worker'[j] # Idle /\ worker'[j].id = w => worker'[j].step \notin Busy
    BY <1>3, <1>5, <1>6 DEF Leaves, Moves
  <1>8. QED
    BY <1>1, <1>2, <1>7, StoryStays DEF psp

\* Each step of those at work leaves a story that adds up.
LEMMA CallStories ==
  ASSUME IInv, BooksInv, RecordsInv, failures = 0, NEW k \in Worker, Acts(k),
         NEW w \in Withdrawal, Clean(w)'
  PROVE  StoryOf(w)'
  <1>1. CASE w # worker[k].id
    <2>1. /\ withdrawal'[w] = withdrawal[w] /\ payout'[w] = payout[w]
          /\ reversed'[w] = reversed[w] /\ rejected'[w] = rejected[w]
          /\ UNCHANGED psp
      BY <1>1, ElsewhereSame
    <2>2. Clean(w) /\ StoryOf(w)
      BY <2>1 DEF Clean, Misled, RecordsInv, Stories, psp
    <2>3. ASSUME NEW j \in Worker
          PROVE  \/ worker'[j] = worker[j]
                 \/ /\ worker[j] # Idle /\ worker[j].id = w => worker[j].step \notin Busy
                    /\ worker'[j] # Idle /\ worker'[j].id = w => worker'[j].step \notin Busy
      BY <1>1, ElsewhereSame DEF Leaves, Moves
    <2>4. QED
      BY <2>1, <2>2, <2>3, StoryStays DEF psp
  <1>2. CASE w = worker[k].id
    <2>1. CASE ResponseError(k) \/ FailAgain(k)
      BY <1>2, <2>1, ErrorStory
    <2>2. CASE Void(k) \/ Reverse(k)
      BY <1>2, <2>2, UnwindStory DEF BooksInv
    <2>3. CASE PayoutCompleted(k) \/ PayoutFailed(k)
      BY <1>2, <2>3, CallbackStory, IdleStory
    <2>4. CASE Confirm(k)
      BY <1>2, <2>4, ConfirmStory
    <2>5. CASE Reject(k)
      BY <1>2, <2>5, RejectStory
    <2>6. CASE Debit(k)
      BY <1>2, <2>6, DebitStory
    <2>7. CASE InsufficientFunds(k) \/ Count(k) \/ ResponseOk(k) \/ CallThrows(k)
      BY <2>7, IdleStory
    <2>8. CASE Approve(k) \/ MarkRejected(k)
      <3>1. TypeOK /\ withdrawal[w] # Absent
        <4>1. worker[k] # Idle /\ worker[k].step \in {"approve", "markRejected"}
          BY <2>8, WorkerAtStep DEF IInv, Approve, MarkRejected, At
        <4>2. QED
          BY <1>2, <4>1 DEF IInv, RowsExist
      <3>2. \E status \in {"SUCCESS", "FAILED"} : Review(w, status)
        BY <1>2, <2>8 DEF Approve, MarkRejected
      <3>3. withdrawal'[w].reviewed = TRUE
        BY <3>1, <3>2, WrittenFields
      <3>4. QED
        BY <3>3 DEF Clean
    <2>9. QED
      BY <2>1, <2>2, <2>3, <2>4, <2>5, <2>6, <2>7, <2>8 DEF Acts
  <1>3. QED
    BY <1>1, <1>2

(* A call that starts is not busy yet. *)
LEMMA StartsKeepRecords ==
  ASSUME IInv, RecordsInv, NEW k \in Worker, NEW w \in Withdrawal,
         \/ \E amount \in Amount : CheckLimit(k, w, amount)
         \/ \E status \in Callback : CallbackRead(k, w, status)
         \/ \E decision \in {"approve", "reject"} : ReviewRead(k, w, decision)
  PROVE  RecordsInv'
  <1>1. PICK step \in Callback \cup {"approve", "reject", "debit"} :
          /\ worker[k] = Idle
          /\ \E amount : worker' = [worker EXCEPT ![k] = [step |-> step, id |-> w,
                                                          amount |-> amount,
                                                          seen |-> Unread]]
          /\ step = "COMPLETED" => "COMPLETED" \in sent[w]
          /\ UNCHANGED <<rows, money, psp, failures>>
    BY DEF CheckLimit, CallbackRead, ReviewRead, Takes
  <1>2. step \notin Busy
    BY DEF Callback, Busy
  <1>3. /\ \A j \in Worker : j # k => worker'[j] = worker[j]
        /\ worker'[k].step = step /\ worker'[k].id = w
    BY <1>1 DEF IInv, TypeOK
  <1>4. Stories'
    <2> SUFFICES ASSUME failures' = 0, NEW v \in Withdrawal, Clean(v)'
                 PROVE  StoryOf(v)'
      BY DEF Stories
    <2>1. Clean(v) /\ StoryOf(v)
      BY <1>1 DEF Clean, Misled, RecordsInv, Stories, rows, psp
    <2>2. ASSUME NEW j \in Worker
          PROVE  \/ worker'[j] = worker[j]
                 \/ /\ worker[j] # Idle /\ worker[j].id = v => worker[j].step \notin Busy
                    /\ worker'[j] # Idle /\ worker'[j].id = v => worker'[j].step \notin Busy
      BY <1>1, <1>2, <1>3
    <2>3. QED
      BY <1>1, <2>1, <2>2, StoryStays DEF rows, money, psp
  <1>5. Completions'
    <2>1. \A v \in Withdrawal : "COMPLETED" \in sent'[v] => provider'[v] = "completed"
      BY <1>1 DEF RecordsInv, Completions, psp
    <2>2. ASSUME NEW j \in Worker, worker'[j] # Idle, worker'[j].step = "COMPLETED"
          PROVE  provider'[worker'[j].id] = "completed"
      BY <1>1, <1>3, <2>2 DEF RecordsInv, Completions, psp
    <2>3. QED
      BY <2>1, <2>2 DEF Completions
  <1>6. ErrorsAnswered'
    BY <1>1 DEF RecordsInv, ErrorsAnswered, Made, rows, psp
  <1>7. QED
    BY <1>4, <1>5, <1>6 DEF RecordsInv

(* PawaPay decides about a payout that is not decided. *)
LEMMA ProviderKeepsRecords ==
  ASSUME IInv, RecordsInv, NEW w \in Withdrawal,
         \/ ProviderAccepts(w) \/ ProviderRejects(w)
         \/ ProviderCompletes(w) \/ ProviderFails(w)
  PROVE  RecordsInv'
  <1>1. PICK move \in {<<"none", "processing", {}>>, <<"none", "rejected", {"FAILED"}>>,
                       <<"processing", "completed", {"COMPLETED"}>>,
                       <<"processing", "failed", {"FAILED"}>>} :
          /\ provider[w] = move[1]
          /\ provider' = [provider EXCEPT ![w] = move[2]]
          /\ sent' = [sent EXCEPT ![w] = @ \cup move[3]]
          /\ UNCHANGED <<rows, money, worker, failures>>
    BY DEF ProviderAccepts, ProviderRejects, ProviderCompletes, ProviderFails,
           ProviderMoves
  <1>2. \A v \in Withdrawal : /\ v # w => provider'[v] = provider[v]
                              /\ provider'[v] # "none" \/ provider'[v] = provider[v]
                              /\ v # w => sent'[v] = sent[v]
    BY <1>1 DEF IInv, TypeOK
  <1>3. provider[w] \in {"none", "processing"} /\ provider'[w] = move[2]
        /\ sent'[w] = sent[w] \cup move[3]
    BY <1>1 DEF IInv, TypeOK
  <1>4. Stories'
    <2> SUFFICES ASSUME failures' = 0, NEW v \in Withdrawal, Clean(v)'
                 PROVE  StoryOf(v)'
      BY DEF Stories
    <2>1. withdrawal[v] # Absent /\ ~ withdrawal[v].reviewed
          /\ (withdrawal[v].httpError => provider'[v] = "rejected")
      BY <1>1 DEF Clean, Misled, rows
    <2>2. withdrawal[v].httpError => provider[v] = "rejected"
      <3>1. withdrawal[v].httpError => provider[v] # "none"
        BY <2>1 DEF RecordsInv, ErrorsAnswered, Made
      <3>2. CASE v = w
        BY <1>1, <1>3, <2>1, <3>1, <3>2
      <3>3. CASE v # w
        BY <1>2, <2>1, <3>3
      <3>4. QED
        BY <3>2, <3>3
    <2>3. Clean(v) /\ StoryOf(v)
      BY <1>1, <2>1, <2>2 DEF Clean, Misled, RecordsInv, Stories
    <2>4. provider'[v] = provider[v] \/ provider[v] \in {"none", "processing"}
      BY <1>2, <1>3
    <2>5. QED
      BY <1>1, <2>3, <2>4, StoryStays DEF rows, money
  <1>5. Completions'
    <2>1. ASSUME NEW v \in Withdrawal, "COMPLETED" \in sent'[v]
          PROVE  provider'[v] = "completed"
      BY <1>1, <1>2, <1>3, <2>1 DEF RecordsInv, Completions
    <2>2. ASSUME NEW j \in Worker, worker[j] # Idle, worker[j].step = "COMPLETED"
          PROVE  provider'[worker[j].id] = "completed"
      <3>1. worker[j].id \in Withdrawal /\ provider[worker[j].id] = "completed"
        BY <2>2 DEF IInv, TypeOK, Task, RecordsInv, Completions
      <3>2. QED
        BY <1>2, <1>3, <3>1
    <2>3. QED
      BY <1>1, <2>1, <2>2 DEF Completions
  <1>6. ErrorsAnswered'
    BY <1>1, <1>2 DEF RecordsInv, ErrorsAnswered, Made, rows
  <1>7. QED
    BY <1>4, <1>5, <1>6 DEF RecordsInv

(* A call goes on, or is cut short. *)
LEMMA CallsKeepRecords ==
  ASSUME IInv, BooksInv, RecordsInv, NEW k \in Worker, Acts(k) \/ CutShort(k)
  PROVE  RecordsInv'
  <1> DEFINE w == worker[k].id
  <1>1. TypeOK /\ worker[k] \in Task /\ worker[k] # Idle /\ w \in Withdrawal
    BY ElsewhereSame DEF IInv, CutShort, TypeOK, Task
  <1>2. UNCHANGED psp /\ failures \in Nat /\ failures' \in {failures, failures + 1}
    BY <1>1, ElsewhereSame DEF CutShort, TypeOK
  <1>3. Leaves(k) \/ \E step \in Busy \cup {"count", "call"} : Moves(k, step)
    BY <1>1, ElsewhereSame, GotoMoves DEF CutShort
  <1>4. Stories'
    <2> SUFFICES ASSUME failures' = 0, NEW v \in Withdrawal, Clean(v)'
                 PROVE  StoryOf(v)'
      BY DEF Stories
    <2>1. failures = 0 /\ Acts(k)
      BY <1>2 DEF CutShort
    <2>2. QED
      BY <2>1, CallStories
  <1>5. Completions'
    <2>1. "COMPLETED" \notin Busy \cup {"count", "call"}
      BY DEF Busy
    <2>2. ASSUME NEW j \in Worker, worker'[j] # Idle, worker'[j].step = "COMPLETED"
          PROVE  worker'[j] = worker[j]
      BY <1>3, <2>1, <2>2 DEF Leaves, Moves
    <2>3. QED
      BY <1>2, <2>2 DEF RecordsInv, Completions, psp
  <1>6. ErrorsAnswered'
    <2> SUFFICES ASSUME NEW v \in Withdrawal, withdrawal'[v] # Absent,
                        withdrawal'[v].httpError
                 PROVE  provider[v] # "none"
      BY <1>2 DEF ErrorsAnswered, Made, psp
    <2>1. CASE withdrawal[v] # Absent /\ withdrawal[v].httpError
      BY <2>1 DEF RecordsInv, ErrorsAnswered, Made
    <2>2. CASE ResponseError(k) /\ v = w
      BY <2>2 DEF ResponseError
    <2>3. CASE FailAgain(k) /\ v = w
      <3>1. Dead(v)
        BY <1>1, <2>3 DEF FailAgain, At, IInv, WorkersKnow, UnwindingStep
      <3>2. QED
        BY <2>1, <3>1 DEF Dead, Errs
    <2>4. CASE Debit(k) /\ v = w
      BY <2>4, DebitStory
    <2>5. CASE /\ \/ PayoutCompleted(k) \/ PayoutFailed(k) \/ Approve(k) \/ MarkRejected(k)
               /\ v = w
      <3>1. withdrawal[w] # Absent
        <4>1. worker[k].step # "debit"
          BY <2>5 DEF PayoutCompleted, PayoutFailed, Approve, MarkRejected, At
        <4>2. QED
          BY <1>1, <4>1 DEF IInv, RowsExist
      <3>2. \/ UNCHANGED withdrawal
            \/ \E status : SetStatus(w, status) \/ Review(w, status)
        BY <2>5 DEF PayoutCompleted, PayoutFailed, Approve, MarkRejected
      <3>3. withdrawal'[w].httpError = withdrawal[w].httpError
        BY <1>1, <3>1, <3>2, WrittenFields
      <3>4. QED
        BY <2>1, <2>5, <3>1, <3>3
    <2>6. CASE /\ \/ InsufficientFunds(k) \/ Count(k) \/ ResponseOk(k) \/ CallThrows(k)
                  \/ Void(k) \/ Reverse(k) \/ Confirm(k) \/ Reject(k) \/ CutShort(k)
               /\ v = w
      <3>1. UNCHANGED withdrawal
        BY <2>6 DEF InsufficientFunds, Count, ResponseOk, CallThrows, Void, Reverse,
           Confirm, Reject, CutShort, rows
      <3>2. QED
        BY <2>1, <3>1
    <2>7. CASE v # w
      <3>1. withdrawal'[v] = withdrawal[v]
        BY <2>7, ElsewhereSame DEF CutShort, rows
      <3>2. QED
        BY <2>1, <3>1
    <2>8. QED
      BY <2>2, <2>3, <2>4, <2>5, <2>6, <2>7 DEF Acts
  <1>7. QED
    BY <1>4, <1>5, <1>6 DEF RecordsInv

(* Reading the wallet tells nobody anything. *)
LEMMA ReadKeepsRecords ==
  ASSUME IInv, RecordsInv, NEW k \in Worker, ReadBalance(k)
  PROVE  RecordsInv'
  <1>1. SameTasks /\ UNCHANGED <<rows, money, psp, failures>>
    BY ReadKeepsTasks DEF IInv
  <1>2. \A w, steps : Doing(w, steps)' <=> Doing(w, steps)
    BY <1>1 DEF Doing, SameTasks
  <1>3. Stories'
    <2> SUFFICES ASSUME failures' = 0, NEW w \in Withdrawal, Clean(w)'
                 PROVE  StoryOf(w)'
      BY DEF Stories
    <2>1. StoryOf(w)
      BY <1>1 DEF RecordsInv, Stories, Clean, Misled, rows, psp
    <2>2. QED
      BY <1>1, <1>2, <2>1 DEF StoryOf, PendingStory, SuccessStory, FailedStory,
         rows, money, psp
  <1>4. Completions'
    BY <1>1 DEF RecordsInv, Completions, SameTasks, psp
  <1>5. ErrorsAnswered'
    BY <1>1 DEF RecordsInv, ErrorsAnswered, Made, rows, psp
  <1>6. QED
    BY <1>3, <1>4, <1>5 DEF RecordsInv

\* Every step keeps the records of each withdrawal in agreement.
LEMMA RecordsStep == IInv /\ BooksInv /\ RecordsInv /\ [Next]_vars => RecordsInv'
  <1> SUFFICES ASSUME IInv, BooksInv, RecordsInv, [Next]_vars PROVE RecordsInv'
    OBVIOUS
  <1>1. CASE UNCHANGED vars
    BY <1>1 DEF vars, rows, money, psp, RecordsInv, Stories, Completions, ErrorsAnswered,
       Clean, Misled, Made, StoryOf, PendingStory, SuccessStory, FailedStory, Doing
  <1>2. ASSUME NEW k \in Worker, NEW w \in Withdrawal,
               \/ \E amount \in Amount : CheckLimit(k, w, amount)
               \/ \E status \in Callback : CallbackRead(k, w, status)
               \/ \E decision \in {"approve", "reject"} : ReviewRead(k, w, decision)
        PROVE  RecordsInv'
    BY <1>2, StartsKeepRecords
  <1>3. ASSUME NEW k \in Worker, Continue(k) \/ CutShort(k)
        PROVE  RecordsInv'
    BY <1>3, CallsKeepRecords, ReadKeepsRecords DEF Acts, Continue
  <1>4. ASSUME NEW w \in Withdrawal,
               \/ ProviderAccepts(w) \/ ProviderRejects(w)
               \/ ProviderCompletes(w) \/ ProviderFails(w)
        PROVE  RecordsInv'
    BY <1>4, ProviderKeepsRecords
  <1>5. QED
    BY <1>1, <1>2, <1>3, <1>4 DEF Next

(* When nothing is served for a withdrawal, and no call was cut short, its  *)
(* status, its Transaction and its refund tell the same story, except where *)
(* staff reviewed it or PawaPay's answer was an error it did not mean.      *)
THEOREM RecordsAgreeHolds == Spec => []RecordsAgree
  <1>1. Spec => []RecordsInv
    BY BooksInvariance, RecordsInit, RecordsStep, PTL DEF Spec
  <1>2. IInv /\ RecordsInv => RecordsAgree
    BY RecordsImply DEF IInv
  <1>3. QED
    BY <1>1, <1>2, WithdrawalInvariance, PTL

=============================================================================
