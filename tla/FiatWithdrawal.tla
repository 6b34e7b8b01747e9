-------------------------- MODULE FiatWithdrawal --------------------------
(***************************************************************************)
(* Mobile-money withdrawals of one user in one currency on one day:        *)
(* payments/withdrawal.service (the request), payments/webhook.service     *)
(* (PawaPay's payout callbacks) and the review of withdrawals by staff in  *)
(* admin.service.                                                          *)
(*                                                                         *)
(* Whatever is served, a request, a callback or a review, is a Worker at   *)
(* its next step; every await between two database calls is a place where  *)
(* others may run, or the process may stop.  A transaction is one step,    *)
(* except that applyBalanceChangeTx reads the wallet without a lock and    *)
(* later writes the sum it has computed: those are two.                    *)
(***************************************************************************)
EXTENDS Integers, FiniteSets, FiniteSetsExt, Functions

CONSTANTS
    Withdrawal,         \* identifiers of FiatWithdrawal rows
    Worker,             \* calls served at the same time
    Amount,             \* amounts users ask for
    InitialBalance,     \* of the user's fiat wallet
    Limit,              \* SystemConfig.dailyWithdrawLimitFiat
    Configured,         \* PAWAPAY_API_KEY is set
    MaxFailures         \* bound: calls that are cut short

\* Tables and servers are finite, and a column bounds the amounts.
ASSUME WithdrawalAssumption ==
    /\ IsFiniteSet(Withdrawal) /\ IsFiniteSet(Worker) /\ Worker # {}
    /\ Amount \subseteq Nat \ {0}
    /\ \E most \in Amount : \A amount \in Amount : amount <= most
    /\ {InitialBalance, Limit, MaxFailures} \subseteq Nat
    /\ Configured \in BOOLEAN

VARIABLES
    withdrawal, \* FiatWithdrawal rows
    payout,     \* status of the row's WITHDRAW_FIAT Transaction
    reversed,   \* number of WITHDRAW_REVERSAL entries of the withdrawal
    rejected,   \* number of WITHDRAW_REJECT_REFUND entries
    balance,    \* WalletAccount.balance
    entries,    \* sum of the wallet's LedgerEntry rows
    exposed,    \* history: amounts committed while another call had read the balance
    redis,      \* REDIS_URL is set
    daily,      \* the user's withdraw:day counter in Redis
    provider,   \* what PawaPay does with the payout
    sent,       \* statuses PawaPay has sent callbacks with
    worker,     \* what each worker does next, and for which withdrawal
    failures    \* calls cut short so far

rows  == <<withdrawal, payout>>
wallet == <<balance, entries, exposed>>
day   == <<redis, daily>>
money == <<reversed, rejected, wallet, day>>
psp   == <<provider, sent>>
vars  == <<rows, money, psp, worker, failures>>

\* httpError: failureReason says that PawaPay answered the request with an
\* error; reviewed: reviewedBy is set.
Row == [status : {"PENDING", "SUCCESS", "FAILED"}, amount : Amount,
        httpError : BOOLEAN, reviewed : BOOLEAN]
Absent   == [status |-> "NONE"]
Callback == {"COMPLETED", "FAILED"}
Idle     == [step |-> "idle"]

Unread   == -1

Task == [step : {"debit", "count", "call", "failAgain", "void", "reverse",
                 "confirm", "COMPLETED", "FAILED", "approve", "reject",
                 "markRejected"},
         id : Withdrawal, amount : Amount, seen : Nat \cup {Unread}]

TypeOK ==
    /\ withdrawal \in [Withdrawal -> {Absent} \cup Row]
    /\ payout \in [Withdrawal -> {"NONE", "PENDING", "SUCCESS", "FAILED"}]
    /\ reversed \in [Withdrawal -> Nat]
    /\ rejected \in [Withdrawal -> Nat]
    /\ balance \in Nat /\ entries \in Int /\ exposed \in Nat
    /\ redis \in BOOLEAN /\ daily \in Nat
    /\ provider \in [Withdrawal -> {"none", "processing", "rejected",
                                    "completed", "failed"}]
    /\ sent \in [Withdrawal -> SUBSET Callback]
    /\ worker \in [Worker -> {Idle} \cup Task]
    /\ failures \in Nat

Init ==
    /\ withdrawal = [w \in Withdrawal |-> Absent]
    /\ payout = [w \in Withdrawal |-> "NONE"]
    /\ reversed = [w \in Withdrawal |-> 0]
    /\ rejected = [w \in Withdrawal |-> 0]
    /\ balance = InitialBalance /\ entries = 0 /\ exposed = 0
    /\ redis \in BOOLEAN /\ daily = 0
    /\ provider = [w \in Withdrawal |-> "none"]
    /\ sent = [w \in Withdrawal |-> {}]
    /\ worker = [k \in Worker |-> Idle]
    /\ failures = 0

-----------------------------------------------------------------------------

At(k, step)   == worker[k].step = step
Goto(k, step) == worker' = [worker EXCEPT ![k].step = step]
Ends(k)       == worker' = [worker EXCEPT ![k] = Idle]

Served(w) == \E k \in Worker : worker[k] # Idle /\ worker[k].id = w

Takes(k, step, w, amount) ==
    /\ worker[k] = Idle
    /\ worker' = [worker EXCEPT ![k] =
                    [step |-> step, id |-> w, amount |-> amount, seen |-> Unread]]

SetStatus(w, status) ==
    withdrawal' = [withdrawal EXCEPT ![w].status = status]

HttpError(w) ==
    withdrawal' = [withdrawal EXCEPT ![w].status = "FAILED", ![w].httpError = TRUE]

Review(w, status) ==
    withdrawal' = [withdrawal EXCEPT ![w].status = status, ![w].reviewed = TRUE]

-----------------------------------------------------------------------------
(* applyBalanceChangeTx. *)

\* The call has read the wallet, and is about to write it.
Reading(k) == worker[k] # Idle /\ worker[k].seen # Unread

ReadBalance(k) ==
    /\ At(k, "debit") \/ At(k, "reverse") \/ At(k, "reject")
    /\ ~ Reading(k)
    /\ worker' = [worker EXCEPT ![k].seen = balance]
    /\ UNCHANGED <<rows, money, psp, failures>>

Written(k, step) ==
    worker' = [worker EXCEPT ![k].step = step, ![k].seen = Unread]

\* The sum of what was read and the change, whatever the row holds by now.
\* What others have read is then out of date, and they may overwrite it.
Change(k, amount) ==
    /\ balance' = worker[k].seen + amount
    /\ entries' = entries + amount
    /\ exposed' = IF \E j \in Worker \ {k} : Reading(j)
                  THEN exposed + worker[k].amount ELSE exposed

-----------------------------------------------------------------------------
(* requestWithdrawal. *)

\* getDailyWithdrawTotal: without Redis there is nothing to read.
Today == IF redis THEN daily ELSE 0

\* Mutant: the new amount is not part of the sum.
CheckLimitBefore(k, w, amount) ==
    /\ withdrawal[w] = Absent /\ ~ Served(w)
    /\ Today < Limit
    /\ Takes(k, "debit", w, amount)
    /\ UNCHANGED <<rows, money, psp, failures>>

\* The day's total is read long before it is incremented.
CheckLimit(k, w, amount) ==
    /\ withdrawal[w] = Absent /\ ~ Served(w)
    /\ Today + amount <= Limit
    /\ Takes(k, "debit", w, amount)
    /\ UNCHANGED <<rows, money, psp, failures>>

\* The row, the debit and its PENDING Transaction are one transaction.
Debit(k) ==
    /\ At(k, "debit") /\ Reading(k)
    /\ worker[k].seen >= worker[k].amount
    /\ Change(k, -worker[k].amount)
    /\ withdrawal' = [withdrawal EXCEPT ![worker[k].id] =
                        [status |-> "PENDING", amount |-> worker[k].amount,
                         httpError |-> FALSE, reviewed |-> FALSE]]
    /\ payout' = [payout EXCEPT ![worker[k].id] = "PENDING"]
    /\ Written(k, "count")
    /\ UNCHANGED <<reversed, rejected, day, psp, failures>>

InsufficientFunds(k) ==
    /\ At(k, "debit") /\ Reading(k)
    /\ worker[k].seen < worker[k].amount
    /\ Ends(k)
    /\ UNCHANGED <<rows, money, psp, failures>>

\* incrementDailyWithdraw: without Redis nothing is counted.  Without an API
\* key the payout is left to staff.
Count(k) ==
    /\ At(k, "count")
    /\ daily' = IF redis THEN daily + worker[k].amount ELSE daily
    /\ IF Configured THEN Goto(k, "call") ELSE Ends(k)
    /\ UNCHANGED <<rows, reversed, rejected, wallet, redis, psp, failures>>

ResponseOk(k) ==
    /\ At(k, "call")
    /\ provider[worker[k].id] \in {"processing", "completed", "failed"}
    /\ Ends(k)
    /\ UNCHANGED <<rows, money, psp, failures>>

\* The status is overwritten whatever it is by now, twice.  An error that
\* hides PawaPay's decision (a timeout on its side) is possible.
ResponseError(k) ==
    /\ At(k, "call")
    /\ provider[worker[k].id] # "none"
    /\ HttpError(worker[k].id)
    /\ Goto(k, "failAgain")
    /\ UNCHANGED <<payout, money, psp, failures>>

FailAgain(k) ==
    /\ At(k, "failAgain")
    /\ HttpError(worker[k].id)
    /\ Goto(k, "void")
    /\ UNCHANGED <<payout, money, psp, failures>>

\* Mutant: a call that throws is given back at once.
CallThrowsFails(k) ==
    /\ At(k, "call")
    /\ SetStatus(worker[k].id, "FAILED")
    /\ Goto(k, "void")
    /\ UNCHANGED <<payout, money, psp, failures>>

\* fetch throws: no answer, and the request ends there.
CallThrows(k) ==
    /\ At(k, "call")
    /\ Ends(k)
    /\ UNCHANGED <<rows, money, psp, failures>>

-----------------------------------------------------------------------------
(* The tail of a failed payout, in the request and in the callback. *)

\* Mutant: without a PENDING Transaction there is nothing to reverse.
VoidOnlyPending(k) ==
    /\ At(k, "void")
    /\ IF payout[worker[k].id] = "PENDING"
       THEN payout' = [payout EXCEPT ![worker[k].id] = "FAILED"] /\ Goto(k, "reverse")
       ELSE UNCHANGED payout /\ Ends(k)
    /\ UNCHANGED <<withdrawal, money, psp, failures>>

Void(k) ==
    /\ At(k, "void")
    /\ payout' = [payout EXCEPT ![worker[k].id] = IF @ = "PENDING" THEN "FAILED" ELSE @]
    /\ Goto(k, "reverse")
    /\ UNCHANGED <<withdrawal, money, psp, failures>>

\* Mutant: the reversal gets a reference of its own every time.
ReverseAgain(k) ==
    /\ At(k, "reverse") /\ Reading(k)
    /\ reversed' = [reversed EXCEPT ![worker[k].id] = @ + 1]
    /\ Change(k, worker[k].amount)
    /\ Ends(k)
    /\ UNCHANGED <<rows, rejected, day, psp, failures>>

\* Mutant: the balance is written outside the transaction of the reference.
ReverseNotAtomic(k) ==
    /\ At(k, "reverse") /\ Reading(k)
    /\ balance' = worker[k].seen + worker[k].amount
    /\ IF reversed[worker[k].id] = 0
       THEN /\ reversed' = [reversed EXCEPT ![worker[k].id] = 1]
            /\ entries' = entries + worker[k].amount
       ELSE UNCHANGED <<reversed, entries>>
    /\ Ends(k)
    /\ UNCHANGED <<rows, rejected, exposed, day, psp, failures>>

\* The Transaction's reference REFUND_<id> is unique: a second reversal is
\* rolled back, and the call fails.
Reverse(k) ==
    /\ At(k, "reverse") /\ Reading(k)
    /\ IF reversed[worker[k].id] = 0
       THEN /\ reversed' = [reversed EXCEPT ![worker[k].id] = 1]
            /\ Change(k, worker[k].amount)
       ELSE UNCHANGED <<reversed, wallet>>
    /\ Ends(k)
    /\ UNCHANGED <<rows, rejected, day, psp, failures>>

-----------------------------------------------------------------------------
(* PawaPay. *)

Calling(w) == \E k \in Worker : At(k, "call") /\ worker[k].id = w

ProviderMoves(w, from, to, callback) ==
    /\ provider[w] = from
    /\ provider' = [provider EXCEPT ![w] = to]
    /\ sent' = [sent EXCEPT ![w] = @ \cup callback]
    /\ UNCHANGED <<rows, money, worker, failures>>

ProviderAccepts(w)   == Calling(w) /\ ProviderMoves(w, "none", "processing", {})
\* A refusal may be announced by a callback, too.
ProviderRejects(w)   == Calling(w) /\ ProviderMoves(w, "none", "rejected", {"FAILED"})
ProviderCompletes(w) == ProviderMoves(w, "processing", "completed", {"COMPLETED"})
ProviderFails(w)     == ProviderMoves(w, "processing", "failed", {"FAILED"})

-----------------------------------------------------------------------------
(* handlePayoutCallback.  Other statuses only keep the payload. *)

CallbackRead(k, w, status) ==
    /\ status \in sent[w]
    /\ withdrawal[w].status \in {"PENDING", "FAILED"}
    /\ Takes(k, status, w, withdrawal[w].amount)
    /\ UNCHANGED <<rows, money, psp, failures>>

\* updateMany: nothing happens unless the row is still PENDING.
PayoutCompleted(k) ==
    /\ At(k, "COMPLETED")
    /\ IF withdrawal[worker[k].id].status = "PENDING"
       THEN SetStatus(worker[k].id, "SUCCESS") /\ Goto(k, "confirm")
       ELSE UNCHANGED withdrawal /\ Ends(k)
    /\ UNCHANGED <<payout, money, psp, failures>>

Confirm(k) ==
    /\ At(k, "confirm")
    /\ payout' = [payout EXCEPT ![worker[k].id] = IF @ = "PENDING" THEN "SUCCESS" ELSE @]
    /\ Ends(k)
    /\ UNCHANGED <<withdrawal, money, psp, failures>>

\* Mutant: the Transaction stays PENDING.
PayoutFailedNoVoid(k) ==
    /\ At(k, "FAILED")
    /\ IF withdrawal[worker[k].id].status = "PENDING"
       THEN SetStatus(worker[k].id, "FAILED") /\ Goto(k, "reverse")
       ELSE UNCHANGED withdrawal /\ Ends(k)
    /\ UNCHANGED <<payout, money, psp, failures>>

PayoutFailed(k) ==
    /\ At(k, "FAILED")
    /\ IF withdrawal[worker[k].id].status = "PENDING"
       THEN SetStatus(worker[k].id, "FAILED") /\ Goto(k, "void")
       ELSE UNCHANGED withdrawal /\ Ends(k)
    /\ UNCHANGED <<payout, money, psp, failures>>

-----------------------------------------------------------------------------
(* admin.service: approveWithdrawal and rejectWithdrawal. *)

ReviewRead(k, w, decision) ==
    /\ withdrawal[w].status = "PENDING"
    /\ Takes(k, decision, w, withdrawal[w].amount)
    /\ UNCHANGED <<rows, money, psp, failures>>

Approve(k) ==
    /\ At(k, "approve")
    /\ Review(worker[k].id, "SUCCESS")
    /\ Ends(k)
    /\ UNCHANGED <<payout, money, psp, failures>>

Reject(k) ==
    /\ At(k, "reject") /\ Reading(k)
    /\ rejected' = [rejected EXCEPT ![worker[k].id] = @ + 1]
    /\ Change(k, worker[k].amount)
    /\ Written(k, "markRejected")
    /\ UNCHANGED <<rows, reversed, day, psp, failures>>

MarkRejected(k) ==
    /\ At(k, "markRejected")
    /\ Review(worker[k].id, "FAILED")
    /\ Ends(k)
    /\ UNCHANGED <<payout, money, psp, failures>>

-----------------------------------------------------------------------------

\* The database refuses a statement, or the process stops.
CutShort(k) ==
    /\ worker[k] # Idle
    /\ failures < MaxFailures
    /\ failures' = failures + 1
    /\ Ends(k)
    /\ UNCHANGED <<rows, money, psp>>

Continue(k) ==
    \/ ReadBalance(k) \/ Debit(k) \/ InsufficientFunds(k) \/ Count(k)
    \/ ResponseOk(k) \/ ResponseError(k) \/ CallThrows(k)
    \/ FailAgain(k) \/ Void(k) \/ Reverse(k)
    \/ PayoutCompleted(k) \/ Confirm(k) \/ PayoutFailed(k)
    \/ Approve(k) \/ Reject(k) \/ MarkRejected(k)

Next ==
    \/ \E k \in Worker, w \in Withdrawal :
         \/ \E amount \in Amount : CheckLimit(k, w, amount)
         \/ \E status \in Callback : CallbackRead(k, w, status)
         \/ \E decision \in {"approve", "reject"} : ReviewRead(k, w, decision)
    \/ \E k \in Worker : Continue(k) \/ CutShort(k)
    \/ \E w \in Withdrawal : \/ ProviderAccepts(w) \/ ProviderRejects(w)
                             \/ ProviderCompletes(w) \/ ProviderFails(w)

Spec == Init /\ [][Next]_vars

\* A call that is not cut short goes on to its end; PawaPay repeats the
\* callbacks that it has sent.
FairSpec ==
    /\ Spec
    /\ \A k \in Worker : WF_vars(Continue(k))
    /\ \A w \in Withdrawal, status \in Callback :
         SF_vars(\E k \in Worker : CallbackRead(k, w, status))

-----------------------------------------------------------------------------
(* Properties. *)

Made       == {w \in Withdrawal : withdrawal[w] # Absent}
Refunds(w) == reversed[w] + rejected[w]
Taken      == [w \in Withdrawal |-> IF w \in Made THEN withdrawal[w].amount ELSE 0]
Kept       == [w \in Withdrawal |-> Taken[w] * (1 - Refunds(w))]

\* PawaPay answered an error and went on with the payout.
Misled(w) == withdrawal[w].httpError /\ provider[w] # "rejected"

\* The ledger entries are the withdrawals that were not given back, whoever
\* gave them back; and the balance differs from its entries by no more than
\* what was committed beside a call that had read it already: changes that
\* nothing overlaps are never lost.
BalanceMatchesWithdrawals ==
    /\ entries + SumFunctionOnSet(Kept, Withdrawal) = 0
    /\ balance - (InitialBalance + entries) \in -exposed..exposed

\* The request's error path and any number of callbacks give a withdrawal
\* back once between them, also when some of them are cut short.
ReversedOnce ==
    \A w \in Withdrawal : reversed[w] <= 1

\* A withdrawal PawaPay pays out is not given back by the request or by a
\* callback, unless PawaPay's own answer was an error.
NeverPaidAndReversed ==
    \A w \in Made : provider[w] = "completed" /\ reversed[w] > 0 =>
      withdrawal[w].httpError

\* When nothing is being served for a withdrawal, and no call was cut short,
\* its status, its Transaction and its refund tell the same story.  Staff's
\* reviews are left out: they do not touch the Transaction.
RecordsAgree ==
    \A w \in Made :
      ~ Served(w) /\ failures = 0 /\ ~ Misled(w) /\ ~ withdrawal[w].reviewed =>
        /\ payout[w] = withdrawal[w].status
        /\ Refunds(w) = IF withdrawal[w].status = "FAILED" THEN 1 ELSE 0

\* The day's limit is exceeded at most by the requests that raced the last
\* check, and by those that stopped before they were counted.  Without Redis
\* it is kept by each withdrawal and not by their sum.
LimitOvershootBounded ==
    IF redis
    THEN SumFunctionOnSet(Taken, Withdrawal)
           <= Limit + (Cardinality(Worker) - 1 + failures) * Max(Amount)
    ELSE \A w \in Made : withdrawal[w].amount <= Limit

\* A withdrawal that failed is given back, if no call was cut short.
FailedIsRefunded ==
    \A w \in Withdrawal :
      withdrawal[w].status = "FAILED" ~> Refunds(w) > 0 \/ failures > 0

-----------------------------------------------------------------------------
(* What the repository says, and this code does not do. *)

\* webhook.service: callbacks are idempotent, so PawaPay may repeat one whose
\* service was cut short.  The repeated one finds FAILED and does nothing.
FailedIsRefundedAtLast ==
    \A w \in Withdrawal : withdrawal[w].status = "FAILED" ~> Refunds(w) > 0

=============================================================================
