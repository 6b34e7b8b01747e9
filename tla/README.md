# TLA+ models of McBuleli P2P

This directory holds TLA+ specifications of the McBuleli backend and of the
pages of its client that keep state, the TLC configurations that model-check
them, and theorems about them that the TLAPS proof system checks. `PROJECT.json`
lists the components, the runs, the correspondence of every definition with the
code (`map`), the hazards the properties are aimed at, the findings and the
theorems.

    tlc -workers 2 -config P2PEscrow_races.cfg MCP2PEscrow.tla
    tlapm P2PEscrowProofs.tla

## The system and its components

McBuleli is a custodial wallet and a P2P marketplace: an Express API
(`backend/src`) over PostgreSQL through Prisma, and a Next.js client
(`frontend`). What is lasting is a row of PostgreSQL; the processes hold what a
request has read, and a page holds what it has last been told. So concurrency
means: requests, the PawaPay webhook, staff, and the interval of `index.ts`
running transactions on the same rows, each at READ COMMITTED and each free to
stop between two transactions; and pages that go on showing, offering and
sending what they have read, in several tabs, over a network that loses answers.

| Component | State | Operations | Hard behaviour | What must hold |
|---|---|---|---|---|
| P2P escrow (`p2p.service`, the trade room) | offers, trades, audit trail, statistics | createOffer, startTrade, markPaid, confirmRelease, cancelTrade, openDispute, the sweep of expired trades; the page's polling and clicks | stale reads, the sweeper racing the parties, restarts, answers overtaking each other | escrow and balances follow the trades, a trade settles once, disputes freeze it, expired trades close, the page catches up |
| Disputes (`admin.service`) | disputes | resolveDispute | decides on a row read before the transaction | resolved once |
| Ledger (`ledger.service`) | wallets, ledger entries | applyBalanceChange, moveToLocked, finalize, refund, release, transfer | some calls lock the rows they read and some do not; deadlocks | balances are the sum of their entries, escrow exact |
| Mobile-money payments (`services/payments`, admin review) | fiat deposits and withdrawals | initiateDeposit, requestWithdrawal, webhook, approve, reject | duplicated, reordered and late webhooks; an HTTP call between two transactions; crashes | a deposit is credited once, a failed withdrawal is refunded once |
| On-chain deposits (`crypto-deposit.service`, `onchain-verify`, the deposit page) | intents, used txids, ledger entries; the intent and the outcome the page keeps | create an intent, mark it sent, submit a txid, refresh | the same txid under two intents, calls that overlap, a chain not confirmed yet, an answer that does not come | a transaction on chain is credited once, and credited in the end; the page tells what happened |
| On-chain withdrawals (`crypto-withdrawal.service`, the withdraw page) | withdrawals, locked funds, treasury; the balance the page shows | request, mocked payout | two tabs, a stop between lock and payout, an answer that is lost, locked funds shared with trades | funds are held or paid, an error means nothing happened, one visit withdraws once |
| Staking (`staking.service`, `admin-staking.service`) | pools, stakes, balances, fees | create a stake, settle what is due, create, change and delete a pool | the interval overlapping itself and every visit of the page, caps read early, pools changed under their stakes | paid back once, at the terms of the lock, in the end |
| Staff roles (`staff-role.service`, `adminMiddleware`) | roles | assign, revoke | rights read before the handler runs, two assignments at once | one treasury, an administrator remains |
| Accounts (`auth.service`, `frontend/lib/api.ts`) | refresh tokens; the pair the browser stores | login, refresh | the calls of a page renewing side by side, lost answers | one session per login, the stored pair is good |

The other components, with the reason why they are left out, are under "Not
modelled".

How they interact. Every component that moves money calls the ledger inside its
own `prisma.$transaction`; trades, withdrawals and settlements are decided on rows
read either inside that transaction (and then often under `FOR UPDATE`) or before
it, and the difference is what most of the properties are about. Trades and
on-chain withdrawals share a wallet's `lockedBalance`. The staff roles say who may
change a pool and whose account the staking fees go to. PawaPay and the chain are
outside: the code calls them over HTTP between two transactions and PawaPay calls
back through the webhook, so each is modelled as an actor of its own that moves
whenever it likes. `index.ts` starts the interval that sweeps expired trades and
settles stakes. Every call of a page goes through `authenticatedFetch`, which may
renew the session and send it again.

## From the code to the modules

What is one step. A handler whose transaction locks every row it decides on is
one action: nothing it has read can change before it commits. A handler that
reads first and commits later is two (`OpenDisputeRead`, `OpenDisputeCommit`;
`SettleRead`, `SettleCommit`), and what it has read is kept in between in a
variable of its own. A call that spans several transactions, or an HTTP call, is a
worker that goes from step to step, and between any two of them it may be cut
short (`CutShort`, `Stops`), as a restart of the process does. A page is a record of
what it shows and has under way; pressing a button is an action whose guard is
when the button is there. Two modules go below the transaction, to its
statements and row locks: `WalletLedger`, which is the reason why the other modules
may take a locking ledger call for an atomic one, and `StaffRoles`, where the rows
that `deleteMany` sees are the point.

The calls that do not lock (`applyBalanceChange`, `transferInternal`) lose updates,
as `WalletLedger_lost` shows. Where they change the balances that a module is about,
in `FiatWithdrawal` and `Staking`, each is two steps: a transaction reads a wallet
(`ReadBalance`; `CreateStakeReads`, `SettleReadOwner`, `SettleReadTreasury`) and later
writes what it has computed (`Change`, `Commits`), whatever the row holds by then.
Both modules keep the sum of the wallet's ledger entries (`entries`) beside the
`balance`, and count in `exposed` what was committed while another call had read the
wallet, which is what may be lost. `P2PEscrow` and `CryptoWithdrawal` change the wallets
they model by calls that lock; the fee of a withdrawal goes to another user's wallet
by a call that does not, and of that wallet the entries are modelled, not the balance.
`FiatDeposit` and `CryptoDeposit` count entries too.

| Module | Models | State | One action is |
|---|---|---|---|
| `P2PEscrow` | `p2p.service.ts`, `resolveDispute`, the interval | `offer`, `trade`, `dispute` (rows); `activity` (the audit trail, counted by kind); the balances and the statistics; `now`; `request` (what `openDispute` and `resolveDispute` have read); `expired` (the trades the running sweep has listed and not visited yet) | one transaction, or the read before it |
| `TradePromise` | what a trade promises its two parties | per trade a phase, and how often its escrow went to the buyer | one change of phase |
| `WalletLedger` | `ledger.service.ts` on READ COMMITTED | `balance`, `locked`, `entrySum` (committed); `holder` (row locks); per transaction `pc`, `call`, the rows read (`from`, `to`) | one statement |
| `FiatDeposit` | `deposit.service.ts`, the deposit half of `webhook.service.ts`, PawaPay | `deposit`, `credited`, `request`, `provider`, `sent` (callbacks, delivered any number of times in any order), `handler` | one transaction, or one move of PawaPay |
| `FiatWithdrawal` | `withdrawal.service.ts`, the payout half of the webhook, the review in `admin.service.ts`, PawaPay | `withdrawal`, `provider`, `sent`, `worker`, the wallet (`balance`, `entries`, `exposed`), the day's total (`daily`) if there is a `redis`, and how often each withdrawal was given back (`reversed`, `rejected`) | one transaction, the read of the balance or the write of it, or one move of PawaPay |
| `CryptoDeposit` | `crypto-deposit.service.ts`, the node's answers | `status`, `txid`, `used` (UsedOnchainTxid), `credits`, `chain`, `worker`; `raced` remembers which intents two calls served at once | one transaction, one answer of the node, or one block |
| `DepositPage` | `wallet/crypto/deposit/page.tsx` over `CryptoDeposit` | `page` (phase, intent, the status it knows, the outcome it shows, the call it waits for); `asked` (calls it made); `unheard` remembers lost answers | one press, one answer or timeout, or a step of `CryptoDeposit` |
| `OnchainVerify` | `onchain-verify.ts`, and the verdict `submitDepositTxid` draws from it | none: functions of a written txid, a transaction and what the node tells | |
| `CryptoWithdrawal` | `requestCryptoWithdrawal`, `finalizeWithdrawSuccess`, `wallet/crypto/withdraw/page.tsx` in several tabs, the escrow of trades in the same wallet | `rows`, `balance`, `locked`, `treasury`; the user's trades (`begun`, how often `settled`, `released`); `req` (where a request is); `page`; `unheard`, `threw` | one transaction, one statement that throws, one press, one answer or timeout |
| `StaffRoles` | `staff-role.service.ts`, `adminMiddleware.ts` | `roles`, `request` (rights read, rows seen) | one statement |
| `Staking` | `staking.service.ts`, `admin-staking.service.ts`, the interval, the two pages, over `StaffRoles` | `pool`, `stake`; the wallets (`balance`, `entries`, `exposed`, and what open transactions have `seen` of them); `paid` and `fees` (entries per stake); `call` and `settler` (what `createStake` and a round have read); `deleting` | one transaction, or a read before it |
| `Session` | `loginUser`, `refreshSession`, `authenticatedFetch` of `lib/api.ts` | `tokens` (refresh tokens), `fresh` (access tokens still good), `store` (the browser's pair), `call` (each API call under way) | one statement, or one message |
| `TradeRoom` | `p2p/trade/[id]/page.tsx` over `Session`, and the guards of the trade handlers | `roomTrade` (the row), `covered` (so much is locked as the trade's escrow is), `shown` (what the page has read), `round` (rounds of three calls under way), `handled` | one press, one round begun or shown, or a step of `Session` |

Some variables have no row behind them: `activity` counts rows; `reversed`, `rejected`,
`credited`, `credits`, `paid` and `fees` are ledger entries by what they are for; and
`raced`, `switched`, `overlapped`, `crossed`, `cut`, `unheard`, `threw`, `exposed` and
`handled` are there for the properties only: they remember that two calls overlapped, an
asset was changed, an answer was lost, a statement threw. The `...Proofs` modules hold
the theorems, the `MC...` modules the sets the configurations name.

A definition that differs from the one below it in a guard or an update
(`ConfirmReleaseDisputed` before `ConfirmRelease`, `CheckFailsWaits` before
`CheckFails`) is a plausible bug. No `Next` uses it; `PROJECT.json` pairs it, under
`mutants`, with the property that catches the bug.

Abstractions: amounts are small integers, and in `OnchainVerify` multiples of the
token's smallest unit; texts, metadata and notifications are left out; one
currency, and for mobile-money withdrawals one user and one day; PawaPay's
callbacks carry the identifier and the status only; the interest of a stake is
two functions, `Net` and `Fee`, of its amount and the terms of its lock.

## What the runs show

| Run | Instance | Distinct states | Question |
|---|---|---|---|
| `P2PEscrow_races` | 2 users, 1 offer, 2 trades, 2 requests at once, clock to 3 | 150,704 | whatever the order of the parties, two stale requests and the sweep: does escrow follow the trail, does a trade without dispute settle once, does a dispute freeze it, does an expired trade close, and is the promise kept? |
| `P2PEscrow_market` | 3 users, offers on both sides, 2 trades, amounts 1 and 2 | 1,045,196 | do the balances and the statistics follow the trail, and has a taker one trade per offer? |
| `WalletLedger_mixed` | 3 transactions, 2 connections, 2 wallets, every call | 329,569 | are balances the sum of their entries while only calls that lock have committed, is the escrow exact all the same, by which commits do balances drift, and does every transaction end? |
| `WalletLedger_lost` | credits and escrows, 2 transactions | | violation: is the balance the sum of its entries? |
| `FiatDeposit_callbacks` | 2 deposits, 2 handlers | 6,828 | credited once, SUCCESS exactly when credited, and a completed deposit credited in the end |
| `FiatWithdrawal_payouts` | 1 withdrawal, 3 workers, 2 failures | 537,460 | reversed once, never paid and reversed, the ledger entries explained by the withdrawals and the balance by them and by what calls at once may have lost, the two records agree, a failed payout refunded in the end |
| `FiatWithdrawal_limit` | 3 withdrawals, 2 workers, limit 3, with Redis and without | 2,676,498 | how far may calls at once overshoot the day's limit? |
| `FiatWithdrawal_cutshort` | 1 withdrawal, 1 failure | | violation: is a failed payout refunded if its callback is served again? |
| `DepositPage_visits` | 2 intents (one of another client), 2 txids (one pays), 2 calls, 1 failure | 558,520 | one credit per transaction on chain, the status tells the credit, the page tells the status and always offers something, a payment is credited in the end; and over every small txid, transaction and answer of the node: one form of a txid, credits backed, nothing failed too early |
| `Staking_rounds` | 2 users, 1 pool of 2 kinds of terms, 2 stakes, 2 rounds, 4 requests to change something or to stake (a stake counts for two) | 79,837 | is a stake paid back once, at its terms and in the end; how far may calls at once take a balance from its entries; do pools, stakes and roles fit together; are cap and cooldown kept by calls that do not overlap? |
| `TradeRoom_polls` | 2 rounds and a click, 2 logins, 1 access token that runs out, 1 change by others, an escrow that may go and come back | 1,129,104 | does renewing side by side hand one session on, is a click handled once and refused only when the page was out of date or the escrow gone, and does the page catch up? |
| `CryptoWithdrawal_tabs` | 2 tabs, 2 requests, amounts below and at the minimum, a trade that may be settled twice | 618,143 | do the books balance, does an error mean that nothing happened, does one visit withdraw once, is a PENDING withdrawal paid? |

Five invariants are conjunctions of named parts, each part a statement with its own
comment: `RowsFitTogether`, `SessionsSound`, `BooksBalance`, `PageTellsTruth` and
`VerifiedSoundly`. Each begins with the type invariant of its module, and all five
are theorems; so are the type invariants of `P2PEscrow` (which `P2PEscrow_market`
checks) and `WalletLedger`, and those of `FiatDeposit` and `FiatWithdrawal` are
conjuncts of the inductive invariants that are proved.

Why the bounds are enough. Almost every hazard here is a race of two actors on one row,
at times with a third that changes what they read: so two requests at once, and for
mobile-money withdrawals three (the request, a callback, a repetition or a reviewer).
Two trades are the least in which the escrow of one may pay for the other; the initial
balance covers one or both. A deadlock needs two wallets locked in opposite orders.
`MaxClock` is two ticks past the first deadline in P2P, so trades expire while others
are young, and in Staking one tick, the lock and the cooldown of both kinds of terms.
`MaxFailures` bounds how often a process stops or a call throws; one failure at every
step is enough to expose what a step leaves half done, and two let the repair be hit
too. `ConnectionLimit` is Prisma's pool. In Staking, `MaxServed` bounds the requests and
rounds served together, `BatchSize` is one so that a round may leave a stake to the
next, `MaxChanges` two requests of administrators: two appointments, or two
administrators who revoke each other; and `MaxAsked` (in the guard `Spare`) bounds these
and the stakes together, to two changes beside one stake, or two stakes, whose
settlements then read and write one wallet. In `TradeRoom`, two rounds can overtake each
other, `MaxExpiries` lets all their calls and a click find one access token out of date,
`MaxLogins` lets the session be lost and begun again, and `MaxMoves` lets the trade
change behind the page, from each of the three statuses in which the page offers a
button or waits. In `CryptoWithdrawal`, `MaxRequests` two are one from each tab or two
from one; the balance covers two withdrawals and not the escrow besides.
`MaxSettlements` two lets an arbitrator settle the trade once more, out of what a
withdrawal has locked. In `FiatWithdrawal`, three workers are two that overlap on the
wallet, and one that has moved it between them. In `DepositPage`, `OthersTxid` is the
txid that pays: the other client names the transaction the page's user has made. `Value`
and `Height` lie around the minimum, the fee and the confirmations asked for; with
`MaxLogs` two, a transaction's logs hold a payment beside another transfer, in either
order. Interchangeable slots (requests, rounds, callers) are taken first idle one first.
Each bound is a named constant and a guard.

Some properties are weaker than one would wish, and say so:

- `UndisputedSettlesOnce` excepts disputed trades, since two staff can resolve one
  dispute twice; `ExpiredTradeIsClosed` excepts trades whose escrow a double
  settlement took.
- `NeverPaidAndReversed`, `RecordsAgree` and the deposit properties except payments
  that PawaPay accepted and answered with an error (`Misled`), where the code
  believes the error.
- `BalanceMatchesWithdrawals` and `FundsMatchStakes` are exact for the ledger entries; of
  a balance they say that it differs from its entries by no more than what was committed
  beside a call that had read it, which is nothing as long as calls do not overlap.
- `LimitOvershootBounded` says nothing of the sum of the day's withdrawals if there is no
  Redis; there is nothing to say.
- `StatusTellsCredit` excepts intents served by two calls at once; `PageTellsTruth`
  and `PaymentIsCredited` except lost answers.
- `PaidOnce` excepts settlements of one stake that overlapped; `PaidInKind` pools
  whose asset was changed; `LimitsKeptAlone` speaks of calls that no other call of
  the user for the pool overlapped; `OneTreasury` excepts assignments that
  overlapped, `AnAdminRemains` a revocation by somebody revoked meanwhile.
- `StoredPairLives` excepts renewals that were cut short.
- `RefusedOnlyWhenStale` excepts the buttons that move the escrow (release, cancel) when
  another trade of the seller has taken of what was locked for this one: the page cannot
  see that.
- `ErrorMeansNothing` and `OnePerVisit` except lost answers, requests one of whose
  statements threw, a server without a configured treasury, and a trade of the user that
  was settled twice; `PendingIsPaid` the same, a server that does not mock the exchange,
  and requests the server stopped over. `BooksBalance` has no exception, but counts the
  second settlement of a trade against what all the others hold.

### Fairness

- P2P: time passes (WF of `Tick`) and the interval keeps running: WF of
  `ListExpired` and, since the sweep of each trade is retried by every list until
  it works, SF of `AutoCancelExpired(t)`. `setInterval` is started by
  `index.ts` and nothing cancels it. No user and no staff member has to act.
- Ledger: WF of `Step(t)`: the database executes open transactions and breaks
  deadlocks (`DeadlockVictim`), as PostgreSQL does.
- Mobile-money deposits: PawaPay repeats a callback until it is answered with 200,
  hence SF of serving COMPLETED; WF of the others.
- Mobile-money withdrawals: WF of `Continue(k)`, the promise chain of a request that
  was not cut short; SF of callbacks being served, as above.
- On-chain deposits: WF of the steps of calls that are not cut short and of the
  page's timeout; SF of `PressRefresh`, a user who keeps pressing the button while
  the page offers it, and SF of `VerifyOk` for the page's calls, a node that answers
  now and then. `PaymentIsCredited` depends on a user who asks: neither the server
  nor the page polls.
- Staking: WF of requests being served; SF of a round being listed, of a settlement
  being read, of each of the two wallets being read and of a settlement being
  committed: the interval of `index.ts` starts a round every minute, and a settlement
  that failed is in the next list.
- Trade room: WF of rounds being started (`setInterval` of the page), served and
  ended; and `<>[]` no call is lost, a network that works in the end. Nobody has to
  click or to log in.
- On-chain withdrawals: WF of requests being served, and of each page being
  answered or running into its timeout.

### Findings

Two properties that comments of the code state do not hold of it; each is a
run that TLC refutes.

- `BalanceIsEntrySum` (`WalletLedger_lost`): `applyBalanceChangeTx` reads the
  wallet without a lock and writes the sum it computed (`ledger.service.ts:56`), so
  a change that commits in between is lost while both entries stay.
- `FailedIsRefundedAtLast` (`FiatWithdrawal_cutshort`): the webhook commits FAILED,
  then refunds in another transaction (`webhook.service.ts:47`). If the process
  stops between them, the repetition finds a status that is final and returns,
  and the refund is never made.

Met while modelling, in the models but with no run of their own:

P2P and disputes
- `openDispute` checks the trade before its transaction (`p2p.service.ts:407`). If
  the trade is released or cancelled in between, it becomes DISPUTED after it has
  settled and staff settle it once more; `p2pTradesTotal` then counts it twice,
  where `schema.prisma:156` speaks of the trades that reached a terminal outcome.
- After a trade settled twice, the escrow it took may be that of another trade;
  the sweep of that one then fails at every round (`p2p.service.ts:485-499`).
- Two staff can resolve one dispute, once each way (`admin.service.ts:72-76`).
- All settlements ask only whether so much is locked (`ledger.service.ts:308,417`).
  After a double settlement a party who presses a button of an up-to-date page is
  refused with ESCROW_MISMATCH.
- A release writes an entry for the buyer and none for the seller
  (`ledger.service.ts:311`), although the repository's `README.md:29` speaks of a
  ledger entry for every movement.

Mobile money
- When the call of PawaPay throws, the withdrawal stays debited and PENDING
  (`withdrawal.service.ts:141`); only an error answer is refunded.
- The day's limit is checked before the debit, so calls at once overshoot it;
  `LimitOvershootBounded` says by how much at most.
- Without `REDIS_URL`, which is optional (`env.ts:21`), the day's total is always read
  as 0 and nothing is counted (`redis.ts:30,41`): the limit then holds for each
  withdrawal, and not for their sum.
- `rejectFiatWithdrawal` checks the status before the refund and without a lock
  (`admin.service.ts:188`): two reviewers at once refund twice, in the ledger entries;
  if both have read the same balance, one refund does not reach it. So does a reversal
  beside a rejection or a new withdrawal. A rejection leaves the `Transaction` PENDING,
  and may hit a payout in progress.

On-chain deposits
- An older call on an intent may overwrite CONFIRMED; the intent, though credited,
  then stays PENDING_VALIDATION.
- The verifier accepts a transfer 0.000001 below the minimum, and the service then
  fails it with BELOW_MINIMUM_AFTER_FEE: the tolerance has no effect.
- A transaction with several transfers to the platform counts its first one on EVM
  chains and its greatest one on Tron.
- The page loses its intent when it is left; the txid can then only be told to a new
  intent. After FAILED it goes by the status it last read.

On-chain withdrawals
- Without a configured treasury a request throws after it has locked
  (`crypto-withdrawal.service.ts:92`): the user is told an error, the row stays
  PENDING and the funds locked; pressing again locks more.
- There is no idempotency key: after a lost answer the dialog is open and the same
  withdrawal is made again. A row that is PENDING is shown as a success.
- The second transaction of a request may throw (`crypto-withdrawal.service.ts:94`): when
  the database is gone, when it takes too long, or with LOCK_MISMATCH after a trade of the
  user was settled twice and took what the withdrawal had locked. The user is told an
  error, the row stays PENDING and the funds, if they are still there, locked.
- A row left PENDING is taken up by nothing; `failCryptoWithdrawal`, which gives the funds
  back, is never called.

Staking and roles
- Two settlements of one stake at once both pay it (`staking.service.ts:226`): the
  update to COMPLETED at line 292 does not ask for ACTIVE. If they have read the same
  balance, both payments are in the ledger and one in the balance. Settlements of two
  stakes of one user, or a settlement and a new stake, lose one of their changes in
  the same way.
- A stake is paid back in what its pool takes by then, not in what was locked,
  although `frontend/messages/en.json:119` promises the terms at lock.
- Two assignments of TREASURY at once leave two treasuries until the next one, where
  `schema.prisma:136` says one at a time. Two administrators who revoke each other
  at once leave none.

## What is proved

Every safety property of a passing run is a theorem: what TLC has found to hold on
the small instances above holds for all values of the constants that satisfy the
modules' named assumptions, on any number of users, trades, calls, requests, rounds
and failures.

### Assumptions

An assumption says what the code or the database gives, and TLC evaluates it on
every run. Amounts, times, fees and bounds are natural numbers, amounts positive
where the code refuses zero. Beyond that:

- Sets of identifiers over which a balance is summed, or calls counted, are finite
  (`Trade`, `Withdrawal`, `Tx`, `Worker` of `FiatWithdrawal`, `Round`, `Asset`): at
  any time a table has finitely many rows. Each is as large as one likes.
- `FiatWithdrawal`: amounts have a maximum, in which `LimitOvershootBounded` is
  stated, and there is a worker.
- `WalletLedger`: a transfer or a release is between two wallets; the callers refuse
  a user's trade with, or transfer to, themselves.
- `StaffRoles`: at first there is an administrator and at most one treasury.
- `OnchainVerify`: `Required`, the confirmations asked for, is positive. The code
  asks for 12, 15 or 19 (`crypto-deposit.service.ts:36-37`); at zero, a payment on
  Tron would count while the node does not know the height of the chain.
- `DepositPage`: a worker is not one of the strings that name what the page waits
  for, and of a session there is at least one login (`Session`).

### Results

`SumLemmas`. Balances, totals and limits are sums of a function over a finite set.
The module proves, from the recursion by which the library defines such a sum, what
adding, removing or changing one element does to it, and how it is bounded. All the
books below are proved from these lemmas and from the fact that a step moves one
row: with the sum of the others left alone, each case is an equation of integers.

`P2PEscrowProofs`, the marketplace.
- `UndisputedSettlesOnce`, `DisputedIffOpen`, `DisputeFreezesEscrow`, and that
  `P2PEscrow` implements `TradePromise`. None is inductive alone. A request carries
  what it read, so the invariant says that requests name trades that exist, and
  those that resolve one that was disputed (`RequestsNameTrades`); that a trade that
  does not exist has no history (`BlankUntilCreated`); and that a resolved one is not
  in progress (`ResolvedIsTerminal`). The steps are first classified by what they do
  to a trade's rows (`Claimed`, `PaidOut`, `Returned`, `Contested`, `Resolved`, ...), so
  that the invariant and the refinement are each proved over six cases and not over
  every action.
- `EscrowMatchesTrail`, `BalanceMatchesTrail`, `CountersMatchTrail` by the same six
  cases: each moves one trade, whose parties are two users and whose terms stay
  (`TermsSound`). So even the double settlements of a late dispute keep the books.
- `OneTradePerTaker`: no step puts a trade back in progress that has not settled
  (`LiveStep`), so only `startTrade` could add a second one, and it looks first.

`P2PEscrowProofs`, the trade room and its sessions.
- `SessionsSound`. Pairs are numbered as they are minted (`PairsMinted`); a call that
  found its row renews a pair that has run out (`FoundExpired`); a pair it was given
  is good, and nobody else's, until the browser stores it (`GivenKept`); and every
  renewal has used one pair up (`RenewalsCounted`), a fact about cardinalities that
  bounds the sessions by the logins (`OneSessionPerLogin`).
- `HandledOnce` and `RefusedOnlyWhenStale`, with the exception for a lost escrow. What
  was read of the trade fits it: it is of no later version, and of the same version it
  has the status (`Fits`); this holds of what the page shows and of what each round
  under way brings, in whatever order they arrive (`PageStands`, `RoundsStand`); a click
  under way is one that was offered for what was shown (`Granted`, `ClickStands`).
- `RoomKnowsTheMarket` ties the two modules together. `TradeRoom` describes what the
  handlers accept and make of a trade by two tables (`Accepts`, `Result`); every step
  of `P2PEscrow` changes a trade that exists only as the tables allow (to the page, the
  sweep is a cancellation), or as a first dispute or its resolution does; and whatever
  takes the escrow finds so much locked with the seller, as `covered` asks in the room.
  The room is proved against the marketplace that is modelled and not against one of
  its own.

`WalletLedgerProofs`: types, `LockedReadsAreCurrent`, and
- `LockingKeepsBooks`: as long as only calls that lock have committed, balances are the
  sum of their entries, whatever the others have read or begun. The invariant is that
  a transaction holds the locks of the rows it is about to write
  (`HoldsWhatItWrites`).
- `CurrentCommitsMatchEntries`: a commit whose reads still hold changes each balance by
  what it enters for it; so the drift that `WalletLedger_lost` shows comes from stale
  reads and from nothing else.
- `EscrowIsExact`: locked balances follow the committed calls, even while calls that do
  not lock lose updates of the balance beside them.

`FiatDepositProofs`: `CreditedOnceWhenCompleted` and `SuccessIffCredited`. A row that is
PENDING has not been credited (`OpenIsNotCredited`), and a handler serves a
callback that was sent.

`FiatWithdrawalProofs`
- `NeverPaidAndReversed`. The invariant follows the bad news: a FAILED callback, a
  worker on the way to the reversal, and the reversal exist only for a payout that
  PawaPay refused or failed or answered with an error.
- `ReversedOnce`: the unique reference. `BalanceMatchesWithdrawals`: the entries follow
  the rows (`EntriesMatch`), a row being debited in the step that makes it. The balance
  is no further from its entries than what was exposed, and neither is what a call has
  read of it: a commit beside such a call moves the entries by just what it exposes, so
  that the sum the call writes later is within the same bound (`DriftInv`).
- `LimitOvershootBounded` (`LimitInv`): with Redis, what is taken is counted, or about to
  be, or its call was cut short (`CountedSoon`); and the last check that was passed was
  passed with the others still open (`RacersOnly`). Without it each request was measured
  by itself (`EachWithin`).
- `RecordsAgree` (`RecordsInv`): `Stories` says, for each status a withdrawal may have
  while nothing has failed, what its Transaction and its refund are, or which worker
  is still to bring them there; `Completions` and `ErrorsAnswered` what PawaPay has said.

`CryptoDepositProofs`
- `CreditedOnce` from the books alone (the credits are the rows of `UsedOnchainTxid`,
  whose keys are unique); `StatusTellsCredit` from the fact that a call alone with its
  intent serves one without credit. Both are about `CryptoDeposit` under any client.
- `PageImplements`: the service with the page, its visits and the verifier implements
  `CryptoDeposit`, step by step; so the two theorems hold of what `DepositPage_visits`
  runs.
- `PageTellsTruth`. Unless an answer was lost, no other call serves the intent the page
  shows (`CallsHeard`); the call it waits for has found the row open (`CallFoundOpen`);
  and the outcome it is about to show is the row's (`OutcomeStands`).
- `VerifierSound`: a payment is known under one form of its txid, is credited as far as
  it is backed by transfers that reached the platform, and is not failed when a later
  answer of the node would confirm it; for transactions of any number of logs, any
  amounts, heights and answers. `VerifiedSoundly` follows from it.

`CryptoWithdrawalProofs`
- `BooksBalance`: what a request has done is told by the step it is at (`InOrder`), the
  locked balance is what PENDING rows and trades hold (`LockedIsHeld`, from the sums over
  requests and over trades, `TradeSums`), and nothing is made or lost (`NothingLost`).
- `CommitsPayHolds`: a request about to be finalized finds its txid unused, and its lock
  covered unless a trade was settled twice: as long as each trade is settled once at most,
  what trades hold is not negative, so the locked balance is at least what the request
  holds of it (`CommitFinds`). LOCK_MISMATCH is reached after a double settlement, and
  from nothing else.
- `ErrorMeansNothing` and `OnePerVisit`: what excuses a row behind an error never goes
  away (`ExcusesStay`), and of the requests of one visit all but the last were told to
  be errors, or never heard of (`Visits`), and requests are numbered as they are sent
  (`Numbered`).

`StakingProofs`
- `RowsFitTogether`. `RolesInv` is about the roles: an assignment that is alone has seen,
  and so takes, every treasury there is, and who revokes an administrator is another
  one. `Stand` ties what calls and rounds have read to the rows they will write on
  (`StakesStand`, `CallsStand`, `RoundsStand`); the foreign key keeps pools under stakes.
- `PaidOnce`: a stake no two settlements of which have overlapped is still ACTIVE while
  one settles it, and that one is the only one (`Unraced`).
- `LimitsKeptAlone`: what a call that was alone has read of its limits still holds when
  it commits (`CallsKeepLimits`).
- `FundsMatchStakes`: for the entries, the sum lemmas over the stakes of each user, at the
  terms each was locked under; for the balances, as in `FiatWithdrawal`, that neither
  they nor what an open transaction has seen of them is further from the entries than
  what was exposed.

### Only model-checked

Everything that must eventually happen: `ExpiredTradeIsClosed`, `TransactionsEnd`,
`CompletedIsCredited`, `FailedIsRefunded`, `PaymentIsCredited`, `MaturedIsPaid`,
`CatchesUp` and `PendingIsPaid`. They rest on fairness, hence on ENABLED, which is
beyond this prover. Nor is it proved that the small integers of the models are
those of the code: see "Not modelled" for decimals and interest.

## Plan

The components that keep state others decide on are modelled, and their safety is
proved. What is left, in this order:

1. The safety half of each liveness property: what keeps a trade, a callback or a
   stake in the set from which the interval or PawaPay takes it, so that only
   fairness is left to the runs (an expired trade that is not closed stays in what
   `ListExpired` lists; a matured stake that is not paid stays due).
2. Abstract promises for the payments, as `TradePromise` is one for trades: a
   withdrawal is taken once and then either paid or given back; a stake is locked
   and then paid back; each as a refinement.
3. The type invariants of the payments and of the pages as theorems of their own.

## Not modelled

- Chat of a trade and notifications: rows that are only read back.
- Ratings: `submitRating` (`p2p.service.ts:474`) computes the average of a user and
  writes it in separate statements, so two ratings of one user at once can leave an
  average without one of them. Nothing decides on it.
- Decimals of mobile money and of escrow: `cryptoAmount` is a quotient with twenty
  digits in a column of eight decimals (`p2p.service.ts:131`); the payout is rounded
  to two decimals by `toFixed(2)` while the debit keeps eight
  (`withdrawal.service.ts:132`); the amount credited is the callback's
  `requestedAmount` if it has one, then its amount, then the row's
  (`webhook.service.ts:110`), whose agreement is PawaPay's to keep. In the models an
  amount is the same number at both ends.
- Interest: `Net` and `Fee` stand for the arithmetic of `staking.service.ts:8-38`.
- Registration, e-mail verification, two-factor setup, KYC status and freezing of
  users: single writes of one row. Hashing, TOTP and encryption are library calls.
  The seven days after which a refresh token runs out: to a page it is a session that
  was cut short.
- Prices, risk flags, configuration and request parsing, CSV exports: no state others
  decide on.
- The other pages of the client send one request and show rows.
- A payout that is not mocked, which the code does not have.
