----------------------------- MODULE P2PEscrow -----------------------------
(***************************************************************************)
(* Escrow trades of the P2P marketplace: backend/src/services/p2p.service, *)
(* the dispute part of admin.service, and the escrow operations of         *)
(* ledger.service they call.                                               *)
(*                                                                         *)
(* A handler that takes SELECT ... FOR UPDATE on the rows it reads and     *)
(* decides inside the same transaction is ONE action: nothing it looked at *)
(* can change before its COMMIT.  openDispute and resolveDispute decide on *)
(* rows read before their transaction starts, so each is two actions of a  *)
(* Worker (a request being served) with any other step in between.         *)
(*                                                                         *)
(* Amounts are integers (units of the last decimal of the columns), the    *)
(* trade's price is 1, and all the wallets are those of one crypto asset:  *)
(* no handler mixes two assets.  An absent wallet row is a wallet of 0/0.  *)
(* Offers never expire here: the route's schema has no expiresAt.          *)
(***************************************************************************)
EXTENDS Integers, FiniteSets, Functions

CONSTANTS
    User,            \* accounts with a verified email
    Offer,           \* identifiers of P2POffer rows
    Trade,           \* identifiers of P2PTrade rows
    Worker,          \* dispute requests served at the same time
    OfferInput,      \* the [side, minFiat, maxFiat] users may publish
    Amount,          \* amounts a taker may ask for
    InitialBalance,  \* available crypto of every user at the start
    TRADE_MINUTES,   \* payment window, in ticks of the clock
    MaxClock         \* bound: the clock stops there

\* Identifiers are finitely many: every sum over the trades is one of rows
\* that exist.
ASSUME P2PAssumption ==
    /\ IsFiniteSet(Trade)
    /\ OfferInput \subseteq
         [side : {"SELL", "BUY"}, minFiat : Nat, maxFiat : Nat]
    /\ Amount \subseteq Nat \ {0}
    /\ InitialBalance \in Nat
    /\ TRADE_MINUTES \in Nat
    /\ MaxClock \in Nat

VARIABLES
    offer,           \* P2POffer rows
    trade,           \* P2PTrade rows
    dispute,         \* status of the trade's P2PDispute row ("NONE": no row)
    activity,        \* P2PTradeActivity: number of rows per trade and action
    balance,         \* WalletAccount.balance
    locked,          \* WalletAccount.lockedBalance
    completedTrades, \* User.completedTrades
    p2pTradesTotal,  \* User.p2pTradesTotal
    request,         \* what each worker decided on the rows it read
    expired,         \* trades the running sweeps still have to visit
    now              \* the server's clock

rows     == <<offer, trade, dispute, activity>>
wallets  == <<balance, locked>>
counters == <<completedTrades, p2pTradesTotal>>
vars     == <<rows, wallets, counters, request, expired, now>>

Absent == [status |-> "NONE"]

OfferRow == [status : {"ACTIVE"}, userId : User, side : {"SELL", "BUY"},
             minFiat : Nat, maxFiat : Nat]

ActiveStatus   == {"PENDING", "PAID", "DISPUTED"}
TerminalStatus == {"RELEASED", "CANCELLED"}

TradeRow == [status : ActiveStatus \cup TerminalStatus, offerId : Offer,
             buyerId : User, sellerId : User, cryptoAmount : Amount,
             timerEndsAt : Nat]

Activity == {"TRADE_CREATED", "MARKED_PAID", "RELEASED", "CANCELLED",
             "DISPUTE_OPENED", "AUTO_EXPIRED", "DISPUTE_RESOLVED_BUYER",
             "DISPUTE_RESOLVED_SELLER"}

Resolution == {"RESOLVED_BUYER", "RESOLVED_SELLER"}

Idle    == [op |-> "idle"]
Request == {Idle}
           \cup [op : {"dispute"}, tradeId : Trade]
           \cup [op : {"resolve"}, tradeId : Trade, resolution : Resolution]

TypeOK ==
    /\ offer \in [Offer -> {Absent} \cup OfferRow]
    /\ trade \in [Trade -> {Absent} \cup TradeRow]
    /\ dispute \in [Trade -> {"NONE", "OPEN"} \cup Resolution]
    /\ activity \in [Trade -> [Activity -> Nat]]
    /\ balance \in [User -> Nat]
    /\ locked \in [User -> Nat]
    /\ completedTrades \in [User -> Nat]
    /\ p2pTradesTotal \in [User -> Nat]
    /\ request \in [Worker -> Request]
    /\ expired \subseteq Trade
    /\ now \in Nat

Init ==
    /\ offer = [o \in Offer |-> Absent]
    /\ trade = [t \in Trade |-> Absent]
    /\ dispute = [t \in Trade |-> "NONE"]
    /\ activity = [t \in Trade |-> [a \in Activity |-> 0]]
    /\ balance = [u \in User |-> InitialBalance]
    /\ locked = [u \in User |-> 0]
    /\ completedTrades = [u \in User |-> 0]
    /\ p2pTradesTotal = [u \in User |-> 0]
    /\ request = [w \in Worker |-> Idle]
    /\ expired = {}
    /\ now = 0

-----------------------------------------------------------------------------
(* What the handlers share. *)

AppendActivity(t, action) ==
    activity' = [activity EXCEPT ![t][action] = @ + 1]

SetStatus(t, status) == trade' = [trade EXCEPT ![t].status = status]

\* Mutant: the available balance is not checked.
MoveToLockedUnchecked(user, amount) ==
    /\ balance' = [balance EXCEPT ![user] = @ - amount]
    /\ locked' = [locked EXCEPT ![user] = @ + amount]

\* ledger.service: available -> locked, refused when funds are short.
MoveToLocked(user, amount) ==
    /\ balance[user] >= amount
    /\ balance' = [balance EXCEPT ![user] = @ - amount]
    /\ locked' = [locked EXCEPT ![user] = @ + amount]

\* Mutant: the seller keeps the escrow the buyer is paid from.
ReleaseKeepsEscrow(seller, buyer, amount) ==
    /\ locked[seller] >= amount
    /\ balance' = [balance EXCEPT ![buyer] = @ + amount]
    /\ UNCHANGED locked

\* ledger.service: the seller's locked funds become the buyer's balance;
\* the guard is the ESCROW_MISMATCH check.
ReleaseLockedToBuyer(seller, buyer, amount) ==
    /\ locked[seller] >= amount
    /\ locked' = [locked EXCEPT ![seller] = @ - amount]
    /\ balance' = [balance EXCEPT ![buyer] = @ + amount]

\* ledger.service: locked -> available of the seller, same guard.
RefundLockedToSeller(seller, amount) ==
    /\ locked[seller] >= amount
    /\ balance' = [balance EXCEPT ![seller] = @ + amount]
    /\ locked' = [locked EXCEPT ![seller] = @ - amount]

CountTerminal(t) ==
    p2pTradesTotal' = [p2pTradesTotal EXCEPT ![trade[t].buyerId] = @ + 1,
                                             ![trade[t].sellerId] = @ + 1]

CountCompleted(t) ==
    completedTrades' = [completedTrades EXCEPT ![trade[t].buyerId] = @ + 1,
                                               ![trade[t].sellerId] = @ + 1]

\* The writes of a release: confirmRelease and a dispute won by the buyer.
Release(t, action) ==
    /\ ReleaseLockedToBuyer(trade[t].sellerId, trade[t].buyerId,
                            trade[t].cryptoAmount)
    /\ SetStatus(t, "RELEASED")
    /\ AppendActivity(t, action)
    /\ CountCompleted(t)
    /\ CountTerminal(t)

\* Mutant: only the buyer's statistics are updated.
RefundCountsBuyerOnly(t, action) ==
    /\ RefundLockedToSeller(trade[t].sellerId, trade[t].cryptoAmount)
    /\ SetStatus(t, "CANCELLED")
    /\ AppendActivity(t, action)
    /\ p2pTradesTotal' = [p2pTradesTotal EXCEPT ![trade[t].buyerId] = @ + 1]
    /\ UNCHANGED completedTrades

\* The writes of a refund: cancelTrade, autoCancelExpired and a dispute won
\* by the seller.
Refund(t, action) ==
    /\ RefundLockedToSeller(trade[t].sellerId, trade[t].cryptoAmount)
    /\ SetStatus(t, "CANCELLED")
    /\ AppendActivity(t, action)
    /\ CountTerminal(t)
    /\ UNCHANGED completedTrades

-----------------------------------------------------------------------------
(* Offers and the undisputed life of a trade. *)

CreateOffer(o, user, input) ==
    /\ offer[o] = Absent
    /\ offer' = [offer EXCEPT ![o] =
         [status |-> "ACTIVE", userId |-> user, side |-> input.side,
          minFiat |-> input.minFiat, maxFiat |-> input.maxFiat]]
    /\ UNCHANGED <<trade, dispute, activity, wallets, counters, request,
                   expired, now>>

Party(t, user) == user \in {trade[t].buyerId, trade[t].sellerId}

\* Mutant: the duplicate check forgets disputed trades.
ActiveTradeUndisputed(o, taker) ==
    \E t \in Trade : /\ trade[t].status \in {"PENDING", "PAID"}
                     /\ trade[t].offerId = o
                     /\ Party(t, taker)

\* startTrade's duplicate check.
ActiveTrade(o, taker) ==
    \E t \in Trade : /\ trade[t].status \in ActiveStatus
                     /\ trade[t].offerId = o
                     /\ Party(t, taker)

\* Mutant: the owner of a BUY offer is taken for the seller.
SellerIsOwner(o, taker) == offer[o].userId

Seller(o, taker) == IF offer[o].side = "SELL" THEN offer[o].userId ELSE taker
Buyer(o, taker)  == IF offer[o].side = "SELL" THEN taker ELSE offer[o].userId

\* The timer is written, the clock's bound leaves it room to run out.
StartTrade(o, taker, t, amount) ==
    /\ offer[o].status = "ACTIVE"
    /\ offer[o].userId # taker
    /\ ~ActiveTrade(o, taker)
    /\ amount >= offer[o].minFiat /\ amount <= offer[o].maxFiat
    /\ now + TRADE_MINUTES < MaxClock
    /\ MoveToLocked(Seller(o, taker), amount)
    /\ trade[t] = Absent
    /\ trade' = [trade EXCEPT ![t] =
         [status |-> "PENDING", offerId |-> o, buyerId |-> Buyer(o, taker),
          sellerId |-> Seller(o, taker), cryptoAmount |-> amount,
          timerEndsAt |-> now + TRADE_MINUTES]]
    /\ AppendActivity(t, "TRADE_CREATED")
    /\ UNCHANGED <<offer, dispute, counters, request, expired, now>>

MarkPaid(t, actor) ==
    /\ trade[t].status = "PENDING"
    /\ trade[t].buyerId = actor
    /\ SetStatus(t, "PAID")
    /\ AppendActivity(t, "MARKED_PAID")
    /\ UNCHANGED <<offer, dispute, wallets, counters, request, expired, now>>

\* Mutant: a disputed trade may still be released by the seller.
ConfirmReleaseDisputed(t, actor) ==
    /\ trade[t].status \in {"PAID", "DISPUTED"}
    /\ trade[t].sellerId = actor
    /\ Release(t, "RELEASED")
    /\ UNCHANGED <<offer, dispute, request, expired, now>>

\* Mutant: the seller may release before the buyer has marked the trade paid.
ConfirmReleaseUnpaid(t, actor) ==
    /\ trade[t].status \in {"PENDING", "PAID"}
    /\ trade[t].sellerId = actor
    /\ Release(t, "RELEASED")
    /\ UNCHANGED <<offer, dispute, request, expired, now>>

ConfirmRelease(t, actor) ==
    /\ trade[t].status = "PAID"
    /\ trade[t].sellerId = actor
    /\ Release(t, "RELEASED")
    /\ UNCHANGED <<offer, dispute, request, expired, now>>

\* Mutant: the status of the row is not checked under the lock.
CancelTradeStale(t, actor) ==
    /\ trade[t].status # "NONE"
    /\ Party(t, actor)
    /\ Refund(t, "CANCELLED")
    /\ UNCHANGED <<offer, dispute, request, expired, now>>

CancelTrade(t, actor) ==
    /\ trade[t].status = "PENDING"
    /\ Party(t, actor)
    /\ Refund(t, "CANCELLED")
    /\ UNCHANGED <<offer, dispute, request, expired, now>>

-----------------------------------------------------------------------------
(* The sweeper: setInterval calls processExpiredTrades every minute, which  *)
(* lists the expired trades and then visits them one by one.  Sweeps that   *)
(* overlap add to the same set of visits.                                   *)

\* Mutant: the comparison of the timer is the wrong way round.
ListUnexpired ==
    /\ expired' = expired \cup
         {t \in Trade : trade[t].status = "PENDING" /\ trade[t].timerEndsAt > now}
    /\ UNCHANGED <<rows, wallets, counters, request, now>>

ListExpired ==
    /\ expired' = expired \cup
         {t \in Trade : trade[t].status = "PENDING" /\ trade[t].timerEndsAt < now}
    /\ UNCHANGED <<rows, wallets, counters, request, now>>

AutoCancelExpired(t) ==
    /\ t \in expired
    /\ expired' = expired \ {t}
    /\ trade[t].status = "PENDING"
    /\ Refund(t, "AUTO_EXPIRED")
    /\ UNCHANGED <<offer, dispute, request, now>>

\* The trade is no longer PENDING, its escrow is short (ESCROW_MISMATCH), or
\* the transaction aborts: the error is ignored and the sweep goes on.
AutoCancelIgnored(t) ==
    /\ t \in expired
    /\ expired' = expired \ {t}
    /\ UNCHANGED <<rows, wallets, counters, request, now>>

-----------------------------------------------------------------------------
(* Disputes: a read outside any transaction, then a transaction. *)

OpenDisputeRead(w, t, opener) ==
    /\ request[w] = Idle
    /\ trade[t].status \in {"PENDING", "PAID"}
    /\ Party(t, opener)
    /\ request' = [request EXCEPT ![w] = [op |-> "dispute", tradeId |-> t]]
    /\ UNCHANGED <<rows, wallets, counters, expired, now>>

\* The batch transaction updates the status whatever it is by now; only the
\* unique tradeId of P2PDispute can make it roll back.
OpenDisputeCommit(w) ==
    /\ request[w].op = "dispute"
    /\ LET t == request[w].tradeId IN
         /\ dispute[t] = "NONE"
         /\ SetStatus(t, "DISPUTED")
         /\ dispute' = [dispute EXCEPT ![t] = "OPEN"]
         /\ AppendActivity(t, "DISPUTE_OPENED")
    /\ request' = [request EXCEPT ![w] = Idle]
    /\ UNCHANGED <<offer, wallets, counters, expired, now>>

ResolveDisputeRead(w, t, resolution) ==
    /\ request[w] = Idle
    /\ dispute[t] = "OPEN"
    /\ request' = [request EXCEPT ![w] = [op |-> "resolve", tradeId |-> t,
                                          resolution |-> resolution]]
    /\ UNCHANGED <<rows, wallets, counters, expired, now>>

\* The transaction locks the trade's row but does not look at it again.
ResolveDisputeCommit(w) ==
    /\ request[w].op = "resolve"
    /\ LET t == request[w].tradeId IN
         /\ \/ /\ request[w].resolution = "RESOLVED_BUYER"
               /\ Release(t, "DISPUTE_RESOLVED_BUYER")
            \/ /\ request[w].resolution = "RESOLVED_SELLER"
               /\ Refund(t, "DISPUTE_RESOLVED_SELLER")
         /\ dispute' = [dispute EXCEPT ![t] = request[w].resolution]
    /\ request' = [request EXCEPT ![w] = Idle]
    /\ UNCHANGED <<offer, expired, now>>

\* The transaction rolls back: the dispute exists already, the escrow is
\* short, or the database aborts it.
RequestFails(w) ==
    /\ request[w] # Idle
    /\ request' = [request EXCEPT ![w] = Idle]
    /\ UNCHANGED <<rows, wallets, counters, expired, now>>

-----------------------------------------------------------------------------

\* The process restarts: the requests and the sweeps it was serving are lost.
Restart ==
    /\ request' = [w \in Worker |-> Idle]
    /\ expired' = {}
    /\ UNCHANGED <<rows, wallets, counters, now>>

Tick ==
    /\ now < MaxClock
    /\ now' = now + 1
    /\ UNCHANGED <<rows, wallets, counters, request, expired>>

Next ==
    \/ \E o \in Offer, u \in User :
         \/ \E in \in OfferInput : CreateOffer(o, u, in)
         \/ \E t \in Trade, amount \in Amount : StartTrade(o, u, t, amount)
    \/ \E t \in Trade, u \in User :
         MarkPaid(t, u) \/ ConfirmRelease(t, u) \/ CancelTrade(t, u)
    \/ ListExpired
    \/ \E t \in Trade : AutoCancelExpired(t) \/ AutoCancelIgnored(t)
    \/ \E w \in Worker, t \in Trade :
         \/ \E u \in User : OpenDisputeRead(w, t, u)
         \/ \E r \in Resolution : ResolveDisputeRead(w, t, r)
    \/ \E w \in Worker :
         OpenDisputeCommit(w) \/ ResolveDisputeCommit(w) \/ RequestFails(w)
    \/ Restart
    \/ Tick

Spec == Init /\ [][Next]_vars

\* The clock advances and the interval fires as long as the process is up.
\* One visit may fail, but a visit that is tried again and again is not
\* aborted every time (strong fairness: Restart and AutoCancelIgnored
\* disable it again and again).  Nothing is assumed of users and staff.
Fairness ==
    /\ WF_vars(Tick)
    /\ WF_vars(ListExpired)
    /\ \A t \in Trade : SF_vars(AutoCancelExpired(t))

FairSpec == Spec /\ Fairness

-----------------------------------------------------------------------------
(* Properties. *)

\* Rows of the audit trail that go with a movement of the escrow.
Releases(t) == activity[t]["RELEASED"] + activity[t]["DISPUTE_RESOLVED_BUYER"]
Refunds(t)  == activity[t]["CANCELLED"] + activity[t]["AUTO_EXPIRED"]
               + activity[t]["DISPUTE_RESOLVED_SELLER"]
Settlements(t) == Releases(t) + Refunds(t)

Exists(t) == trade[t].status # "NONE"

TradesSoldBy(u) == {t \in Trade : Exists(t) /\ trade[t].sellerId = u}
TradesOf(u) == {t \in Trade : Exists(t) /\ Party(t, u)}

\* What the trail says of each trade: its share of u's escrow, of u's balance
\* and of u's statistics.
Escrowed(u) ==
    [t \in Trade |-> IF t \in TradesSoldBy(u)
                     THEN trade[t].cryptoAmount * (1 - Settlements(t)) ELSE 0]

Gained(u) ==
    [t \in Trade |->
       IF t \in TradesSoldBy(u) THEN trade[t].cryptoAmount * (Refunds(t) - 1)
       ELSE IF t \in TradesOf(u) THEN trade[t].cryptoAmount * Releases(t)
       ELSE 0]

Settled(u)   == [t \in Trade |-> IF t \in TradesOf(u) THEN Settlements(t) ELSE 0]
Completed(u) == [t \in Trade |-> IF t \in TradesOf(u) THEN Releases(t) ELSE 0]

\* The escrow of a seller is what the trades still open hold, less what was
\* taken twice: every settlement of the audit trail moved its trade's amount
\* out of lockedBalance exactly once, and nothing else touches it.
EscrowMatchesTrail ==
    \A u \in User : locked[u] = SumFunctionOnSet(Escrowed(u), Trade)

\* A user's available crypto is what they came with, plus what they bought,
\* less what they put in escrow and did not get back.
BalanceMatchesTrail ==
    \A u \in User :
      balance[u] = InitialBalance + SumFunctionOnSet(Gained(u), Trade)

\* The statistics shown on offers agree with the audit trail of the trades:
\* neither a race nor a failure counts a settlement for one party only.
CountersMatchTrail ==
    \A u \in User :
      /\ p2pTradesTotal[u] = SumFunctionOnSet(Settled(u), Trade)
      /\ completedTrades[u] = SumFunctionOnSet(Completed(u), Trade)

\* A trade nobody opened a dispute on settles once, whatever the buyer, the
\* seller and the sweeper do at the same time: it is terminal exactly when it
\* was settled, and never twice.
UndisputedSettlesOnce ==
    \A t \in Trade : Exists(t) /\ dispute[t] = "NONE" =>
      Settlements(t) = IF trade[t].status \in TerminalStatus THEN 1 ELSE 0

\* A trade is DISPUTED exactly while its dispute is OPEN, also when requests
\* act on stale reads: there is one dispute per trade, and staff can always
\* find the disputed trades through the open disputes.
DisputedIffOpen ==
    \A t \in Trade : trade[t].status = "DISPUTED" <=> dispute[t] = "OPEN"

\* An open dispute freezes the trade: no step of the buyer, the seller or the
\* sweeper moves its escrow, only the resolution that closes the dispute.
DisputeFreezesEscrow ==
    [][\A t \in Trade : dispute[t] = "OPEN" /\ dispute'[t] = "OPEN" =>
         Settlements(t)' = Settlements(t) /\ trade'[t] = trade[t]]_vars

\* A taker has at most one trade in progress on an offer, trades that a late
\* dispute brought back after their settlement apart.
OneTradePerTaker ==
    \A t1, t2 \in Trade :
      /\ t1 # t2
      /\ trade[t1].status \in ActiveStatus /\ Settlements(t1) = 0
      /\ trade[t2].status \in ActiveStatus /\ Settlements(t2) = 0
      /\ trade[t1].offerId = trade[t2].offerId
      => ~ \E u \in User : /\ u # offer[trade[t1].offerId].userId
                           /\ Party(t1, u) /\ Party(t2, u)

Phase(t) ==
    IF dispute[t] # "NONE" THEN "contested"
    ELSE CASE trade[t].status = "NONE"      -> "none"
           [] trade[t].status = "PENDING"   -> "held"
           [] trade[t].status = "PAID"      -> "claimed"
           [] trade[t].status = "RELEASED"  -> "bought"
           [] trade[t].status = "CANCELLED" -> "returned"
           [] OTHER                         -> "contested"

Promise == INSTANCE TradePromise WITH
    phase    <- [t \in Trade |-> Phase(t)],
    toBuyer  <- [t \in Trade |-> Releases(t)],
    toSeller <- [t \in Trade |-> Refunds(t)]

\* Clock, sweeper, restarts and stale requests included, every step is a step
\* of the abstract trade or is invisible to it: an uncontested trade pays the
\* buyer only after a claim, returns only before one, and moves its escrow
\* with the status, never before or after it.
ImplementsPromise == Promise!Spec

\* A trade whose buyer does not pay within the window leaves PENDING, unless
\* a trade settled twice has taken its escrow.
ExpiredTradeIsClosed ==
    \A t \in Trade :
      trade[t].status = "PENDING" ~>
        \/ trade[t].status # "PENDING"
        \/ \E t2 \in Trade : Settlements(t2) > 1

=============================================================================
