-------------------------- MODULE P2PEscrowProofs --------------------------
(***************************************************************************)
(* Theorems of P2PEscrow, for every set of users, offers, trades and       *)
(* workers: types, disputes and settlements, the promise, and the books.   *)
(* Then those of TradeRoom, the page of one party to one trade, and of the *)
(* sessions behind its calls; and that what the page takes the trade's     *)
(* handlers to do is what those of P2PEscrow do.                           *)
(***************************************************************************)
EXTENDS P2PEscrow, TradeRoom, SumLemmas, TLAPS

\* What an inductive argument needs beside the properties: a trade that does
\* not exist has neither dispute nor history, requests name real trades, those
\* that resolve a dispute name one that was opened, and a resolved trade is
\* not in progress.
BlankUntilCreated ==
    \A t \in Trade : ~Exists(t) =>
      dispute[t] = "NONE" /\ \A a \in Activity : activity[t][a] = 0

RequestsNameTrades ==
    \A w \in Worker :
      /\ request[w].op # "idle" => Exists(request[w].tradeId)
      /\ request[w].op = "resolve" => dispute[request[w].tradeId] # "NONE"

ResolvedIsTerminal ==
    \A t \in Trade :
      dispute[t] \in Resolution => trade[t].status \in TerminalStatus

IInv ==
    /\ TypeOK
    /\ BlankUntilCreated
    /\ RequestsNameTrades
    /\ UndisputedSettlesOnce
    /\ DisputedIffOpen
    /\ ResolvedIsTerminal

-----------------------------------------------------------------------------
(* The six ways a step changes a trade's rows. *)

RowStep(t, status, d, a) ==
    /\ \A x \in Trade \ {t} : /\ trade'[x] = trade[x]
                              /\ dispute'[x] = dispute[x]
                              /\ activity'[x] = activity[x]
    /\ trade'[t].status = status
    /\ dispute'[t] = d
    /\ \A b \in Activity :
         activity'[t][b] = IF b = a THEN activity[t][b] + 1 ELSE activity[t][b]

\* The seller's locked balance covers the trade's escrow.
Covered(t) == locked[trade[t].sellerId] >= trade[t].cryptoAmount

Created(t) ==
    ~Exists(t) /\ RowStep(t, "PENDING", dispute[t], "TRADE_CREATED")
Claimed(t) ==
    trade[t].status = "PENDING" /\ RowStep(t, "PAID", dispute[t], "MARKED_PAID")
PaidOut(t) ==
    /\ trade[t].status = "PAID" /\ Covered(t)
    /\ RowStep(t, "RELEASED", dispute[t], "RELEASED")
Returned(t) ==
    /\ trade[t].status = "PENDING" /\ Covered(t)
    /\ \E a \in {"CANCELLED", "AUTO_EXPIRED"} :
         RowStep(t, "CANCELLED", dispute[t], a)
Contested(t) ==
    /\ Exists(t) /\ dispute[t] = "NONE"
    /\ RowStep(t, "DISPUTED", "OPEN", "DISPUTE_OPENED")
Resolved(t) ==
    /\ Exists(t) /\ dispute[t] # "NONE" /\ Covered(t)
    /\ \/ RowStep(t, "RELEASED", "RESOLVED_BUYER", "DISPUTE_RESOLVED_BUYER")
       \/ RowStep(t, "CANCELLED", "RESOLVED_SELLER", "DISPUTE_RESOLVED_SELLER")

TradeStep(t) ==
    \/ Created(t) \/ Claimed(t) \/ PaidOut(t) \/ Returned(t)
    \/ Contested(t) \/ Resolved(t)

\* A row that exists is a full row.
LEMMA RowType ==
    ASSUME TypeOK, NEW t \in Trade, Exists(t)
    PROVE  trade[t] \in TradeRow
BY DEF TypeOK, Exists, Absent

\* A request that is being served is one of two kinds.
LEMMA RequestType ==
    ASSUME TypeOK, NEW w \in Worker
    PROVE  /\ request[w].op = "dispute" =>
                request[w] \in [op : {"dispute"}, tradeId : Trade]
           /\ request[w].op = "resolve" =>
                request[w] \in [op : {"resolve"}, tradeId : Trade,
                                resolution : Resolution]
           /\ request[w].op = "idle" => request[w] = Idle
BY DEF TypeOK, Request, Idle

\* Incrementing the statistics of two users.
LEMMA CountTwo ==
    ASSUME NEW f \in [User -> Nat], NEW b \in User, NEW s \in User
    PROVE  [f EXCEPT ![b] = @ + 1, ![s] = @ + 1] \in [User -> Nat]
<1>1. [f EXCEPT ![b] = @ + 1] \in [User -> Nat]
  OBVIOUS
<1>2. \A g \in [User -> Nat] : [g EXCEPT ![s] = @ + 1] \in [User -> Nat]
  OBVIOUS
<1> QED
  BY <1>1, <1>2

\* The writes of a settlement, whoever decides it.
LEMMA ReleaseStep ==
    ASSUME TypeOK, NEW t \in Trade, Exists(t), NEW a \in Activity, Release(t, a)
    PROVE  /\ trade' \in [Trade -> {Absent} \cup TradeRow]
           /\ activity' \in [Trade -> [Activity -> Nat]]
           /\ balance' \in [User -> Nat] /\ locked' \in [User -> Nat]
           /\ completedTrades' \in [User -> Nat]
           /\ p2pTradesTotal' \in [User -> Nat]
           /\ dispute' \in [Trade -> {"NONE", "OPEN"} \cup Resolution] =>
              ((\A x \in Trade \ {t} : dispute'[x] = dispute[x]) =>
                RowStep(t, "RELEASED", dispute'[t], a))
<1>1. trade[t] \in TradeRow
  BY RowType
<1>2. /\ trade[t].sellerId \in User /\ trade[t].buyerId \in User
      /\ trade[t].cryptoAmount \in Nat
  BY <1>1, P2PAssumption DEF TradeRow
<1>3. [trade[t] EXCEPT !.status = "RELEASED"] \in TradeRow
  BY <1>1 DEF TradeRow, TerminalStatus
<1>4. trade' = [trade EXCEPT ![t] = [trade[t] EXCEPT !.status = "RELEASED"]]
  BY DEF Release, SetStatus, TypeOK
<1>5. trade' \in [Trade -> {Absent} \cup TradeRow]
  BY <1>3, <1>4 DEF TypeOK
<1>6. activity' \in [Trade -> [Activity -> Nat]]
  BY DEF Release, AppendActivity, TypeOK
<1>7. balance' \in [User -> Nat] /\ locked' \in [User -> Nat]
  BY <1>2 DEF Release, ReleaseLockedToBuyer, TypeOK
<1>8. /\ completedTrades' \in [User -> Nat]
      /\ p2pTradesTotal' \in [User -> Nat]
  BY <1>2, CountTwo DEF Release, CountCompleted, CountTerminal, TypeOK
<1>9. trade'[t].status = "RELEASED"
  BY <1>1, <1>4 DEF TypeOK, TradeRow
<1>10. ASSUME \A x \in Trade \ {t} : dispute'[x] = dispute[x]
       PROVE  RowStep(t, "RELEASED", dispute'[t], a)
  BY <1>4, <1>9, <1>10 DEF Release, AppendActivity, RowStep, TypeOK
<1> QED
  BY <1>5, <1>6, <1>7, <1>8, <1>10

\* The writes of a refund are a trade step.
LEMMA RefundStep ==
    ASSUME TypeOK, NEW t \in Trade, Exists(t), NEW a \in Activity, Refund(t, a)
    PROVE  /\ trade' \in [Trade -> {Absent} \cup TradeRow]
           /\ activity' \in [Trade -> [Activity -> Nat]]
           /\ balance' \in [User -> Nat] /\ locked' \in [User -> Nat]
           /\ completedTrades' \in [User -> Nat]
           /\ p2pTradesTotal' \in [User -> Nat]
           /\ dispute' \in [Trade -> {"NONE", "OPEN"} \cup Resolution] =>
              ((\A x \in Trade \ {t} : dispute'[x] = dispute[x]) =>
                RowStep(t, "CANCELLED", dispute'[t], a))
<1>1. trade[t] \in TradeRow
  BY RowType
<1>2. /\ trade[t].sellerId \in User /\ trade[t].buyerId \in User
      /\ trade[t].cryptoAmount \in Nat
  BY <1>1, P2PAssumption DEF TradeRow
<1>3. [trade[t] EXCEPT !.status = "CANCELLED"] \in TradeRow
  BY <1>1 DEF TradeRow, TerminalStatus
<1>4. trade' = [trade EXCEPT ![t] = [trade[t] EXCEPT !.status = "CANCELLED"]]
  BY DEF Refund, SetStatus, TypeOK
<1>5. trade' \in [Trade -> {Absent} \cup TradeRow]
  BY <1>3, <1>4 DEF TypeOK
<1>6. activity' \in [Trade -> [Activity -> Nat]]
  BY DEF Refund, AppendActivity, TypeOK
<1>7. balance' \in [User -> Nat] /\ locked' \in [User -> Nat]
  BY <1>2 DEF Refund, RefundLockedToSeller, TypeOK
<1>8. /\ completedTrades' \in [User -> Nat]
      /\ p2pTradesTotal' \in [User -> Nat]
  BY <1>2, CountTwo DEF Refund, CountTerminal, TypeOK
<1>9. trade'[t].status = "CANCELLED"
  BY <1>1, <1>4 DEF TypeOK, TradeRow
<1>10. ASSUME \A x \in Trade \ {t} : dispute'[x] = dispute[x]
       PROVE  RowStep(t, "CANCELLED", dispute'[t], a)
  BY <1>4, <1>9, <1>10 DEF Refund, AppendActivity, RowStep, TypeOK
<1> QED
  BY <1>5, <1>6, <1>7, <1>8, <1>10

-----------------------------------------------------------------------------
(* Every step keeps the types and is a TradeStep, or leaves the trades. *)

TradeRowsUnchanged == UNCHANGED <<trade, dispute, activity>>

StepOK == TypeOK' /\ (TradeRowsUnchanged \/ \E t \in Trade : TradeStep(t))

\* An offer is created: no trade changes.
LEMMA CreateOfferStep ==
    ASSUME IInv, NEW o \in Offer, NEW u \in User, NEW in \in OfferInput,
           CreateOffer(o, u, in)
    PROVE  StepOK
<1>1. [status |-> "ACTIVE", userId |-> u, side |-> in.side,
       minFiat |-> in.minFiat, maxFiat |-> in.maxFiat] \in OfferRow
  BY P2PAssumption DEF OfferRow
<1>2. offer' \in [Offer -> {Absent} \cup OfferRow]
  BY <1>1 DEF CreateOffer, IInv, TypeOK
<1> QED
  BY <1>2 DEF CreateOffer, IInv, TypeOK, StepOK, TradeRowsUnchanged, wallets,
              counters

\* A trade is started: its row, blank until now, is created.
LEMMA StartTradeStep ==
    ASSUME IInv, NEW o \in Offer, NEW u \in User, NEW t \in Trade,
           NEW amount \in Amount, StartTrade(o, u, t, amount)
    PROVE  StepOK
<1> DEFINE row == [status |-> "PENDING", offerId |-> o,
                   buyerId |-> Buyer(o, u), sellerId |-> Seller(o, u),
                   cryptoAmount |-> amount,
                   timerEndsAt |-> now + TRADE_MINUTES]
<1>1. offer[o] \in OfferRow
  BY DEF IInv, TypeOK, StartTrade, Absent
<1>2. Buyer(o, u) \in User /\ Seller(o, u) \in User
  BY <1>1 DEF Buyer, Seller, OfferRow
<1>3. now + TRADE_MINUTES \in Nat /\ amount \in Nat
  BY P2PAssumption DEF IInv, TypeOK
<1>4. row \in TradeRow
  BY <1>2, <1>3 DEF TradeRow, ActiveStatus
<1>5. trade' = [trade EXCEPT ![t] = row]
  BY DEF StartTrade
<1>6. trade' \in [Trade -> {Absent} \cup TradeRow]
  BY <1>4, <1>5 DEF IInv, TypeOK
<1>7. balance' \in [User -> Nat] /\ locked' \in [User -> Nat]
  BY <1>2, <1>3 DEF StartTrade, MoveToLocked, IInv, TypeOK
<1>8. activity' \in [Trade -> [Activity -> Nat]]
  BY DEF StartTrade, AppendActivity, IInv, TypeOK, Activity
<1>9. TypeOK'
  BY <1>6, <1>7, <1>8 DEF StartTrade, IInv, TypeOK, counters
<1>10. ~Exists(t)
  BY DEF StartTrade, Exists, Absent
<1>11. trade'[t].status = "PENDING"
  BY <1>5 DEF IInv, TypeOK
<1>12. RowStep(t, "PENDING", dispute[t], "TRADE_CREATED")
  BY <1>5, <1>11 DEF StartTrade, AppendActivity, RowStep, IInv, TypeOK, Activity
<1> QED
  BY <1>9, <1>10, <1>12 DEF StepOK, TradeStep, Created

\* The buyer's claim is a trade step.
LEMMA MarkPaidStep ==
    ASSUME IInv, NEW t \in Trade, NEW u \in User, MarkPaid(t, u)
    PROVE  StepOK
<1>1. trade[t] \in TradeRow
  BY RowType DEF MarkPaid, Exists, IInv
<1>2. [trade[t] EXCEPT !.status = "PAID"] \in TradeRow
  BY <1>1 DEF TradeRow, ActiveStatus
<1>3. trade' = [trade EXCEPT ![t] = [trade[t] EXCEPT !.status = "PAID"]]
  BY DEF MarkPaid, SetStatus, IInv, TypeOK
<1>4. trade' \in [Trade -> {Absent} \cup TradeRow]
  BY <1>2, <1>3 DEF IInv, TypeOK
<1>5. activity' \in [Trade -> [Activity -> Nat]]
  BY DEF MarkPaid, AppendActivity, IInv, TypeOK, Activity
<1>6. TypeOK'
  BY <1>4, <1>5 DEF MarkPaid, IInv, TypeOK, wallets, counters
<1>7. trade'[t].status = "PAID"
  BY <1>1, <1>3 DEF IInv, TypeOK, TradeRow
<1>8. RowStep(t, "PAID", dispute[t], "MARKED_PAID")
  BY <1>3, <1>7 DEF MarkPaid, AppendActivity, RowStep, IInv, TypeOK, Activity
<1> QED
  BY <1>6, <1>8 DEF StepOK, TradeStep, Claimed, MarkPaid

\* So is the seller's release,
LEMMA ConfirmReleaseStep ==
    ASSUME IInv, NEW t \in Trade, NEW u \in User, ConfirmRelease(t, u)
    PROVE  StepOK
<1>1. Exists(t) /\ Release(t, "RELEASED") /\ "RELEASED" \in Activity
  BY DEF ConfirmRelease, Exists, Activity
<1>2. dispute' = dispute
  BY DEF ConfirmRelease
<1>3. TypeOK'
  BY <1>1, <1>2, ReleaseStep DEF ConfirmRelease, IInv, TypeOK
<1>4. RowStep(t, "RELEASED", dispute[t], "RELEASED")
  BY <1>1, <1>2, ReleaseStep DEF IInv, TypeOK
<1>5. Covered(t)
  BY <1>1 DEF Release, ReleaseLockedToBuyer, Covered
<1> QED
  BY <1>3, <1>4, <1>5 DEF StepOK, TradeStep, PaidOut, ConfirmRelease

\* a cancellation,
LEMMA CancelTradeStep ==
    ASSUME IInv, NEW t \in Trade, NEW u \in User, CancelTrade(t, u)
    PROVE  StepOK
<1>1. Exists(t) /\ Refund(t, "CANCELLED") /\ "CANCELLED" \in Activity
  BY DEF CancelTrade, Exists, Activity
<1>2. dispute' = dispute
  BY DEF CancelTrade
<1>3. TypeOK'
  BY <1>1, <1>2, RefundStep DEF CancelTrade, IInv, TypeOK
<1>4. RowStep(t, "CANCELLED", dispute[t], "CANCELLED")
  BY <1>1, <1>2, RefundStep DEF IInv, TypeOK
<1>5. Covered(t)
  BY <1>1 DEF Refund, RefundLockedToSeller, Covered
<1> QED
  BY <1>3, <1>4, <1>5 DEF StepOK, TradeStep, Returned, CancelTrade

\* the sweeper's visit,
LEMMA AutoCancelExpiredStep ==
    ASSUME IInv, NEW t \in Trade, AutoCancelExpired(t)
    PROVE  StepOK
<1>1. Exists(t) /\ Refund(t, "AUTO_EXPIRED") /\ "AUTO_EXPIRED" \in Activity
  BY DEF AutoCancelExpired, Exists, Activity
<1>2. dispute' = dispute
  BY DEF AutoCancelExpired
<1>3. TypeOK'
  BY <1>1, <1>2, RefundStep DEF AutoCancelExpired, IInv, TypeOK
<1>4. RowStep(t, "CANCELLED", dispute[t], "AUTO_EXPIRED")
  BY <1>1, <1>2, RefundStep DEF IInv, TypeOK
<1>5. Covered(t)
  BY <1>1 DEF Refund, RefundLockedToSeller, Covered
<1> QED
  BY <1>3, <1>4, <1>5 DEF StepOK, TradeStep, Returned, AutoCancelExpired

\* a dispute, whatever became of the trade since it was read,
LEMMA OpenDisputeCommitStep ==
    ASSUME IInv, NEW w \in Worker, OpenDisputeCommit(w)
    PROVE  StepOK
<1> DEFINE t == request[w].tradeId
<1>1. t \in Trade
  BY RequestType DEF OpenDisputeCommit, IInv
<1>2. Exists(t)
  BY DEF IInv, RequestsNameTrades, OpenDisputeCommit
<1>3. trade[t] \in TradeRow
  BY <1>1, <1>2, RowType DEF IInv
<1>4. [trade[t] EXCEPT !.status = "DISPUTED"] \in TradeRow
  BY <1>3 DEF TradeRow, ActiveStatus
<1>5. trade' = [trade EXCEPT ![t] = [trade[t] EXCEPT !.status = "DISPUTED"]]
  BY <1>1 DEF OpenDisputeCommit, SetStatus, IInv, TypeOK
<1>6. trade' \in [Trade -> {Absent} \cup TradeRow]
  BY <1>1, <1>4, <1>5 DEF IInv, TypeOK
<1>7. activity' \in [Trade -> [Activity -> Nat]]
  BY <1>1 DEF OpenDisputeCommit, AppendActivity, IInv, TypeOK, Activity
<1>8. dispute' \in [Trade -> {"NONE", "OPEN"} \cup Resolution]
  BY <1>1 DEF OpenDisputeCommit, IInv, TypeOK
<1>9. request' \in [Worker -> Request]
  BY DEF OpenDisputeCommit, IInv, TypeOK, Request
<1>10. TypeOK'
  BY <1>6, <1>7, <1>8, <1>9 DEF OpenDisputeCommit, IInv, TypeOK, wallets, counters
<1>11. trade'[t].status = "DISPUTED"
  BY <1>1, <1>3, <1>5 DEF IInv, TypeOK, TradeRow
<1>12. RowStep(t, "DISPUTED", "OPEN", "DISPUTE_OPENED")
  BY <1>1, <1>5, <1>11 DEF OpenDisputeCommit, AppendActivity, RowStep, IInv,
                           TypeOK, Activity
<1> QED
  BY <1>1, <1>2, <1>10, <1>12 DEF StepOK, TradeStep, Contested, OpenDisputeCommit

\* and the decision of the staff, likewise.
LEMMA ResolveDisputeCommitStep ==
    ASSUME IInv, NEW w \in Worker, ResolveDisputeCommit(w)
    PROVE  StepOK
<1> DEFINE t == request[w].tradeId
<1>1. t \in Trade /\ request[w].resolution \in Resolution
  BY RequestType DEF ResolveDisputeCommit, IInv
<1>2. Exists(t) /\ dispute[t] # "NONE"
  BY DEF IInv, RequestsNameTrades, ResolveDisputeCommit
<1>3. dispute' \in [Trade -> {"NONE", "OPEN"} \cup Resolution]
  BY <1>1 DEF ResolveDisputeCommit, IInv, TypeOK
<1>4. /\ \A x \in Trade \ {t} : dispute'[x] = dispute[x]
      /\ dispute'[t] = request[w].resolution
  BY <1>1 DEF ResolveDisputeCommit, IInv, TypeOK
<1>5. request' \in [Worker -> Request]
  BY DEF ResolveDisputeCommit, IInv, TypeOK, Request
<1>6. CASE /\ request[w].resolution = "RESOLVED_BUYER"
           /\ Release(t, "DISPUTE_RESOLVED_BUYER")
  <2>1. "DISPUTE_RESOLVED_BUYER" \in Activity
    BY DEF Activity
  <2>2. TypeOK'
    BY <1>1, <1>2, <1>3, <1>5, <1>6, <2>1, ReleaseStep
       DEF ResolveDisputeCommit, IInv, TypeOK
  <2>3. RowStep(t, "RELEASED", "RESOLVED_BUYER", "DISPUTE_RESOLVED_BUYER")
    BY <1>1, <1>2, <1>3, <1>4, <1>6, <2>1, ReleaseStep DEF IInv
  <2>4. Covered(t)
    BY <1>6 DEF Release, ReleaseLockedToBuyer, Covered
  <2> QED
    BY <1>1, <1>2, <2>2, <2>3, <2>4 DEF StepOK, TradeStep, Resolved
<1>7. CASE /\ request[w].resolution = "RESOLVED_SELLER"
           /\ Refund(t, "DISPUTE_RESOLVED_SELLER")
  <2>1. "DISPUTE_RESOLVED_SELLER" \in Activity
    BY DEF Activity
  <2>2. TypeOK'
    BY <1>1, <1>2, <1>3, <1>5, <1>7, <2>1, RefundStep
       DEF ResolveDisputeCommit, IInv, TypeOK
  <2>3. RowStep(t, "CANCELLED", "RESOLVED_SELLER", "DISPUTE_RESOLVED_SELLER")
    BY <1>1, <1>2, <1>3, <1>4, <1>7, <2>1, RefundStep DEF IInv
  <2>4. Covered(t)
    BY <1>7 DEF Refund, RefundLockedToSeller, Covered
  <2> QED
    BY <1>1, <1>2, <2>2, <2>3, <2>4 DEF StepOK, TradeStep, Resolved
<1> QED
  BY <1>6, <1>7 DEF ResolveDisputeCommit

\* The steps that only move requests, sweeps or the clock.
LEMMA QuietStep ==
    ASSUME IInv,
           \/ ListExpired \/ Restart \/ Tick
           \/ \E t \in Trade : AutoCancelIgnored(t)
           \/ \E w \in Worker : RequestFails(w)
           \/ \E w \in Worker, t \in Trade :
                \/ \E u \in User : OpenDisputeRead(w, t, u)
                \/ \E r \in Resolution : ResolveDisputeRead(w, t, r)
    PROVE  StepOK
<1>1. CASE ListExpired \/ Tick \/ \E t \in Trade : AutoCancelIgnored(t)
  BY <1>1 DEF ListExpired, Tick, AutoCancelIgnored, IInv, TypeOK, StepOK,
              TradeRowsUnchanged, rows, wallets, counters
<1>2. CASE Restart \/ \E w \in Worker : RequestFails(w)
  <2>1. request' \in [Worker -> Request]
    BY <1>2 DEF Restart, RequestFails, IInv, TypeOK, Request
  <2> QED
    BY <1>2, <2>1 DEF Restart, RequestFails, IInv, TypeOK, StepOK,
                      TradeRowsUnchanged, rows, wallets, counters
<1>3. CASE \E w \in Worker, t \in Trade :
                \/ \E u \in User : OpenDisputeRead(w, t, u)
                \/ \E r \in Resolution : ResolveDisputeRead(w, t, r)
  <2>1. request' \in [Worker -> Request]
    BY <1>3 DEF OpenDisputeRead, ResolveDisputeRead, IInv, TypeOK, Request
  <2> QED
    BY <1>3, <2>1 DEF OpenDisputeRead, ResolveDisputeRead, IInv, TypeOK,
                      StepOK, TradeRowsUnchanged, rows, wallets, counters
<1> QED
  BY <1>1, <1>2, <1>3

\* Every step changes at most one trade, in one of the six ways.
LEMMA NextStep ==
    ASSUME IInv, [Next]_vars
    PROVE  StepOK
<1>1. CASE UNCHANGED vars
  BY <1>1 DEF vars, rows, wallets, counters, IInv, TypeOK, StepOK,
              TradeRowsUnchanged
<1>2. CASE Next
  BY <1>2, CreateOfferStep, StartTradeStep, MarkPaidStep, ConfirmReleaseStep,
     CancelTradeStep, AutoCancelExpiredStep, OpenDisputeCommitStep,
     ResolveDisputeCommitStep, QuietStep DEF Next
<1> QED
  BY <1>1, <1>2

-----------------------------------------------------------------------------
(* The inductive invariant. *)

\* No row exists yet.
LEMMA InitInvariant == Init => IInv
<1> SUFFICES ASSUME Init PROVE IInv
  OBVIOUS
<1>1. TypeOK
  BY P2PAssumption DEF Init, TypeOK, Request
<1>2. \A t \in Trade : ~Exists(t) /\ trade[t].status = "NONE"
  BY DEF Init, Exists, Absent
<1>3. BlankUntilCreated
  BY DEF Init, BlankUntilCreated
<1>4. RequestsNameTrades
  BY DEF Init, RequestsNameTrades, Idle
<1>5. UndisputedSettlesOnce /\ DisputedIffOpen /\ ResolvedIsTerminal
  BY <1>2 DEF Init, UndisputedSettlesOnce, DisputedIffOpen, ResolvedIsTerminal,
              Resolution
<1> QED
  BY <1>1, <1>3, <1>4, <1>5 DEF IInv

\* No settlement: none of the rows that go with one.
LEMMA NoSettlement ==
    ASSUME TypeOK, NEW t \in Trade, Settlements(t) = 0
    PROVE  /\ activity[t]["RELEASED"] = 0
           /\ activity[t]["DISPUTE_RESOLVED_BUYER"] = 0
           /\ activity[t]["CANCELLED"] = 0
           /\ activity[t]["AUTO_EXPIRED"] = 0
           /\ activity[t]["DISPUTE_RESOLVED_SELLER"] = 0
<1>1. activity[t] \in [Activity -> Nat]
  BY DEF TypeOK
<1>2. Releases(t) \in Nat /\ Refunds(t) \in Nat
  BY <1>1 DEF Releases, Refunds, Activity
<1>3. Releases(t) = 0 /\ Refunds(t) = 0
  BY <1>2 DEF Settlements
<1>4. ASSUME NEW f \in [Activity -> Nat],
             f["CANCELLED"] + f["AUTO_EXPIRED"] + f["DISPUTE_RESOLVED_SELLER"] = 0
      PROVE  /\ f["CANCELLED"] = 0
             /\ f["AUTO_EXPIRED"] = 0
             /\ f["DISPUTE_RESOLVED_SELLER"] = 0
  BY <1>4 DEF Activity
<1>5. activity[t]["RELEASED"] = 0 /\ activity[t]["DISPUTE_RESOLVED_BUYER"] = 0
  BY <1>1, <1>3 DEF Releases, Activity
<1> QED
  BY <1>1, <1>3, <1>4, <1>5, Zenon DEF Refunds

\* A trade step seen from its trade and from the others.
LEMMA BlankStep ==
    ASSUME IInv, StepOK
    PROVE  BlankUntilCreated'
<1>1. CASE TradeRowsUnchanged
  BY <1>1 DEF TradeRowsUnchanged, IInv, BlankUntilCreated, Exists
<1>2. CASE \E t \in Trade : TradeStep(t)
  <2> PICK t \in Trade : TradeStep(t)
    BY <1>2
  <2>1. trade'[t].status # "NONE"
    BY DEF TradeStep, Created, Claimed, PaidOut, Returned, Contested, Resolved,
           RowStep
  <2>2. \A x \in Trade \ {t} : /\ trade'[x] = trade[x]
                               /\ dispute'[x] = dispute[x]
                               /\ activity'[x] = activity[x]
    BY DEF TradeStep, Created, Claimed, PaidOut, Returned, Contested, Resolved,
           RowStep
  <2> QED
    BY <2>1, <2>2 DEF IInv, BlankUntilCreated, Exists
<1> QED
  BY <1>1, <1>2 DEF StepOK

\* A trade step keeps status and dispute together.
LEMMA DisputedStep ==
    ASSUME IInv, StepOK
    PROVE  DisputedIffOpen' /\ ResolvedIsTerminal'
<1>1. CASE TradeRowsUnchanged
  BY <1>1 DEF TradeRowsUnchanged, IInv, DisputedIffOpen, ResolvedIsTerminal
<1>2. CASE \E t \in Trade : TradeStep(t)
  <2> PICK t \in Trade : TradeStep(t)
    BY <1>2
  <2>1. /\ trade'[t].status = "DISPUTED" <=> dispute'[t] = "OPEN"
        /\ dispute'[t] \in Resolution => trade'[t].status \in TerminalStatus
    BY DEF TradeStep, Created, Claimed, PaidOut, Returned, Contested, Resolved,
           RowStep, IInv, DisputedIffOpen, BlankUntilCreated, Resolution,
           ResolvedIsTerminal, TerminalStatus
  <2>2. \A x \in Trade \ {t} : trade'[x] = trade[x] /\ dispute'[x] = dispute[x]
    BY DEF TradeStep, Created, Claimed, PaidOut, Returned, Contested, Resolved,
           RowStep
  <2> QED
    BY <2>1, <2>2 DEF IInv, DisputedIffOpen, ResolvedIsTerminal
<1> QED
  BY <1>1, <1>2 DEF StepOK

\* A trade step settles an undisputed trade once.
LEMMA SettlesOnceStep ==
    ASSUME IInv, StepOK
    PROVE  UndisputedSettlesOnce'
<1>1. CASE TradeRowsUnchanged
  BY <1>1 DEF TradeRowsUnchanged, IInv, UndisputedSettlesOnce, Exists,
              Settlements, Releases, Refunds
<1>2. CASE \E t \in Trade : TradeStep(t)
  <2> PICK t \in Trade : TradeStep(t)
    BY <1>2
  <2>2. CASE Created(t)
    <3>1. \A a \in Activity : activity[t][a] = 0
      BY <2>2 DEF Created, IInv, BlankUntilCreated
    <3>2. trade'[t].status = "PENDING" /\ Settlements(t)' = 0
      BY <2>2, <3>1 DEF Created, RowStep, Activity, Settlements, Releases, Refunds
    <3> QED
      BY <2>2, <3>2 DEF Created, RowStep, IInv, UndisputedSettlesOnce, Exists,
                        Settlements, Releases, Refunds, TerminalStatus
  <2>3. CASE Claimed(t) \/ PaidOut(t) \/ Returned(t)
    <3>1. dispute'[t] = dispute[t] /\ Exists(t) /\ Exists(t)'
      BY <2>3 DEF Claimed, PaidOut, Returned, RowStep, Exists
    <3>2. ASSUME dispute[t] = "NONE"
          PROVE  Settlements(t)' = IF trade'[t].status \in TerminalStatus
                                   THEN 1 ELSE 0
      <4>1. Settlements(t) = 0
        BY <2>3, <3>1, <3>2 DEF Claimed, PaidOut, Returned, TerminalStatus,
                                IInv, UndisputedSettlesOnce
      <4>2. /\ activity[t]["RELEASED"] = 0
            /\ activity[t]["DISPUTE_RESOLVED_BUYER"] = 0
            /\ activity[t]["CANCELLED"] = 0
            /\ activity[t]["AUTO_EXPIRED"] = 0
            /\ activity[t]["DISPUTE_RESOLVED_SELLER"] = 0
        BY <4>1, NoSettlement DEF IInv
      <4>3. CASE Claimed(t)
        BY <4>2, <4>3 DEF Claimed, RowStep, Activity, Settlements, Releases,
                          Refunds, TerminalStatus
      <4>4. CASE PaidOut(t)
        BY <4>2, <4>4 DEF PaidOut, RowStep, Activity, Settlements, Releases,
                          Refunds, TerminalStatus
      <4>5. CASE Returned(t)
        BY <4>2, <4>5 DEF Returned, RowStep, Activity, Settlements, Releases,
                          Refunds, TerminalStatus
      <4> QED
        BY <2>3, <4>3, <4>4, <4>5
    <3> QED
      BY <2>3, <3>1, <3>2 DEF Claimed, PaidOut, Returned, RowStep, IInv,
              UndisputedSettlesOnce, Exists, Settlements, Releases, Refunds
  <2>4. CASE Contested(t) \/ Resolved(t)
    BY <2>4 DEF Contested, Resolved, RowStep, IInv, UndisputedSettlesOnce,
                Exists, Settlements, Releases, Refunds
  <2> QED
    BY <2>2, <2>3, <2>4 DEF TradeStep
<1> QED
  BY <1>1, <1>2 DEF StepOK

\* Disputes and trades do not disappear, so a request stays well-founded.
LEMMA RequestsStep ==
    ASSUME IInv, StepOK, [Next]_vars
    PROVE  RequestsNameTrades'
<1>1. \A x \in Trade : /\ Exists(x) => Exists(x)'
                       /\ dispute[x] # "NONE" => dispute'[x] # "NONE"
  <2>1. CASE TradeRowsUnchanged
    BY <2>1 DEF TradeRowsUnchanged, Exists
  <2>2. CASE \E t \in Trade : TradeStep(t)
    BY <2>2 DEF TradeStep, Created, Claimed, PaidOut, Returned, Contested,
                Resolved, RowStep, Exists
  <2> QED
    BY <2>1, <2>2 DEF StepOK
<1>2. ASSUME NEW w \in Worker, request'[w] = request[w] \/ request'[w] = Idle
      PROVE  /\ request'[w].op # "idle" =>
                  trade'[request'[w].tradeId].status # "NONE"
             /\ request'[w].op = "resolve" =>
                  dispute'[request'[w].tradeId] # "NONE"
  <2>1. CASE request'[w] = Idle
    BY <2>1 DEF Idle
  <2>2. CASE request'[w] = request[w] /\ request[w].op # "idle"
    <3>1. request[w].tradeId \in Trade
      BY <2>2, RequestType DEF IInv, TypeOK, Request, Idle
    <3>2. /\ Exists(request[w].tradeId)
          /\ request[w].op = "resolve" => dispute[request[w].tradeId] # "NONE"
      BY <2>2 DEF IInv, RequestsNameTrades
    <3> QED
      BY <1>1, <2>2, <3>1, <3>2 DEF Exists
  <2>3. CASE request'[w] = request[w] /\ request[w].op = "idle"
    BY <2>3
  <2> QED
    BY <1>2, <2>1, <2>2, <2>3
<1>3. CASE \E w \in Worker, t \in Trade :
             \/ \E u \in User : OpenDisputeRead(w, t, u)
             \/ \E r \in Resolution : ResolveDisputeRead(w, t, r)
  <2> PICK w \in Worker, t \in Trade :
             \/ \E u \in User : OpenDisputeRead(w, t, u)
             \/ \E r \in Resolution : ResolveDisputeRead(w, t, r)
    BY <1>3
  <2>1. TradeRowsUnchanged
    BY DEF OpenDisputeRead, ResolveDisputeRead, rows, TradeRowsUnchanged
  <2>2. \A x \in Worker \ {w} : request'[x] = request[x]
    BY DEF OpenDisputeRead, ResolveDisputeRead, IInv, TypeOK
  <2>3. /\ request'[w].tradeId = t
        /\ request'[w].op = "resolve" => dispute[t] # "NONE"
    BY DEF OpenDisputeRead, ResolveDisputeRead, IInv, TypeOK
  <2>4. Exists(t)
    BY DEF OpenDisputeRead, ResolveDisputeRead, IInv, BlankUntilCreated, Exists
  <2> QED
    BY <1>2, <2>1, <2>2, <2>3, <2>4 DEF RequestsNameTrades, TradeRowsUnchanged,
                                        Exists
<1>4. CASE \A w \in Worker : request'[w] = request[w] \/ request'[w] = Idle
  BY <1>2, <1>4 DEF RequestsNameTrades, Exists
<1>5. CASE UNCHANGED vars
  BY <1>4, <1>5 DEF vars
<1> QED
  BY <1>3, <1>4, <1>5 DEF Next, CreateOffer, StartTrade, MarkPaid,
     ConfirmRelease, CancelTrade, ListExpired, AutoCancelExpired,
     AutoCancelIgnored, OpenDisputeCommit, ResolveDisputeCommit, RequestFails,
     Restart, Tick, IInv, TypeOK

\* The inductive invariant of the marketplace holds.
THEOREM Invariance == Spec => []IInv
<1>1. ASSUME IInv, [Next]_vars PROVE IInv'
  <2>1. StepOK
    BY <1>1, NextStep
  <2>2. TypeOK'
    BY <2>1 DEF StepOK
  <2> QED
    BY <1>1, <2>1, <2>2, BlankStep, DisputedStep, SettlesOnceStep, RequestsStep
       DEF IInv
<1> QED
  BY <1>1, InitInvariant, PTL DEF Spec

-----------------------------------------------------------------------------
(* The theorems. *)

\* Every row keeps its type: no handler drives a balance, an escrow or a
\* statistic below zero, and a request always names a trade.
THEOREM TypesHold == Spec => []TypeOK
BY Invariance, PTL DEF IInv

\* A trade without a dispute settles at most once, and is terminal exactly
\* when it did, for any number of users, trades and concurrent requests.
THEOREM UndisputedSettlesOnceHolds == Spec => []UndisputedSettlesOnce
BY Invariance, PTL DEF IInv

\* A trade is DISPUTED exactly while its dispute row is OPEN.
THEOREM DisputedIffOpenHolds == Spec => []DisputedIffOpen
BY Invariance, PTL DEF IInv

\* While a dispute stays open neither the escrow nor the row of its trade
\* moves: only the resolution of the dispute settles the trade.
THEOREM DisputeFreezesEscrowHolds == Spec => DisputeFreezesEscrow
<1> DEFINE Frozen == \A t \in Trade : dispute[t] = "OPEN" /\ dispute'[t] = "OPEN" =>
                       Settlements(t)' = Settlements(t) /\ trade'[t] = trade[t]
<1>1. ASSUME IInv, [Next]_vars PROVE [Frozen]_vars
  <2>1. StepOK
    BY <1>1, NextStep
  <2>2. CASE TradeRowsUnchanged
    BY <2>2 DEF TradeRowsUnchanged, Settlements, Releases, Refunds
  <2>3. CASE \E t \in Trade : TradeStep(t)
    <3> PICK t \in Trade : TradeStep(t)
      BY <2>3
    <3>1. dispute[t] = "OPEN" => dispute'[t] # "OPEN"
      <4>1. trade[t].status = "DISPUTED" <=> dispute[t] = "OPEN"
        BY <1>1 DEF IInv, DisputedIffOpen
      <4>2. Exists(t) \/ dispute[t] = "NONE"
        BY <1>1 DEF IInv, BlankUntilCreated
      <4> QED
        BY <4>1, <4>2 DEF TradeStep, Created, Claimed, PaidOut, Returned,
                          Contested, Resolved, RowStep
    <3>2. \A x \in Trade \ {t} : trade'[x] = trade[x] /\ activity'[x] = activity[x]
      BY DEF TradeStep, Created, Claimed, PaidOut, Returned, Contested, Resolved,
             RowStep
    <3> QED
      BY <3>1, <3>2 DEF Settlements, Releases, Refunds
  <2> QED
    BY <2>1, <2>2, <2>3 DEF StepOK
<1> QED
  BY <1>1, Invariance, PTL DEF Spec, DisputeFreezesEscrow

-----------------------------------------------------------------------------
(* The marketplace implements the promise. *)

\* The first state of the marketplace is the first state of the promise.
LEMMA InitPromise == Init => Promise!Init
<1> SUFFICES ASSUME Init PROVE Promise!Init
  OBVIOUS
<1>1. \A t \in Trade : Phase(t) = "none"
  BY DEF Init, Phase, Absent
<1>2. \A t \in Trade : Releases(t) = 0 /\ Refunds(t) = 0
  BY DEF Init, Releases, Refunds, Activity
<1> QED
  BY <1>1, <1>2 DEF Promise!Init

\* How a trade step moves the counts of the trail.
LEMMA CountsMove ==
    ASSUME IInv, NEW t \in Trade, NEW s, NEW d, NEW a \in Activity,
           RowStep(t, s, d, a)
    PROVE  /\ Releases(t)' = IF a \in {"RELEASED", "DISPUTE_RESOLVED_BUYER"}
                             THEN Releases(t) + 1 ELSE Releases(t)
           /\ Refunds(t)' = IF a \in {"CANCELLED", "AUTO_EXPIRED",
                                      "DISPUTE_RESOLVED_SELLER"}
                            THEN Refunds(t) + 1 ELSE Refunds(t)
<1>1. activity[t] \in [Activity -> Nat]
  BY DEF IInv, TypeOK
<1>2. /\ activity[t]["RELEASED"] \in Nat
      /\ activity[t]["DISPUTE_RESOLVED_BUYER"] \in Nat
      /\ activity[t]["CANCELLED"] \in Nat
      /\ activity[t]["AUTO_EXPIRED"] \in Nat
      /\ activity[t]["DISPUTE_RESOLVED_SELLER"] \in Nat
  BY <1>1 DEF Activity
<1>3. \A b \in Activity :
        activity'[t][b] = IF b = a THEN activity[t][b] + 1 ELSE activity[t][b]
  BY DEF RowStep
<1> QED
  BY <1>2, <1>3 DEF Releases, Refunds, Activity

\* A trade step is invisible to the other trades' promise.
LEMMA OthersStay ==
    ASSUME NEW t \in Trade, NEW s, NEW d, NEW a, RowStep(t, s, d, a),
           NEW x \in Trade, x # t
    PROVE  Phase(x)' = Phase(x) /\ Releases(x)' = Releases(x)
           /\ Refunds(x)' = Refunds(x)
BY DEF RowStep, Phase, Releases, Refunds

\* Only an uncontested trade is waiting for its buyer or its seller.
LEMMA LiveUncontested ==
    ASSUME IInv, NEW t \in Trade, trade[t].status \in {"PENDING", "PAID"}
    PROVE  dispute[t] = "NONE"
BY DEF IInv, TypeOK, DisputedIffOpen, ResolvedIsTerminal, TerminalStatus

\* Each of the six ways is a step of the promise.
LEMMA TradeStepPromise ==
    ASSUME IInv, NEW t \in Trade, TradeStep(t)
    PROVE  Promise!Next
<1>1. CASE Created(t)
  <2>1. /\ Phase(t) = "none" /\ Phase(t)' = "held"
    BY <1>1 DEF Created, RowStep, Phase, Exists, IInv, BlankUntilCreated
  <2>2. Releases(t)' = Releases(t) /\ Refunds(t)' = Refunds(t)
    BY <1>1, CountsMove DEF Created, Activity
  <2>3. Promise!Hold(t)
    BY <1>1, <2>1, <2>2, OthersStay DEF Created, Promise!Hold, Promise!Move
  <2> QED
    BY <2>3 DEF Promise!Next
<1>2. CASE Claimed(t)
  <2>1. Phase(t) = "held" /\ Phase(t)' = "claimed"
    BY <1>2, LiveUncontested DEF Claimed, RowStep, Phase
  <2>2. Releases(t)' = Releases(t) /\ Refunds(t)' = Refunds(t)
    BY <1>2, CountsMove DEF Claimed, Activity
  <2>3. Promise!Claim(t)
    BY <1>2, <2>1, <2>2, OthersStay DEF Claimed, Promise!Claim, Promise!Move
  <2> QED
    BY <2>3 DEF Promise!Next
<1>3. CASE PaidOut(t)
  <2>1. Phase(t) = "claimed" /\ Phase(t)' = "bought"
    BY <1>3, LiveUncontested DEF PaidOut, RowStep, Phase
  <2>2. Releases(t)' = Releases(t) + 1 /\ Refunds(t)' = Refunds(t)
    BY <1>3, CountsMove DEF PaidOut, Activity
  <2>3. Promise!PayBuyer(t)
    BY <1>3, <2>1, <2>2, OthersStay DEF PaidOut, Promise!PayBuyer, Promise!Move
  <2> QED
    BY <2>3 DEF Promise!Next
<1>4. CASE Returned(t)
  <2> PICK a \in {"CANCELLED", "AUTO_EXPIRED"} :
             RowStep(t, "CANCELLED", dispute[t], a)
    BY <1>4 DEF Returned
  <2>1. Phase(t) = "held" /\ Phase(t)' = "returned"
    BY <1>4, LiveUncontested DEF Returned, RowStep, Phase
  <2>2. Releases(t)' = Releases(t) /\ Refunds(t)' = Refunds(t) + 1
    BY CountsMove DEF Activity
  <2>3. Promise!Return(t)
    BY <2>1, <2>2, OthersStay DEF Promise!Return, Promise!Move
  <2> QED
    BY <2>3 DEF Promise!Next
<1>5. CASE Contested(t)
  <2>1. /\ Phase(t) \notin {"none", "contested"}
        /\ Phase(t)' = "contested"
    <3>1. trade[t] \in TradeRow /\ trade[t].status # "DISPUTED"
      BY <1>5, RowType DEF Contested, IInv, DisputedIffOpen
    <3> QED
      BY <1>5, <3>1 DEF Contested, RowStep, Phase, TradeRow, ActiveStatus,
                        TerminalStatus
  <2>2. Releases(t)' = Releases(t) /\ Refunds(t)' = Refunds(t)
    BY <1>5, CountsMove DEF Contested, Activity
  <2>3. Promise!Contest(t)
    BY <1>5, <2>1, <2>2, OthersStay DEF Contested, Promise!Contest
  <2> QED
    BY <2>3 DEF Promise!Next
<1>6. CASE Resolved(t)
  <2>1. Phase(t) = "contested" /\ Phase(t)' = "contested"
    BY <1>6 DEF Resolved, RowStep, Phase
  <2>2. CASE RowStep(t, "RELEASED", "RESOLVED_BUYER", "DISPUTE_RESOLVED_BUYER")
    <3>1. Releases(t)' = Releases(t) + 1 /\ Refunds(t)' = Refunds(t)
      BY <2>2, CountsMove DEF Activity
    <3>2. Promise!Arbitrate(t)
      BY <2>1, <2>2, <3>1, OthersStay DEF Promise!Arbitrate
    <3> QED
      BY <3>2 DEF Promise!Next
  <2>3. CASE RowStep(t, "CANCELLED", "RESOLVED_SELLER", "DISPUTE_RESOLVED_SELLER")
    <3>1. Releases(t)' = Releases(t) /\ Refunds(t)' = Refunds(t) + 1
      BY <2>3, CountsMove DEF Activity
    <3>2. Promise!Arbitrate(t)
      BY <2>1, <2>3, <3>1, OthersStay DEF Promise!Arbitrate
    <3> QED
      BY <3>2 DEF Promise!Next
  <2> QED
    BY <1>6, <2>2, <2>3 DEF Resolved
<1> QED
  BY <1>1, <1>2, <1>3, <1>4, <1>5, <1>6 DEF TradeStep

\* Buyer, seller and sweeper keep the promise of TradePromise for every trade
\* that is not contested, whatever runs concurrently.
THEOREM PromiseHolds == Spec => ImplementsPromise
<1>1. ASSUME IInv, [Next]_vars PROVE [Promise!Next]_(Promise!vars)
  <2>1. CASE TradeRowsUnchanged
    <3>1. \A t \in Trade : /\ Phase(t)' = Phase(t)
                           /\ Releases(t)' = Releases(t)
                           /\ Refunds(t)' = Refunds(t)
      BY <2>1 DEF TradeRowsUnchanged, Phase, Releases, Refunds
    <3> QED
      BY <3>1 DEF Promise!vars
  <2>2. CASE \E t \in Trade : TradeStep(t)
    BY <1>1, <2>2, TradeStepPromise
  <2> QED
    BY <1>1, <2>1, <2>2, NextStep DEF StepOK
<1> QED
  BY <1>1, InitPromise, Invariance, PTL DEF Spec, ImplementsPromise, Promise!Spec

-----------------------------------------------------------------------------
(* The books: what the audit trail says of each user's escrow, balance and  *)
(* statistics.  A step changes at most one trade, and a user's wallet and   *)
(* statistics by what that trade's part of the sums changes by.             *)

\* Buyer and seller are two users, and a trade's offer stays.
TermsSound ==
    \A t \in Trade : Exists(t) =>
      /\ trade[t].buyerId # trade[t].sellerId
      /\ offer[trade[t].offerId] # Absent

OthersKept(t) ==
    \A x \in Trade \ {t} : trade'[x] = trade[x] /\ activity'[x] = activity[x]

BooksMove(t) ==
    \A u \in User :
      /\ locked'[u] = locked[u] + Escrowed(u)'[t] - Escrowed(u)[t]
      /\ balance'[u] = balance[u] + Gained(u)'[t] - Gained(u)[t]
      /\ p2pTradesTotal'[u] = p2pTradesTotal[u] + Settled(u)'[t] - Settled(u)[t]
      /\ completedTrades'[u] = completedTrades[u] + Completed(u)'[t] - Completed(u)[t]

\* What the trail counts of a trade are natural numbers.
LEMMA TrailNat ==
    ASSUME TypeOK, NEW t \in Trade
    PROVE  Releases(t) \in Nat /\ Refunds(t) \in Nat
<1>1. activity[t] \in [Activity -> Nat]
  BY DEF TypeOK
<1> QED
  BY <1>1 DEF Releases, Refunds, Activity

\* The parts of the sums are integers.
PartsAreInt ==
    \A u \in User, t \in Trade :
      /\ Escrowed(u)[t] \in Int /\ Gained(u)[t] \in Int
      /\ Settled(u)[t] \in Int /\ Completed(u)[t] \in Int

\* They are while the rows have their types.
LEMMA PartsInt == TypeOK => PartsAreInt
<1> SUFFICES ASSUME TypeOK, NEW u \in User, NEW t \in Trade
             PROVE  /\ Escrowed(u)[t] \in Int /\ Gained(u)[t] \in Int
                    /\ Settled(u)[t] \in Int /\ Completed(u)[t] \in Int
  BY DEF PartsAreInt
<1>1. Releases(t) \in Nat /\ Refunds(t) \in Nat
  BY TrailNat
<1>2. Exists(t) => trade[t].cryptoAmount \in Int
  <2> SUFFICES ASSUME Exists(t) PROVE trade[t].cryptoAmount \in Int
    OBVIOUS
  <2>1. trade[t] \in TradeRow
    BY RowType
  <2>2. trade[t].cryptoAmount \in Nat
    BY <2>1, P2PAssumption DEF TradeRow
  <2> QED
    BY <2>2
<1>3. \A a \in Int, n \in Int : a * n \in Int
  OBVIOUS
<1>4. Settlements(t) \in Nat /\ 1 - Settlements(t) \in Int /\ Refunds(t) - 1 \in Int
  BY <1>1 DEF Settlements
<1>5. Exists(t) => /\ trade[t].cryptoAmount * (1 - Settlements(t)) \in Int
                   /\ trade[t].cryptoAmount * (Refunds(t) - 1) \in Int
                   /\ trade[t].cryptoAmount * Releases(t) \in Int
  BY <1>1, <1>2, <1>3, <1>4
<1> QED
  BY <1>1, <1>4, <1>5 DEF Escrowed, Gained, Settled, Completed, TradesSoldBy, TradesOf

\* A trade whose rows stay keeps its parts of the sums.
LEMMA PartsStay ==
    ASSUME NEW x \in Trade, trade'[x] = trade[x], activity'[x] = activity[x],
           NEW u \in User
    PROVE  /\ Escrowed(u)'[x] = Escrowed(u)[x] /\ Gained(u)'[x] = Gained(u)[x]
           /\ Settled(u)'[x] = Settled(u)[x] /\ Completed(u)'[x] = Completed(u)[x]
BY DEF Escrowed, Gained, Settled, Completed, Settlements, Releases, Refunds,
       TradesSoldBy, TradesOf, Exists, Party

BooksMatch == EscrowMatchesTrail /\ BalanceMatchesTrail /\ CountersMatchTrail

\* If the books move with one trade they go on matching.
LEMMA BooksFollow ==
    ASSUME TypeOK, TypeOK', BooksMatch, NEW t \in Trade, OthersKept(t), BooksMove(t)
    PROVE  BooksMatch'
<1>1. IsFiniteSet(Trade)
  BY P2PAssumption
<1> SUFFICES ASSUME NEW u \in User
             PROVE  /\ locked'[u] = SumFunctionOnSet(Escrowed(u)', Trade)
                    /\ balance'[u] = InitialBalance + SumFunctionOnSet(Gained(u)', Trade)
                    /\ p2pTradesTotal'[u] = SumFunctionOnSet(Settled(u)', Trade)
                    /\ completedTrades'[u] = SumFunctionOnSet(Completed(u)', Trade)
  BY DEF BooksMatch, EscrowMatchesTrail, BalanceMatchesTrail, CountersMatchTrail
<1>2. \A x \in Trade :
        /\ Escrowed(u)[x] \in Int /\ Gained(u)[x] \in Int
        /\ Settled(u)[x] \in Int /\ Completed(u)[x] \in Int
  BY PartsInt DEF PartsAreInt
<1>3. \A x \in Trade :
        /\ Escrowed(u)'[x] \in Int /\ Gained(u)'[x] \in Int
        /\ Settled(u)'[x] \in Int /\ Completed(u)'[x] \in Int
  <2>1. PartsAreInt'
    BY PartsInt, PTL
  <2> QED
    BY <2>1 DEF PartsAreInt
<1>4. \A x \in Trade : x # t =>
        /\ Escrowed(u)'[x] = Escrowed(u)[x] /\ Gained(u)'[x] = Gained(u)[x]
        /\ Settled(u)'[x] = Settled(u)[x] /\ Completed(u)'[x] = Completed(u)[x]
  BY PartsStay DEF OthersKept
<1>5. SumFunctionOnSet(Escrowed(u)', Trade)
        = SumFunctionOnSet(Escrowed(u), Trade) + Escrowed(u)'[t] - Escrowed(u)[t]
  BY <1>1, <1>2, <1>3, <1>4, SumPoint
<1>6. SumFunctionOnSet(Gained(u)', Trade)
        = SumFunctionOnSet(Gained(u), Trade) + Gained(u)'[t] - Gained(u)[t]
  BY <1>1, <1>2, <1>3, <1>4, SumPoint
<1>7. SumFunctionOnSet(Settled(u)', Trade)
        = SumFunctionOnSet(Settled(u), Trade) + Settled(u)'[t] - Settled(u)[t]
  BY <1>1, <1>2, <1>3, <1>4, SumPoint
<1>8. SumFunctionOnSet(Completed(u)', Trade)
        = SumFunctionOnSet(Completed(u), Trade) + Completed(u)'[t] - Completed(u)[t]
  BY <1>1, <1>2, <1>3, <1>4, SumPoint
<1>9. /\ SumFunctionOnSet(Escrowed(u), Trade) \in Int
      /\ SumFunctionOnSet(Gained(u), Trade) \in Int
      /\ SumFunctionOnSet(Settled(u), Trade) \in Int
      /\ SumFunctionOnSet(Completed(u), Trade) \in Int
  BY <1>1, <1>2, SumInt
<1>10. /\ locked[u] = SumFunctionOnSet(Escrowed(u), Trade)
       /\ balance[u] = InitialBalance + SumFunctionOnSet(Gained(u), Trade)
       /\ p2pTradesTotal[u] = SumFunctionOnSet(Settled(u), Trade)
       /\ completedTrades[u] = SumFunctionOnSet(Completed(u), Trade)
  BY DEF BooksMatch, EscrowMatchesTrail, BalanceMatchesTrail, CountersMatchTrail
<1> QED
  BY <1>2, <1>3, <1>5, <1>6, <1>7, <1>8, <1>9, <1>10, P2PAssumption DEF BooksMove

\* One more settlement, in the products of the sums.
LEMMA OneMore ==
    ASSUME NEW a \in Int, NEW n \in Int
    PROVE  /\ a * (1 - (n + 1)) = a * (1 - n) - a
           /\ a * ((n + 1) - 1) = a * (n - 1) + a
           /\ a * (n + 1) = a * n + a
OBVIOUS

\* A new row of the trail counts for its trade only.
LEMMA TrailMove ==
    ASSUME TypeOK, NEW t \in Trade, NEW a \in Activity, AppendActivity(t, a)
    PROVE  /\ Releases(t)' = IF a \in {"RELEASED", "DISPUTE_RESOLVED_BUYER"}
                             THEN Releases(t) + 1 ELSE Releases(t)
           /\ Refunds(t)' = IF a \in {"CANCELLED", "AUTO_EXPIRED",
                                      "DISPUTE_RESOLVED_SELLER"}
                            THEN Refunds(t) + 1 ELSE Refunds(t)
           /\ \A x \in Trade \ {t} : activity'[x] = activity[x]
<1>1. activity[t] \in [Activity -> Nat]
  BY DEF TypeOK
<1>2. /\ activity[t]["RELEASED"] \in Nat
      /\ activity[t]["DISPUTE_RESOLVED_BUYER"] \in Nat
      /\ activity[t]["CANCELLED"] \in Nat
      /\ activity[t]["AUTO_EXPIRED"] \in Nat
      /\ activity[t]["DISPUTE_RESOLVED_SELLER"] \in Nat
  BY <1>1 DEF Activity
<1>3. \A b \in Activity :
        activity'[t][b] = IF b = a THEN activity[t][b] + 1 ELSE activity[t][b]
  BY DEF AppendActivity, TypeOK
<1>4. \A x \in Trade \ {t} : activity'[x] = activity[x]
  BY DEF AppendActivity, TypeOK
<1> QED
  BY <1>2, <1>3, <1>4 DEF Releases, Refunds, Activity

\* Only the status of the row changes.
LEMMA StatusMove ==
    ASSUME TypeOK, NEW t \in Trade, Exists(t), NEW s, s # "NONE", SetStatus(t, s)
    PROVE  /\ \A x \in Trade \ {t} : trade'[x] = trade[x]
           /\ trade'[t] = [trade[t] EXCEPT !.status = s]
           /\ Exists(t)'
           /\ trade'[t].sellerId = trade[t].sellerId
           /\ trade'[t].buyerId = trade[t].buyerId
           /\ trade'[t].cryptoAmount = trade[t].cryptoAmount
           /\ trade'[t].offerId = trade[t].offerId
<1>1. trade[t] \in TradeRow
  BY RowType
<1>2. /\ \A x \in Trade \ {t} : trade'[x] = trade[x]
      /\ trade'[t] = [trade[t] EXCEPT !.status = s]
  BY DEF SetStatus, TypeOK
<1> QED
  BY <1>1, <1>2 DEF TradeRow, Exists

\* A release moves the books of its seller and its buyer, once each.
LEMMA ReleaseBooks ==
    ASSUME TypeOK, TermsSound, NEW t \in Trade, Exists(t),
           NEW a \in {"RELEASED", "DISPUTE_RESOLVED_BUYER"}, Release(t, a)
    PROVE  OthersKept(t) /\ BooksMove(t)
<1> DEFINE seller == trade[t].sellerId
           buyer == trade[t].buyerId
           amount == trade[t].cryptoAmount
<1>1. trade[t] \in TradeRow
  BY RowType
<1>2. seller \in User /\ buyer \in User /\ amount \in Nat /\ buyer # seller
  BY <1>1, P2PAssumption DEF TradeRow, TermsSound
<1>3. /\ Releases(t)' = Releases(t) + 1 /\ Refunds(t)' = Refunds(t)
      /\ \A x \in Trade \ {t} : activity'[x] = activity[x]
  <2>1. a \in Activity /\ AppendActivity(t, a)
    BY DEF Activity, Release
  <2> QED
    BY <2>1, TrailMove
<1>4. /\ \A x \in Trade \ {t} : trade'[x] = trade[x]
      /\ Exists(t)' /\ trade'[t].sellerId = seller
      /\ trade'[t].buyerId = buyer /\ trade'[t].cryptoAmount = amount
  <2>1. SetStatus(t, "RELEASED") /\ "RELEASED" # "NONE"
    BY DEF Release
  <2> HIDE DEF seller, buyer, amount
  <2> QED
    BY <2>1, StatusMove DEF seller, buyer, amount
<1>5. Releases(t) \in Nat /\ Refunds(t) \in Nat
  BY TrailNat
<1>6. ASSUME NEW u \in User
      PROVE  /\ locked'[u] = locked[u] - (IF u = seller THEN amount ELSE 0)
             /\ balance'[u] = balance[u] + (IF u = buyer THEN amount ELSE 0)
             /\ p2pTradesTotal'[u] = p2pTradesTotal[u]
                                     + (IF u \in {seller, buyer} THEN 1 ELSE 0)
             /\ completedTrades'[u] = completedTrades[u]
                                      + (IF u \in {seller, buyer} THEN 1 ELSE 0)
  BY <1>2 DEF Release, ReleaseLockedToBuyer, CountTerminal, CountCompleted, TypeOK
<1> HIDE DEF seller, buyer, amount
<1>7. ASSUME NEW u \in User
      PROVE  /\ Escrowed(u)'[t] = Escrowed(u)[t] - (IF u = seller THEN amount ELSE 0)
             /\ Gained(u)'[t] = Gained(u)[t] + (IF u = buyer THEN amount ELSE 0)
             /\ Settled(u)'[t] = Settled(u)[t] + (IF u \in {seller, buyer} THEN 1 ELSE 0)
             /\ Completed(u)'[t] = Completed(u)[t]
                                   + (IF u \in {seller, buyer} THEN 1 ELSE 0)
  <2> DEFINE f == Releases(t)
             r == Refunds(t)
             n == f + r
  <2>1. /\ Escrowed(u)[t] = IF u = seller THEN amount * (1 - n) ELSE 0
        /\ Gained(u)[t] = IF u = seller THEN amount * (r - 1)
                          ELSE IF u = buyer THEN amount * f ELSE 0
        /\ Settled(u)[t] = IF u \in {seller, buyer} THEN n ELSE 0
        /\ Completed(u)[t] = IF u \in {seller, buyer} THEN f ELSE 0
    BY DEF Escrowed, Gained, Settled, Completed, Settlements, TradesSoldBy,
           TradesOf, Party, seller, buyer, amount
  <2>2. /\ Escrowed(u)'[t] = IF u = seller THEN amount * (1 - n') ELSE 0
        /\ Gained(u)'[t] = IF u = seller THEN amount * (r' - 1)
                           ELSE IF u = buyer THEN amount * f' ELSE 0
        /\ Settled(u)'[t] = IF u \in {seller, buyer} THEN n' ELSE 0
        /\ Completed(u)'[t] = IF u \in {seller, buyer} THEN f' ELSE 0
    BY <1>4 DEF Escrowed, Gained, Settled, Completed, Settlements, TradesSoldBy,
                TradesOf, Party
  <2>3. /\ f \in Int /\ r \in Int /\ n \in Int /\ amount \in Int
        /\ f' = f + 1 /\ r' = r /\ n' = n + 1
    BY <1>2, <1>3, <1>5
  <2> HIDE DEF f, r, n
  <2>4. /\ amount * (1 - n') = amount * (1 - n) - amount
        /\ amount * (r' - 1) = amount * (r - 1)
        /\ amount * f' = amount * f + amount
    BY <2>3, OneMore
  <2>5. /\ amount * (1 - n) \in Int /\ amount * (r - 1) \in Int
        /\ amount * f \in Int
    BY <2>3
  <2> QED
    BY <1>2, <2>1, <2>2, <2>3, <2>4, <2>5
<1>8. BooksMove(t)
  <2> SUFFICES ASSUME NEW u \in User
               PROVE  /\ locked'[u] = locked[u] + Escrowed(u)'[t] - Escrowed(u)[t]
                      /\ balance'[u] = balance[u] + Gained(u)'[t] - Gained(u)[t]
                      /\ p2pTradesTotal'[u]
                           = p2pTradesTotal[u] + Settled(u)'[t] - Settled(u)[t]
                      /\ completedTrades'[u]
                           = completedTrades[u] + Completed(u)'[t] - Completed(u)[t]
    BY DEF BooksMove
  <2>1. /\ Escrowed(u)[t] \in Int /\ Gained(u)[t] \in Int
        /\ Settled(u)[t] \in Int /\ Completed(u)[t] \in Int
    BY PartsInt DEF PartsAreInt
  <2>2. /\ locked[u] \in Int /\ balance[u] \in Int
        /\ p2pTradesTotal[u] \in Int /\ completedTrades[u] \in Int
    BY DEF TypeOK
  <2> QED
    BY <1>2, <1>6, <1>7, <2>1, <2>2
<1> QED
  BY <1>3, <1>4, <1>8 DEF OthersKept

\* So does a refund, without a word on completed trades.
LEMMA RefundBooks ==
    ASSUME TypeOK, TermsSound, NEW t \in Trade, Exists(t),
           NEW a \in {"CANCELLED", "AUTO_EXPIRED", "DISPUTE_RESOLVED_SELLER"},
           Refund(t, a)
    PROVE  OthersKept(t) /\ BooksMove(t)
<1> DEFINE seller == trade[t].sellerId
           buyer == trade[t].buyerId
           amount == trade[t].cryptoAmount
<1>1. trade[t] \in TradeRow
  BY RowType
<1>2. seller \in User /\ buyer \in User /\ amount \in Nat /\ buyer # seller
  BY <1>1, P2PAssumption DEF TradeRow, TermsSound
<1>3. /\ Releases(t)' = Releases(t) /\ Refunds(t)' = Refunds(t) + 1
      /\ \A x \in Trade \ {t} : activity'[x] = activity[x]
  <2>1. a \in Activity /\ AppendActivity(t, a)
    BY DEF Activity, Refund
  <2> QED
    BY <2>1, TrailMove
<1>4. /\ \A x \in Trade \ {t} : trade'[x] = trade[x]
      /\ Exists(t)' /\ trade'[t].sellerId = seller
      /\ trade'[t].buyerId = buyer /\ trade'[t].cryptoAmount = amount
  <2>1. SetStatus(t, "CANCELLED") /\ "CANCELLED" # "NONE"
    BY DEF Refund
  <2> HIDE DEF seller, buyer, amount
  <2> QED
    BY <2>1, StatusMove DEF seller, buyer, amount
<1>5. Releases(t) \in Nat /\ Refunds(t) \in Nat
  BY TrailNat
<1>6. ASSUME NEW u \in User
      PROVE  /\ locked'[u] = locked[u] - (IF u = seller THEN amount ELSE 0)
             /\ balance'[u] = balance[u] + (IF u = seller THEN amount ELSE 0)
             /\ p2pTradesTotal'[u] = p2pTradesTotal[u]
                                     + (IF u \in {seller, buyer} THEN 1 ELSE 0)
             /\ completedTrades'[u] = completedTrades[u]
  BY <1>2 DEF Refund, RefundLockedToSeller, CountTerminal, TypeOK
<1> HIDE DEF seller, buyer, amount
<1>7. ASSUME NEW u \in User
      PROVE  /\ Escrowed(u)'[t] = Escrowed(u)[t] - (IF u = seller THEN amount ELSE 0)
             /\ Gained(u)'[t] = Gained(u)[t] + (IF u = seller THEN amount ELSE 0)
             /\ Settled(u)'[t] = Settled(u)[t] + (IF u \in {seller, buyer} THEN 1 ELSE 0)
             /\ Completed(u)'[t] = Completed(u)[t]
  <2> DEFINE f == Releases(t)
             r == Refunds(t)
             n == f + r
  <2>1. /\ Escrowed(u)[t] = IF u = seller THEN amount * (1 - n) ELSE 0
        /\ Gained(u)[t] = IF u = seller THEN amount * (r - 1)
                          ELSE IF u = buyer THEN amount * f ELSE 0
        /\ Settled(u)[t] = IF u \in {seller, buyer} THEN n ELSE 0
        /\ Completed(u)[t] = IF u \in {seller, buyer} THEN f ELSE 0
    BY DEF Escrowed, Gained, Settled, Completed, Settlements, TradesSoldBy,
           TradesOf, Party, seller, buyer, amount
  <2>2. /\ Escrowed(u)'[t] = IF u = seller THEN amount * (1 - n') ELSE 0
        /\ Gained(u)'[t] = IF u = seller THEN amount * (r' - 1)
                           ELSE IF u = buyer THEN amount * f' ELSE 0
        /\ Settled(u)'[t] = IF u \in {seller, buyer} THEN n' ELSE 0
        /\ Completed(u)'[t] = IF u \in {seller, buyer} THEN f' ELSE 0
    BY <1>4 DEF Escrowed, Gained, Settled, Completed, Settlements, TradesSoldBy,
                TradesOf, Party
  <2>3. /\ f \in Int /\ r \in Int /\ n \in Int /\ amount \in Int
        /\ f' = f /\ r' = r + 1 /\ n' = n + 1
    BY <1>2, <1>3, <1>5
  <2> HIDE DEF f, r, n
  <2>4. /\ amount * (1 - n') = amount * (1 - n) - amount
        /\ amount * (r' - 1) = amount * (r - 1) + amount
        /\ amount * f' = amount * f
    BY <2>3, OneMore
  <2>5. /\ amount * (1 - n) \in Int /\ amount * (r - 1) \in Int
        /\ amount * f \in Int
    BY <2>3
  <2> QED
    BY <1>2, <2>1, <2>2, <2>3, <2>4, <2>5
<1>8. BooksMove(t)
  <2> SUFFICES ASSUME NEW u \in User
               PROVE  /\ locked'[u] = locked[u] + Escrowed(u)'[t] - Escrowed(u)[t]
                      /\ balance'[u] = balance[u] + Gained(u)'[t] - Gained(u)[t]
                      /\ p2pTradesTotal'[u]
                           = p2pTradesTotal[u] + Settled(u)'[t] - Settled(u)[t]
                      /\ completedTrades'[u]
                           = completedTrades[u] + Completed(u)'[t] - Completed(u)[t]
    BY DEF BooksMove
  <2>1. /\ Escrowed(u)[t] \in Int /\ Gained(u)[t] \in Int
        /\ Settled(u)[t] \in Int /\ Completed(u)[t] \in Int
    BY PartsInt DEF PartsAreInt
  <2>2. /\ locked[u] \in Int /\ balance[u] \in Int
        /\ p2pTradesTotal[u] \in Int /\ completedTrades[u] \in Int
    BY DEF TypeOK
  <2> QED
    BY <1>2, <1>6, <1>7, <2>1, <2>2
<1> QED
  BY <1>3, <1>4, <1>8 DEF OthersKept

\* A step that only writes the status and a row of the trail that is no
\* settlement moves no book.
LEMMA StatusBooks ==
    ASSUME TypeOK, NEW t \in Trade, Exists(t), NEW s, s # "NONE", SetStatus(t, s),
           NEW a \in {"MARKED_PAID", "DISPUTE_OPENED"}, AppendActivity(t, a),
           UNCHANGED <<wallets, counters>>
    PROVE  OthersKept(t) /\ BooksMove(t)
<1>1. /\ Releases(t)' = Releases(t) /\ Refunds(t)' = Refunds(t)
      /\ \A x \in Trade \ {t} : activity'[x] = activity[x]
  <2>1. a \in Activity
    BY DEF Activity
  <2> QED
    BY <2>1, TrailMove
<1>2. /\ \A x \in Trade \ {t} : trade'[x] = trade[x]
      /\ Exists(t)' /\ trade'[t].sellerId = trade[t].sellerId
      /\ trade'[t].buyerId = trade[t].buyerId
      /\ trade'[t].cryptoAmount = trade[t].cryptoAmount
  BY StatusMove
<1>3. ASSUME NEW u \in User
      PROVE  /\ Escrowed(u)'[t] = Escrowed(u)[t] /\ Gained(u)'[t] = Gained(u)[t]
             /\ Settled(u)'[t] = Settled(u)[t] /\ Completed(u)'[t] = Completed(u)[t]
  BY <1>1, <1>2 DEF Escrowed, Gained, Settled, Completed, Settlements,
                    TradesSoldBy, TradesOf, Party
<1>4. BooksMove(t)
  <2> SUFFICES ASSUME NEW u \in User
               PROVE  /\ locked'[u] = locked[u] + Escrowed(u)'[t] - Escrowed(u)[t]
                      /\ balance'[u] = balance[u] + Gained(u)'[t] - Gained(u)[t]
                      /\ p2pTradesTotal'[u]
                           = p2pTradesTotal[u] + Settled(u)'[t] - Settled(u)[t]
                      /\ completedTrades'[u]
                           = completedTrades[u] + Completed(u)'[t] - Completed(u)[t]
    BY DEF BooksMove
  <2>1. /\ Escrowed(u)[t] \in Int /\ Gained(u)[t] \in Int
        /\ Settled(u)[t] \in Int /\ Completed(u)[t] \in Int
    BY PartsInt DEF PartsAreInt
  <2>2. /\ locked[u] \in Int /\ balance[u] \in Int
        /\ p2pTradesTotal[u] \in Int /\ completedTrades[u] \in Int
    BY DEF TypeOK
  <2> QED
    BY <1>3, <2>1, <2>2 DEF wallets, counters
<1> QED
  BY <1>1, <1>2, <1>4 DEF OthersKept

\* A new trade: the seller's amount goes from the balance into the escrow.
LEMMA StartBooks ==
    ASSUME IInv, NEW o \in Offer, NEW u \in User, NEW t \in Trade,
           NEW amount \in Amount, StartTrade(o, u, t, amount)
    PROVE  OthersKept(t) /\ BooksMove(t)
<1> DEFINE seller == Seller(o, u)
           buyer == Buyer(o, u)
<1>1. offer[o] \in OfferRow
  BY DEF IInv, TypeOK, StartTrade, Absent
<1>2. seller \in User /\ buyer \in User /\ buyer # seller /\ amount \in Nat
  BY <1>1, P2PAssumption DEF Seller, Buyer, OfferRow, StartTrade
<1>3. ~Exists(t)
  BY DEF StartTrade, Exists, Absent
<1>4. Releases(t) = 0 /\ Refunds(t) = 0
  BY <1>3 DEF IInv, BlankUntilCreated, Releases, Refunds, Activity
<1>5. /\ Releases(t)' = 0 /\ Refunds(t)' = 0
      /\ \A x \in Trade \ {t} : activity'[x] = activity[x]
  <2>1. "TRADE_CREATED" \in Activity /\ AppendActivity(t, "TRADE_CREATED") /\ TypeOK
    BY DEF Activity, StartTrade, IInv
  <2> QED
    BY <1>4, <2>1, TrailMove
<1>6. /\ \A x \in Trade \ {t} : trade'[x] = trade[x]
      /\ Exists(t)' /\ trade'[t].sellerId = seller
      /\ trade'[t].buyerId = buyer /\ trade'[t].cryptoAmount = amount
  BY DEF StartTrade, IInv, TypeOK, Exists
<1>7. \A v \in User :
        /\ locked'[v] = locked[v] + (IF v = seller THEN amount ELSE 0)
        /\ balance'[v] = balance[v] - (IF v = seller THEN amount ELSE 0)
        /\ p2pTradesTotal'[v] = p2pTradesTotal[v]
        /\ completedTrades'[v] = completedTrades[v]
  BY <1>2 DEF StartTrade, MoveToLocked, counters, IInv, TypeOK
<1> HIDE DEF seller, buyer
<1>8. \A v \in User : /\ Escrowed(v)[t] = 0 /\ Gained(v)[t] = 0
                       /\ Settled(v)[t] = 0 /\ Completed(v)[t] = 0
  BY <1>3 DEF Escrowed, Gained, Settled, Completed, TradesSoldBy, TradesOf
<1>9. \A v \in User :
        /\ Escrowed(v)'[t] = IF v = seller THEN amount ELSE 0
        /\ Gained(v)'[t] = IF v = seller THEN 0 - amount ELSE 0
        /\ Settled(v)'[t] = 0 /\ Completed(v)'[t] = 0
  BY <1>2, <1>5, <1>6 DEF Escrowed, Gained, Settled, Completed, Settlements,
                          TradesSoldBy, TradesOf, Party
<1>10. \A v \in User : /\ locked[v] \in Int /\ balance[v] \in Int
                        /\ p2pTradesTotal[v] \in Int /\ completedTrades[v] \in Int
  BY DEF IInv, TypeOK
<1>11. BooksMove(t)
  BY <1>2, <1>7, <1>8, <1>9, <1>10 DEF BooksMove
<1> QED
  BY <1>5, <1>6, <1>11 DEF OthersKept

BooksStay == UNCHANGED <<trade, activity, wallets, counters>>

\* Every step is one of these, or leaves all the books alone.
LEMMA BooksStep ==
    ASSUME IInv, TermsSound, [Next]_vars
    PROVE  BooksStay \/ \E t \in Trade : OthersKept(t) /\ BooksMove(t)
<1> USE DEF BooksStay
<1>1. ASSUME NEW o \in Offer, NEW u \in User, NEW t \in Trade,
             NEW amount \in Amount, StartTrade(o, u, t, amount)
      PROVE  \E x \in Trade : OthersKept(x) /\ BooksMove(x)
  BY <1>1, StartBooks
<1>2. ASSUME NEW t \in Trade, NEW u \in User, MarkPaid(t, u)
      PROVE  \E x \in Trade : OthersKept(x) /\ BooksMove(x)
  <2>1. /\ TypeOK /\ Exists(t) /\ SetStatus(t, "PAID") /\ "PAID" # "NONE"
        /\ AppendActivity(t, "MARKED_PAID") /\ UNCHANGED <<wallets, counters>>
    BY <1>2 DEF MarkPaid, IInv, Exists
  <2> QED
    BY <2>1, StatusBooks
<1>3. ASSUME NEW t \in Trade, NEW u \in User, ConfirmRelease(t, u)
      PROVE  \E x \in Trade : OthersKept(x) /\ BooksMove(x)
  <2>1. TypeOK /\ Exists(t) /\ Release(t, "RELEASED")
    BY <1>3 DEF ConfirmRelease, IInv, Exists
  <2> QED
    BY <2>1, ReleaseBooks
<1>4. ASSUME NEW t \in Trade, NEW u \in User, CancelTrade(t, u)
      PROVE  \E x \in Trade : OthersKept(x) /\ BooksMove(x)
  <2>1. TypeOK /\ Exists(t) /\ Refund(t, "CANCELLED")
    BY <1>4 DEF CancelTrade, IInv, Exists
  <2> QED
    BY <2>1, RefundBooks
<1>5. ASSUME NEW t \in Trade, AutoCancelExpired(t)
      PROVE  \E x \in Trade : OthersKept(x) /\ BooksMove(x)
  <2>1. TypeOK /\ Exists(t) /\ Refund(t, "AUTO_EXPIRED")
    BY <1>5 DEF AutoCancelExpired, IInv, Exists
  <2> QED
    BY <2>1, RefundBooks
<1>6. ASSUME NEW w \in Worker, OpenDisputeCommit(w)
      PROVE  \E x \in Trade : OthersKept(x) /\ BooksMove(x)
  <2> DEFINE t == request[w].tradeId
  <2>1. t \in Trade
    BY <1>6, RequestType DEF OpenDisputeCommit, IInv
  <2>2. /\ TypeOK /\ Exists(t) /\ SetStatus(t, "DISPUTED") /\ "DISPUTED" # "NONE"
        /\ AppendActivity(t, "DISPUTE_OPENED") /\ UNCHANGED <<wallets, counters>>
    BY <1>6 DEF OpenDisputeCommit, IInv, RequestsNameTrades
  <2> HIDE DEF t
  <2> QED
    BY <2>1, <2>2, StatusBooks
<1>7. ASSUME NEW w \in Worker, ResolveDisputeCommit(w)
      PROVE  \E x \in Trade : OthersKept(x) /\ BooksMove(x)
  <2> DEFINE t == request[w].tradeId
  <2>1. t \in Trade
    BY <1>7, RequestType DEF ResolveDisputeCommit, IInv
  <2>2. /\ TypeOK /\ Exists(t)
        /\ \/ Release(t, "DISPUTE_RESOLVED_BUYER")
           \/ Refund(t, "DISPUTE_RESOLVED_SELLER")
    BY <1>7 DEF ResolveDisputeCommit, IInv, RequestsNameTrades
  <2> HIDE DEF t
  <2> QED
    BY <2>1, <2>2, ReleaseBooks, RefundBooks
<1>8. CASE UNCHANGED vars
  BY <1>8 DEF vars, rows
<1>9. ASSUME Next PROVE BooksStay \/ \E t \in Trade : OthersKept(t) /\ BooksMove(t)
  BY <1>1, <1>2, <1>3, <1>4, <1>5, <1>6, <1>7, <1>9 DEF Next, CreateOffer,
     ListExpired, AutoCancelIgnored, OpenDisputeRead, ResolveDisputeRead,
     RequestFails, Restart, Tick, rows
<1> QED
  BY <1>8, <1>9

\* A step keeps the offers there are, and who a trade is between.
LEMMA TermsKept ==
    ASSUME IInv, TermsSound, [Next]_vars
    PROVE  /\ \A o \in Offer : offer[o] # Absent => offer'[o] = offer[o]
           /\ \A t \in Trade : Exists(t) =>
                /\ Exists(t)'
                /\ trade'[t].offerId = trade[t].offerId
                /\ trade'[t].buyerId = trade[t].buyerId
                /\ trade'[t].sellerId = trade[t].sellerId
<1>1. \A o \in Offer : offer[o] # Absent => offer'[o] = offer[o]
  <2>1. CASE \E o \in Offer, u \in User, in \in OfferInput : CreateOffer(o, u, in)
    BY <2>1 DEF CreateOffer, IInv, TypeOK
  <2>2. CASE offer' = offer
    BY <2>2
  <2> QED
    BY <2>1, <2>2 DEF Next, vars, rows, StartTrade, MarkPaid, ConfirmRelease,
       CancelTrade, ListExpired, AutoCancelExpired, AutoCancelIgnored,
       OpenDisputeRead, ResolveDisputeRead, OpenDisputeCommit,
       ResolveDisputeCommit, RequestFails, Restart, Tick
<1>2. ASSUME NEW t \in Trade, Exists(t)
      PROVE  /\ Exists(t)'
             /\ trade'[t].offerId = trade[t].offerId
             /\ trade'[t].buyerId = trade[t].buyerId
             /\ trade'[t].sellerId = trade[t].sellerId
  <2>1. CASE trade' = trade
    BY <1>2, <2>1 DEF Exists
  <2>2. ASSUME NEW x \in Trade, NEW s, s # "NONE", SetStatus(x, s)
        PROVE  /\ Exists(t)'
               /\ trade'[t].offerId = trade[t].offerId
               /\ trade'[t].buyerId = trade[t].buyerId
               /\ trade'[t].sellerId = trade[t].sellerId
    <3>1. CASE x = t
      BY <1>2, <2>2, <3>1, StatusMove DEF IInv
    <3>2. CASE x # t
      BY <1>2, <2>2, <3>2 DEF SetStatus, Exists, IInv, TypeOK
    <3> QED
      BY <3>1, <3>2
  <2>3. CASE \E o \in Offer, u \in User, x \in Trade, amount \in Amount :
               StartTrade(o, u, x, amount)
    BY <1>2, <2>3 DEF StartTrade, Exists, Absent, IInv, TypeOK
  <2>4. CASE \E x \in Trade, u \in User :
               MarkPaid(x, u) \/ ConfirmRelease(x, u) \/ CancelTrade(x, u)
    BY <2>2, <2>4 DEF MarkPaid, ConfirmRelease, CancelTrade, Release, Refund
  <2>5. CASE \E x \in Trade : AutoCancelExpired(x)
    BY <2>2, <2>5 DEF AutoCancelExpired, Refund
  <2>6. CASE \E w \in Worker : OpenDisputeCommit(w) \/ ResolveDisputeCommit(w)
    <3> PICK w \in Worker : OpenDisputeCommit(w) \/ ResolveDisputeCommit(w)
      BY <2>6
    <3>1. request[w].tradeId \in Trade
      BY RequestType DEF OpenDisputeCommit, ResolveDisputeCommit, IInv
    <3>2. \E s \in {"DISPUTED", "RELEASED", "CANCELLED"} :
             SetStatus(request[w].tradeId, s)
      BY DEF OpenDisputeCommit, ResolveDisputeCommit, Release, Refund
    <3> QED
      BY <2>2, <3>1, <3>2
  <2> QED
    BY <2>1, <2>3, <2>4, <2>5, <2>6 DEF Next, vars, rows, CreateOffer,
       ListExpired, AutoCancelIgnored, OpenDisputeRead, ResolveDisputeRead,
       RequestFails, Restart, Tick
<1> QED
  BY <1>1, <1>2

\* Only startTrade makes a trade.
LEMMA CreatedByStart ==
    ASSUME IInv, [Next]_vars, NEW t \in Trade, ~Exists(t), Exists(t)'
    PROVE  \E o \in Offer, u \in User, amount \in Amount : StartTrade(o, u, t, amount)
<1>1. trade' # trade
  BY DEF Exists
<1>2. ASSUME NEW x \in Trade, NEW s, SetStatus(x, s), Exists(x) PROVE FALSE
  BY <1>2 DEF SetStatus, Exists, IInv, TypeOK
<1>3. ASSUME NEW o \in Offer, NEW u \in User, NEW x \in Trade, NEW amount \in Amount,
             StartTrade(o, u, x, amount), x # t
      PROVE  FALSE
  BY <1>3 DEF StartTrade, Exists, IInv, TypeOK
<1>4. ASSUME NEW x \in Trade, NEW u \in User,
             MarkPaid(x, u) \/ ConfirmRelease(x, u) \/ CancelTrade(x, u)
      PROVE  FALSE
  BY <1>2, <1>4 DEF MarkPaid, ConfirmRelease, CancelTrade, Release, Refund, Exists
<1>5. ASSUME NEW x \in Trade, AutoCancelExpired(x) PROVE FALSE
  BY <1>2, <1>5 DEF AutoCancelExpired, Refund, Exists
<1>6. ASSUME NEW w \in Worker, OpenDisputeCommit(w) \/ ResolveDisputeCommit(w)
      PROVE  FALSE
  <2>1. request[w].tradeId \in Trade /\ Exists(request[w].tradeId)
    BY <1>6, RequestType DEF OpenDisputeCommit, ResolveDisputeCommit, IInv,
                             RequestsNameTrades
  <2>2. \E s \in {"DISPUTED", "RELEASED", "CANCELLED"} :
           SetStatus(request[w].tradeId, s)
    BY <1>6 DEF OpenDisputeCommit, ResolveDisputeCommit, Release, Refund
  <2> QED
    BY <1>2, <2>1, <2>2
<1> QED
  BY <1>1, <1>3, <1>4, <1>5, <1>6 DEF Next, vars, rows, CreateOffer,
     ListExpired, AutoCancelIgnored, OpenDisputeRead, ResolveDisputeRead,
     RequestFails, Restart, Tick

\* A trade keeps its terms for good.
LEMMA TermsStep ==
    ASSUME IInv, TermsSound, [Next]_vars
    PROVE  TermsSound'
<1>1. ASSUME NEW t \in Trade, Exists(t)
      PROVE  /\ trade'[t].buyerId # trade'[t].sellerId
             /\ offer'[trade'[t].offerId] # Absent
  <2>1. trade[t].offerId \in Offer
    BY <1>1, RowType DEF IInv, TradeRow
  <2> QED
    BY <1>1, <2>1, TermsKept DEF TermsSound
<1>2. ASSUME NEW t \in Trade, ~Exists(t), Exists(t)'
      PROVE  /\ trade'[t].buyerId # trade'[t].sellerId
             /\ offer'[trade'[t].offerId] # Absent
  <2>1. PICK o \in Offer, u \in User, amount \in Amount : StartTrade(o, u, t, amount)
    BY <1>2, CreatedByStart
  <2>2. offer[o] \in OfferRow
    BY <2>1 DEF StartTrade, Absent, IInv, TypeOK
  <2>3. /\ trade'[t].offerId = o
        /\ trade'[t].buyerId = Buyer(o, u) /\ trade'[t].sellerId = Seller(o, u)
    BY <2>1 DEF StartTrade, IInv, TypeOK
  <2>4. Buyer(o, u) # Seller(o, u) /\ offer' = offer /\ offer[o] # Absent
    BY <2>1, <2>2 DEF StartTrade, Buyer, Seller, OfferRow, Absent
  <2> QED
    BY <2>3, <2>4
<1> QED
  BY <1>1, <1>2 DEF TermsSound, Exists

\* At the start every sum is zero.
LEMMA InitBooks == Init => TermsSound /\ BooksMatch
<1> SUFFICES ASSUME Init PROVE TermsSound /\ BooksMatch
  OBVIOUS
<1>1. \A t \in Trade : ~Exists(t)
  BY DEF Init, Exists, Absent
<1>2. ASSUME NEW u \in User
      PROVE  /\ SumFunctionOnSet(Escrowed(u), Trade) = 0
             /\ SumFunctionOnSet(Gained(u), Trade) = 0
             /\ SumFunctionOnSet(Settled(u), Trade) = 0
             /\ SumFunctionOnSet(Completed(u), Trade) = 0
  <2>1. \A t \in Trade : /\ Escrowed(u)[t] = 0 /\ Gained(u)[t] = 0
                         /\ Settled(u)[t] = 0 /\ Completed(u)[t] = 0
    BY <1>1 DEF Escrowed, Gained, Settled, Completed, TradesSoldBy, TradesOf
  <2> QED
    BY <2>1, SumZero, P2PAssumption
<1>3. InitialBalance + 0 = InitialBalance
  BY P2PAssumption
<1> QED
  BY <1>1, <1>2, <1>3 DEF Init, TermsSound, BooksMatch, EscrowMatchesTrail,
                          BalanceMatchesTrail, CountersMatchTrail

\* The books match the audit trail in every reachable state.
THEOREM BooksInvariance == Spec => [](TermsSound /\ BooksMatch)
<1>1. ASSUME IInv, IInv', TermsSound, BooksMatch, [Next]_vars
      PROVE  TermsSound' /\ BooksMatch'
  <2>1. ASSUME BooksStay PROVE BooksMatch'
    <3>1. \A u \in User : /\ Escrowed(u)' = Escrowed(u) /\ Gained(u)' = Gained(u)
                          /\ Settled(u)' = Settled(u) /\ Completed(u)' = Completed(u)
      BY <2>1 DEF BooksStay, Escrowed, Gained, Settled, Completed, Settlements,
                  Releases, Refunds, TradesSoldBy, TradesOf, Exists, Party
    <3> QED
      BY <1>1, <2>1, <3>1 DEF BooksStay, wallets, counters, BooksMatch,
         EscrowMatchesTrail, BalanceMatchesTrail, CountersMatchTrail
  <2>2. ASSUME \E t \in Trade : OthersKept(t) /\ BooksMove(t) PROVE BooksMatch'
    <3> PICK t \in Trade : OthersKept(t) /\ BooksMove(t)
      BY <2>2
    <3>1. TypeOK /\ TypeOK'
      BY <1>1 DEF IInv
    <3> QED
      BY <1>1, <3>1, BooksFollow
  <2>3. BooksMatch'
    BY <1>1, <2>1, <2>2, BooksStep
  <2> QED
    BY <1>1, <2>3, TermsStep
<1> QED
  BY <1>1, InitBooks, Invariance, PTL DEF Spec

\* Every settlement of the audit trail moved its trade's amount out of the
\* seller's escrow exactly once, whatever raced.
THEOREM EscrowMatchesTrailHolds == Spec => []EscrowMatchesTrail
BY BooksInvariance, PTL DEF BooksMatch

\* No crypto appears or disappears: a balance is what its user came with,
\* bought and put in escrow.
THEOREM BalanceMatchesTrailHolds == Spec => []BalanceMatchesTrail
BY BooksInvariance, PTL DEF BooksMatch

\* The statistics count each settlement once for each party.
THEOREM CountersMatchTrailHolds == Spec => []CountersMatchTrail
BY BooksInvariance, PTL DEF BooksMatch

-----------------------------------------------------------------------------
(* One trade in progress per taker and offer. *)

Live(t) == trade[t].status \in ActiveStatus /\ Settlements(t) = 0

\* A trade in progress was one before the step, or was just made.
LEMMA LiveStep ==
    ASSUME IInv, [Next]_vars, NEW t \in Trade, Live(t)', Exists(t)
    PROVE  Live(t)
<1>1. CASE TradeRowsUnchanged
  BY <1>1 DEF TradeRowsUnchanged, Live, Settlements, Releases, Refunds
<1>2. CASE \E x \in Trade : TradeStep(x)
  <2> PICK x \in Trade : TradeStep(x)
    BY <1>2
  <2>1. CASE x # t
    BY <2>1 DEF TradeStep, Created, Claimed, PaidOut, Returned, Contested,
                Resolved, RowStep, Live, Settlements, Releases, Refunds
  <2>2. CASE x = t
    <3>1. Releases(t) \in Nat /\ Refunds(t) \in Nat
      BY TrailNat DEF IInv
    <3>2. CASE Claimed(t)
      <4>1. Releases(t)' = Releases(t) /\ Refunds(t)' = Refunds(t)
        BY <3>2, CountsMove DEF Claimed, Activity
      <4> QED
        BY <3>2, <4>1 DEF Claimed, Live, Settlements, ActiveStatus
    <3>3. CASE Contested(t)
      <4>1. Releases(t)' = Releases(t) /\ Refunds(t)' = Refunds(t)
        BY <3>3, CountsMove DEF Contested, Activity
      <4>2. Settlements(t) = 0
        BY <4>1 DEF Live, Settlements
      <4>3. trade[t].status \notin TerminalStatus
        BY <3>3, <4>2 DEF Contested, IInv, UndisputedSettlesOnce
      <4>4. trade[t] \in TradeRow
        BY RowType DEF IInv
      <4> QED
        BY <4>2, <4>3, <4>4 DEF Live, TradeRow
    <3>4. CASE PaidOut(t) \/ Returned(t) \/ Resolved(t)
      BY <3>4 DEF PaidOut, Returned, Resolved, RowStep, Live, ActiveStatus
    <3> QED
      BY <2>2, <3>2, <3>3, <3>4 DEF TradeStep, Created
  <2> QED
    BY <2>1, <2>2
<1> QED
  BY <1>1, <1>2, NextStep DEF StepOK

\* A taker never has two trades in progress on one offer, however the
\* requests, the sweeper and late disputes interleave.
THEOREM OneTradePerTakerHolds == Spec => []OneTradePerTaker
<1>1. Init => OneTradePerTaker
  BY DEF Init, OneTradePerTaker, Absent, ActiveStatus
<1>2. ASSUME IInv, TermsSound, OneTradePerTaker, [Next]_vars
      PROVE  OneTradePerTaker'
  <2> SUFFICES ASSUME NEW t1 \in Trade, NEW t2 \in Trade, t1 # t2,
                      Live(t1)', Live(t2)', trade'[t1].offerId = trade'[t2].offerId,
                      NEW u \in User, u # offer'[trade'[t1].offerId].userId,
                      Party(t1, u)', Party(t2, u)'
               PROVE  FALSE
    BY DEF OneTradePerTaker, Live
  <2>1. CASE Exists(t1) /\ Exists(t2)
    <3>1. Live(t1) /\ Live(t2)
      BY <1>2, <2>1, LiveStep
    <3>2. trade[t1].offerId \in Offer
      BY <1>2, <2>1, RowType DEF IInv, TradeRow
    <3> QED
      BY <1>2, <2>1, <3>1, <3>2, TermsKept DEF OneTradePerTaker, Live, Party,
                                              TermsSound
  <2>2. ASSUME NEW x \in Trade, NEW y \in Trade, ~Exists(x), x # y,
               Live(x)', Live(y)', trade'[x].offerId = trade'[y].offerId,
               u # offer'[trade'[x].offerId].userId, Party(x, u)', Party(y, u)'
        PROVE  FALSE
    <3>1. Exists(x)'
      BY <2>2 DEF Live, ActiveStatus, Exists
    <3>2. PICK o \in Offer, v \in User, amount \in Amount :
                 StartTrade(o, v, x, amount)
      BY <1>2, <2>2, <3>1, CreatedByStart
    <3>3. trade'[y] = trade[y] /\ activity'[y] = activity[y] /\ offer' = offer
      BY <1>2, <2>2, <3>2 DEF StartTrade, AppendActivity, IInv, TypeOK
    <3>4. /\ trade'[x].offerId = o
          /\ trade'[x].buyerId = Buyer(o, v) /\ trade'[x].sellerId = Seller(o, v)
      BY <1>2, <3>2 DEF StartTrade, IInv, TypeOK
    <3>5. u = v
      BY <2>2, <3>3, <3>4 DEF Party, Buyer, Seller
    <3>6. trade[y].status \in ActiveStatus /\ trade[y].offerId = o /\ Party(y, v)
      BY <2>2, <3>3, <3>4, <3>5 DEF Live, Party
    <3> QED
      BY <3>2, <3>6 DEF StartTrade, ActiveTrade
  <2> QED
    BY <2>1, <2>2
<1> QED
  BY <1>1, <1>2, BooksInvariance, Invariance, PTL DEF Spec

-----------------------------------------------------------------------------
(* The trade room.  First the session behind its calls. *)

\* What is known of a call while it is under way.
Told    == Seen \cup {NotLoaded} \cup [op : Op, version : 0..MaxMoves, ok : BOOLEAN]
Calling == [step : Underway, pair : Nat, new : Nat, about : Told]

CallsStand == call \in [Call -> {Free, Failed} \cup Calling]

UnderWay(c) == call[c].step \in Underway
Deleting    == {c \in Call : At(c, "deleted")}

\* Pairs are numbered as they are minted.
PairsMinted ==
    /\ issued \in Nat \ {0} /\ logins \in 1..MaxLogins
    /\ tokens \subseteq 1..issued /\ fresh \subseteq 1..issued /\ cut \subseteq 1..issued
    /\ store \in 1..issued
    /\ \A c \in Call : UnderWay(c) => call[c].pair \in 1..issued

\* A pair is only renewed when its access token has run out.
FoundExpired == \A c \in Call : At(c, "found") => call[c].pair \notin fresh

\* The pair that a call has been given is good, and nobody else knows it,
\* until the browser stores it.
GivenPair(c, p) ==
    /\ p \in tokens /\ p # 1 /\ p # store
    /\ \A d \in Call : UnderWay(d) => call[d].pair # p
    /\ \A d \in Call \ {c} : At(d, "renewed") => call[d].new # p

GivenKept == \A c \in Call : At(c, "renewed") => GivenPair(c, call[c].new)

\* Pairs that are of no more use; every renewal has used one up.
Gone == (1..issued) \ (fresh \cup tokens)

RenewalsCounted ==
    /\ (issued - logins) + Cardinality(Deleting) <= Cardinality(Gone)
    /\ Cardinality((1..issued) \ fresh) <= MaxExpiries

SInv == /\ PairsMinted /\ FoundExpired /\ GivenKept /\ RenewalsCounted
        /\ OneSessionPerLogin /\ StoredPairLives

(* There are finitely many calls.                                          *)
LEMMA CallsFinite == IsFiniteSet(Call)
  <1>1. Call \subseteq (Round \cup {0}) \X {"click", "trade", "others"}
    BY TradeRoomAssumption DEF AllCalls, CallsOf, Click
  <1>2. IsFiniteSet(Round \cup {0}) /\ IsFiniteSet({"click", "trade", "others"})
    <2>1. IsFiniteSet({"click"}) /\ IsFiniteSet({"trade"}) /\ IsFiniteSet({"others"}) /\ IsFiniteSet({0})
      BY FS_Singleton
    <2>2. IsFiniteSet({"click"} \cup {"trade"})
      BY <2>1, FS_Union
    <2>3. IsFiniteSet(({"click"} \cup {"trade"}) \cup {"others"})
      BY <2>1, <2>2, FS_Union
    <2>4. ({"click"} \cup {"trade"}) \cup {"others"} = {"click", "trade", "others"}
      OBVIOUS
    <2>5. QED
      BY <2>1, <2>3, <2>4, FS_Union, TradeRoomAssumption
  <1>3. QED
    BY <1>1, <1>2, FS_Product, FS_Subset

(* The sets that are counted are finite.                                   *)
LEMMA SessionSetsFinite ==
  ASSUME PairsMinted
  PROVE  /\ IsFiniteSet(Deleting) /\ IsFiniteSet(tokens) /\ IsFiniteSet(Gone)
         /\ IsFiniteSet((1..issued) \ fresh)
  <1>1. IsFiniteSet(1..issued)
    <2>1. 1 \in Int /\ issued \in Int
      BY DEF PairsMinted
    <2>2. QED
      BY <2>1, FS_Interval
  <1>2. Deleting \subseteq Call /\ tokens \subseteq 1..issued /\ Gone \subseteq 1..issued
        /\ (1..issued) \ fresh \subseteq 1..issued
    BY DEF Deleting, PairsMinted, Gone
  <1>3. QED
    BY <1>1, <1>2, CallsFinite, FS_Subset

\* A call does not take part in a renewal, and knows what it knew, or the
\* pair that is stored, or forgets it.
CallQuiet(c) ==
    \/ call'[c] = call[c]
    \/ /\ call[c].step \notin {"deleted", "renewed"}
       /\ call'[c].step \notin {"deleted", "renewed"}
       /\ call'[c].step \in Underway =>
            \/ call'[c].pair \in {1, store}
            \/ UnderWay(c) /\ call'[c].pair = call[c].pair
       /\ call'[c].step = "found" => call'[c].pair \notin fresh

SessionQuiet ==
    /\ UNCHANGED <<tokens, fresh, issued, logins, store, cut>>
    /\ \A c \in Call : CallQuiet(c)

(* Calls that take no part in a renewal keep the session's invariant.      *)
LEMMA QuietKeepsSession ==
  ASSUME SInv, SessionQuiet
  PROVE  SInv'
  <1> USE DEF SInv, SessionQuiet
  <1>1. \A c \in Call : /\ At(c, "deleted")' <=> At(c, "deleted")
                        /\ At(c, "renewed")' <=> At(c, "renewed")
                        /\ call[c].step \in {"deleted", "renewed"} => call'[c] = call[c]
    BY DEF CallQuiet, At
  <1>2. Deleting' = Deleting
    BY <1>1 DEF Deleting
  <1>3. PairsMinted'
    <2>1. \A c \in Call : call'[c].step \in Underway => call'[c].pair \in 1..issued
      BY DEF CallQuiet, PairsMinted, UnderWay
    <2>2. QED
      BY <2>1 DEF PairsMinted, UnderWay
  <1>4. FoundExpired'
    BY DEF FoundExpired, CallQuiet, At
  <1>5. GivenKept'
    <2> SUFFICES ASSUME NEW c \in Call, At(c, "renewed")'
                 PROVE  GivenPair(c, call[c].new)'
      BY DEF GivenKept
    <2>1. call'[c] = call[c] /\ GivenPair(c, call[c].new)
      BY <1>1 DEF GivenKept, At
    <2>2. ASSUME NEW d \in Call, call'[d].step \in Underway
          PROVE  call'[d].pair # call[c].new
      BY <2>1, <2>2 DEF CallQuiet, GivenPair, UnderWay
    <2>3. ASSUME NEW d \in Call \ {c}, At(d, "renewed")'
          PROVE  call'[d].new # call[c].new
      BY <1>1, <2>1, <2>3 DEF GivenPair, At
    <2>4. QED
      BY <2>1, <2>2, <2>3 DEF GivenPair, UnderWay, At
  <1>6. RenewalsCounted' /\ OneSessionPerLogin'
    BY <1>2 DEF RenewalsCounted, OneSessionPerLogin, Gone, Deleting
  <1>7. StoredPairLives'
    BY <1>1 DEF StoredPairLives
  <1>8. QED
    BY <1>3, <1>4, <1>5, <1>6, <1>7

(* The user logs in again.                                                 *)
LEMMA LoginKeepsSession ==
  ASSUME SInv, Login
  PROVE  SInv'
  <1> USE DEF SInv
  <1>1. /\ logins < MaxLogins /\ logins' = logins + 1 /\ issued' = issued + 1
        /\ tokens' = tokens \cup {issued + 1} /\ fresh' = fresh \cup {issued + 1}
        /\ store' = issued + 1 /\ UNCHANGED <<call, cut>>
    BY DEF Login
  <1>2. issued + 1 \notin tokens /\ issued + 1 \notin fresh /\ 1..issued \subseteq 1..(issued + 1)
    BY DEF PairsMinted
  <1>3. \A c \in Call : At(c, "renewed") => call[c].new \in 1..issued
    BY DEF GivenKept, GivenPair, PairsMinted
  <1>4. PairsMinted'
    <2>1. /\ issued \in Nat \ {0} /\ logins \in 1..MaxLogins /\ tokens \subseteq 1..issued
          /\ fresh \subseteq 1..issued /\ cut \subseteq 1..issued
          /\ \A c \in Call : call[c].step \in Underway => call[c].pair \in 1..issued
      BY DEF PairsMinted, UnderWay
    <2>2. 1..issued \subseteq 1..issued' /\ issued + 1 \in 1..issued' /\ issued' \in Nat \ {0}
      BY <1>1, <2>1
    <2>3. logins' \in 1..MaxLogins
      BY <1>1, <2>1, SessionAssumption
    <2>4. /\ tokens' \subseteq 1..issued' /\ fresh' \subseteq 1..issued'
          /\ cut' \subseteq 1..issued' /\ store' \in 1..issued'
      BY <1>1, <2>1, <2>2
    <2>5. \A c \in Call : call'[c].step \in Underway => call'[c].pair \in 1..issued'
      BY <1>1, <2>1, <2>2
    <2>6. QED
      BY <2>2, <2>3, <2>4, <2>5 DEF PairsMinted, UnderWay
  <1>5. FoundExpired'
    BY <1>1 DEF FoundExpired, PairsMinted, At, UnderWay, Underway
  <1>6. GivenKept'
    BY <1>1, <1>3 DEF GivenKept, GivenPair, At, UnderWay, PairsMinted
  <1>7. Gone' = Gone /\ (1..issued') \ fresh' = (1..issued) \ fresh /\ Deleting' = Deleting
    BY <1>1 DEF Gone, Deleting, At, PairsMinted
  <1>8. RenewalsCounted'
    <2>1. Cardinality(Gone) \in Nat /\ Cardinality(Deleting) \in Nat
      BY SessionSetsFinite, FS_CardinalityType
    <2>2. issued' - logins' = issued - logins
      BY <1>1 DEF PairsMinted
    <2>3. QED
      BY <1>7, <2>1, <2>2 DEF RenewalsCounted
  <1>9. OneSessionPerLogin'
    <2>1. Cardinality(tokens') = Cardinality(tokens) + 1
      BY <1>1, <1>2, SessionSetsFinite, FS_AddElement
    <2>2. Cardinality(tokens) \in Nat /\ Cardinality(Deleting) \in Nat
      BY SessionSetsFinite, FS_CardinalityType
    <2>3. QED
      BY <1>1, <1>7, <2>1, <2>2 DEF OneSessionPerLogin, Deleting, PairsMinted
  <1>10. StoredPairLives'
    BY <1>1 DEF StoredPairLives
  <1>11. QED
    BY <1>4, <1>5, <1>6, <1>8, <1>9, <1>10

(* An access token runs out.                                               *)
LEMMA ExpiryKeepsSession ==
  ASSUME SInv, NEW p, AccessExpires(p)
  PROVE  SInv'
  <1> USE DEF SInv
  <1>1. /\ p \in fresh /\ fresh' = fresh \ {p}
        /\ Cardinality((1..issued) \ fresh) < MaxExpiries
        /\ UNCHANGED <<tokens, issued, logins, store, call, cut>>
    BY DEF AccessExpires
  <1>2. PairsMinted' /\ FoundExpired' /\ GivenKept' /\ OneSessionPerLogin' /\ StoredPairLives'
    BY <1>1 DEF PairsMinted, FoundExpired, GivenKept, GivenPair, OneSessionPerLogin,
       StoredPairLives, At, UnderWay
  <1>3. Gone \subseteq Gone' /\ Deleting' = Deleting
    BY <1>1 DEF Gone, Deleting, At
  <1>4. IsFiniteSet(Gone)' /\ IsFiniteSet((1..issued) \ fresh)
    BY <1>2, SessionSetsFinite, PTL
  <1>5. Cardinality(Gone) <= Cardinality(Gone')
    BY <1>3, <1>4, FS_Subset
  <1>6. (1..issued') \ fresh' = ((1..issued) \ fresh) \cup {p} /\ p \notin (1..issued) \ fresh
    BY <1>1 DEF PairsMinted
  <1>7. Cardinality((1..issued') \ fresh') = Cardinality((1..issued) \ fresh) + 1
    BY <1>4, <1>6, FS_AddElement
  <1>8. RenewalsCounted'
    <2>1. /\ Cardinality(Gone) \in Nat /\ Cardinality(Gone') \in Nat
          /\ Cardinality(Deleting) \in Nat /\ Cardinality((1..issued) \ fresh) \in Nat
      BY <1>4, SessionSetsFinite, FS_CardinalityType
    <2>2. issued - logins \in Int /\ issued' - logins' = issued - logins
      BY <1>1 DEF PairsMinted
    <2>3. QED
      BY <1>1, <1>3, <1>5, <1>7, <2>1, <2>2, SessionAssumption DEF RenewalsCounted
  <1>9. QED
    BY <1>2, <1>8

-----------------------------------------------------------------------------
(* The steps of a renewal. *)

\* Call c takes a step of its own.
OnlyCall(c) == \A d \in Call \ {c} : call'[d] = call[d]

(* What a call that goes on keeps.                                         *)
LEMMA CallGoesOn ==
  ASSUME CallsStand, NEW c \in Call, UnderWay(c), NEW step \in Underway, Goes(c, step)
  PROVE  /\ OnlyCall(c) /\ call'[c].step = step /\ call'[c] \in Calling
         /\ call'[c].pair = call[c].pair /\ call'[c].new = call[c].new
         /\ call'[c].about = call[c].about
  <1>1. call[c] \in Calling
    BY DEF CallsStand, UnderWay, Underway, Free, Failed
  <1>2. call' = [call EXCEPT ![c] = [call[c] EXCEPT !.step = step]]
    BY DEF Goes
  <1>3. call'[c] = [call[c] EXCEPT !.step = step] /\ OnlyCall(c)
    BY <1>2 DEF CallsStand, OnlyCall
  <1>4. QED
    BY <1>1, <1>3 DEF Calling

(* What a call that fails leaves.                                          *)
LEMMA CallFailing ==
  ASSUME CallsStand, NEW c \in Call, Fails(c)
  PROVE  OnlyCall(c) /\ call'[c] = Failed /\ call'[c].step = "failed"
  BY DEF CallsStand, Fails, OnlyCall, Failed

(* A row is deleted: the call has found it, and its pair is used up.       *)
LEMMA DeleteKeepsSession ==
  ASSUME CallsStand, SInv, NEW c \in Call, DeleteRow(c), call[c].pair \in tokens
  PROVE  SInv'
  <1> USE DEF SInv
  <1> DEFINE p == call[c].pair
  <1>1. /\ At(c, "found") /\ UnderWay(c) /\ Goes(c, "deleted")
        /\ tokens' = tokens \ {p} /\ p \in tokens /\ p \in 1..issued /\ p \notin fresh
        /\ UNCHANGED <<fresh, issued, logins, store, cut>>
    BY DEF DeleteRow, At, UnderWay, Underway, PairsMinted, FoundExpired
  <1>2. /\ OnlyCall(c) /\ call'[c].step = "deleted" /\ call'[c].pair = p
    BY <1>1, CallGoesOn DEF Underway
  <1>3. PairsMinted'
    BY <1>1, <1>2 DEF PairsMinted, UnderWay, OnlyCall
  <1>4. FoundExpired'
    BY <1>1, <1>2 DEF FoundExpired, At, OnlyCall
  <1>5. GivenKept'
    <2> SUFFICES ASSUME NEW d \in Call, At(d, "renewed")' PROVE GivenPair(d, call[d].new)'
      BY DEF GivenKept
    <2>1. d # c /\ call'[d] = call[d] /\ GivenPair(d, call[d].new) /\ p # call[d].new
      BY <1>1, <1>2 DEF At, OnlyCall, GivenKept, GivenPair
    <2>2. \A e \in Call : call'[e].step \in Underway => call'[e].pair # call[d].new
      BY <1>2, <2>1 DEF GivenPair, UnderWay, OnlyCall
    <2>3. \A e \in Call \ {d} : call'[e].step = "renewed" => call'[e].new # call[d].new
      BY <1>2, <2>1 DEF GivenPair, At, OnlyCall
    <2>4. QED
      BY <1>1, <2>1, <2>2, <2>3 DEF GivenPair, UnderWay, At
  <1>6. /\ Deleting' = Deleting \cup {c} /\ c \notin Deleting
        /\ Gone' = Gone \cup {p} /\ p \notin Gone
    BY <1>1, <1>2 DEF Deleting, At, OnlyCall, Gone
  <1> HIDE DEF p
  <1>7. /\ Cardinality(Deleting') = Cardinality(Deleting) + 1
        /\ Cardinality(Gone') = Cardinality(Gone) + 1
        /\ Cardinality(tokens') = Cardinality(tokens) - 1
    BY <1>1, <1>6, SessionSetsFinite, FS_AddElement, FS_RemoveElement
  <1>8. Cardinality(Deleting) \in Nat /\ Cardinality(Gone) \in Nat /\ Cardinality(tokens) \in Nat
    BY SessionSetsFinite, FS_CardinalityType
  <1>9. RenewalsCounted'
    <2>1. issued - logins \in Int /\ issued' - logins' = issued - logins
      BY <1>1 DEF PairsMinted
    <2>2. QED
      BY <1>1, <1>7, <1>8, <2>1 DEF RenewalsCounted
  <1>10. OneSessionPerLogin'
    BY <1>1, <1>7, <1>8 DEF OneSessionPerLogin, Deleting, PairsMinted
  <1>11. StoredPairLives'
    <2>1. CASE store = p
      BY <1>1, <1>2, <2>1 DEF StoredPairLives, p
    <2>2. CASE store # p
      BY <1>1, <1>2, <2>2 DEF StoredPairLives, OnlyCall, At, p
    <2>3. QED
      BY <2>1, <2>2
  <1>12. QED
    BY <1>3, <1>4, <1>5, <1>9, <1>10, <1>11

(* The next row is created: its pair is known to the call alone.           *)
LEMMA CreateKeepsSession ==
  ASSUME CallsStand, SInv, NEW c \in Call, CreateRow(c)
  PROVE  SInv'
  <1> USE DEF SInv
  <1>1. /\ At(c, "deleted") /\ UnderWay(c) /\ c \in Deleting /\ issued' = issued + 1
        /\ tokens' = tokens \cup {issued + 1} /\ fresh' = fresh \cup {issued + 1}
        /\ UNCHANGED <<logins, store, cut>>
    BY DEF CreateRow, At, UnderWay, Underway, Deleting
  <1>2. issued + 1 \notin tokens /\ issued + 1 \notin fresh /\ issued + 1 # 1 /\ issued + 1 # store
    BY DEF PairsMinted
  <1>3. /\ OnlyCall(c) /\ call'[c].step = "renewed" /\ call'[c].pair = call[c].pair
        /\ call'[c].new = issued + 1
    <2>1. call[c] \in Calling
      BY <1>1 DEF CallsStand, UnderWay, Underway, Free, Failed
    <2>2. call' = [call EXCEPT ![c] = [[call[c] EXCEPT !.step = "renewed"] EXCEPT !.new = issued + 1]]
      BY <1>1 DEF CreateRow, CallsStand
    <2>3. call'[c] = [[call[c] EXCEPT !.step = "renewed"] EXCEPT !.new = issued + 1] /\ OnlyCall(c)
      BY <2>2 DEF CallsStand, OnlyCall
    <2>4. QED
      BY <2>1, <2>3 DEF Calling
  <1>4. PairsMinted'
    BY <1>1, <1>3 DEF PairsMinted, UnderWay, OnlyCall
  <1>5. FoundExpired'
    BY <1>1, <1>3 DEF FoundExpired, At, OnlyCall, PairsMinted, UnderWay, Underway
  <1>6. GivenKept'
    <2> SUFFICES ASSUME NEW d \in Call, At(d, "renewed")' PROVE GivenPair(d, call[d].new)'
      BY DEF GivenKept
    <2>1. \A e \in Call : call'[e].step \in Underway =>
            UnderWay(e) /\ call'[e].pair = call[e].pair /\ call[e].pair \in 1..issued
      BY <1>1, <1>3 DEF UnderWay, OnlyCall, PairsMinted
    <2>2. \A e \in Call \ {c} : call'[e].step = "renewed" => call[e].new \in 1..issued /\ call'[e].new = call[e].new
      BY <1>3 DEF OnlyCall, GivenKept, GivenPair, At, PairsMinted
    <2>3. CASE d = c
      <3>1. \A e \in Call : call'[e].step \in Underway => call'[e].pair # issued + 1
        BY <2>1 DEF PairsMinted
      <3>2. \A e \in Call \ {c} : call'[e].step = "renewed" => call'[e].new # issued + 1
        BY <2>2 DEF PairsMinted
      <3>3. QED
        BY <1>1, <1>2, <1>3, <2>3, <3>1, <3>2 DEF GivenPair, UnderWay, At
    <2>4. CASE d # c
      <3>1. call'[d] = call[d] /\ GivenPair(d, call[d].new) /\ call[d].new \in 1..issued
        BY <1>3, <2>2, <2>4 DEF OnlyCall, GivenKept, At
      <3>2. \A e \in Call : call'[e].step \in Underway => call'[e].pair # call[d].new
        BY <2>1, <3>1 DEF GivenPair
      <3>3. \A e \in Call \ {d} : call'[e].step = "renewed" => call'[e].new # call[d].new
        BY <1>3, <3>1 DEF GivenPair, OnlyCall, At, PairsMinted
      <3>4. QED
        BY <1>1, <3>1, <3>2, <3>3 DEF GivenPair, UnderWay, At
    <2>5. QED
      BY <2>3, <2>4
  <1>7. /\ Deleting' = Deleting \ {c} /\ Gone' = Gone
        /\ (1..issued') \ fresh' = (1..issued) \ fresh
    BY <1>1, <1>3 DEF Deleting, At, OnlyCall, Gone, PairsMinted
  <1>8. /\ Cardinality(Deleting') = Cardinality(Deleting) - 1
        /\ Cardinality(tokens') = Cardinality(tokens) + 1
    BY <1>1, <1>2, <1>7, SessionSetsFinite, FS_AddElement, FS_RemoveElement
  <1>9. Cardinality(Deleting) \in Nat /\ Cardinality(Gone) \in Nat /\ Cardinality(tokens) \in Nat
    BY SessionSetsFinite, FS_CardinalityType
  <1>10. RenewalsCounted'
    <2>1. issued - logins \in Int /\ issued' - logins' = (issued - logins) + 1
      BY <1>1 DEF PairsMinted
    <2>2. /\ Cardinality((1..issued') \ fresh') = Cardinality((1..issued) \ fresh)
          /\ Cardinality(Gone') = Cardinality(Gone)
      BY <1>7
    <2>3. (issued' - logins') + Cardinality(Deleting') <= Cardinality(Gone')
      BY <1>8, <1>9, <2>1, <2>2 DEF RenewalsCounted
    <2>4. QED
      BY <2>2, <2>3 DEF RenewalsCounted
  <1>11. OneSessionPerLogin'
    BY <1>1, <1>8, <1>9 DEF OneSessionPerLogin, Deleting, PairsMinted
  <1>12. StoredPairLives'
    BY <1>1, <1>3 DEF StoredPairLives, OnlyCall
  <1>13. QED
    BY <1>4, <1>5, <1>6, <1>10, <1>11, <1>12

(* The client stores the pair it was given: nobody else knows it.          *)
LEMMA StoreKeepsSession ==
  ASSUME CallsStand, SInv, NEW c \in Call, StorePair(c)
  PROVE  SInv'
  <1> USE DEF SInv
  <1> DEFINE n == call[c].new
  <1>1. /\ At(c, "renewed") /\ UnderWay(c) /\ store' = n
        /\ UNCHANGED <<tokens, fresh, issued, logins, cut>>
    BY DEF StorePair, At, UnderWay, Underway
  <1>2. GivenPair(c, n) /\ n \in tokens /\ n \in 1..issued
    BY <1>1 DEF GivenKept, GivenPair, PairsMinted
  <1>3. OnlyCall(c) /\ call'[c].step = "again" /\ call'[c].pair = n
    <2>1. call[c] \in Calling
      BY <1>1 DEF CallsStand, UnderWay, Underway, Free, Failed
    <2>2. call' = [call EXCEPT ![c] =
                     [[[call[c] EXCEPT !.step = "again"] EXCEPT !.pair = n] EXCEPT !.new = 0]]
      BY <1>1 DEF StorePair, CallsStand
    <2>3. /\ call'[c] = [[[call[c] EXCEPT !.step = "again"] EXCEPT !.pair = n] EXCEPT !.new = 0]
          /\ OnlyCall(c)
      BY <2>2 DEF CallsStand, OnlyCall
    <2>4. QED
      BY <2>1, <2>3 DEF Calling
  <1> HIDE DEF n
  <1>4. PairsMinted'
    BY <1>1, <1>2, <1>3 DEF PairsMinted, UnderWay, OnlyCall
  <1>5. FoundExpired'
    BY <1>1, <1>3 DEF FoundExpired, At, OnlyCall
  <1>6. GivenKept'
    <2> SUFFICES ASSUME NEW d \in Call, At(d, "renewed")' PROVE GivenPair(d, call[d].new)'
      BY DEF GivenKept
    <2>1. d # c /\ call'[d] = call[d] /\ GivenPair(d, call[d].new) /\ call[d].new # n
      BY <1>2, <1>3 DEF At, OnlyCall, GivenKept, GivenPair
    <2>2. \A e \in Call : call'[e].step \in Underway => call'[e].pair # call[d].new
      BY <1>3, <2>1 DEF GivenPair, UnderWay, OnlyCall
    <2>3. \A e \in Call \ {d} : call'[e].step = "renewed" => call'[e].new # call[d].new
      BY <1>3, <2>1 DEF GivenPair, At, OnlyCall
    <2>4. QED
      BY <1>1, <2>1, <2>2, <2>3 DEF GivenPair, UnderWay, At
  <1>7. Deleting' = Deleting /\ Gone' = Gone
    BY <1>1, <1>3 DEF Deleting, At, OnlyCall, Gone
  <1>8. RenewalsCounted' /\ OneSessionPerLogin'
    BY <1>1, <1>7 DEF RenewalsCounted, OneSessionPerLogin, Deleting
  <1>9. StoredPairLives'
    BY <1>1, <1>2 DEF StoredPairLives
  <1>10. QED
    BY <1>4, <1>5, <1>6, <1>8, <1>9

(* A renewal that is cut short is remembered as such.                      *)
LEMMA CutKeepsSession ==
  ASSUME CallsStand, SInv, NEW c \in Call, Loses(c), call[c].step \in {"deleted", "renewed"}
  PROVE  SInv'
  <1> USE DEF SInv
  <1>1. /\ UnderWay(c) /\ cut' = cut \cup {call[c].pair} /\ call[c].pair \in 1..issued
        /\ UNCHANGED <<tokens, fresh, issued, logins, store>>
    BY DEF Loses, At, UnderWay, PairsMinted
  <1>2. OnlyCall(c) /\ call'[c].step = "failed"
    BY CallFailing DEF Loses
  <1>3. PairsMinted'
    BY <1>1, <1>2 DEF PairsMinted, UnderWay, OnlyCall, Underway
  <1>4. FoundExpired'
    BY <1>1, <1>2 DEF FoundExpired, At, OnlyCall
  <1>5. GivenKept'
    BY <1>1, <1>2 DEF GivenKept, GivenPair, At, UnderWay, Underway, OnlyCall
  <1>6. Deleting' \subseteq Deleting /\ Gone' = Gone
    BY <1>1, <1>2 DEF Deleting, At, OnlyCall, Gone
  <1>7. Cardinality(Deleting') <= Cardinality(Deleting)
    BY <1>6, SessionSetsFinite, FS_Subset
  <1>8. /\ Cardinality(Deleting) \in Nat /\ Cardinality(Deleting') \in Nat
        /\ Cardinality(Gone) \in Nat /\ Cardinality(tokens) \in Nat
    BY <1>6, SessionSetsFinite, FS_CardinalityType, FS_Subset
  <1>9. RenewalsCounted'
    <2>1. issued - logins \in Int /\ issued' - logins' = issued - logins
      BY <1>1 DEF PairsMinted
    <2>2. (issued' - logins') + Cardinality(Deleting') <= Cardinality(Gone')
      BY <1>6, <1>7, <1>8, <2>1 DEF RenewalsCounted
    <2>3. QED
      BY <1>1, <2>2 DEF RenewalsCounted
  <1>10. OneSessionPerLogin'
    BY <1>1, <1>7, <1>8 DEF OneSessionPerLogin, Deleting, PairsMinted
  <1>11. StoredPairLives'
    BY <1>1, <1>2 DEF StoredPairLives, OnlyCall
  <1>12. QED
    BY <1>3, <1>4, <1>5, <1>9, <1>10, <1>11

\* The steps of a call before its handler runs.
Asking == {"sent", "again", "found", "deleted", "renewed"}

\* What a step of the session does to the call that takes it: it fails, or
\* asks on for what it asked.
Carries(c) ==
    /\ UnderWay(c) /\ OnlyCall(c)
    /\ call' \in [Call -> {Free, Failed} \cup Calling]
    /\ \/ call'[c] = Failed
       \/ /\ call'[c].about = call[c].about
          /\ call[c].step \in Asking /\ call'[c].step \in Asking

(* A failure carries.                                                      *)
LEMMA FailureCarries ==
  ASSUME CallsStand, NEW c \in Call, UnderWay(c), Fails(c)
  PROVE  Carries(c)
  <1>1. OnlyCall(c) /\ call'[c] = Failed
    BY CallFailing
  <1>2. call' \in [Call -> {Free, Failed} \cup Calling]
    BY DEF CallsStand, Fails
  <1>3. QED
    BY <1>1, <1>2 DEF Carries

(* A call that asks on carries.                                            *)
LEMMA GoingOnCarries ==
  ASSUME CallsStand, NEW c \in Call, call[c].step \in Asking, NEW step \in Asking, Goes(c, step)
  PROVE  Carries(c) /\ call'[c].step = step /\ call'[c].pair = call[c].pair
  <1>1. UnderWay(c) /\ step \in Underway
    BY DEF UnderWay, Asking, Underway
  <1>2. /\ OnlyCall(c) /\ call'[c].step = step /\ call'[c] \in Calling
        /\ call'[c].about = call[c].about /\ call'[c].pair = call[c].pair
    BY <1>1, CallGoesOn
  <1>3. call' = [call EXCEPT ![c] = call'[c]]
    BY DEF CallsStand, Goes
  <1>4. call' \in [Call -> {Free, Failed} \cup Calling]
    BY <1>2, <1>3 DEF CallsStand
  <1>5. QED
    BY <1>1, <1>2, <1>4 DEF Carries

(* What a call does of itself keeps the session's invariant.               *)
LEMMA ProceedingHolds ==
  ASSUME CallsStand, SInv, NEW c \in Call, Proceeds(c)
  PROVE  SInv' /\ Carries(c)
  <1>1. CASE Unauthorized(c)
    <2>1. /\ call[c].step \in Asking /\ UnderWay(c) /\ call[c].step \notin {"deleted", "renewed"}
          /\ call[c].pair \notin fresh
          /\ UNCHANGED <<tokens, fresh, issued, logins, store, cut>>
          /\ Goes(c, "found") \/ Fails(c)
      BY <1>1 DEF Unauthorized, Asking, UnderWay, Underway
    <2>2. CASE Goes(c, "found")
      <3>1. Carries(c) /\ call'[c].step = "found" /\ call'[c].pair = call[c].pair
        BY <2>1, <2>2, GoingOnCarries DEF Asking
      <3>2. \A d \in Call : CallQuiet(d)
        BY <2>1, <3>1 DEF Carries, OnlyCall, CallQuiet
      <3>3. QED
        BY <2>1, <3>1, <3>2, QuietKeepsSession DEF SessionQuiet
    <2>3. CASE Fails(c)
      <3>1. Carries(c) /\ OnlyCall(c) /\ call'[c].step = "failed"
        BY <2>1, <2>3, FailureCarries, CallFailing
      <3>2. \A d \in Call : CallQuiet(d)
        BY <2>1, <3>1 DEF OnlyCall, CallQuiet, Underway
      <3>3. QED
        BY <2>1, <3>1, <3>2, QuietKeepsSession DEF SessionQuiet
    <2>4. QED
      BY <2>1, <2>2, <2>3
  <1>2. CASE DeleteRow(c)
    <2>1. call[c].step = "found" /\ call[c].step \in Asking /\ UnderWay(c)
      BY <1>2 DEF DeleteRow, At, Asking, UnderWay, Underway
    <2>2. CASE call[c].pair \in tokens
      <3>1. Goes(c, "deleted")
        BY <1>2, <2>2 DEF DeleteRow
      <3>2. Carries(c)
        BY <2>1, <3>1, GoingOnCarries DEF Asking
      <3>3. QED
        BY <1>2, <2>2, <3>2, DeleteKeepsSession
    <2>3. CASE call[c].pair \notin tokens
      <3>1. Fails(c) /\ UNCHANGED <<tokens, fresh, issued, logins, store, cut>>
        BY <1>2, <2>3 DEF DeleteRow
      <3>2. Carries(c) /\ OnlyCall(c) /\ call'[c].step = "failed"
        BY <2>1, <3>1, FailureCarries, CallFailing
      <3>3. \A d \in Call : CallQuiet(d)
        BY <2>1, <3>2 DEF OnlyCall, CallQuiet, Underway
      <3>4. QED
        BY <3>1, <3>2, <3>3, QuietKeepsSession DEF SessionQuiet
    <2>4. QED
      BY <2>2, <2>3
  <1>3. CASE CreateRow(c)
    <2>1. call[c] \in Calling /\ call[c].step = "deleted"
      BY <1>3 DEF CreateRow, At, CallsStand, Free, Failed
    <2>2. issued + 1 \in Nat
      BY DEF SInv, PairsMinted
    <2> DEFINE next == [[call[c] EXCEPT !.step = "renewed"] EXCEPT !.new = issued + 1]
    <2>3. call' = [call EXCEPT ![c] = next]
      BY <1>3 DEF CreateRow, CallsStand
    <2>4. next \in Calling /\ next.about = call[c].about /\ next.step = "renewed"
      BY <2>1, <2>2 DEF Calling, Underway
    <2> HIDE DEF next
    <2>5. /\ call' \in [Call -> {Free, Failed} \cup Calling] /\ call'[c] = next /\ OnlyCall(c)
      BY <2>3, <2>4 DEF CallsStand, OnlyCall
    <2>6. Carries(c)
      BY <2>1, <2>4, <2>5 DEF Carries, UnderWay, Underway, Asking
    <2>7. QED
      BY <1>3, <2>6, CreateKeepsSession
  <1>4. CASE StorePair(c)
    <2>1. call[c] \in Calling /\ call[c].step = "renewed"
      BY <1>4 DEF StorePair, At, CallsStand, Free, Failed
    <2> DEFINE next == [[[call[c] EXCEPT !.step = "again"] EXCEPT !.pair = call[c].new] EXCEPT !.new = 0]
    <2>3. call' = [call EXCEPT ![c] = next]
      BY <1>4 DEF StorePair, CallsStand
    <2>4. next \in Calling /\ next.about = call[c].about /\ next.step = "again"
      BY <2>1 DEF Calling, Underway
    <2> HIDE DEF next
    <2>5. /\ call' \in [Call -> {Free, Failed} \cup Calling] /\ call'[c] = next /\ OnlyCall(c)
      BY <2>3, <2>4 DEF CallsStand, OnlyCall
    <2>6. Carries(c)
      BY <2>1, <2>4, <2>5 DEF Carries, UnderWay, Underway, Asking
    <2>7. QED
      BY <1>4, <2>6, StoreKeepsSession
  <1>5. QED
    BY <1>1, <1>2, <1>3, <1>4 DEF Proceeds

(* A call that is lost keeps the session's invariant.                      *)
LEMMA LosingHolds ==
  ASSUME CallsStand, SInv, NEW c \in Call, Loses(c)
  PROVE  SInv' /\ Carries(c)
  <1>1. Carries(c) /\ OnlyCall(c) /\ call'[c].step = "failed"
    BY FailureCarries, CallFailing DEF Loses, UnderWay
  <1>2. CASE call[c].step \in {"deleted", "renewed"}
    BY <1>1, <1>2, CutKeepsSession
  <1>3. CASE call[c].step \notin {"deleted", "renewed"}
    <2>1. UNCHANGED <<tokens, fresh, issued, logins, store, cut>>
      BY <1>3 DEF Loses, At
    <2>2. \A d \in Call : CallQuiet(d)
      BY <1>1, <1>3 DEF OnlyCall, CallQuiet, Underway
    <2>3. QED
      BY <1>1, <2>1, <2>2, QuietKeepsSession DEF SessionQuiet
  <1>4. QED
    BY <1>2, <1>3

-----------------------------------------------------------------------------
(* The page: what its calls are about, and what it has read. *)

RoundCalls == UNION {CallsOf(k) : k \in Round}

\* A dispute is for good.
TradeStands ==
    /\ roomTrade \in [status : Status, version : 0..MaxMoves, disputed : BOOLEAN]
    /\ roomTrade.disputed => roomTrade.status \in {"DISPUTED", "RELEASED", "CANCELLED"}

\* What was read is not of a later trade, and of the same trade it is right.
Fits(s, t) == s.version <= t.version /\ (s.version = t.version => s.status = t.status)

PageStands ==
    /\ role \in {"buyer", "seller"} /\ round \subseteq Round
    /\ shown \in Seen \cup {NotLoaded} /\ Fits(shown, roomTrade)

\* The calls of a round bring what the trade is or was.
RoundsStand ==
    \A k \in Round : \A c \in CallsOf(k) :
      /\ k \notin round => call[c] = Free
      /\ UnderWay(c) =>
           /\ call[c].step # "deciding"
           /\ call[c].about \in Seen \cup {NotLoaded} /\ Fits(call[c].about, roomTrade)

\* A click asks for what the handler grants, as long as the trade is the one
\* that it was offered for.
Granted(a, who, t) ==
    /\ a.op \in MayDo(who) /\ a.version <= t.version
    /\ a.version = t.version => t.status \in Accepts(a.op)

Asked == [op : Op, version : 0..MaxMoves, ok : BOOLEAN]

\* The handler has not run for a click that is still asking.
ClickStands ==
    /\ handled \in 0..1
    /\ call[Click].step \in Asking => handled = 0
    /\ UnderWay(Click) => call[Click].about \in Asked
    /\ call[Click].step \in Asking \cup {"deciding"} => Granted(call[Click].about, role, roomTrade)
    /\ call[Click].step = "deciding" => call[Click].about.op = "dispute"

RInv == CallsStand /\ TradeStands /\ PageStands /\ RoundsStand /\ ClickStands

(* A call is the click's, or of one round.                                 *)
LEMMA CallsApart ==
  /\ Click \in Call /\ \A k \in Round : CallsOf(k) \subseteq Call /\ Click \notin CallsOf(k)
  /\ \A c \in Call : c = Click \/ \E k \in Round : c \in CallsOf(k)
  /\ \A j, k \in Round : \A c \in CallsOf(j) : c \in CallsOf(k) => j = k
  BY TradeRoomAssumption DEF AllCalls, CallsOf, Click

(* What fits a trade fits the next.                                        *)
LEMMA FitsNext ==
  ASSUME TradeStands, NEW s \in Seen \cup {NotLoaded}, Fits(s, roomTrade),
         roomTrade'.version = roomTrade.version + 1
  PROVE  Fits(s, roomTrade')
  <1>1. s.version \in Int /\ roomTrade.version \in Nat
    BY TradeRoomAssumption DEF Seen, NotLoaded, TradeStands
  <1>2. QED
    BY <1>1 DEF Fits

(* The same of what a click has asked.                                     *)
LEMMA GrantedNext ==
  ASSUME TradeStands, NEW a \in Asked, Granted(a, role, roomTrade),
         roomTrade'.version = roomTrade.version + 1
  PROVE  Granted(a, role, roomTrade')
  <1>1. a.version \in Int /\ roomTrade.version \in Nat
    BY TradeRoomAssumption DEF Asked, TradeStands
  <1>2. QED
    BY <1>1 DEF Granted

(* A step of the session leaves the page and its calls in order.           *)
LEMMA CarryingKeepsRoom ==
  ASSUME RInv, NEW c \in Call, Carries(c), UNCHANGED <<roomTrade, role, shown, round, handled>>
  PROVE  RInv'
  <1> USE DEF RInv
  <1>1. CallsStand' /\ TradeStands' /\ PageStands'
    BY DEF Carries, CallsStand, TradeStands, PageStands
  <1>2. RoundsStand'
    <2> SUFFICES ASSUME NEW k \in Round, NEW d \in CallsOf(k)
                 PROVE  /\ k \notin round => call'[d] = Free
                        /\ call'[d].step \in Underway =>
                             /\ call'[d].step # "deciding"
                             /\ call'[d].about \in Seen \cup {NotLoaded}
                             /\ Fits(call'[d].about, roomTrade)
      BY DEF RoundsStand, UnderWay
    <2>1. d \in Call
      BY CallsApart
    <2>2. CASE d # c
      BY <2>1, <2>2 DEF Carries, OnlyCall, RoundsStand, UnderWay
    <2>3. CASE d = c
      <3>1. k \in round
        BY <2>3 DEF Carries, UnderWay, RoundsStand, Free, Underway
      <3>2. CASE call'[d] = Failed
        BY <3>1, <3>2 DEF Failed, Underway
      <3>3. CASE call'[c].about = call[c].about /\ call'[c].step \in Asking
        BY <2>3, <3>1, <3>3 DEF Carries, RoundsStand, Asking, Underway
      <3>4. QED
        BY <2>3, <3>2, <3>3 DEF Carries
    <2>4. QED
      BY <2>2, <2>3
  <1>3. ClickStands'
    <2>1. CASE c # Click
      <3>1. call'[Click] = call[Click]
        BY <2>1, CallsApart DEF Carries, OnlyCall
      <3>2. QED
        BY <3>1 DEF ClickStands, UnderWay
    <2>2. CASE c = Click
      <3>1. CASE call'[Click] = Failed
        BY <3>1 DEF ClickStands, UnderWay, Failed, Asking, Underway
      <3>2. CASE /\ call'[Click].about = call[Click].about
                 /\ call[Click].step \in Asking /\ call'[Click].step \in Asking
        <4>1. call'[Click].step # "deciding" /\ UnderWay(Click)
          BY <3>2 DEF Asking, UnderWay, Underway
        <4>2. QED
          BY <3>2, <4>1 DEF ClickStands, UnderWay
      <3>3. QED
        BY <2>2, <3>1, <3>2 DEF Carries
    <2>3. QED
      BY <2>1, <2>2
  <1>4. QED
    BY <1>1, <1>2, <1>3

(* What a change of the trade makes of it.                                 *)
LEMMA MovesTrade ==
  ASSUME TradeStands, NEW s \in Status, Moves(s)
  PROVE  /\ roomTrade' \in [status : Status, version : 0..MaxMoves, disputed : BOOLEAN]
         /\ roomTrade'.version = roomTrade.version + 1
         /\ roomTrade'.status = s /\ roomTrade'.disputed = roomTrade.disputed
  <1>1. roomTrade.version \in 0..MaxMoves /\ roomTrade.version < MaxMoves
    BY DEF TradeStands, Moves
  <1>2. roomTrade.version + 1 \in 0..MaxMoves
    BY <1>1, TradeRoomAssumption
  <1>3. roomTrade' = [[roomTrade EXCEPT !.status = s] EXCEPT !.version = roomTrade.version + 1]
    BY DEF TradeStands, Moves
  <1>4. QED
    BY <1>2, <1>3 DEF TradeStands

(* The trade changes, and the page does not.                               *)
LEMMA OthersKeepRoom ==
  ASSUME RInv, OthersMove
  PROVE  RInv' /\ SessionQuiet /\ call'[Click] = call[Click]
  <1> USE DEF RInv
  <1>1. /\ roomTrade' \in [status : Status, version : 0..MaxMoves, disputed : BOOLEAN]
        /\ roomTrade'.version = roomTrade.version + 1
        /\ roomTrade'.disputed => roomTrade'.status \in {"DISPUTED", "RELEASED", "CANCELLED"}
    <2>1. \A op \in MayDo(Other) \ {"dispute"} :
            Accepts(op) \subseteq {"PENDING", "PAID"} /\ Result(op) \in Status
      BY DEF MayDo, Other, Accepts, Result, Status
    <2>2. CASE \E op \in MayDo(Other) \ {"dispute"} :
                 Accepted(op) /\ Moves(Result(op))
      <3>1. PICK op \in MayDo(Other) \ {"dispute"} :
              roomTrade.status \in Accepts(op) /\ Moves(Result(op))
        BY <2>2 DEF Accepted
      <3>2. Result(op) \in Status /\ ~roomTrade.disputed
        BY <2>1, <3>1 DEF TradeStands
      <3>3. QED
        BY <3>1, <3>2, MovesTrade
    <2>3. CASE Disputes
      BY <2>3, TradeRoomAssumption DEF TradeStands, Disputes, Status
    <2>4. CASE Accepted("cancel") /\ Moves("CANCELLED")
      BY <2>4, MovesTrade DEF TradeStands, Status, Accepted, Accepts
    <2>5. CASE roomTrade.disputed /\ covered /\ \E s \in {"RELEASED", "CANCELLED"} : Moves(s)
      BY <2>5, MovesTrade DEF TradeStands, Status
    <2>6. QED
      BY <2>2, <2>3, <2>4, <2>5 DEF OthersMove
  <1>2. UNCHANGED <<tokens, fresh, issued, logins, store, cut, call, role, shown, round, handled>>
    BY DEF OthersMove, sessionVars, pageVars
  <1>3. CallsStand' /\ TradeStands'
    BY <1>1, <1>2 DEF CallsStand, TradeStands
  <1>4. PageStands'
    BY <1>1, <1>2, FitsNext DEF PageStands
  <1>5. RoundsStand'
    BY <1>1, <1>2, FitsNext DEF RoundsStand, UnderWay
  <1>6. ClickStands'
    <2>1. call[Click].step \in Asking \cup {"deciding"} => UnderWay(Click)
      BY DEF Asking, UnderWay, Underway
    <2>2. QED
      BY <1>1, <1>2, <2>1, GrantedNext DEF ClickStands, UnderWay
  <1>7. QED
    BY <1>2, <1>3, <1>4, <1>5, <1>6 DEF SessionQuiet, CallQuiet

-----------------------------------------------------------------------------
(* The steps of the page. *)

\* What becomes of the calls keeps them calls, and takes no part in a renewal.
CallsQuiet ==
    /\ call' \in [Call -> {Free, Failed} \cup Calling]
    /\ \A c \in Call : CallQuiet(c)

(* A request that is sent.                                                 *)
LEMMA SentIsRequest ==
  ASSUME SInv, NEW a \in Told
  PROVE  /\ Sent(a) \in Calling /\ Sent(a).step = "sent" /\ Sent(a).pair = store
         /\ Sent(a).about = a
  <1>1. store \in Nat
    BY DEF SInv, PairsMinted
  <1>2. QED
    BY <1>1 DEF Sent, Calling, Underway

(* An answer that a call is given.                                         *)
LEMMA AnswerIsQuiet ==
  ASSUME CallsStand, NEW c \in Call, call[c].step \in {"sent", "again", "deciding"},
         NEW a \in Told, call' = [call EXCEPT ![c] = Answered(c, a)]
  PROVE  /\ CallsQuiet /\ OnlyCall(c)
         /\ call'[c].step = "answered" /\ call'[c].about = a
  <1> DEFINE next == Answered(c, a)
  <1>1. call[c] \in Calling
    BY DEF CallsStand, Free, Failed
  <1>2. next \in Calling /\ next.step = "answered" /\ next.about = a /\ next.pair = 1
    BY <1>1 DEF Answered, Calling, Underway
  <1> HIDE DEF next
  <1>3. call'[c] = next /\ OnlyCall(c) /\ call' \in [Call -> {Free, Failed} \cup Calling]
    BY <1>2 DEF CallsStand, OnlyCall, next
  <1>4. \A d \in Call : CallQuiet(d)
    BY <1>2, <1>3 DEF CallQuiet, OnlyCall
  <1>5. QED
    BY <1>2, <1>3, <1>4 DEF CallsQuiet

(* The calls of an idle round are free, and stay so until it starts.       *)
LEMMA IdleRoundIsIdle ==
  ASSUME PageStands, NEW k \in Round, IdleRound(k)
  PROVE  k \notin round
  <1>1. \E j \in Round : j \notin round
    BY DEF PageStands, IdleRound
  <1>2. QED
    BY <1>1 DEF IdleRound

(* A round starts.                                                         *)
LEMMA StartKeepsRoom ==
  ASSUME RInv, SInv, NEW k \in Round, StartRound(k)
  PROVE  RInv' /\ SessionQuiet /\ call'[Click] = call[Click]
  <1> USE DEF RInv
  <1>1. k \notin round /\ Starts(k, call)
        /\ UNCHANGED <<tokens, fresh, issued, logins, store, cut, roomTrade, role, shown, handled>>
    BY IdleRoundIsIdle DEF StartRound, Server, market
  <1>2. round' = round \cup {k}
        /\ call' = [c \in Call |-> IF c \in CallsOf(k) THEN Sent(NotLoaded) ELSE call[c]]
    BY <1>1 DEF Starts
  <1>3. Sent(NotLoaded) \in Calling /\ Sent(NotLoaded).step = "sent"
        /\ Sent(NotLoaded).pair = store /\ Sent(NotLoaded).about = NotLoaded
    BY SentIsRequest DEF Told
  <1>4. /\ call' \in [Call -> {Free, Failed} \cup Calling]
        /\ \A c \in CallsOf(k) : call'[c] = Sent(NotLoaded) /\ call[c] = Free
        /\ \A c \in Call : c \notin CallsOf(k) => call'[c] = call[c]
    BY <1>1, <1>2, <1>3, CallsApart DEF CallsStand, RoundsStand
  <1>5. SessionQuiet
    BY <1>1, <1>3, <1>4 DEF SessionQuiet, CallQuiet, Free
  <1>6. CallsStand' /\ TradeStands' /\ PageStands'
    BY <1>1, <1>2, <1>4 DEF CallsStand, TradeStands, PageStands
  <1>7. Fits(NotLoaded, roomTrade)
    BY TradeRoomAssumption DEF TradeStands, Fits, NotLoaded
  <1>8. RoundsStand'
    <2> SUFFICES ASSUME NEW j \in Round, NEW c \in CallsOf(j)
                 PROVE  /\ j \notin round' => call'[c] = Free
                        /\ call'[c].step \in Underway =>
                             /\ call'[c].step # "deciding"
                             /\ call'[c].about \in Seen \cup {NotLoaded}
                             /\ Fits(call'[c].about, roomTrade)
      BY <1>1 DEF RoundsStand, UnderWay
    <2>1. CASE j = k
      BY <1>2, <1>3, <1>4, <1>7, <2>1
    <2>2. CASE j # k
      BY <1>2, <1>4, <2>2, CallsApart DEF RoundsStand, UnderWay
    <2>3. QED
      BY <2>1, <2>2
  <1>9. call'[Click] = call[Click]
    BY <1>4, CallsApart
  <1>10. ClickStands'
    BY <1>1, <1>9 DEF ClickStands, UnderWay
  <1>11. QED
    BY <1>5, <1>6, <1>8, <1>9, <1>10

(* The server answers a call of a round.                                   *)
LEMMA ServeKeepsRoom ==
  ASSUME RInv, SInv, NEW k \in Round, NEW c \in Call, ServeRound(k, c)
  PROVE  RInv' /\ SessionQuiet /\ call'[Click] = call[Click]
  <1> USE DEF RInv
  <1> DEFINE a == IF c = <<k, "trade">>
                  THEN [status |-> roomTrade.status, version |-> roomTrade.version] ELSE NotLoaded
  <1>1. /\ c \in CallsOf(k) /\ call[c].step \in {"sent", "again"}
        /\ call' = [call EXCEPT ![c] = Answered(c, a)]
        /\ UNCHANGED <<tokens, fresh, issued, logins, store, cut, roomTrade, role, shown, round, handled>>
    BY DEF ServeRound, Authorized, Server, market, pageVars
  <1>2. a \in Seen \cup {NotLoaded} /\ Fits(a, roomTrade)
    BY TradeRoomAssumption DEF TradeStands, Seen, Fits, NotLoaded
  <1> HIDE DEF a
  <1>3. /\ CallsQuiet /\ OnlyCall(c)
        /\ call'[c].step = "answered" /\ call'[c].about = a
    BY <1>1, <1>2, AnswerIsQuiet DEF Told
  <1>4. CallsStand' /\ TradeStands' /\ PageStands' /\ SessionQuiet
    BY <1>1, <1>3 DEF CallsStand, TradeStands, PageStands, SessionQuiet, CallsQuiet
  <1>5. RoundsStand'
    <2> SUFFICES ASSUME NEW j \in Round, NEW d \in CallsOf(j)
                 PROVE  /\ j \notin round => call'[d] = Free
                        /\ call'[d].step \in Underway =>
                             /\ call'[d].step # "deciding"
                             /\ call'[d].about \in Seen \cup {NotLoaded}
                             /\ Fits(call'[d].about, roomTrade)
      BY <1>1 DEF RoundsStand, UnderWay
    <2>1. CASE d = c
      <3>1. j \in round
        BY <1>1, <2>1, CallsApart DEF RoundsStand, Free
      <3>2. QED
        BY <1>2, <1>3, <2>1, <3>1
    <2>2. CASE d # c
      BY <1>1, <1>3, <2>2, CallsApart DEF RoundsStand, UnderWay, OnlyCall
    <2>3. QED
      BY <2>1, <2>2
  <1>6. call'[Click] = call[Click]
    BY <1>1, <1>3, CallsApart DEF OnlyCall
  <1>7. ClickStands'
    BY <1>1, <1>6 DEF ClickStands, UnderWay
  <1>8. QED
    BY <1>4, <1>5, <1>6, <1>7

(* A round is over: it has been shown, or it is dropped.                   *)
LEMMA EndKeepsRoom ==
  ASSUME RInv, NEW k \in Round, RoundEnds(k)
  PROVE  RInv' /\ SessionQuiet /\ call'[Click] = call[Click]
  <1> USE DEF RInv
  <1>1. /\ k \in round /\ round' = round \ {k} /\ call' = Ends(CallsOf(k))
        /\ \A c \in CallsOf(k) : call[c].step \in {"answered", "failed"}
        /\ UNCHANGED <<tokens, fresh, issued, logins, store, cut, roomTrade, role, handled>>
    BY DEF RoundEnds, ShowRound, DropRound, Server, market, At
  <1>2. shown' = shown \/ (shown' = call[<<k, "trade">>].about /\ UnderWay(<<k, "trade">>))
    BY DEF RoundEnds, ShowRound, DropRound, At, CallsOf, UnderWay, Underway
  <1>3. shown' \in Seen \cup {NotLoaded} /\ Fits(shown', roomTrade)
    BY <1>2 DEF PageStands, RoundsStand, CallsOf
  <1>4. /\ call' \in [Call -> {Free, Failed} \cup Calling]
        /\ \A c \in CallsOf(k) : call'[c] = Free
        /\ \A c \in Call : c \notin CallsOf(k) => call'[c] = call[c]
    BY <1>1, CallsApart DEF CallsStand, Ends
  <1>5. SessionQuiet
    BY <1>1, <1>4 DEF SessionQuiet, CallQuiet, Free, Underway
  <1>6. CallsStand' /\ TradeStands' /\ PageStands'
    BY <1>1, <1>3, <1>4 DEF CallsStand, TradeStands, PageStands
  <1>7. RoundsStand'
    <2> SUFFICES ASSUME NEW j \in Round, NEW c \in CallsOf(j)
                 PROVE  /\ j \notin round' => call'[c] = Free
                        /\ call'[c].step \in Underway =>
                             /\ call'[c].step # "deciding"
                             /\ call'[c].about \in Seen \cup {NotLoaded}
                             /\ Fits(call'[c].about, roomTrade)
      BY <1>1 DEF RoundsStand, UnderWay
    <2>1. CASE j = k
      BY <1>4, <2>1 DEF Free, Underway
    <2>2. CASE j # k
      BY <1>1, <1>4, <2>2, CallsApart DEF RoundsStand, UnderWay
    <2>3. QED
      BY <2>1, <2>2
  <1>8. call'[Click] = call[Click]
    BY <1>4, CallsApart
  <1>9. ClickStands'
    BY <1>1, <1>8 DEF ClickStands, UnderWay
  <1>10. QED
    BY <1>5, <1>6, <1>7, <1>8, <1>9

(* The rounds do not mind what becomes of the click.                       *)
LEMMA RoundsKeep ==
  ASSUME RInv, OnlyCall(Click), UNCHANGED round,
         \/ UNCHANGED roomTrade
         \/ roomTrade'.version = roomTrade.version + 1
  PROVE  RoundsStand'
  <1>1. ASSUME NEW j \in Round, NEW c \in CallsOf(j)
        PROVE  /\ call'[c] = call[c]
               /\ \A s \in Seen \cup {NotLoaded} : Fits(s, roomTrade) => Fits(s, roomTrade')
    BY CallsApart, FitsNext DEF RInv, OnlyCall
  <1>2. QED
    BY <1>1 DEF RInv, RoundsStand, UnderWay

\* A click that has just been refused was offered for an earlier trade, or
\* for an escrow that is not covered.
RefusedStale ==
    ~At(Click, "answered") /\ call'[Click].step = "answered" /\ ~call'[Click].about.ok =>
      \/ call[Click].about.version # roomTrade.version
      \/ call[Click].about.op \in TakesEscrow /\ ~covered

(* A button is pressed.                                                    *)
LEMMA PressKeepsRoom ==
  ASSUME RInv, SInv, NEW op \in Op, Press(op)
  PROVE  RInv' /\ SessionQuiet /\ RefusedStale
  <1> USE DEF RInv
  <1> DEFINE a == [op |-> op, version |-> shown.version, ok |-> FALSE]
  <1>1. /\ shown # NotLoaded /\ op \in Offered /\ call[Click] = Free
        /\ call' = [call EXCEPT ![Click] = Sent(a)] /\ handled' = 0
        /\ UNCHANGED <<tokens, fresh, issued, logins, store, cut, roomTrade, role, shown, round>>
    BY DEF Press, Server, market, pageVars
  <1>2. shown \in Seen /\ Fits(shown, roomTrade)
    BY <1>1 DEF PageStands
  <1>3. op \in MayDo(role) /\ shown.status \in Accepts(op)
    BY <1>1 DEF Offered, MayDo, Accepts, PageStands
  <1>4. a \in Asked /\ Granted(a, role, roomTrade)
    BY <1>2, <1>3 DEF Asked, Granted, Seen, Fits
  <1> HIDE DEF a
  <1>5. Sent(a) \in Calling /\ Sent(a).step = "sent" /\ Sent(a).pair = store /\ Sent(a).about = a
    BY <1>4, SentIsRequest DEF Told, Asked
  <1>6. /\ call' \in [Call -> {Free, Failed} \cup Calling]
        /\ OnlyCall(Click) /\ call'[Click] = Sent(a)
    BY <1>1, <1>5, CallsApart DEF CallsStand, OnlyCall
  <1>7. CallsStand' /\ TradeStands' /\ PageStands' /\ RoundsStand'
    BY <1>1, <1>6, RoundsKeep DEF CallsStand, TradeStands, PageStands
  <1>8. ClickStands'
    BY <1>1, <1>4, <1>5, <1>6 DEF ClickStands, UnderWay
  <1>9. SessionQuiet
    BY <1>1, <1>5, <1>6 DEF SessionQuiet, CallQuiet, OnlyCall, Free
  <1>10. QED
    BY <1>5, <1>6, <1>7, <1>8, <1>9 DEF RefusedStale

(* The click is answered, whatever became of the trade.                    *)
LEMMA AnsweringKeepsRoom ==
  ASSUME RInv, call[Click].step \in {"sent", "again", "deciding"}, NEW ok \in BOOLEAN, Answers(ok),
         handled' \in 0..1, TradeStands',
         UNCHANGED <<tokens, fresh, issued, logins, store, cut, role, shown, round>>,
         UNCHANGED roomTrade \/ roomTrade'.version = roomTrade.version + 1
  PROVE  RInv' /\ SessionQuiet /\ call'[Click].about.ok = ok
  <1> USE DEF RInv
  <1> DEFINE a == [call[Click].about EXCEPT !.ok = ok]
  <1>1. UnderWay(Click) /\ call[Click].about \in Asked /\ Click \in Call
    BY CallsApart DEF ClickStands, UnderWay, Underway
  <1>2. a \in Asked /\ a.ok = ok
    BY <1>1 DEF Asked
  <1>3. call' = [call EXCEPT ![Click] = Answered(Click, a)]
    BY <1>1 DEF Answers, CallsStand
  <1> HIDE DEF a
  <1>4. /\ CallsQuiet /\ OnlyCall(Click)
        /\ call'[Click].step = "answered" /\ call'[Click].about = a
    BY <1>1, <1>2, <1>3, AnswerIsQuiet DEF Told, Asked
  <1>5. CallsStand' /\ SessionQuiet
    BY <1>4 DEF CallsStand, SessionQuiet, CallsQuiet
  <1>6. PageStands'
    BY FitsNext DEF PageStands
  <1>7. RoundsStand'
    BY <1>4, RoundsKeep
  <1>8. ClickStands'
    BY <1>2, <1>4 DEF ClickStands, UnderWay, Asking
  <1>9. QED
    BY <1>2, <1>4, <1>5, <1>6, <1>7, <1>8

(* The handler of the click.                                               *)
LEMMA HandlingKeepsRoom ==
  ASSUME RInv, SInv, ServeClick
  PROVE  RInv' /\ SessionQuiet /\ RefusedStale
  <1> USE DEF RInv
  <1> DEFINE op == call[Click].about.op
  <1>1. /\ call[Click].step \in {"sent", "again"} /\ UnderWay(Click) /\ Click \in Call
        /\ handled = 0 /\ handled' = 1
        /\ UNCHANGED <<tokens, fresh, issued, logins, store, cut, role, shown, round>>
    BY CallsApart DEF ServeClick, Authorized, UnderWay, Underway, ClickStands, Asking, Server, market,
       pageVars
  <1>2. call[Click].about \in Asked /\ Granted(call[Click].about, role, roomTrade) /\ op \in Op
        /\ call[Click].step \in {"sent", "again", "deciding"} /\ handled' \in 0..1
    BY <1>1 DEF ClickStands, Asking, Asked
  <1>3. CASE /\ ~(op \in MayDo(role) /\ Accepted(op))
             /\ Answers(FALSE) /\ UNCHANGED roomTrade
    <2>1. RInv' /\ SessionQuiet
      <3>1. TradeStands'
        BY <1>3 DEF TradeStands
      <3>2. QED
        BY <1>1, <1>2, <1>3, <3>1, AnsweringKeepsRoom
    <2>2. \/ call[Click].about.version # roomTrade.version
          \/ op \in TakesEscrow /\ ~covered
      BY <1>2, <1>3 DEF Granted, Accepted
    <2>3. QED
      BY <2>1, <2>2 DEF RefusedStale
  <1>4. CASE /\ op \in MayDo(role) /\ Accepted(op) /\ op = "dispute"
             /\ Goes(Click, "deciding") /\ UNCHANGED roomTrade
    <2>1. /\ OnlyCall(Click) /\ call'[Click].step = "deciding" /\ call'[Click] \in Calling
          /\ call'[Click].pair = call[Click].pair /\ call'[Click].about = call[Click].about
      BY <1>1, <1>4, CallGoesOn DEF Underway
    <2>2. call' = [call EXCEPT ![Click] = call'[Click]]
      BY <1>4 DEF CallsStand, Goes
    <2>3. CallsStand'
      BY <1>1, <2>1, <2>2 DEF CallsStand
    <2>4. TradeStands' /\ PageStands' /\ RoundsStand'
      BY <1>1, <1>4, <2>1, RoundsKeep DEF TradeStands, PageStands
    <2>5. ClickStands'
      BY <1>1, <1>2, <1>4, <2>1 DEF ClickStands, UnderWay, Asking
    <2>6. SessionQuiet
      BY <1>1, <2>1 DEF SessionQuiet, CallQuiet, OnlyCall
    <2>7. QED
      BY <2>1, <2>3, <2>4, <2>5, <2>6 DEF RefusedStale
  <1>5. CASE /\ op \in MayDo(role) /\ Accepted(op) /\ op # "dispute"
             /\ Answers(TRUE) /\ Moves(Result(op))
    <2>1. Result(op) \in Status /\ ~roomTrade.disputed
      BY <1>2, <1>5 DEF Op, Result, Status, TradeStands, Accepts, Accepted
    <2>2. TradeStands' /\ roomTrade'.version = roomTrade.version + 1
      BY <1>5, <2>1, MovesTrade DEF TradeStands
    <2>3. RInv' /\ SessionQuiet /\ call'[Click].about.ok = TRUE
      BY <1>1, <1>2, <1>5, <2>2, AnsweringKeepsRoom
    <2>4. QED
      BY <2>3 DEF RefusedStale
  <1>6. QED
    BY <1>3, <1>4, <1>5 DEF ServeClick

(* The dispute that the handler had decided on is opened, or there is one. *)
LEMMA DisputingKeepsRoom ==
  ASSUME RInv, SInv, DisputeCommits
  PROVE  RInv' /\ SessionQuiet /\ RefusedStale
  <1> USE DEF RInv
  <1>1. /\ call[Click].step = "deciding" /\ handled' \in 0..1
        /\ UNCHANGED <<tokens, fresh, issued, logins, store, cut, role, shown, round>>
    BY DEF DisputeCommits, At, Server, market, pageVars, ClickStands
  <1>2. Granted(call[Click].about, role, roomTrade) /\ call[Click].about.op = "dispute"
    BY <1>1 DEF ClickStands
  <1>3. CASE Disputes /\ Answers(TRUE)
    <2>1. TradeStands' /\ roomTrade'.version = roomTrade.version + 1
      BY <1>3, TradeRoomAssumption DEF Disputes, TradeStands, Status
    <2>2. RInv' /\ SessionQuiet /\ call'[Click].about.ok = TRUE
      BY <1>1, <1>3, <2>1, AnsweringKeepsRoom
    <2>3. QED
      BY <2>2 DEF RefusedStale
  <1>4. CASE roomTrade.disputed /\ Answers(FALSE) /\ UNCHANGED roomTrade
    <2>1. TradeStands'
      BY <1>4 DEF TradeStands
    <2>2. RInv' /\ SessionQuiet
      BY <1>1, <1>4, <2>1, AnsweringKeepsRoom
    <2>3. roomTrade.status \notin Accepts("dispute")
      BY <1>4 DEF TradeStands, Accepts
    <2>4. call[Click].about.version # roomTrade.version
      BY <1>2, <2>3 DEF Granted
    <2>5. QED
      BY <2>2, <2>4 DEF RefusedStale
  <1>5. QED
    BY <1>3, <1>4 DEF DisputeCommits

(* A click is over, and a round follows it or not.                         *)
LEMMA ClickEndKeepsRoom ==
  ASSUME RInv, SInv, ClickEnds
  PROVE  RInv' /\ SessionQuiet /\ RefusedStale
  <1> USE DEF RInv
  <1>1. CASE ClickFails
    <2>1. /\ call' = Ends({Click}) /\ handled' = 0
          /\ call[Click].step \in {"failed", "answered"}
          /\ UNCHANGED <<tokens, fresh, issued, logins, store, cut, roomTrade, role, shown, round>>
      BY <1>1 DEF ClickFails, Server, market, pageVars, At
    <2>2. /\ call' \in [Call -> {Free, Failed} \cup Calling]
          /\ OnlyCall(Click) /\ call'[Click] = Free
      BY <2>1, CallsApart DEF CallsStand, Ends, OnlyCall
    <2>3. CallsStand' /\ TradeStands' /\ PageStands' /\ RoundsStand'
      BY <2>1, <2>2, RoundsKeep DEF CallsStand, TradeStands, PageStands
    <2>4. ClickStands'
      BY <2>1, <2>2 DEF ClickStands, UnderWay, Underway, Asking, Free
    <2>5. SessionQuiet
      BY <2>1, <2>2 DEF SessionQuiet, CallQuiet, OnlyCall, Free, Underway
    <2>6. QED
      BY <2>2, <2>3, <2>4, <2>5 DEF RefusedStale, Free
  <1>2. CASE \E k \in Round : ClickRefreshes(k)
    <2> PICK k \in Round : ClickRefreshes(k)
      BY <1>2
    <2>1. /\ k \notin round /\ Starts(k, Ends({Click})) /\ handled' = 0
          /\ call[Click].step = "answered"
          /\ UNCHANGED <<tokens, fresh, issued, logins, store, cut, roomTrade, role, shown>>
      BY IdleRoundIsIdle DEF ClickRefreshes, Server, market, At
    <2>2. round' = round \cup {k}
          /\ call' = [c \in Call |-> IF c \in CallsOf(k) THEN Sent(NotLoaded)
                                     ELSE IF c = Click THEN Free ELSE call[c]]
      BY <2>1 DEF Starts, Ends
    <2>3. Sent(NotLoaded) \in Calling /\ Sent(NotLoaded).step = "sent"
          /\ Sent(NotLoaded).pair = store /\ Sent(NotLoaded).about = NotLoaded
      BY SentIsRequest DEF Told
    <2>4. /\ call' \in [Call -> {Free, Failed} \cup Calling]
          /\ \A c \in CallsOf(k) : call'[c] = Sent(NotLoaded) /\ call[c] = Free
          /\ \A c \in Call : c \notin CallsOf(k) /\ c # Click => call'[c] = call[c]
          /\ call'[Click] = Free
      BY <2>1, <2>2, <2>3, CallsApart DEF CallsStand, RoundsStand
    <2>5. SessionQuiet
      BY <2>1, <2>3, <2>4 DEF SessionQuiet, CallQuiet, Free, Underway
    <2>6. CallsStand' /\ TradeStands' /\ PageStands'
      BY <2>1, <2>2, <2>4 DEF CallsStand, TradeStands, PageStands
    <2>7. Fits(NotLoaded, roomTrade)
      BY TradeRoomAssumption DEF TradeStands, Fits, NotLoaded
    <2>8. RoundsStand'
      <3> SUFFICES ASSUME NEW j \in Round, NEW c \in CallsOf(j)
                   PROVE  /\ j \notin round' => call'[c] = Free
                          /\ call'[c].step \in Underway =>
                               /\ call'[c].step # "deciding"
                               /\ call'[c].about \in Seen \cup {NotLoaded}
                               /\ Fits(call'[c].about, roomTrade)
        BY <2>1 DEF RoundsStand, UnderWay
      <3>1. CASE j = k
        BY <2>2, <2>3, <2>4, <2>7, <3>1
      <3>2. CASE j # k
        BY <2>2, <2>4, <3>2, CallsApart DEF RoundsStand, UnderWay
      <3>3. QED
        BY <3>1, <3>2
    <2>9. ClickStands'
      BY <2>1, <2>4 DEF ClickStands, UnderWay, Underway, Asking, Free
    <2>10. QED
      BY <2>4, <2>5, <2>6, <2>8, <2>9 DEF RefusedStale, Free
  <1>3. QED
    BY <1>1, <1>2 DEF ClickEnds

-----------------------------------------------------------------------------
(* The theorems of the trade room. *)

RoomInv == SInv /\ RInv /\ covered \in BOOLEAN

(* Only the seller's other trades change whether the escrow is covered.    *)
LEMMA CoverStands ==
  ASSUME covered \in BOOLEAN, RoomNext
  PROVE  covered' \in BOOLEAN
  <1>1. CASE LockedMoves
    BY <1>1, Zenon DEF LockedMoves
  <1>2. CASE ~LockedMoves
    <2>1. UNCHANGED covered
      BY <1>2 DEF RoomNext, OthersMove, StartRound, RoundEnds, ShowRound, DropRound, Press,
         Serves, ServeRound, ServeClick, DisputeCommits, ClickEnds, ClickFails, ClickRefreshes,
         market
    <2>2. QED
      BY <2>1
  <1>3. QED
    BY <1>1, <1>2

(* The page has just been opened, by a user who has just logged in.        *)
LEMMA RoomInitHolds == RoomInit => RoomInv
  <1> SUFFICES ASSUME RoomInit PROVE RoomInv
    OBVIOUS
  <1>1. /\ tokens = {1} /\ fresh = {1} /\ issued = 1 /\ logins = 1 /\ store = 1 /\ cut = {}
        /\ call = [c \in Call |-> Free]
        /\ shown = NotLoaded /\ round = {} /\ handled = 0 /\ role \in {"buyer", "seller"}
        /\ \E s \in FirstStatus :
             roomTrade = [status |-> s, version |-> 0, disputed |-> s = "DISPUTED"]
    BY DEF RoomInit, SessionInit
  <1>2. \A c \in Call : call[c] = Free /\ call[c].step = "free"
    BY <1>1 DEF Free
  <1>3. PairsMinted /\ FoundExpired /\ GivenKept /\ StoredPairLives
    BY <1>1, <1>2, SessionAssumption
       DEF PairsMinted, FoundExpired, GivenKept, StoredPairLives, At, UnderWay, Underway
  <1>4. Deleting = {} /\ Gone = {} /\ (1..issued) \ fresh = {}
    BY <1>1, <1>2 DEF Deleting, Gone, At
  <1>5. Cardinality({}) = 0 /\ Cardinality(tokens) = 1
    BY <1>1, FS_EmptySet, FS_Singleton
  <1>6. RenewalsCounted /\ OneSessionPerLogin
    BY <1>1, <1>4, <1>5, SessionAssumption DEF RenewalsCounted, OneSessionPerLogin, Deleting
  <1>7. CallsStand
    BY <1>1 DEF CallsStand
  <1>8. TradeStands /\ PageStands
    <2>1. PICK s \in FirstStatus :
            roomTrade = [status |-> s, version |-> 0, disputed |-> s = "DISPUTED"]
      BY <1>1
    <2>2. s \in Status /\ 0 \in 0..MaxMoves /\ (s = "DISPUTED") \in BOOLEAN
      BY TradeRoomAssumption
    <2>3. TradeStands
      BY <2>1, <2>2 DEF TradeStands
    <2>4. shown.version = -1 /\ roomTrade.version = 0
      BY <1>1, <2>1 DEF NotLoaded
    <2>5. QED
      BY <1>1, <2>3, <2>4 DEF PageStands, Fits
  <1>9. RoundsStand
    BY <1>2, CallsApart DEF RoundsStand, UnderWay, Underway
  <1>10. ClickStands
    BY <1>1, <1>2, CallsApart DEF ClickStands, UnderWay, Underway, Asking
  <1>11. covered \in BOOLEAN
    BY DEF RoomInit
  <1>12. QED
    BY <1>3, <1>6, <1>7, <1>8, <1>9, <1>10, <1>11 DEF RoomInv, SInv, RInv

(* Every step of the trade room keeps both invariants, and refuses a click *)
(* only when the trade has changed or its escrow is not covered.           *)
LEMMA RoomStep ==
  ASSUME RoomInv, RoomNext
  PROVE  RoomInv' /\ RefusedStale
  <1> USE DEF RoomInv
  <1>1. CallsStand /\ covered' \in BOOLEAN
    BY CoverStands DEF RInv
  <1>2. ASSUME NEW c \in Call, Carries(c), SInv',
               UNCHANGED <<market, pageVars, handled>>
        PROVE  RoomInv' /\ RefusedStale
    <2>1. RInv'
      BY <1>2, CarryingKeepsRoom DEF pageVars, market
    <2>2. call'[Click].step # "answered" \/ call'[Click] = call[Click]
      BY <1>2, CallsApart DEF Carries, OnlyCall, Failed, Asking
    <2>3. QED
      BY <1>1, <1>2, <2>1, <2>2 DEF RefusedStale, At
  <1>3. CASE SessionStep /\ UNCHANGED <<market, pageVars, handled>>
    <2>1. CASE Login \/ \E p \in Pair : AccessExpires(p)
      <3>1. SInv' /\ UNCHANGED call
        BY <2>1, LoginKeepsSession, ExpiryKeepsSession DEF Login, AccessExpires
      <3>2. RInv'
        BY <1>3, <3>1 DEF RInv, CallsStand, TradeStands, PageStands, RoundsStand, ClickStands,
           UnderWay, pageVars, market
      <3>3. QED
        BY <1>1, <3>1, <3>2 DEF RefusedStale, At
    <2>2. CASE \E c \in Call : Proceeds(c) \/ Loses(c)
      BY <1>1, <1>2, <1>3, <2>2, ProceedingHolds, LosingHolds
    <2>3. QED
      BY <1>3, <2>1, <2>2 DEF SessionStep
  <1>4. CASE OthersMove
    BY <1>1, <1>4, OthersKeepRoom, QuietKeepsSession DEF RefusedStale, At
  <1>5. CASE \E k \in Round : StartRound(k) \/ RoundEnds(k)
    BY <1>1, <1>5, StartKeepsRoom, EndKeepsRoom, QuietKeepsSession DEF RefusedStale, At
  <1>6. CASE \E op \in Op : Press(op)
    BY <1>1, <1>6, PressKeepsRoom, QuietKeepsSession
  <1>7. CASE \E c \in Call : Serves(c)
    <2> PICK c \in Call : Serves(c)
      BY <1>7
    <2>1. CASE Proceeds(c) /\ UNCHANGED <<market, pageVars, handled>>
      BY <1>1, <1>2, <2>1, ProceedingHolds
    <2>2. CASE \E k \in Round : ServeRound(k, c)
      BY <1>1, <2>2, ServeKeepsRoom, QuietKeepsSession DEF RefusedStale, At
    <2>3. CASE ServeClick \/ DisputeCommits
      BY <1>1, <2>3, HandlingKeepsRoom, DisputingKeepsRoom, QuietKeepsSession
    <2>4. QED
      BY <2>1, <2>2, <2>3 DEF Serves
  <1>8. CASE ClickEnds
    BY <1>1, <1>8, ClickEndKeepsRoom, QuietKeepsSession
  <1>9. CASE LockedMoves
    <2>1. UNCHANGED <<tokens, fresh, issued, logins, store, cut, call, roomTrade, role, shown, round, handled>>
      BY <1>9 DEF LockedMoves, sessionVars, pageVars
    <2>2. SInv' /\ RInv'
      BY <2>1, QuietKeepsSession
         DEF SessionQuiet, CallQuiet, RInv, CallsStand, TradeStands, PageStands, RoundsStand,
             ClickStands, UnderWay
    <2>3. QED
      BY <1>1, <2>1, <2>2 DEF RefusedStale, At
  <1>10. QED
    BY <1>3, <1>4, <1>5, <1>6, <1>7, <1>8, <1>9 DEF RoomNext

(* Idling keeps them too.                                                  *)
LEMMA RoomIdles ==
  ASSUME RoomInv, UNCHANGED roomVars
  PROVE  RoomInv' /\ RefusedStale
  <1>1. UNCHANGED <<tokens, fresh, issued, logins, store, call, cut, roomTrade, covered, role, shown, round, handled>>
    BY DEF roomVars, sessionVars, pageVars, market
  <1>2. SInv'
    BY <1>1, QuietKeepsSession DEF RoomInv, SessionQuiet, CallQuiet
  <1>3. RInv'
    BY <1>1 DEF RoomInv, RInv, CallsStand, TradeStands, PageStands, RoundsStand, ClickStands,
       UnderWay
  <1>4. QED
    BY <1>1, <1>2, <1>3 DEF RoomInv, RefusedStale, At

(* What the invariants say about the pairs and the page.                   *)
LEMMA RoomImplies ==
  ASSUME RoomInv
  PROVE  SessionsSound /\ HandledOnce
  <1> USE DEF RoomInv, RInv, SInv
  <1>1. issued - logins <= MaxExpiries
    <2>1. /\ IsFiniteSet((1..issued) \ fresh) /\ Gone \subseteq (1..issued) \ fresh
          /\ IsFiniteSet(Deleting) /\ IsFiniteSet(Gone)
      BY SessionSetsFinite DEF Gone
    <2>2. Cardinality(Gone) <= Cardinality((1..issued) \ fresh)
      BY <2>1, FS_Subset
    <2>3. /\ Cardinality(Deleting) \in Nat /\ Cardinality(Gone) \in Nat
          /\ Cardinality((1..issued) \ fresh) \in Nat
      BY <2>1, FS_CardinalityType
    <2>4. QED
      BY <2>2, <2>3, SessionAssumption DEF RenewalsCounted, PairsMinted
  <1>2. issued <= MaxLogins + MaxExpiries /\ 1..issued \subseteq Pair
    BY <1>1, SessionAssumption DEF PairsMinted, Pair
  <1>3. SessionTypeOK
    <2>1. \A c \in Call : call[c] \in {Free, Failed} \/ call[c].pair \in Pair
      BY <1>2 DEF CallsStand, PairsMinted, UnderWay, Calling
    <2>2. QED
      BY <1>2, <2>1, SessionAssumption DEF SessionTypeOK, PairsMinted
  <1>4. RoomTypeOK /\ HandledOnce
    BY <1>3 DEF RoomTypeOK, HandledOnce, TradeStands, PageStands, ClickStands
  <1>5. QED
    BY <1>4 DEF SessionsSound

(* The inductive invariant of the trade room holds.                        *)
THEOREM RoomInvariance == RoomSpec => []RoomInv
  <1>1. RoomInv /\ [RoomNext]_roomVars => RoomInv'
    BY RoomStep, RoomIdles
  <1>2. QED
    BY RoomInitHolds, <1>1, PTL DEF RoomSpec

(* However many calls of the page renew the session side by side, there is *)
(* never more than one session for each login, and the browser is never    *)
(* left with a pair that one of them has used up.                          *)
THEOREM SessionsSoundHolds == RoomSpec => []SessionsSound
  BY RoomInvariance, RoomImplies, PTL

(* A click runs its handler at most once.                                  *)
THEOREM HandledOnceHolds == RoomSpec => []HandledOnce
  BY RoomInvariance, RoomImplies, PTL

(* What the page offers the handlers accept, unless the trade has changed  *)
(* since the page has read it, or other trades of the seller have taken of *)
(* the escrow that the button moves (ESCROW_MISMATCH).                     *)
THEOREM RefusedOnlyWhenStaleHolds == RoomSpec => RefusedOnlyWhenStale
  <1>1. RoomInv /\ [RoomNext]_roomVars =>
          [~At(Click, "answered") /\ At(Click, "answered")' /\ ~call'[Click].about.ok =>
             \/ call[Click].about.version # roomTrade.version
             \/ call[Click].about.op \in TakesEscrow /\ ~covered]_roomVars
    <2>1. RoomInv /\ [RoomNext]_roomVars => RefusedStale
      BY RoomStep, RoomIdles
    <2>2. QED
      BY <2>1 DEF RefusedStale, At
  <1>2. QED
    BY RoomInvariance, <1>1, PTL DEF RoomSpec, RefusedOnlyWhenStale

\* What the page may read of a trade of the marketplace before and after a
\* step: the same, the work of a handler on a status that it accepts, a first
\* dispute, or what the staff decide on one; and whether the seller's locked
\* balance covers the escrow, which all that move it need.
EscrowMove(t) ==
    \/ trade'[t].status = trade[t].status /\ dispute'[t] = dispute[t]
    \/ /\ dispute'[t] = dispute[t]
       /\ \E op \in Op \ {"dispute"} :
            /\ trade[t].status \in Accepts(op) /\ (op \in TakesEscrow => Covered(t))
            /\ trade'[t].status = Result(op)
    \/ dispute[t] = "NONE" /\ dispute'[t] # "NONE" /\ trade'[t].status = "DISPUTED"
    \/ /\ dispute[t] # "NONE" /\ dispute'[t] # "NONE" /\ Covered(t)
       /\ trade'[t].status \in {"RELEASED", "CANCELLED"}

\* The handlers that the trade room talks to are those of P2PEscrow: no step
\* of the marketplace, its races included, does to a trade what the tables of
\* the room do not have.
THEOREM RoomKnowsTheMarket == Spec => [][\A t \in Trade : Exists(t) => EscrowMove(t)]_vars
<1>1. ASSUME IInv, [Next]_vars PROVE \A t \in Trade : Exists(t) => EscrowMove(t)
  <2>1. StepOK
    BY <1>1, NextStep
  <2>2. CASE TradeRowsUnchanged
    BY <2>2 DEF TradeRowsUnchanged, EscrowMove
  <2>3. CASE \E t \in Trade : TradeStep(t)
    <3> PICK t \in Trade : TradeStep(t)
      BY <2>3
    <3>1. \A x \in Trade \ {t} : trade'[x] = trade[x] /\ dispute'[x] = dispute[x]
      BY DEF TradeStep, Created, Claimed, PaidOut, Returned, Contested, Resolved, RowStep
    <3>2. CASE Claimed(t)
      BY <3>2 DEF Claimed, RowStep, EscrowMove, Op, Accepts, Result, TakesEscrow
    <3>3. CASE PaidOut(t)
      BY <3>3 DEF PaidOut, RowStep, EscrowMove, Op, Accepts, Result, TakesEscrow
    <3>4. CASE Returned(t)
      BY <3>4 DEF Returned, RowStep, EscrowMove, Op, Accepts, Result, TakesEscrow
    <3>5. CASE Contested(t)
      BY <3>5 DEF Contested, RowStep, EscrowMove
    <3>6. CASE Resolved(t)
      BY <3>6 DEF Resolved, RowStep, EscrowMove
    <3>7. Exists(t) => EscrowMove(t)
      BY <3>2, <3>3, <3>4, <3>5, <3>6 DEF TradeStep, Created
    <3> QED
      BY <3>1, <3>7 DEF EscrowMove
  <2> QED
    BY <2>1, <2>2, <2>3 DEF StepOK
<1> QED
  BY <1>1, Invariance, PTL DEF Spec


=============================================================================
