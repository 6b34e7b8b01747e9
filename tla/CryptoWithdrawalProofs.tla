----------------------- MODULE CryptoWithdrawalProofs -----------------------
(***************************************************************************)
(* Withdrawals on chain keep the books, and the page does not mislead its  *)
(* user, for any number of tabs and requests, amounts and fees.            *)
(*                                                                         *)
(* The books need to know what a request has done by the step it is at     *)
(* (InOrder): a request that has not locked has no row, one about to       *)
(* commit has a PENDING row, and one that was refused has none, or was     *)
(* refused once it had locked (Excused).  That a used txid never refuses a *)
(* request follows from the books themselves, and that LOCK_MISMATCH does  *)
(* so only once a trade was settled twice: until then the trades' part of  *)
(* what is locked is not negative (EscrowSums).  The page needs to know    *)
(* that the requests of one visit follow each other (Visits): all but the  *)
(* last one were told to be errors, or not heard of.                       *)
(***************************************************************************)
EXTENDS CryptoWithdrawal, SumLemmas, TLAPS

\* Why a request that has locked may be answered with an error.
Excused(r) ==
    \/ r \in threw
    \/ r \in Rows("PENDING") /\ (NoTreasury \/ DoubleSettled)

InOrder ==
    \A r \in Request :
      /\ At(r, "sent") => req[r].amount \in Amount
      /\ At(r, "none") \/ At(r, "sent") => rows[r] = NoRow
      /\ At(r, "finalize") => mock
      /\ At(r, "commit") => r \in Rows("PENDING")
      /\ At(r, "error") => rows[r] = NoRow \/ Excused(r)

\* No trade is settled that has not begun.
BegunFirst == \A t \in Trade : t \notin begun => settled[t] = 0

BInv ==
    /\ TypeOK
    /\ InOrder
    /\ BegunFirst
    /\ LockedIsHeld
    /\ NothingLost

\* Requests are numbered as they are sent.
Numbered ==
    \A r, q \in Request : ~At(r, "none") /\ q < r => ~At(q, "none")

Latest(p, r) == r \in page[p].sent /\ \A q \in page[p].sent : q <= r

Visits ==
    \A p \in Page :
      /\ page[p].step = "form" => page[p].sent = {}
      /\ page[p].step # "form" => \E r \in Request : Latest(p, r)
      /\ \A r \in page[p].sent :
           /\ ~At(r, "none")
           /\ \/ Latest(p, r) /\ page[p].step # "error"
              \/ At(r, "error")
              \/ r \in unheard

PInv == Numbered /\ Visits

-----------------------------------------------------------------------------

(* There are finitely many requests. *)
LEMMA RequestsFinite == IsFiniteSet(Request) /\ Request \subseteq Nat
  BY FS_Interval, WithdrawalAssumption DEF Request

(* The parts of the sums are numbers. *)
PartsInt ==
    \A r \in Request : Held[r] \in Nat /\ PaidOut[r] \in Nat /\ TotalOf(r) \in Nat

\* Every share that is summed is a number.
LEMMA PartsAreInt == TypeOK => PartsInt
  <1> SUFFICES ASSUME TypeOK, NEW r \in Request
               PROVE  Held[r] \in Nat /\ PaidOut[r] \in Nat /\ TotalOf(r) \in Nat
    BY DEF PartsInt
  <1>1. rows[r].amount \in Nat /\ rows[r].fee \in Nat
    <2>1. rows[r] \in Row \/ rows[r] = NoRow
      BY DEF TypeOK
    <2>2. Amount \subseteq Nat /\ Fee \in Nat
      BY WithdrawalAssumption
    <2>3. CASE rows[r] \in Row
      <3>1. rows[r].amount \in Amount /\ rows[r].fee \in {Fee}
        BY <2>3 DEF Row
      <3>2. QED
        BY <2>2, <3>1
    <2>4. CASE rows[r] = NoRow
      BY <2>4 DEF NoRow
    <2>5. QED
      BY <2>1, <2>3, <2>4
  <1>2. TotalOf(r) \in Nat
    BY <1>1 DEF TotalOf
  <1>3. QED
    BY <1>1, <1>2 DEF Held, PaidOut

(* The sums are numbers, and each part is at most the sum. *)
SumsNat ==
    /\ SumFunctionOnSet(Held, Request) \in Nat
    /\ SumFunctionOnSet(PaidOut, Request) \in Nat
    /\ \A r \in Request : Held[r] <= SumFunctionOnSet(Held, Request)

\* So are the sums.
LEMMA SumsAreNat == TypeOK => SumsNat
  BY PartsAreInt, SumPart, RequestsFinite DEF PartsInt, SumsNat

(* The trades' part of what is locked is a number, and none of them is less *)
(* than nothing before one was settled twice.                               *)
EscrowInt ==
    /\ SumFunctionOnSet(Escrow, Trade) \in Int
    /\ \A t \in Trade : Escrow[t] \in Int
    /\ ~DoubleSettled => SumFunctionOnSet(Escrow, Trade) \in Nat

\* It is so because an escrow is settled once, or an arbitrator did it again.
LEMMA EscrowSums == TypeOK => EscrowInt
  <1> SUFFICES ASSUME TypeOK PROVE EscrowInt
    OBVIOUS
  <1>1. \A t \in Trade : EscrowAmount \in Nat /\ settled[t] \in Nat
    BY WithdrawalAssumption DEF TypeOK
  <1>2. ASSUME NEW t \in Trade
        PROVE  Escrow[t] \in Int /\ (settled[t] <= 1 => Escrow[t] \in Nat)
    <2>1. Escrow[t] = IF t \in begun THEN EscrowAmount * (1 - settled[t]) ELSE 0
      BY DEF Escrow
    <2>2. EscrowAmount * (1 - settled[t]) \in Int
      BY <1>1
    <2>3. ASSUME settled[t] <= 1
          PROVE  EscrowAmount * (1 - settled[t]) \in Nat
      <3>1. settled[t] = 0 \/ settled[t] = 1
        BY <1>1, <2>3
      <3>2. EscrowAmount * (1 - 0) = EscrowAmount /\ EscrowAmount * (1 - 1) = 0
        BY <1>1
      <3>3. QED
        BY <1>1, <3>1, <3>2
    <2>4. QED
      BY <2>1, <2>2, <2>3
  <1>3. IsFiniteSet(Trade)
    BY WithdrawalAssumption
  <1>4. SumFunctionOnSet(Escrow, Trade) \in Int
    BY <1>2, <1>3, SumInt
  <1>5. ASSUME ~DoubleSettled
        PROVE  SumFunctionOnSet(Escrow, Trade) \in Nat
    <2>1. \A t \in Trade : settled[t] <= 1
      BY <1>1, <1>5 DEF DoubleSettled
    <2>2. QED
      BY <1>2, <1>3, <2>1, SumPart
  <1>6. QED
    BY <1>2, <1>4, <1>5 DEF EscrowInt

(* When one trade moves, the trades' part moves with it. *)
LEMMA TradeSums ==
  ASSUME TypeOK, TypeOK', NEW t \in Trade,
         \A u \in Trade : u # t => settled'[u] = settled[u] /\ (u \in begun' <=> u \in begun)
  PROVE  SumFunctionOnSet(Escrow, Trade)'
           = SumFunctionOnSet(Escrow, Trade) + Escrow'[t] - Escrow[t]
  <1>0. EscrowInt /\ EscrowInt'
    BY EscrowSums, PTL
  <1>1. \A u \in Trade : Escrow[u] \in Int /\ Escrow'[u] \in Int
    BY <1>0 DEF EscrowInt
  <1>2. \A u \in Trade : u # t => Escrow'[u] = Escrow[u]
    BY DEF Escrow
  <1>3. IsFiniteSet(Trade)
    BY WithdrawalAssumption
  <1>4. SumFunctionOnSet(Escrow', Trade) = SumFunctionOnSet(Escrow, Trade) + Escrow'[t] - Escrow[t]
    BY <1>1, <1>2, <1>3, SumPoint
  <1>5. QED
    BY <1>4

(* When no trade moves, it stays. *)
LEMMA TradesSame ==
  ASSUME UNCHANGED trades
  PROVE  UNCHANGED <<SumFunctionOnSet(Escrow, Trade), DoubleSettled>>
  BY DEF Escrow, DoubleSettled, trades

(* When one row is written, the sums move with it. *)
LEMMA RowSums ==
  ASSUME TypeOK, TypeOK', NEW r \in Request,
         \A q \in Request : q # r => rows'[q] = rows[q]
  PROVE  /\ SumFunctionOnSet(Held, Request)'
              = SumFunctionOnSet(Held, Request) + Held'[r] - Held[r]
         /\ SumFunctionOnSet(PaidOut, Request)'
              = SumFunctionOnSet(PaidOut, Request) + PaidOut'[r] - PaidOut[r]
  <1>1. PartsInt /\ PartsInt'
    BY PartsAreInt, PTL
  <1>2. \A q \in Request : q # r => Held'[q] = Held[q] /\ PaidOut'[q] = PaidOut[q]
    BY DEF Held, PaidOut, Rows, TotalOf
  <1>3. \A q \in Request : /\ Held[q] \in Int /\ Held'[q] \in Int
                           /\ PaidOut[q] \in Int /\ PaidOut'[q] \in Int
    BY <1>1 DEF PartsInt
  <1>0. IsFiniteSet(Request)
    BY RequestsFinite
  <1>4. SumFunctionOnSet(Held', Request) = SumFunctionOnSet(Held, Request) + Held'[r] - Held[r]
    BY <1>0, <1>2, <1>3, SumPoint
  <1>5. SumFunctionOnSet(PaidOut', Request)
          = SumFunctionOnSet(PaidOut, Request) + PaidOut'[r] - PaidOut[r]
    BY <1>0, <1>2, <1>3, SumPoint
  <1>6. QED
    BY <1>4, <1>5

(* When no row is written, the sums stay. *)
LEMMA RowsSame ==
  ASSUME UNCHANGED rows
  PROVE  UNCHANGED <<Held, PaidOut, Rows("PENDING"), Rows("SUCCESS")>>
  BY DEF Held, PaidOut, Rows, TotalOf

-----------------------------------------------------------------------------

(* At first nothing is withdrawn. *)
LEMMA BooksInit == Init => BInv
  <1> SUFFICES ASSUME Init PROVE BInv
    OBVIOUS
  <1>1. TypeOK
    BY WithdrawalAssumption DEF Init, TypeOK, NoRow, Step
  <1>2. \A r \in Request : rows[r] = NoRow /\ req[r].step = "none"
    BY DEF Init
  <1>3. Rows("PENDING") = {} /\ Rows("SUCCESS") = {}
    BY <1>2 DEF Rows, NoRow
  <1>4. /\ SumFunctionOnSet(Held, Request) = 0
        /\ SumFunctionOnSet(PaidOut, Request) = 0
        /\ SumFunctionOnSet(Escrow, Trade) = 0
    <2>1. \A r \in Request : Held[r] = 0 /\ PaidOut[r] = 0
      BY <1>3 DEF Held, PaidOut
    <2>2. \A t \in Trade : Escrow[t] = 0
      BY DEF Init, Escrow
    <2>3. IsFiniteSet(Trade)
      BY WithdrawalAssumption
    <2>4. QED
      BY <2>1, <2>2, <2>3, RequestsFinite, SumZero
  <1>5. InOrder
    BY <1>2 DEF InOrder, At
  <1>6. LockedIsHeld
    BY <1>4 DEF Init, LockedIsHeld
  <1>7. NothingLost
    <2>1. Cardinality(Rows("SUCCESS")) = 0 /\ Fee * 0 = 0
      BY <1>3, FS_EmptySet, WithdrawalAssumption
    <2>2. QED
      BY <1>3, <1>4, <2>1, WithdrawalAssumption DEF Init, NothingLost
  <1>8. BegunFirst
    BY DEF Init, BegunFirst
  <1>9. QED
    BY <1>1, <1>5, <1>6, <1>7, <1>8 DEF BInv

(* An excuse stays one, as long as the request's own row is not written. *)
LEMMA ExcusesStay ==
  ASSUME threw \subseteq threw', UNCHANGED <<mock, configured>>,
         DoubleSettled => DoubleSettled'
  PROVE  \A r \in Request : Excused(r) /\ rows'[r] = rows[r] => Excused(r)'
  BY DEF Excused, NoTreasury, Rows

(* A step that writes neither rows nor money. *)
LEMMA QuietKeepsBooks ==
  ASSUME BInv, TypeOK', InOrder',
         UNCHANGED <<wallet, treasury, rows, used>>
  PROVE  BInv'
  <1>1. BegunFirst' /\ UNCHANGED <<balance, locked, released>>
    BY DEF BInv, BegunFirst, wallet, trades
  <1>2. LockedIsHeld'
    BY <1>1, RowsSame, TradesSame DEF BInv, LockedIsHeld, wallet
  <1>3. NothingLost'
    BY <1>1, RowsSame DEF BInv, NothingLost
  <1>4. QED
    BY <1>1, <1>2, <1>3 DEF BInv

(* A request moves on, or ends, and nothing else changes. *)
LEMMA RequestMoves ==
  ASSUME BInv, NEW r \in Request, NEW step \in Step, Goes(r, step) \/ Ends(r, step),
         UNCHANGED <<mock, configured, wallet, treasury, used, rows, page, unheard>>,
         threw' \in SUBSET Request, threw \subseteq threw',
         step \notin {"sent", "none", "finalize"},
         step = "commit" => r \in Rows("PENDING"),
         step = "error" => rows[r] = NoRow \/ Excused(r) \/ r \in threw'
  PROVE  BInv'
  <1>1. TypeOK
    BY DEF BInv
  <1>2. PICK entry \in [step : Step, amount : Amount \cup {0}] :
          req' = [req EXCEPT ![r] = entry] /\ entry.step = step
    BY <1>1 DEF Goes, Ends, TypeOK
  <1>3. TypeOK'
    BY <1>1, <1>2 DEF TypeOK, wallet, trades
  <1>4. InOrder'
    <2>1. UNCHANGED DoubleSettled
      BY DEF wallet, trades, DoubleSettled
    <2>2. \A q \in Request : Excused(q) => Excused(q)'
      BY <2>1, ExcusesStay
    <2>3. r \in threw' => Excused(r)'
      BY DEF Excused
    <2>4. QED
      BY <1>1, <1>2, <2>2, <2>3 DEF TypeOK, BInv, InOrder, At, Rows
  <1>5. QED
    BY <1>3, <1>4, QuietKeepsBooks

(* The row and the lock: what leaves the balance is held by the new row. *)
LEMMA LockKeepsBooks ==
  ASSUME BInv, NEW r \in Request, Lock(r)
  PROVE  BInv'
  <1> DEFINE amount  == req[r].amount
             total   == amount + Fee
             row     == [status |-> "PENDING", amount |-> amount, fee |-> Fee]
             heldSum == SumFunctionOnSet(Held, Request)
             paidSum == SumFunctionOnSet(PaidOut, Request)
             escrow  == SumFunctionOnSet(Escrow, Trade)
  <1>1. TypeOK /\ amount \in Amount /\ amount \in Nat /\ Fee \in Nat /\ rows[r] = NoRow
    BY WithdrawalAssumption DEF BInv, InOrder, Lock
  <1>2. /\ rows' = [rows EXCEPT ![r] = row] /\ row \in Row
        /\ balance >= total /\ balance' = balance - total /\ locked' = locked + total
        /\ req' = [req EXCEPT ![r].step = AfterLock]
        /\ UNCHANGED <<mock, configured, trades, treasury, used, page, history>>
    BY <1>1 DEF Lock, Goes, Row, Covers
  <1>3. AfterLock \in {"finalize", "reread"} /\ (AfterLock = "finalize" => mock)
    BY DEF AfterLock
  <1>4. [req[r] EXCEPT !.step = AfterLock] \in [step : Step, amount : Amount \cup {0}]
        /\ [req[r] EXCEPT !.step = AfterLock].step = AfterLock
    BY <1>1, <1>3 DEF TypeOK, Step
  <1>5. TypeOK'
    <2>1. rows' \in [Request -> Row \cup {NoRow}]
      BY <1>1, <1>2 DEF TypeOK
    <2>2. req' \in [Request -> [step : Step, amount : Amount \cup {0}]]
      BY <1>1, <1>2, <1>4 DEF TypeOK
    <2>3. balance' \in Nat /\ locked' \in Nat
      BY <1>1, <1>2 DEF TypeOK
    <2>4. QED
      BY <1>1, <1>2, <2>1, <2>2, <2>3 DEF TypeOK, trades, history
  <1>6. /\ rows'[r] = row /\ \A q \in Request : q # r => rows'[q] = rows[q]
        /\ req'[r].step = AfterLock
        /\ \A q \in Request : q # r => req'[q] = req[q]
    BY <1>1, <1>2, <1>4 DEF TypeOK
  <1>7. InOrder'
    <2>1. \A q \in Request : Excused(q) /\ q # r => Excused(q)'
      BY <1>2, <1>6, TradesSame, ExcusesStay DEF history
    <2>2. QED
      BY <1>2, <1>3, <1>6, <2>1 DEF BInv, InOrder, At, Rows
  <1>8. Held[r] = 0 /\ PaidOut[r] = 0 /\ Held'[r] = total /\ PaidOut'[r] = 0
        /\ Rows("SUCCESS")' = Rows("SUCCESS")
    BY <1>1, <1>6 DEF Held, PaidOut, Rows, TotalOf, NoRow
  <1>9. /\ heldSum' = heldSum + Held'[r] - Held[r] /\ paidSum' = paidSum + PaidOut'[r] - PaidOut[r]
        /\ escrow' = escrow
    BY <1>1, <1>2, <1>5, <1>6, RowSums, TradesSame
  <1>10. heldSum \in Nat /\ paidSum \in Nat
    BY <1>1, SumsAreNat DEF SumsNat
  <1>11. /\ balance \in Nat /\ locked \in Nat /\ escrow \in Int /\ released \in Nat
         /\ treasury \in Nat /\ released' = released
    BY <1>1, <1>2, EscrowSums DEF TypeOK, trades, EscrowInt
  <1>12. locked = escrow + heldSum /\ balance + locked + released + treasury + paidSum = InitialBalance
    BY DEF BInv, LockedIsHeld, NothingLost
  <1>13. /\ LockedIsHeld' = (locked' = escrow' + heldSum')
         /\ NothingLost' = /\ balance' + locked' + released' + treasury' + paidSum' = InitialBalance
                           /\ treasury' = Fee * Cardinality(Rows("SUCCESS")')
                           /\ used' = Rows("SUCCESS")'
    BY DEF LockedIsHeld, NothingLost
  <1> HIDE DEF heldSum, paidSum, escrow, total, amount
  <1>14. locked' = escrow' + heldSum'
         /\ balance' + locked' + released' + treasury' + paidSum' = InitialBalance
    <2>1. heldSum' = heldSum + total /\ paidSum' = paidSum /\ total \in Nat
      BY <1>1, <1>8, <1>9, <1>10 DEF total
    <2>2. treasury' = treasury
      BY <1>2
    <2>3. QED
      BY <1>2, <1>9, <1>10, <1>11, <1>12, <2>1, <2>2
  <1>15. treasury' = Fee * Cardinality(Rows("SUCCESS")') /\ used' = Rows("SUCCESS")'
    BY <1>2, <1>8 DEF BInv, NothingLost
  <1>16. QED
    BY <1>2, <1>5, <1>7, <1>13, <1>14, <1>15 DEF BInv, BegunFirst, trades

(* What a request about to commit finds: its row is part of what is locked, *)
(* unless a trade has taken of it, and its txid is its own.                  *)
LEMMA CommitFinds ==
  ASSUME BInv, NEW r \in Request, At(r, "commit")
  PROVE  /\ r \in Rows("PENDING") /\ r \notin used
         /\ locked >= TotalOf(r) \/ DoubleSettled
  <1>1. TypeOK /\ r \in Rows("PENDING")
    BY DEF BInv, InOrder
  <1>2. Held[r] = TotalOf(r) /\ TotalOf(r) \in Nat
    BY <1>1, PartsAreInt DEF Held, PartsInt
  <1>3. TotalOf(r) <= SumFunctionOnSet(Held, Request)
        /\ SumFunctionOnSet(Held, Request) \in Nat
    BY <1>1, <1>2, SumsAreNat DEF SumsNat
  <1>4. locked >= TotalOf(r) \/ DoubleSettled
    <2>1. DoubleSettled \/ SumFunctionOnSet(Escrow, Trade) \in Nat
      BY <1>1, EscrowSums DEF EscrowInt
    <2>2. QED
      BY <1>1, <1>2, <1>3, <2>1 DEF BInv, LockedIsHeld, TypeOK
  <1>5. r \notin used
    BY <1>1 DEF BInv, NothingLost, Rows
  <1>6. QED
    BY <1>1, <1>4, <1>5

(* The second transaction: what the row held is paid out, with its fee. *)
LEMMA CommitKeepsBooks ==
  ASSUME BInv, NEW r \in Request, Finalizes(r), Pays(r), locked >= TotalOf(r)
  PROVE  BInv'
  <1> DEFINE amount  == rows[r].amount
             total   == TotalOf(r)
             row     == [rows[r] EXCEPT !.status = "SUCCESS"]
             heldSum == SumFunctionOnSet(Held, Request)
             paidSum == SumFunctionOnSet(PaidOut, Request)
             escrow  == SumFunctionOnSet(Escrow, Trade)
             done    == Rows("SUCCESS")
  <1>1. TypeOK /\ r \in Rows("PENDING") /\ Pays(r)
    BY CommitFinds DEF BInv, Finalizes
  <1>2. rows[r] \in Row /\ rows[r].status = "PENDING"
    BY <1>1 DEF TypeOK, Rows, NoRow
  <1>3. /\ amount \in Nat /\ rows[r].fee = Fee /\ Fee \in Nat /\ total = amount + Fee
        /\ row \in Row /\ row.status = "SUCCESS" /\ row.amount = amount
    BY <1>2, WithdrawalAssumption DEF Row, TotalOf
  <1>4. /\ rows' = [rows EXCEPT ![r] = row]
        /\ locked' = locked - total /\ treasury' = treasury + Fee
        /\ used' = used \cup {r}
        /\ req' = [req EXCEPT ![r].step = "reread"]
        /\ UNCHANGED <<mock, configured, balance, trades, page, history>>
    BY <1>1, <1>3 DEF Pays, Burns, Goes
  <1>5. [req[r] EXCEPT !.step = "reread"] \in [step : Step, amount : Amount \cup {0}]
        /\ [req[r] EXCEPT !.step = "reread"].step = "reread"
    BY <1>1 DEF TypeOK, Step
  <1>6. /\ rows'[r] = row /\ \A q \in Request : q # r => rows'[q] = rows[q]
        /\ req'[r].step = "reread"
        /\ \A q \in Request : q # r => req'[q] = req[q]
    BY <1>1, <1>4, <1>5 DEF TypeOK
  <1>7. Held[r] = total /\ total \in Nat /\ heldSum \in Nat /\ paidSum \in Nat /\ total <= heldSum
    <2>1. Held[r] = total
      BY <1>1 DEF Held
    <2>2. QED
      BY <1>1, <2>1, PartsAreInt, SumsAreNat DEF PartsInt, SumsNat
  <1>8. locked = escrow + heldSum /\ balance + locked + released + treasury + paidSum = InitialBalance
        /\ treasury = Fee * Cardinality(done) /\ used = done
    BY DEF BInv, LockedIsHeld, NothingLost
  <1>9. /\ balance \in Nat /\ locked \in Nat /\ escrow \in Int /\ released \in Nat
        /\ treasury \in Nat /\ locked >= total
        /\ UNCHANGED <<escrow, released>>
    BY <1>1, <1>4, EscrowSums, TradesSame DEF TypeOK, trades, EscrowInt
  <1>10. TypeOK'
    <2>1. rows' \in [Request -> Row \cup {NoRow}]
      BY <1>1, <1>3, <1>4 DEF TypeOK
    <2>2. req' \in [Request -> [step : Step, amount : Amount \cup {0}]]
      BY <1>1, <1>4, <1>5 DEF TypeOK
    <2>3. locked' \in Nat /\ treasury' \in Nat
      <3> HIDE DEF heldSum, escrow, total
      <3>1. QED
        BY <1>3, <1>4, <1>7, <1>8, <1>9
    <2>4. QED
      BY <1>1, <1>4, <2>1, <2>2, <2>3 DEF TypeOK, trades, history
  <1>11. InOrder'
    <2>1. \A q \in Request : Excused(q) /\ q # r => Excused(q)'
      BY <1>4, <1>6, TradesSame, ExcusesStay DEF history
    <2>2. QED
      BY <1>4, <1>6, <2>1 DEF BInv, InOrder, At, Rows
  <1>12. Held'[r] = 0 /\ PaidOut[r] = 0 /\ PaidOut'[r] = amount
    BY <1>2, <1>3, <1>6 DEF Held, PaidOut, Rows
  <1>13. heldSum' = heldSum + Held'[r] - Held[r] /\ paidSum' = paidSum + PaidOut'[r] - PaidOut[r]
    BY <1>1, <1>6, <1>10, RowSums
  <1>14. done' = done \cup {r} /\ r \notin done
    BY <1>2, <1>3, <1>6 DEF Rows
  <1>15. IsFiniteSet(done)
    BY RequestsFinite, FS_Subset DEF Rows
  <1>16. Cardinality(done') = Cardinality(done) + 1 /\ Cardinality(done) \in Nat
    BY <1>14, <1>15, FS_AddElement, FS_CardinalityType
  <1>17. /\ LockedIsHeld' = (locked' = escrow' + heldSum')
         /\ NothingLost' = /\ balance' + locked' + released' + treasury' + paidSum' = InitialBalance
                           /\ treasury' = Fee * Cardinality(done')
                           /\ used' = done'
    BY DEF LockedIsHeld, NothingLost
  <1> HIDE DEF heldSum, paidSum, escrow, total, amount, done
  <1>18. locked' = escrow' + heldSum'
         /\ balance' + locked' + released' + treasury' + paidSum' = InitialBalance
    <2>1. heldSum' = heldSum - total /\ paidSum' = paidSum + amount
      BY <1>3, <1>7, <1>12, <1>13
    <2>2. QED
      BY <1>3, <1>4, <1>7, <1>8, <1>9, <2>1
  <1>19. treasury' = Fee * Cardinality(done')
    <2>1. Fee * (Cardinality(done) + 1) = Fee * Cardinality(done) + Fee
      BY <1>3, <1>16
    <2>2. QED
      BY <1>4, <1>8, <1>16, <2>1
  <1>20. QED
    BY <1>4, <1>8, <1>10, <1>11, <1>14, <1>17, <1>18, <1>19 DEF BInv, BegunFirst, trades

(* The steps of a request that only read, refuse, throw or answer. *)
LEMMA ReadsKeepBooks ==
  ASSUME BInv, NEW r \in Request,
         \/ Refused(r) \/ FinalizeReads(r) \/ Answers(r) \/ Throws(r)
         \/ At(r, "commit") /\ (locked < TotalOf(r) \/ r \in used) /\ Refuses(r)
  PROVE  BInv'
  <1>0. TypeOK /\ threw \in SUBSET Request
    BY DEF BInv, TypeOK
  <1>1. /\ UNCHANGED <<mock, configured, wallet, treasury, used, rows, page, unheard>>
        /\ threw' = threw \/ (Throws(r) /\ threw' = threw \cup {r})
        /\ threw' \in SUBSET Request /\ threw \subseteq threw'
    BY <1>0 DEF Refused, Refuses, FinalizeReads, Answers, Throws, history
  <1>2. CASE Refused(r)
    <2>1. Ends(r, "error") /\ rows[r] = NoRow
      BY <1>2 DEF Refused, Refuses, BInv, InOrder
    <2>2. QED
      BY <1>1, <2>1, RequestMoves DEF Step
  <1>3. CASE FinalizeReads(r)
    <2>1. BInv /\ TypeOK
      BY DEF BInv
    <2>2. CASE rows[r].status # "PENDING"
      BY <1>1, <1>3, <2>2, RequestMoves DEF FinalizeReads, Step
    <2>3. CASE rows[r].status = "PENDING" /\ configured
      BY <1>1, <1>3, <2>3, RequestMoves DEF FinalizeReads, Step, Rows
    <2>4. CASE rows[r].status = "PENDING" /\ ~configured
      <3>1. Excused(r)
        BY <1>3, <2>4 DEF FinalizeReads, Excused, NoTreasury, Rows, BInv, InOrder
      <3>2. QED
        BY <1>1, <1>3, <2>4, <3>1, RequestMoves DEF FinalizeReads, Step
    <2>5. QED
      BY <2>2, <2>3, <2>4
  <1>4. CASE Answers(r)
    BY <1>1, <1>4, RequestMoves DEF Answers, Step
  <1>5. CASE Throws(r)
    <2>1. Ends(r, "error") /\ r \in threw'
      BY <1>5 DEF Throws
    <2>2. QED
      BY <1>1, <2>1, RequestMoves DEF Step
  <1>6. CASE At(r, "commit") /\ (locked < TotalOf(r) \/ r \in used) /\ Refuses(r)
    <2>1. locked \in Nat /\ TotalOf(r) \in Nat
      BY <1>0, PartsAreInt DEF TypeOK, PartsInt
    <2>2. Excused(r)
      BY <1>6, <2>1, CommitFinds DEF Excused
    <2>3. Ends(r, "error")
      BY <1>6 DEF Refuses
    <2>4. QED
      BY <1>1, <2>2, <2>3, RequestMoves DEF Step
  <1>7. QED
    BY <1>2, <1>3, <1>4, <1>5, <1>6

(* The escrow of trades is another part of the same locked balance. *)
LEMMA TradesKeepBooks ==
  ASSUME BInv, NEW t \in Trade, Escrows(t) \/ SettlesTrade(t)
  PROVE  BInv'
  <1> DEFINE heldSum == SumFunctionOnSet(Held, Request)
             paidSum == SumFunctionOnSet(PaidOut, Request)
             escrow  == SumFunctionOnSet(Escrow, Trade)
  <1>1. UNCHANGED <<mock, configured, treasury, used, rows, req, page, history>>
    BY DEF Escrows, SettlesTrade, TradesMove
  <1>2. TypeOK /\ heldSum \in Nat /\ paidSum \in Nat /\ escrow \in Int
    BY SumsAreNat, EscrowSums DEF BInv, SumsNat, EscrowInt
  <1>3. /\ balance \in Nat /\ locked \in Nat /\ released \in Nat
        /\ treasury \in Nat /\ EscrowAmount \in Nat /\ settled[t] \in Nat
    BY <1>2, WithdrawalAssumption DEF TypeOK
  <1>4. heldSum' = heldSum /\ paidSum' = paidSum /\ Rows("SUCCESS")' = Rows("SUCCESS")
    BY <1>1, RowsSame
  <1>5. locked = escrow + heldSum /\ balance + locked + released + treasury + paidSum = InitialBalance
    BY DEF BInv, LockedIsHeld, NothingLost
  <1>6. /\ balance' \in Nat /\ locked' \in Nat /\ released' \in Nat
        /\ balance' + locked' + released' = balance + locked + released
    BY <1>3 DEF Escrows, SettlesTrade
  <1>7. begun' \subseteq Trade /\ settled' \in [Trade -> Nat]
    BY <1>2, <1>3 DEF Escrows, SettlesTrade, TypeOK
  <1>8. TypeOK'
    BY <1>1, <1>2, <1>6, <1>7 DEF TypeOK, history
  <1>9. \A u \in Trade : u # t => settled'[u] = settled[u] /\ (u \in begun' <=> u \in begun)
    BY <1>2 DEF Escrows, SettlesTrade, TypeOK
  <1>10. escrow' = escrow + Escrow'[t] - Escrow[t]
    BY <1>2, <1>8, <1>9, TradeSums
  <1>11. Escrow'[t] \in Int /\ Escrow[t] \in Int
         /\ locked' = locked + Escrow'[t] - Escrow[t]
    <2>0. Escrow[t] \in Int /\ (Escrow[t] \in Int)'
      <3>1. EscrowInt /\ EscrowInt'
        BY <1>2, <1>8, EscrowSums, PTL
      <3>2. QED
        BY <3>1 DEF EscrowInt
    <2>1. CASE Escrows(t)
      <3>1. settled'[t] = 0
        BY <2>1 DEF Escrows, BInv, BegunFirst
      <3>2. Escrow[t] = 0 /\ Escrow'[t] = EscrowAmount * (1 - 0)
        BY <2>1, <3>1 DEF Escrows, Escrow
      <3>3. QED
        BY <1>3, <2>0, <2>1, <3>2 DEF Escrows
    <2>2. CASE SettlesTrade(t)
      <3>1. settled'[t] = settled[t] + 1 /\ t \in begun /\ t \in begun'
            /\ locked' = locked - EscrowAmount
        BY <1>2, <2>2 DEF SettlesTrade, TypeOK
      <3>2. Escrow[t] = EscrowAmount * (1 - settled[t])
            /\ Escrow'[t] = EscrowAmount * (1 - (settled[t] + 1))
        BY <3>1 DEF Escrow
      <3>3. EscrowAmount * (1 - (settled[t] + 1)) = EscrowAmount * (1 - settled[t]) - EscrowAmount
        BY <1>3
      <3>4. QED
        BY <1>3, <2>0, <3>1, <3>2, <3>3
    <2>3. QED
      BY <2>0, <2>1, <2>2
  <1>12. locked' = escrow' + heldSum'
    <2> HIDE DEF heldSum, escrow
    <2>1. QED
      BY <1>2, <1>3, <1>4, <1>5, <1>10, <1>11
  <1>13. InOrder'
    <2>1. DoubleSettled => DoubleSettled'
      <3>1. \A u \in Trade : settled[u] \in Nat /\ settled'[u] >= settled[u]
        BY <1>2, <1>3, <1>9 DEF Escrows, SettlesTrade, TypeOK
      <3>2. QED
        BY <1>2, <1>8, <3>1 DEF DoubleSettled, TypeOK
    <2>2. \A q \in Request : Excused(q) => Excused(q)'
      BY <1>1, <2>1, ExcusesStay DEF history
    <2>3. QED
      BY <1>1, <1>7, <2>2 DEF BInv, InOrder, At, Rows
  <1>14. NothingLost'
    <2>1. balance' + locked' + released' + treasury' + paidSum' = InitialBalance
      <3> HIDE DEF heldSum, paidSum, escrow
      <3>1. QED
        BY <1>1, <1>2, <1>3, <1>4, <1>5, <1>6
    <2>2. QED
      BY <1>1, <1>4, <2>1 DEF BInv, NothingLost
  <1>15. BegunFirst'
    BY <1>2 DEF Escrows, SettlesTrade, TypeOK, BInv, BegunFirst
  <1>16. QED
    BY <1>8, <1>12, <1>13, <1>14, <1>15 DEF BInv, LockedIsHeld

(* When the server stops, its requests are not taken up again. *)
LEMMA StopsKeepsBooks ==
  ASSUME BInv, Stops
  PROVE  BInv'
  <1>1. UNCHANGED <<mock, configured, wallet, treasury, used, rows, page>> /\ TypeOK
    BY DEF Stops, BInv
  <1>2. \A r \in Request : req'[r] = req[r] \/ req'[r] = [step |-> "stopped", amount |-> 0]
    BY DEF Stops
  <1>3. req' \in [Request -> [step : Step, amount : Amount \cup {0}]]
    BY <1>1 DEF Stops, TypeOK, Step
  <1>4. TypeOK'
    BY <1>1, <1>3 DEF TypeOK, Stops, wallet, trades
  <1>5. InOrder'
    <2>1. \A r \in Request : Excused(r) => Excused(r)'
      BY <1>1, TradesSame, ExcusesStay DEF Stops, wallet
    <2>2. QED
      BY <1>1, <1>2, <2>1 DEF BInv, InOrder, At, Rows
  <1>6. QED
    BY <1>1, <1>4, <1>5, QuietKeepsBooks

(* The request a page waits for, or was told of last, is its latest one. *)
LEMMA AwaitedIsLatest ==
  ASSUME TypeOK, Visits, NEW p \in Page, page[p].step # "form"
  PROVE  /\ Awaited(p) \in Request /\ Latest(p, Awaited(p))
         /\ \A r \in Request : Latest(p, r) => r = Awaited(p)
  <1>1. PICK r \in Request : Latest(p, r)
    BY DEF Visits
  <1>2. page[p].sent \subseteq Request
    BY DEF TypeOK
  <1>3. \E q \in page[p].sent : \A z \in page[p].sent : z <= q
    BY <1>1 DEF Latest
  <1>4. Awaited(p) \in page[p].sent /\ \A q \in page[p].sent : q <= Awaited(p)
    BY <1>3 DEF Awaited
  <1>5. \A z \in page[p].sent : z \in Nat
    BY <1>2, RequestsFinite
  <1>6. QED
    BY <1>2, <1>4, <1>5 DEF Latest

(* The steps of the page do not touch the books. *)
LEMMA PageKeepsBooks ==
  ASSUME BInv, PInv, NEW p \in Page, Opens(p) \/ Told(p) \/ GivesUp(p)
  PROVE  BInv'
  <1>1. UNCHANGED <<mock, configured, wallet, treasury, used, rows, req>> /\ TypeOK
    BY DEF Opens, Told, GivesUp, BInv
  <1>2. page' \in [Page -> [step : {"form", "busy", "done", "error"}, shown : Nat,
                            sent : SUBSET Request]]
    <2>1. page[p] \in [step : {"form", "busy", "done", "error"}, shown : Nat,
                       sent : SUBSET Request]
      BY <1>1 DEF TypeOK
    <2>2. CASE Opens(p)
      <3>1. PICK shown \in {0, balance} :
              page' = [page EXCEPT ![p] = [step |-> "form", shown |-> shown, sent |-> {}]]
        BY <2>2 DEF Opens
      <3>2. shown \in Nat
        BY <1>1 DEF TypeOK
      <3>3. QED
        BY <1>1, <3>1, <3>2 DEF TypeOK
    <2>3. CASE Told(p) \/ GivesUp(p)
      <3>1. PICK step \in {"done", "error"} : page' = [page EXCEPT ![p].step = step]
        BY <2>3 DEF Told, GivesUp
      <3>2. [page[p] EXCEPT !.step = step]
              \in [step : {"form", "busy", "done", "error"}, shown : Nat, sent : SUBSET Request]
        BY <2>1
      <3>3. QED
        BY <1>1, <3>1, <3>2 DEF TypeOK
    <2>4. QED
      BY <2>2, <2>3
  <1>3. unheard' \subseteq Request
    <2>1. CASE GivesUp(p)
      <3>1. page[p].step # "form" /\ Visits
        BY <2>1 DEF GivesUp, PInv
      <3>2. Awaited(p) \in Request
        BY <1>1, <3>1, AwaitedIsLatest
      <3>3. QED
        BY <1>1, <2>1, <3>2 DEF GivesUp, TypeOK
    <2>2. CASE ~GivesUp(p)
      BY <1>1, <2>2 DEF Opens, Told, TypeOK, history
    <2>3. QED
      BY <2>1, <2>2
  <1>4. TypeOK' /\ UNCHANGED threw
    <2>1. UNCHANGED threw
      BY DEF Opens, Told, GivesUp, history
    <2>2. QED
      BY <1>1, <1>2, <1>3, <2>1 DEF TypeOK, wallet, trades
  <1>5. InOrder'
    <2>1. UNCHANGED threw
      BY <1>4
    <2>2. \A r \in Request : Excused(r) => Excused(r)'
      BY <1>1, <2>1, TradesSame, ExcusesStay DEF wallet
    <2>3. QED
      BY <1>1, <2>2 DEF BInv, InOrder, At, Rows
  <1>6. QED
    BY <1>1, <1>4, <1>5, QuietKeepsBooks

\* A page sends a request; no money moves.
LEMMA SubmitKeepsBooks ==
  ASSUME BInv, NEW p \in Page, NEW r \in Request, NEW a \in Amount, Submit(p, r, a)
  PROVE  BInv'
  <1> DEFINE entry == [step |-> "sent", amount |-> a]
             shows == [page[p] EXCEPT !.step = "busy", !.sent = @ \cup {r}]
  <1>1. /\ TypeOK
        /\ UNCHANGED <<mock, configured, wallet, treasury, used, rows, history>>
        /\ At(r, "none") /\ req' = [req EXCEPT ![r] = entry]
    BY DEF Submit, BInv
  <1>2. page' = [page EXCEPT ![p] = shows]
        /\ shows \in [step : {"form", "busy", "done", "error"}, shown : Nat,
                      sent : SUBSET Request]
    <2>1. page[p] \in [step : {"form", "busy", "done", "error"}, shown : Nat,
                       sent : SUBSET Request]
      BY <1>1 DEF TypeOK
    <2>2. QED
      BY <1>1, <2>1 DEF Submit, TypeOK
  <1>3. TypeOK'
    <2>1. page' \in [Page -> [step : {"form", "busy", "done", "error"}, shown : Nat,
                              sent : SUBSET Request]]
      BY <1>1, <1>2 DEF TypeOK
    <2>2. req' \in [Request -> [step : Step, amount : Amount \cup {0}]]
      BY <1>1 DEF TypeOK, Step
    <2>3. QED
      BY <1>1, <2>1, <2>2 DEF TypeOK, wallet, trades, history
  <1>4. /\ req'[r] = entry /\ \A q \in Request : q # r => req'[q] = req[q]
    BY <1>1 DEF TypeOK
  <1>5. InOrder'
    <2>1. \A q \in Request : Excused(q) => Excused(q)'
      BY <1>1, TradesSame, ExcusesStay DEF wallet, history
    <2>2. QED
      BY <1>1, <1>4, <2>1 DEF BInv, InOrder, At, Rows
  <1>6. QED
    BY <1>1, <1>3, <1>5, QuietKeepsBooks

-----------------------------------------------------------------------------
(* The page's visits. *)

\* No page has sent anything yet.
LEMMA VisitsInit == Init => PInv
  BY DEF Init, PInv, Numbered, Visits, At

(* A request goes on in the server: begun ones stay begun, told ones told. *)
ServerKeeps ==
    /\ UNCHANGED page
    /\ unheard \subseteq unheard'
    /\ \A r \in Request : /\ At(r, "none")' <=> At(r, "none")
                          /\ At(r, "error") => At(r, "error")'

\* What the server does goes on in the server.
LEMMA ServerSteps ==
  ASSUME TypeOK,
         \/ Stops
         \/ \E r \in Request : Serves(r) \/ Throws(r)
         \/ \E t \in Trade : Escrows(t) \/ SettlesTrade(t)
  PROVE  ServerKeeps
  <1>1. CASE Stops
    BY <1>1 DEF Stops, ServerKeeps, Served, At
  <1>2. CASE \E t \in Trade : Escrows(t) \/ SettlesTrade(t)
    BY <1>2 DEF Escrows, SettlesTrade, TradesMove, history, ServerKeeps, At
  <1>3. ASSUME NEW r \in Request, Serves(r) \/ Throws(r)
        PROVE  ServerKeeps
    <2>1. PICK step \in {"finalize", "commit", "reread", "ok", "error"} :
            Goes(r, step) \/ Ends(r, step)
      BY <1>3 DEF Serves, Refused, Lock, FinalizeReads, Finalizes, Answers, Refuses, Pays,
         AfterLock, Throws
    <2>2. /\ req'[r].step = step
          /\ \A q \in Request : q # r => req'[q] = req[q]
      BY <2>1 DEF TypeOK, Goes, Ends
    <2>3. req[r].step \in {"sent", "finalize", "commit", "reread"}
      BY <1>3 DEF Serves, Refused, Lock, FinalizeReads, Finalizes, Answers, Throws, Served, At
    <2>4. UNCHANGED <<page, unheard>>
      BY <1>3 DEF Serves, Refused, Lock, FinalizeReads, Finalizes, Answers, Refuses, Pays,
         Throws, history
    <2>5. QED
      BY <2>2, <2>3, <2>4 DEF ServerKeeps, At
  <1>4. QED
    BY <1>1, <1>2, <1>3

\* It leaves what each visit has sent as it is.
LEMMA ServerKeepsVisits ==
  ASSUME TypeOK, PInv, ServerKeeps
  PROVE  PInv'
  <1>1. Numbered'
    BY DEF PInv, Numbered, ServerKeeps
  <1>2. \A p \in Page : page[p].sent \subseteq Request
    BY DEF TypeOK
  <1>3. Visits'
    BY <1>2 DEF PInv, Visits, ServerKeeps, Latest
  <1>4. QED
    BY <1>1, <1>3 DEF PInv

(* The page opens, shows an answer, or gives up. *)
LEMMA PageKeepsVisits ==
  ASSUME TypeOK, PInv, NEW p \in Page, Opens(p) \/ Told(p) \/ GivesUp(p)
  PROVE  PInv'
  <1>1. UNCHANGED req /\ unheard \subseteq unheard'
        /\ \A q \in Page : q # p => page'[q] = page[q]
    BY DEF Opens, Told, GivesUp, TypeOK, history
  <1>2. Numbered'
    BY <1>1 DEF PInv, Numbered, At
  <1>3. ASSUME NEW q \in Page, q # p
        PROVE  /\ page'[q].step = "form" => page'[q].sent = {}
               /\ page'[q].step # "form" => \E r \in Request : Latest(q, r)'
               /\ \A r \in page'[q].sent :
                    /\ ~At(r, "none")'
                    /\ \/ Latest(q, r)' /\ page'[q].step # "error"
                       \/ At(r, "error")'
                       \/ r \in unheard'
    BY <1>1, <1>3 DEF PInv, Visits, Latest, At
  <1>4. CASE Opens(p)
    <2>1. page'[p].step = "form" /\ page'[p].sent = {}
      BY <1>4 DEF Opens, TypeOK
    <2>2. QED
      BY <1>2, <1>3, <2>1 DEF PInv, Visits
  <1>5. CASE Told(p) \/ GivesUp(p)
    <2>1. PICK step \in {"done", "error"} : page' = [page EXCEPT ![p].step = step]
      BY <1>5 DEF Told, GivesUp
    <2>2. page[p] \in [step : {"form", "busy", "done", "error"}, shown : Nat,
                       sent : SUBSET Request]
      BY DEF TypeOK
    <2>3. page'[p].step = step /\ page'[p].sent = page[p].sent
      BY <2>1, <2>2 DEF TypeOK
    <2>4. page[p].step = "busy" /\ Visits
      BY <1>5 DEF Told, GivesUp, PInv
    <2>5. /\ Awaited(p) \in Request /\ Latest(p, Awaited(p))
          /\ \A r \in Request : Latest(p, r) => r = Awaited(p)
      BY <2>4, AwaitedIsLatest
    <2>6. step = "error" => At(Awaited(p), "error") \/ Awaited(p) \in unheard'
      BY <1>5, <2>1, <2>2, <2>3, <2>4 DEF Told, GivesUp, At
    <2>7. \A r \in Request : Latest(p, r)' <=> Latest(p, r)
      BY <2>3 DEF Latest
    <2>8. ASSUME NEW r \in page'[p].sent
          PROVE  /\ ~At(r, "none")'
                 /\ \/ Latest(p, r)' /\ page'[p].step # "error"
                    \/ At(r, "error")'
                    \/ r \in unheard'
      <3>1. /\ r \in Request /\ ~At(r, "none")
            /\ Latest(p, r) \/ At(r, "error") \/ r \in unheard
        BY <2>2, <2>3, <2>4 DEF Visits
      <3>2. QED
        BY <1>1, <2>3, <2>5, <2>6, <2>7, <3>1 DEF At
    <2>9. QED
      BY <1>2, <1>3, <2>3, <2>5, <2>7, <2>8 DEF PInv, Visits
  <1>6. QED
    BY <1>4, <1>5

(* A new request of a page comes after all others. *)
LEMMA SubmitKeepsVisits ==
  ASSUME TypeOK, PInv, NEW p \in Page, NEW r \in Request, NEW a \in Amount, Submit(p, r, a)
  PROVE  PInv'
  <1>1. /\ req' = [req EXCEPT ![r] = [step |-> "sent", amount |-> a]]
        /\ At(r, "none") /\ \A q \in 1..(r - 1) : ~At(q, "none")
        /\ page' = [page EXCEPT ![p].step = "busy", ![p].sent = @ \cup {r}]
        /\ page[p].step \in {"form", "error"} /\ UNCHANGED unheard
    BY DEF Submit, CanConfirm, history
  <1>2. page[p] \in [step : {"form", "busy", "done", "error"}, shown : Nat,
                     sent : SUBSET Request]
    BY DEF TypeOK
  <1>3. /\ page'[p].step = "busy" /\ page'[p].sent = page[p].sent \cup {r}
        /\ \A q \in Page : q # p => page'[q] = page[q]
    BY <1>1, <1>2 DEF TypeOK
  <1>4. /\ req'[r].step = "sent" /\ \A q \in Request : q # r => req'[q] = req[q]
    BY <1>1 DEF TypeOK
  <1>5. \A q \in Request : q < r => ~At(q, "none")
    BY <1>1 DEF Request
  <1>6. \A q \in Request : ~At(q, "none") => q < r
    BY <1>1, RequestsFinite DEF PInv, Numbered
  <1>7. Numbered'
    BY <1>4, <1>5, <1>6, RequestsFinite DEF PInv, Numbered, At
  <1>8. ASSUME NEW q \in Page, q # p
        PROVE  /\ page'[q].step = "form" => page'[q].sent = {}
               /\ page'[q].step # "form" => \E z \in Request : Latest(q, z)'
               /\ \A z \in page'[q].sent :
                    /\ ~At(z, "none")'
                    /\ \/ Latest(q, z)' /\ page'[q].step # "error"
                       \/ At(z, "error")'
                       \/ z \in unheard'
    <2>1. page'[q] = page[q] /\ page[q].sent \subseteq Request
      BY <1>3, <1>8 DEF TypeOK
    <2>2. \A z \in Request : /\ ~At(z, "none") => ~At(z, "none")'
                             /\ At(z, "error") => At(z, "error")'
      BY <1>1, <1>4 DEF At
    <2>3. QED
      BY <1>1, <2>1, <2>2 DEF PInv, Visits, Latest
  <1>9. \A z \in page[p].sent : /\ z \in Request /\ z < r /\ ~At(z, "none")
                                /\ At(z, "error") \/ z \in unheard
    BY <1>1, <1>2, <1>6 DEF PInv, Visits
  <1>10. Latest(p, r)'
    BY <1>3, <1>9, RequestsFinite DEF Latest
  <1>11. \A z \in page'[p].sent : /\ ~At(z, "none")'
                                  /\ \/ Latest(p, z)' /\ page'[p].step # "error"
                                     \/ At(z, "error")'
                                     \/ z \in unheard'
    BY <1>1, <1>3, <1>4, <1>9, <1>10, RequestsFinite DEF At
  <1>12. QED
    BY <1>3, <1>7, <1>8, <1>10, <1>11 DEF PInv, Visits

-----------------------------------------------------------------------------

(* The books and the visits stay in order in every step. *)
LEMMA NextKeeps == BInv /\ PInv /\ [Next]_vars => BInv' /\ PInv'
  <1> SUFFICES ASSUME BInv, PInv, [Next]_vars PROVE BInv' /\ PInv'
    OBVIOUS
  <1>0. TypeOK
    BY DEF BInv
  <1>1. CASE UNCHANGED vars
    <2>1. BInv'
      <3>1. TypeOK' /\ InOrder'
        BY <1>1 DEF vars, wallet, trades, history, BInv, TypeOK, InOrder, At, Rows, Excused,
           NoTreasury, DoubleSettled
      <3>2. QED
        BY <1>1, <3>1, QuietKeepsBooks DEF vars
    <2>2. ServerKeeps
      BY <1>1 DEF vars, history, ServerKeeps, At
    <2>3. QED
      BY <1>0, <2>1, <2>2, ServerKeepsVisits
  <1>2. ASSUME NEW p \in Page, Opens(p) \/ Told(p) \/ GivesUp(p)
        PROVE  BInv' /\ PInv'
    BY <1>0, <1>2, PageKeepsBooks, PageKeepsVisits
  <1>3. ASSUME NEW p \in Page, NEW r \in Request, NEW a \in Amount, Submit(p, r, a)
        PROVE  BInv' /\ PInv'
    BY <1>0, <1>3, SubmitKeepsBooks, SubmitKeepsVisits
  <1>4. ASSUME NEW r \in Request, Serves(r) \/ Throws(r)
        PROVE  BInv' /\ PInv'
    <2>1. BInv'
      <3>1. CASE Finalizes(r)
        <4>1. CASE locked < TotalOf(r) \/ r \in used
          BY <3>1, <4>1, ReadsKeepBooks DEF Finalizes
        <4>2. CASE ~(locked < TotalOf(r) \/ r \in used)
          <5>1. Pays(r)
            BY <3>1, <4>2 DEF Finalizes
          <5>2. locked >= TotalOf(r)
            BY <1>0, <4>2, PartsAreInt DEF TypeOK, PartsInt
          <5>3. QED
            BY <3>1, <5>1, <5>2, CommitKeepsBooks
        <4>3. QED
          BY <4>1, <4>2
      <3>2. CASE ~Finalizes(r)
        BY <1>4, <3>2, ReadsKeepBooks, LockKeepsBooks DEF Serves
      <3>3. QED
        BY <3>1, <3>2
    <2>2. PInv'
      BY <1>0, <1>4, ServerSteps, ServerKeepsVisits
    <2>3. QED
      BY <2>1, <2>2
  <1>5. CASE Stops
    BY <1>0, <1>5, StopsKeepsBooks, ServerSteps, ServerKeepsVisits
  <1>6. ASSUME NEW t \in Trade, Escrows(t) \/ SettlesTrade(t)
        PROVE  BInv' /\ PInv'
    BY <1>0, <1>6, TradesKeepBooks, ServerSteps, ServerKeepsVisits
  <1>7. QED
    BY <1>1, <1>2, <1>3, <1>4, <1>5, <1>6 DEF Next

(* The inductive invariant holds in every reachable state. *)
THEOREM WithdrawalsInvariance == Spec => [](BInv /\ PInv)
  BY BooksInit, VisitsInit, NextKeeps, PTL DEF Spec

(* The books balance, whatever the tabs, the lost answers, the stops, the  *)
(* statements that throw and the trades of the user do, one that is settled *)
(* twice among them (requestCryptoWithdrawal, finalizeWithdrawSuccess).     *)
THEOREM BooksBalanceHolds == Spec => []BooksBalance
  <1>1. BInv => BooksBalance
    BY DEF BInv, BooksBalance
  <1>2. QED
    BY <1>1, WithdrawalsInvariance, PTL

\* What Finalizes needs: the lock covers the row, and the txid is unused.
CommitsPay ==
    \A r \in Request :
        At(r, "commit") => (locked >= TotalOf(r) \/ DoubleSettled) /\ r \notin used

(* A request about to commit finds its txid unused, and all it needs of     *)
(* what is locked, unless a trade of the user was settled twice: only then  *)
(* can LOCK_MISMATCH of finalizeWithdrawSuccess occur.                      *)
THEOREM CommitsPayHolds == Spec => []CommitsPay
  <1>1. BInv => CommitsPay
    BY CommitFinds DEF CommitsPay
  <1>2. QED
    BY <1>1, WithdrawalsInvariance, PTL

(* A page that shows an error, of a request that was heard and none of      *)
(* whose statements threw, has withdrawn nothing: it has no row, or a row   *)
(* that is not paid, for want of a treasury or of what is locked.           *)
THEOREM ErrorMeansNothingHolds == Spec => []ErrorMeansNothing
  <1>1. BInv /\ PInv => ErrorMeansNothing
    <2> SUFFICES ASSUME BInv, PInv, NEW p \in Page, page[p].step = "error"
                 PROVE  \/ rows[Awaited(p)] = NoRow
                        \/ Awaited(p) \in unheard \cup threw
                        \/ Awaited(p) \in Rows("PENDING") /\ (NoTreasury \/ DoubleSettled)
      BY DEF ErrorMeansNothing
    <2>1. Awaited(p) \in Request /\ Awaited(p) \in page[p].sent
      BY AwaitedIsLatest DEF BInv, PInv, Latest
    <2>2. At(Awaited(p), "error") \/ Awaited(p) \in unheard
      BY <2>1 DEF PInv, Visits
    <2>3. QED
      BY <2>1, <2>2 DEF BInv, InOrder, Excused
  <1>2. QED
    BY <1>1, WithdrawalsInvariance, PTL

(* One visit to the page makes one withdrawal, with the same exceptions.    *)
THEOREM OnePerVisitHolds == Spec => []OnePerVisit
  <1>1. BInv /\ PInv => OnePerVisit
    <2> DEFINE made(p) == {r \in page[p].sent \ (unheard \cup threw) : rows[r] # NoRow}
    <2> SUFFICES ASSUME BInv, PInv, NEW p \in Page, ~(NoTreasury \/ DoubleSettled)
                 PROVE  Cardinality(made(p)) <= 1
      BY DEF OnePerVisit
    <2>1. page[p].sent \subseteq Request
      BY DEF BInv, TypeOK
    <2>2. \A r \in made(p) : Latest(p, r)
      BY <2>1 DEF PInv, Visits, BInv, InOrder, Excused
    <2>3. made(p) \subseteq {Awaited(p)}
      <3>1. CASE page[p].step = "form"
        BY <3>1 DEF PInv, Visits
      <3>2. CASE page[p].step # "form"
        BY <2>1, <2>2, <3>2, AwaitedIsLatest DEF BInv, PInv
      <3>3. QED
        BY <3>1, <3>2
    <2>4. Cardinality({Awaited(p)}) = 1 /\ IsFiniteSet({Awaited(p)})
      BY FS_Singleton
    <2>5. QED
      <3> HIDE DEF made
      <3>1. QED
        BY <2>3, <2>4, FS_Subset
  <1>2. QED
    BY <1>1, WithdrawalsInvariance, PTL

=============================================================================
