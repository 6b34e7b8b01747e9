--------------------------- MODULE CryptoWithdrawal ---------------------------
(***************************************************************************)
(* Withdrawing USDT to an address of one's own: requestCryptoWithdrawal    *)
(* and finalizeWithdrawSuccess of crypto-withdrawal.service, and the page  *)
(* wallet/crypto/withdraw that calls them, open in several tabs of a user. *)
(*                                                                         *)
(* A request locks amount and fee and creates a PENDING row in one         *)
(* transaction.  When the exchange is mocked it then finalizes: reads the  *)
(* row and the treasury's account, and in a second transaction burns what  *)
(* is locked, credits the fee and marks the row SUCCESS.  Nothing takes up *)
(* a row later: the code that fails one (failCryptoWithdrawal) and the     *)
(* payout that is not mocked are not called from anywhere.                 *)
(*                                                                         *)
(* The row of request r is rows[r].  The wallet's locked balance also      *)
(* holds the escrow of the user's trades, whose handlers are those of      *)
(* P2PEscrow: here they lock, release and give back some amount, and as    *)
(* there a trade can be contested once it is settled, and settled again.   *)
(* Only calls that lock the wallet's row are here; what the others lose is *)
(* WalletLedger's.  The treasury is another user: of its wallet, which is  *)
(* credited by a call of that other kind, only the entries are modelled.   *)
(* Addresses, networks and the texts of errors are left out; a txid is     *)
(* taken from the row's id, and is that id here.                           *)
(***************************************************************************)
EXTENDS Integers, FiniteSets, Functions

CONSTANTS
    Page,           \* tabs that show the page
    Amount,         \* amounts that users type in
    MinNet,         \* CRYPTO_MIN_NET_USDT
    Fee,            \* CRYPTO_SERVICE_FEE_USDT
    InitialBalance,
    Trade,          \* trades that the user sells in
    EscrowAmount,   \* of one trade
    MaxRequests,    \* bound
    MaxSettlements  \* bound: settlements of one trade

ASSUME WithdrawalAssumption ==
    /\ Amount \subseteq Nat \ {0}
    /\ MinNet \in Nat /\ Fee \in Nat /\ InitialBalance \in Nat
    /\ EscrowAmount \in Nat /\ MaxRequests \in Nat
    /\ IsFiniteSet(Trade)

Request == 1..MaxRequests

VARIABLES
    mock,       \* CRYPTO_WITHDRAW_CEX_MOCK
    configured, \* the environment names the account that collects fees
    balance, locked, \* the user's wallet
    begun,      \* trades whose escrow was locked
    settled,    \* how often each was settled
    released,   \* what trades have handed to their buyers
    treasury,   \* CRYPTO_WITHDRAW_FEE entries of this user's withdrawals
    used,       \* UsedOnchainTxid
    rows,       \* CryptoOnchainWithdrawal
    req,        \* requests in the server
    page,
    unheard,    \* history: requests whose answer the page did not get to see
    threw       \* history: requests one of whose statements threw

trades == <<begun, settled, released>>
wallet == <<balance, locked, trades>>
history == <<unheard, threw>>
vars == <<mock, configured, wallet, treasury, used, rows, req, page, history>>

NoRow == [status |-> "none", amount |-> 0, fee |-> 0]
Row   == [status : {"PENDING", "SUCCESS"}, amount : Amount, fee : {Fee}]
Step  == {"none", "sent", "finalize", "commit", "reread", "ok", "error", "stopped"}

TypeOK ==
    /\ mock \in BOOLEAN /\ configured \in BOOLEAN
    /\ balance \in Nat /\ locked \in Nat /\ released \in Nat
    /\ begun \subseteq Trade /\ settled \in [Trade -> Nat]
    /\ treasury \in Nat
    /\ used \subseteq Request
    /\ rows \in [Request -> Row \cup {NoRow}]
    /\ req \in [Request -> [step : Step, amount : Amount \cup {0}]]
    /\ page \in [Page -> [step : {"form", "busy", "done", "error"}, shown : Nat,
                          sent : SUBSET Request]]
    /\ unheard \subseteq Request /\ threw \subseteq Request

Init ==
    /\ mock \in BOOLEAN /\ configured \in BOOLEAN
    /\ balance = InitialBalance /\ locked = 0 /\ released = 0
    /\ begun = {} /\ settled = [t \in Trade |-> 0]
    /\ treasury = 0 /\ used = {}
    /\ rows = [r \in Request |-> NoRow]
    /\ req = [r \in Request |-> [step |-> "none", amount |-> 0]]
    /\ page = [p \in Page |-> [step |-> "form", shown |-> 0, sent |-> {}]]
    /\ unheard = {} /\ threw = {}

At(r, step)   == req[r].step = step
Goes(r, step) == req' = [req EXCEPT ![r].step = step]
Ends(r, step) == req' = [req EXCEPT ![r] = [step |-> step, amount |-> 0]]

TotalOf(r) == rows[r].amount + rows[r].fee

-----------------------------------------------------------------------------
(* The page. *)

\* The request that a busy page waits for.
Awaited(p) == CHOOSE r \in page[p].sent : \A q \in page[p].sent : q <= r

\* The balance is read when the page opens, and is "0" if that fails.
Opens(p) ==
    /\ page[p].step # "busy"
    /\ \E shown \in {0, balance} :
         page' = [page EXCEPT ![p] = [step |-> "form", shown |-> shown, sent |-> {}]]
    /\ UNCHANGED <<mock, configured, wallet, treasury, used, rows, req, history>>

\* canReview: the page does not look at the minimum.
CanReview(p, a) == page[p].shown >= a + Fee

\* Mutant: the button is not disabled while a request is under way.
CanConfirmAgain(p) == page[p].step \in {"form", "busy", "error"}

\* After an error the dialog is still open.
CanConfirm(p) == page[p].step \in {"form", "error"}

Submit(p, r, a) ==
    /\ CanConfirm(p) /\ CanReview(p, a)
    /\ At(r, "none") /\ \A q \in 1..(r - 1) : ~At(q, "none")
    /\ req' = [req EXCEPT ![r] = [step |-> "sent", amount |-> a]]
    /\ page' = [page EXCEPT ![p].step = "busy", ![p].sent = @ \cup {r}]
    /\ UNCHANGED <<mock, configured, wallet, treasury, used, rows, history>>

\* An answer is shown; a row that is still PENDING is shown as a success.
Told(p) ==
    /\ page[p].step = "busy" /\ req[Awaited(p)].step \in {"ok", "error"}
    /\ page' = [page EXCEPT ![p].step = IF At(Awaited(p), "ok") THEN "done" ELSE "error"]
    /\ UNCHANGED <<mock, configured, wallet, treasury, used, rows, req, history>>

\* The answer does not come in 60 seconds, or is lost: an error, whatever the
\* server has done or is about to do.
GivesUp(p) ==
    /\ page[p].step = "busy"
    /\ page' = [page EXCEPT ![p].step = "error"]
    /\ unheard' = unheard \cup {Awaited(p)}
    /\ UNCHANGED <<mock, configured, wallet, treasury, used, rows, req, threw>>

-----------------------------------------------------------------------------
(* The server. *)

Refuses(r) ==
    /\ Ends(r, "error")
    /\ UNCHANGED <<mock, configured, wallet, treasury, used, rows, page, history>>

Covers(r) == balance >= req[r].amount + Fee

\* BELOW_MIN_WITHDRAW, INSUFFICIENT_FUNDS.
Refused(r) ==
    /\ At(r, "sent")
    /\ req[r].amount < MinNet \/ ~Covers(r)
    /\ Refuses(r)

\* Mutant: the answer does not wait for the payout.
AnswerFirst == "reread"

AfterLock == IF mock THEN "finalize" ELSE "reread"

\* The row and the lock, in one transaction.
Lock(r) ==
    LET total == req[r].amount + Fee IN
    /\ At(r, "sent")
    /\ req[r].amount >= MinNet /\ Covers(r)
    /\ rows' = [rows EXCEPT ![r] = [status |-> "PENDING", amount |-> req[r].amount, fee |-> Fee]]
    /\ balance' = balance - total /\ locked' = locked + total
    /\ Goes(r, AfterLock)
    /\ UNCHANGED <<mock, configured, trades, treasury, used, page, history>>

\* finalizeWithdrawSuccess reads the row and looks up the treasury.
\* PLATFORM_FEES_TREASURY_NOT_CONFIGURED: the row and the lock remain.
FinalizeReads(r) ==
    /\ At(r, "finalize")
    /\ IF rows[r].status # "PENDING" THEN Goes(r, "reread")
       ELSE IF configured THEN Goes(r, "commit") ELSE Ends(r, "error")
    /\ UNCHANGED <<mock, configured, wallet, treasury, used, rows, page, history>>

\* Mutant: only the net amount leaves what is locked.
BurnsNet(r) == locked' = locked - rows[r].amount

Burns(r) == locked' = locked - TotalOf(r)

Pays(r) ==
    /\ Burns(r)
    /\ treasury' = treasury + rows[r].fee
    /\ rows' = [rows EXCEPT ![r].status = "SUCCESS"]
    /\ used' = used \cup {r}
    /\ Goes(r, "reread")
    /\ UNCHANGED <<mock, configured, balance, trades, page, history>>

\* LOCK_MISMATCH, or the txid has been used: nothing is written.
Finalizes(r) ==
    /\ At(r, "commit")
    /\ IF locked < TotalOf(r) \/ r \in used THEN Refuses(r) ELSE Pays(r)

\* Mutant: a row that is not paid yet is taken for an error.
AnswersIfPaid(r) ==
    /\ At(r, "reread")
    /\ Ends(r, IF rows[r].status = "SUCCESS" THEN "ok" ELSE "error")
    /\ UNCHANGED <<mock, configured, wallet, treasury, used, rows, page, history>>

\* The row is read again and is the answer.
Answers(r) ==
    /\ At(r, "reread")
    /\ Ends(r, "ok")
    /\ UNCHANGED <<mock, configured, wallet, treasury, used, rows, page, history>>

Served(r) == req[r].step \in {"sent", "finalize", "commit", "reread"}

\* A statement throws: the database is gone, or a transaction takes longer
\* than it may.  Nothing of that transaction is written, what was committed
\* before stays, and the answer is an error.
Throws(r) ==
    /\ Served(r)
    /\ Ends(r, "error")
    /\ threw' = threw \cup {r}
    /\ UNCHANGED <<mock, configured, wallet, treasury, used, rows, page, unheard>>

Serves(r) ==
    \/ Refused(r) \/ Lock(r) \/ FinalizeReads(r)
    \/ Finalizes(r) \/ Answers(r)

\* The process stops, between any two of its steps, and starts again.
Stops ==
    /\ req' = [r \in Request |->
         IF Served(r) THEN [step |-> "stopped", amount |-> 0] ELSE req[r]]
    /\ unheard' = unheard \cup {r \in Request : Served(r)}
    /\ UNCHANGED <<mock, configured, wallet, treasury, used, rows, page, threw>>

TradesMove == UNCHANGED <<mock, configured, treasury, used, rows, req, page, history>>

\* A trade of the user begins.
Escrows(t) ==
    /\ t \notin begun /\ balance >= EscrowAmount
    /\ balance' = balance - EscrowAmount /\ locked' = locked + EscrowAmount
    /\ begun' = begun \cup {t}
    /\ UNCHANGED <<settled, released>>
    /\ TradesMove

\* Its escrow is released to the buyer or given back, by confirmRelease,
\* cancelTrade, the sweeper or an arbitrator; and by an arbitrator again,
\* whatever settlements there were.  All ask only whether so much is locked:
\* ESCROW_MISMATCH otherwise.
SettlesTrade(t) ==
    /\ t \in begun /\ settled[t] < MaxSettlements
    /\ locked >= EscrowAmount
    /\ locked' = locked - EscrowAmount
    /\ settled' = [settled EXCEPT ![t] = @ + 1]
    /\ \/ released' = released + EscrowAmount /\ UNCHANGED balance
       \/ balance' = balance + EscrowAmount /\ UNCHANGED released
    /\ UNCHANGED begun
    /\ TradesMove

Next ==
    \/ \E p \in Page : Opens(p) \/ Told(p) \/ GivesUp(p)
    \/ \E p \in Page, r \in Request, a \in Amount : Submit(p, r, a)
    \/ \E r \in Request : Serves(r) \/ Throws(r)
    \/ Stops
    \/ \E t \in Trade : Escrows(t) \/ SettlesTrade(t)

Spec == Init /\ [][Next]_vars

\* The server goes on with what it has begun, and the page shows an answer
\* or runs into its timeout.
FairSpec ==
    /\ Spec
    /\ \A r \in Request : WF_vars(Serves(r))
    /\ \A p \in Page : WF_vars(Told(p) \/ GivesUp(p))

-----------------------------------------------------------------------------
(* Properties. *)

Rows(status) == {r \in Request : rows[r].status = status}
Held    == [r \in Request |-> IF r \in Rows("PENDING") THEN TotalOf(r) ELSE 0]
PaidOut == [r \in Request |-> IF r \in Rows("SUCCESS") THEN rows[r].amount ELSE 0]

Escrow  == [t \in Trade |-> IF t \in begun THEN EscrowAmount * (1 - settled[t]) ELSE 0]

\* An arbitrator has settled a trade that was settled before.
DoubleSettled == \E t \in Trade : settled[t] > 1

NoTreasury == mock /\ ~configured

\* The wallet's locked balance is what its PENDING withdrawals and its trades
\* hold, and nothing else: a withdrawal that is refused, answered or cut short
\* never takes of what a trade has locked.  What a trade takes when it is
\* settled again is missing from all the others.
LockedIsHeld ==
    locked = SumFunctionOnSet(Escrow, Trade) + SumFunctionOnSet(Held, Request)

\* No USDT is made or lost: what left the wallet is with the buyers of its
\* trades, was paid out by a SUCCESS withdrawal, or is a fee in the treasury,
\* which has exactly one fee for each of these.
NothingLost ==
    /\ balance + locked + released + treasury + SumFunctionOnSet(PaidOut, Request)
         = InitialBalance
    /\ treasury = Fee * Cardinality(Rows("SUCCESS"))
    /\ used = Rows("SUCCESS")

\* Neither a second tab, nor an answer that is lost, nor a stop between the
\* two transactions puts the books out of order.
BooksBalance == TypeOK /\ LockedIsHeld /\ NothingLost

\* An error that a page shows stands for no payment, and even for no row: a
\* row is left behind, PENDING, if nobody has told the server whose account
\* collects the fees or if a trade was settled twice out of what was locked.
\* This is said of requests whose answer was heard and none of whose
\* statements threw: these leave a row, or a payment, behind an error too.
ErrorMeansNothing ==
    \A p \in Page : page[p].step = "error" =>
        \/ rows[Awaited(p)] = NoRow
        \/ Awaited(p) \in unheard \cup threw
        \/ Awaited(p) \in Rows("PENDING") /\ (NoTreasury \/ DoubleSettled)

\* One visit to the page makes one withdrawal, however often the button is
\* pressed, with the same exceptions: only these leave behind a row that the
\* user does not know of, and a second one beside it.
OnePerVisit ==
    \A p \in Page :
        \/ Cardinality({r \in page[p].sent \ (unheard \cup threw) : rows[r] # NoRow}) <= 1
        \/ NoTreasury \/ DoubleSettled

\* Where withdrawals are mocked and the treasury is known, one that is
\* PENDING comes to be SUCCESS, unless the server stopped over it, a
\* statement of it threw, or a trade was settled twice: after these nothing
\* takes it up again.
PendingIsPaid ==
    \A r \in Request :
        rows[r].status = "PENDING" ~>
            \/ rows[r].status = "SUCCESS" \/ ~mock \/ ~configured
            \/ At(r, "stopped") \/ r \in threw \/ DoubleSettled

=============================================================================
