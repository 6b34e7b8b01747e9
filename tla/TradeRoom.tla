------------------------------ MODULE TradeRoom ------------------------------
(***************************************************************************)
(* The trade room: the page of one party to one trade, which shows what it *)
(* has last read, offers the buttons that go with it, and talks to the     *)
(* trade handlers of p2p.service through the calls of Session.  What is    *)
(* written in the chat changes nothing here, and is left out.              *)
(*                                                                         *)
(* A round (refresh) is three calls that are waited for together: any that *)
(* fails drops what the others bring.  Of the trade's, the user's and the  *)
(* messages' call the last two are one here, "others": what they bring     *)
(* never changes, or is text, but they may be late or fail.  Rounds start  *)
(* every 15 seconds and after a click, whether or not others are under     *)
(* way.  The page does not wait for a click to end; one at a time is what  *)
(* is followed here, and it ends as an error if its answer is lost.        *)
(*                                                                         *)
(* The handlers of p2p.service are those of P2PEscrow without the money:   *)
(* a trade is its status, and the number of times it has changed.  Of the  *)
(* seller's locked balance all that is kept is whether it covers the       *)
(* trade's escrow.  Other trades move it either way at any time, as when   *)
(* one of them is settled twice.                                           *)
(***************************************************************************)
EXTENDS Session

CONSTANT
    Round,    \* rounds of the page that may be under way together
    FirstStatus, \* of the trade when the page is opened
    MaxMoves, \* bound: changes of the trade
    MaxServed \* bound: rounds and clicks under way together

VARIABLES
    roomTrade, \* the row: status, changes so far, whether it has a dispute
    covered, \* the seller's lockedBalance >= cryptoAmount
    role,    \* of the page's user
    shown,   \* the state of the page: the trade as it was read
    round,   \* rounds under way
    handled  \* how many times the handler of the click has run

pageVars == <<role, shown, round>>
market == <<roomTrade, covered>>
roomVars == <<sessionVars, market, pageVars, handled>>

Status == {"PENDING", "PAID", "RELEASED", "CANCELLED", "DISPUTED"}
Op     == {"pay", "release", "cancel", "dispute"}

Click == <<0, "click">>
CallsOf(k) == {<<k, "trade">>, <<k, "others">>}
AllCalls == {Click} \cup UNION {CallsOf(k) : k \in Round}

ASSUME TradeRoomAssumption ==
    /\ Call = AllCalls
    /\ Round \subseteq Nat \ {0} /\ IsFiniteSet(Round)
    /\ FirstStatus \subseteq Status
    /\ MaxMoves \in Nat /\ MaxServed \in Nat

NotLoaded == [status |-> "none", version |-> -1]
Seen      == [status : Status, version : 0..MaxMoves]

RoomTypeOK ==
    /\ SessionTypeOK
    /\ roomTrade \in [status : Status, version : 0..MaxMoves, disputed : BOOLEAN]
    /\ covered \in BOOLEAN
    /\ role \in {"buyer", "seller"}
    /\ shown \in Seen \cup {NotLoaded}
    /\ round \subseteq Round
    /\ handled \in 0..2

RoomInit ==
    /\ SessionInit
    /\ roomTrade \in {[status |-> s, version |-> 0, disputed |-> s = "DISPUTED"] : s \in FirstStatus}
    /\ covered \in BOOLEAN
    /\ role \in {"buyer", "seller"}
    /\ shown = NotLoaded
    /\ round = {}
    /\ handled = 0

-----------------------------------------------------------------------------
(* The handlers. *)

\* The statuses that a handler accepts.
Accepts(op) ==
    CASE op = "pay"     -> {"PENDING"}
      [] op = "release" -> {"PAID"}
      [] op = "cancel"  -> {"PENDING"}
      [] op = "dispute" -> {"PENDING", "PAID"}

\* FORBIDDEN otherwise.
MayDo(who) == {"cancel", "dispute"} \cup IF who = "buyer" THEN {"pay"} ELSE {"release"}

Result(op) ==
    CASE op = "pay" -> "PAID" [] op = "release" -> "RELEASED" [] op = "cancel" -> "CANCELLED"

\* ESCROW_MISMATCH unless so much is locked.
TakesEscrow == {"release", "cancel"}

\* What a handler asks of the trade and of the seller's wallet.
Accepted(op) == roomTrade.status \in Accepts(op) /\ (op \in TakesEscrow => covered)

Moves(status) ==
    /\ roomTrade.version < MaxMoves
    /\ roomTrade' = [roomTrade EXCEPT !.status = status, !.version = @ + 1]

\* openDispute commits on what it has read before, whatever became of the
\* trade; there is one dispute per trade.
Disputes ==
    /\ ~roomTrade.disputed
    /\ roomTrade.version < MaxMoves
    /\ roomTrade' = [status |-> "DISPUTED", version |-> roomTrade.version + 1, disputed |-> TRUE]

Other == IF role = "buyer" THEN "seller" ELSE "buyer"

\* The other party, the sweeper, and the staff, who do not look at the trade
\* again when they settle a dispute.
OthersMove ==
    /\ \/ \E op \in MayDo(Other) \ {"dispute"} :
            Accepted(op) /\ Moves(Result(op))
       \/ Disputes
       \/ Accepted("cancel") /\ Moves("CANCELLED")
       \/ roomTrade.disputed /\ covered /\ \E s \in {"RELEASED", "CANCELLED"} : Moves(s)
    /\ UNCHANGED <<sessionVars, covered, pageVars, handled>>

\* The seller's other trades, and what this one took or left.
LockedMoves ==
    /\ covered' = ~covered
    /\ UNCHANGED <<sessionVars, roomTrade, pageVars, handled>>

-----------------------------------------------------------------------------
(* The page. *)

Ends(calls) == [c \in Call |-> IF c \in calls THEN Free ELSE call[c]]

Server == <<tokens, fresh, issued, logins, store, cut>>

Room ==
    Cardinality(round) + (IF call[Click] = Free THEN 0 ELSE 1) < MaxServed

IdleRound(k) ==
    /\ round # Round
    /\ k = CHOOSE j \in Round : j \notin round

\* The calls of a round, and what is known before they answer: nothing.
Starts(k, calls) ==
    /\ round' = round \cup {k}
    /\ call' = [c \in Call |-> IF c \in CallsOf(k) THEN Sent(NotLoaded) ELSE calls[c]]

\* When the page opens, and every 15 seconds.
StartRound(k) ==
    /\ Room /\ IdleRound(k)
    /\ Starts(k, call)
    /\ UNCHANGED <<Server, market, role, shown, handled>>

ServeRound(k, c) ==
    /\ c \in CallsOf(k) /\ Authorized(c)
    /\ call' = [call EXCEPT ![c] = Answered(c,
         IF c = <<k, "trade">> THEN [status |-> roomTrade.status, version |-> roomTrade.version]
         ELSE NotLoaded)]
    /\ UNCHANGED <<Server, market, pageVars, handled>>

\* Promise.all resolves.
ShowRound(k) ==
    /\ k \in round
    /\ \A c \in CallsOf(k) : At(c, "answered")
    /\ shown' = call[<<k, "trade">>].about
    /\ round' = round \ {k}
    /\ call' = Ends(CallsOf(k))
    /\ UNCHANGED <<Server, market, role, handled>>

\* Mutant: a round that has failed is never over.
KeepsRound(k) ==
    /\ k \in round
    /\ \A c \in CallsOf(k) : call[c].step \in {"answered", "failed"}
    /\ \E c \in CallsOf(k) : At(c, "failed")
    /\ call' = Ends(CallsOf(k))
    /\ UNCHANGED <<Server, market, role, shown, round, handled>>

\* It has been rejected, and its last call has ended.
DropRound(k) ==
    /\ k \in round
    /\ \A c \in CallsOf(k) : call[c].step \in {"answered", "failed"}
    /\ \E c \in CallsOf(k) : At(c, "failed")
    /\ round' = round \ {k}
    /\ call' = Ends(CallsOf(k))
    /\ UNCHANGED <<Server, market, role, shown, handled>>

\* Mutant: the seller's button does not wait for the buyer's claim.
OfferedEarly ==
    (IF shown.status = "PENDING" THEN {"cancel"} ELSE {})
      \cup (IF shown.status \in {"PENDING", "PAID"} THEN {"dispute"} ELSE {})
      \cup (IF shown.status = "PENDING" /\ role = "buyer" THEN {"pay"} ELSE {})
      \cup (IF shown.status \in {"PENDING", "PAID"} /\ role = "seller" THEN {"release"} ELSE {})

\* The buttons and forms of the page.
Offered ==
    (IF shown.status = "PENDING" THEN {"cancel"} ELSE {})
      \cup (IF shown.status \in {"PENDING", "PAID"} THEN {"dispute"} ELSE {})
      \cup (IF shown.status = "PENDING" /\ role = "buyer" THEN {"pay"} ELSE {})
      \cup (IF shown.status = "PAID" /\ role = "seller" THEN {"release"} ELSE {})

\* action and submitDispute.
Press(op) ==
    /\ shown # NotLoaded /\ op \in Offered
    /\ call[Click] = Free /\ Room
    /\ call' = [call EXCEPT ![Click] =
         Sent([op |-> op, version |-> shown.version, ok |-> FALSE])]
    /\ handled' = 0
    /\ UNCHANGED <<Server, market, pageVars>>

Answers(ok) ==
    call' = [call EXCEPT ![Click] = Answered(Click, [@.about EXCEPT !.ok = ok])]

\* The handler of the click; openDispute only reads here.
ServeClick ==
    /\ Authorized(Click)
    /\ LET op == call[Click].about.op IN
         \/ /\ ~(op \in MayDo(role) /\ Accepted(op))
            /\ Answers(FALSE) /\ UNCHANGED roomTrade
         \/ /\ op \in MayDo(role) /\ Accepted(op)
            /\ IF op = "dispute" THEN Goes(Click, "deciding") /\ UNCHANGED roomTrade
               ELSE Answers(TRUE) /\ Moves(Result(op))
    /\ handled' = handled + 1
    /\ UNCHANGED <<Server, covered, pageVars>>

DisputeCommits ==
    /\ At(Click, "deciding")
    /\ \/ Disputes /\ Answers(TRUE)
       \/ roomTrade.disputed /\ Answers(FALSE) /\ UNCHANGED roomTrade
    /\ UNCHANGED <<Server, covered, pageVars, handled>>

\* A click that went well is followed by a round.
ClickRefreshes(k) ==
    /\ At(Click, "answered") /\ call[Click].about.ok
    /\ IdleRound(k)
    /\ Starts(k, Ends({Click}))
    /\ handled' = 0
    /\ UNCHANGED <<Server, market, role, shown>>

\* Nobody catches the error of action; submitDispute shows it.
ClickFails ==
    /\ At(Click, "failed") \/ (At(Click, "answered") /\ ~call[Click].about.ok)
    /\ call' = Ends({Click})
    /\ handled' = 0
    /\ UNCHANGED <<Server, market, pageVars>>

Serves(c) ==
    \/ Proceeds(c) /\ UNCHANGED <<market, pageVars, handled>>
    \/ \E k \in Round : ServeRound(k, c)
    \/ c = Click /\ (ServeClick \/ DisputeCommits)

RoundEnds(k) == ShowRound(k) \/ DropRound(k)
ClickEnds    == ClickFails \/ \E k \in Round : ClickRefreshes(k)

RoomNext ==
    \/ SessionStep /\ UNCHANGED <<market, pageVars, handled>>
    \/ OthersMove \/ LockedMoves
    \/ \E k \in Round : StartRound(k) \/ RoundEnds(k)
    \/ \E op \in Op : Press(op)
    \/ \E c \in Call : Serves(c)
    \/ ClickEnds

RoomSpec == RoomInit /\ [][RoomNext]_roomVars

\* The page is open and its interval fires; the server serves and answers,
\* and the network is not down for ever.  Nobody has to click or to log in.
RoomFairSpec ==
    /\ RoomSpec
    /\ WF_roomVars(\E k \in Round : StartRound(k))
    /\ WF_roomVars(\E k \in Round : RoundEnds(k))
    /\ WF_roomVars(\E k \in Round : \E c \in CallsOf(k) : Serves(c))
    /\ <>[][\A c \in Call : ~Loses(c)]_roomVars

-----------------------------------------------------------------------------
(* Properties. *)

\* The calls of a page that find their access token out of date renew it side
\* by side, and still hand one session on (OneSessionPerLogin) without leaving
\* the browser with a pair that is used up (StoredPairLives).
SessionsSound == RoomTypeOK /\ OneSessionPerLogin /\ StoredPairLives

\* A click runs its handler at most once, although it may be sent twice: the
\* second time only after a refusal that came before the handler.
HandledOnce == handled <= 1

\* What the page offers the handlers accept, unless the trade has changed
\* since the page read it, or the button moves the escrow and another trade
\* of the seller has taken of what was locked for it: the buttons of the page
\* and the guards of the handlers, which are written twice, agree, and the
\* page does not look at the wallet.
RefusedOnlyWhenStale ==
    [][~At(Click, "answered") /\ At(Click, "answered")' /\ ~call'[Click].about.ok =>
         \/ call[Click].about.version # roomTrade.version
         \/ call[Click].about.op \in TakesEscrow /\ ~covered]_roomVars

\* When the trade no longer changes (it does so MaxMoves times) the page comes
\* to show it as it is, whatever rounds were late, lost, or dropped because
\* their calls spoilt each other's renewal, unless the session is gone.
CatchesUp == <>[](shown.version = roomTrade.version \/ SignedOut)

=============================================================================
