----------------------------- MODULE DepositPage -----------------------------
(***************************************************************************)
(* The page wallet/crypto/deposit in front of CryptoDeposit: the phases of *)
(* the page, its buttons, and what it makes of the answers.  The intent it *)
(* works on is known to nobody else, and to the page only until it is left:*)
(* a txid that was not credited by then can only be told to a new intent.  *)
(* The other intents are those of other users and clients, who call as     *)
(* they like.                                                              *)
(*                                                                         *)
(* createDepositIntent and markDepositSent are one step each: nobody else  *)
(* can know the row, and what the second one writes nobody reads.  A call  *)
(* that looks at the txid is a worker of CryptoDeposit, and the page is    *)
(* told when it ends.                                                      *)
(***************************************************************************)
EXTENDS CryptoDeposit, OnchainVerify

CONSTANTS
    Others,    \* intents of other users and clients
    OthersTxid \* bound: what these submit

ASSUME DepositPageAssumption ==
    /\ Others \subseteq Intent /\ OthersTxid \subseteq Txid
    /\ Worker \cap {"no", "create", "sent"} = {}

VARIABLES
    page,    \* the state of the page
    asked,   \* workers that do what the page asked for
    unheard  \* history: intents with a call whose answer did not get through

pageVars == <<page, asked, unheard>>
allVars  == <<vars, pageVars>>

Outcome == {"none", "PENDING_VALIDATION", "FAILED", "CONFIRMED"}

Fresh == [phase |-> "pick", intent |-> None, known |-> "none",
          sent |-> FALSE, busy |-> "no", outcome |-> "none"]

PageTypeOK ==
    /\ page \in [phase : {"pick", "risk", "agreed", "details"}, intent : Intent \cup {None}, known : Status \cup {"none"}, sent : BOOLEAN,
                 busy : {"no", "create", "sent"} \cup Worker, outcome : Outcome]
    /\ asked \subseteq Worker /\ unheard \subseteq Intent

PageInit == Init /\ page = Fresh /\ asked = {} /\ unheard = {}

Idles(p) == [p EXCEPT !.busy = "no"]

-----------------------------------------------------------------------------
(* Getting an address. *)

\* Continue, the checkbox, and Cancel, which does not wait for a call that
\* is under way.
PickNetwork ==
    /\ page.phase = "pick"
    /\ page' = [page EXCEPT !.phase = "risk"]
    /\ UNCHANGED <<vars, asked, unheard>>

Agree ==
    /\ page.phase = "risk"
    /\ page' = [page EXCEPT !.phase = "agreed"]
    /\ UNCHANGED <<vars, asked, unheard>>

Cancel ==
    /\ page.phase \in {"risk", "agreed"}
    /\ page' = [page EXCEPT !.phase = "pick"]
    /\ UNCHANGED <<vars, asked, unheard>>

PressCreate ==
    /\ page.phase = "agreed" /\ page.busy = "no"
    /\ page' = [page EXCEPT !.busy = "create"]
    /\ UNCHANGED <<vars, asked, unheard>>

Created(i) ==
    /\ page.busy = "create" /\ i \notin Others
    /\ CreateIntent(i)
    /\ page' = [page EXCEPT !.phase = "details", !.intent = i, !.known = "AWAITING_TX",
                            !.sent = FALSE, !.outcome = "none", !.busy = "no"]
    /\ UNCHANGED <<asked, unheard>>

-----------------------------------------------------------------------------
(* Telling about the payment. *)

SentOffered == page.phase = "details" /\ page.known = "AWAITING_TX" /\ ~page.sent

FormOffered ==
    /\ page.phase = "details"
    /\ page.sent \/ page.known = "PENDING_VALIDATION"
    /\ page.known \notin {"CONFIRMED", "FAILED"}

PressSent ==
    /\ SentOffered /\ page.busy = "no"
    /\ page' = [page EXCEPT !.busy = "sent"]
    /\ UNCHANGED <<vars, asked, unheard>>

\* INVALID_STATE unless the row is AWAITING_TX.
SentAnswered ==
    /\ page.busy = "sent"
    /\ page' = [page EXCEPT !.sent = @ \/ status[page.intent] = "AWAITING_TX", !.busy = "no"]
    /\ UNCHANGED <<vars, asked, unheard>>

Asks(k) ==
    /\ page' = [page EXCEPT !.busy = k]
    /\ asked' = asked \cup {k}
    /\ UNCHANGED unheard

\* A row that is CONFIRMED or FAILED is the answer at once; the txid's call
\* throws for the latter (INTENT_FAILED).
AnsweredAtOnce(failed) ==
    /\ \/ /\ status[page.intent] = "CONFIRMED"
          /\ page' = [page EXCEPT !.outcome = "CONFIRMED", !.known = "CONFIRMED"]
       \/ /\ status[page.intent] = "FAILED"
          /\ page' = [page EXCEPT !.outcome = failed]
    /\ UNCHANGED <<vars, asked, unheard>>

CanAsk == FormOffered /\ page.busy = "no"

PressSubmit(k, x) ==
    /\ CanAsk
    /\ Submit(k, page.intent, x) /\ Asks(k)

\* TXID_MISSING is an error that changes nothing.
PressRefresh(k) ==
    /\ CanAsk
    /\ Refresh(k, page.intent) /\ Asks(k)

PressForFinal ==
    /\ CanAsk
    /\ AnsweredAtOnce(page.outcome) \/ (txid[page.intent] # None /\ AnsweredAtOnce("FAILED"))

-----------------------------------------------------------------------------
(* The answers. *)

\* A call that throws is shown as a message, and leaves the last outcome.
ErrorOutcome == page.outcome

\* Mutant: a unique column that stops the credit is taken for a second answer.
OutcomeOfStep(k) ==
    CASE At(k, "postpone") -> "PENDING_VALIDATION"
      [] At(k, "fail")     -> "FAILED"
      [] At(k, "credit")   -> "CONFIRMED"
      [] OTHER -> ErrorOutcome

OutcomeOf(k) ==
    CASE At(k, "postpone") -> "PENDING_VALIDATION"
      [] At(k, "fail")     -> "FAILED"
      [] At(k, "credit") /\ credits' # credits -> "CONFIRMED"
      [] OTHER -> ErrorOutcome

\* The row that is read again after the credit is that of an overlapping
\* call, if there is one.
Reread(i) == {"CONFIRMED"} \cup IF raced[i] THEN {"PENDING_VALIDATION"} ELSE {}

\* What the page makes of a step of worker k.
Hears(k, outcome) ==
    /\ IF page.busy = k /\ worker'[k] = Idle
       THEN IF credits' # credits
            THEN \E s \in Reread(page.intent) :
                   page' = [page EXCEPT !.busy = "no", !.outcome = "CONFIRMED", !.known = s]
            ELSE page' = [page EXCEPT !.busy = "no", !.outcome = outcome]
       ELSE UNCHANGED page
    /\ asked' = IF worker'[k] = Idle THEN asked \ {k} ELSE asked
    /\ UNCHANGED unheard

\* The answer is lost or late: the server goes on.
GivesUp ==
    /\ page.busy # "no"
    /\ page' = Idles(page)
    /\ unheard' = IF page.busy \in Worker THEN unheard \cup {page.intent} ELSE unheard
    /\ UNCHANGED <<vars, asked>>

\* The user leaves the page, and may come back to a fresh one.
Leave ==
    /\ page # Fresh
    /\ page' = Fresh
    /\ UNCHANGED <<vars, asked, unheard>>

-----------------------------------------------------------------------------

\* Other users and clients.
OthersCall(i) ==
    /\ i \in Others
    /\ CreateIntent(i) \/ \E k \in Worker : Refresh(k, i) \/ \E x \in OthersTxid : Submit(k, i, x)
    /\ UNCHANGED pageVars

Goes(k) ==
    \/ Continue(k) /\ Hears(k, OutcomeOf(k))
    \/ CutShort(k) /\ Hears(k, ErrorOutcome)

\* Confirmations of a transaction that is no payment change nothing.
ChainGrows(x) ==
    /\ ChainMoves(x, "unseen", "mined") \/ (x \in Payment /\ ChainMoves(x, "mined", "confirmed"))
    /\ UNCHANGED pageVars

PageNext ==
    \/ PickNetwork \/ Agree \/ Cancel \/ PressCreate
    \/ \E i \in Intent : Created(i) \/ OthersCall(i)
    \/ PressSent \/ SentAnswered
    \/ \E k \in Worker : PressRefresh(k) \/ \E x \in Txid : PressSubmit(k, x)
    \/ \E k \in Worker : Goes(k)
    \/ PressForFinal
    \/ GivesUp \/ Leave
    \/ \E x \in Txid : ChainGrows(x)

PageSpec == PageInit /\ [][PageNext]_allVars

\* Calls that are not cut short go on, and the page shows their answers or
\* gives up; a user who has told a txid presses Refresh while the page offers
\* it, and the node answers such a call now and then.
FairSpec ==
    /\ PageSpec
    /\ \A k \in Worker : WF_allVars(Continue(k) /\ Hears(k, OutcomeOf(k)))
    /\ WF_allVars(GivesUp)
    /\ SF_allVars(\E k \in Worker : PressRefresh(k))
    /\ SF_allVars(\E k \in asked : VerifyOk(k) /\ Hears(k, OutcomeOf(k)))

-----------------------------------------------------------------------------
(* Properties. *)

ShowsSuccess == page.known = "CONFIRMED" \/ page.outcome = "CONFIRMED"

\* A page that says the deposit succeeded has seen its intent credited.
SuccessIsCredit == ShowsSuccess => HasCredit(page.intent)

\* What the page shows as the outcome is the status of the row, although the
\* page keeps it itself, unless an answer was lost.
OutcomeIsStatus ==
    page.outcome # "none" /\ page.busy = "no" /\ page.intent \notin unheard =>
        status[page.intent] = page.outcome

\* A page that has an address offers a button, until the deposit succeeded.
AlwaysAButton ==
    page.phase = "details" /\ page.busy = "no" => SentOffered \/ FormOffered \/ ShowsSuccess

\* What the page has kept of its calls, it keeps in step with the server: a
\* success is a credit, an outcome is the status of the row, and there is
\* always something left to press.
PageTellsTruth == PageTypeOK /\ SuccessIsCredit /\ OutcomeIsStatus /\ AlwaysAButton

\* The rows are what they may be, and what CryptoDeposit takes from the
\* verifier it may take: one name per transaction, a payment behind every
\* confirmation, and no failure that a later answer would have made good.
VerifiedSoundly == TypeOK /\ VerifierIsSound

Awaits(i, x) ==
    /\ page.intent = i /\ FormOffered
    /\ txid[i] = x /\ status[i] = "PENDING_VALIDATION" /\ chain[x] = "confirmed"

\* A confirmed payment whose txid the page has told reaches a wallet if the
\* user stays and asks: it is credited, unless the intent has its credit, a
\* call for another txid took its place, or an answer was lost and calls
\* overlapped.
PaymentIsCredited ==
    \A i \in Intent, x \in Payment :
      Awaits(i, x) ~>
        used[x] # None \/ HasCredit(i) \/ raced[i] \/ txid[i] # x \/ page.intent # i

=============================================================================
