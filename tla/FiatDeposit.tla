---------------------------- MODULE FiatDeposit ----------------------------
(***************************************************************************)
(* Mobile-money deposits: payments/deposit.service (the request),          *)
(* payments/webhook.service (PawaPay's callbacks), and PawaPay itself as   *)
(* the two know it.                                                        *)
(*                                                                         *)
(* A handler's awaits are its steps: a callback reads the row, then writes *)
(* it, with anything in between.  A callback once sent may be delivered    *)
(* any number of times, late, and in any order.  The credit is one ledger  *)
(* call in the transaction that moves the row to SUCCESS; only the number  *)
(* of FIAT_DEPOSIT entries is kept.                                        *)
(***************************************************************************)
EXTENDS Integers

CONSTANTS
    Deposit,   \* identifiers of FiatDeposit rows
    Handler,   \* callbacks served at the same time
    Configured \* PAWAPAY_API_KEY is set

ASSUME DepositAssumption == Configured \in BOOLEAN

VARIABLES
    deposit,  \* FiatDeposit.status ("NONE": no row)
    credited, \* number of FIAT_DEPOSIT ledger entries of the deposit
    request,  \* the request that created the row
    provider, \* what PawaPay does with the deposit
    sent,     \* statuses PawaPay has sent callbacks with
    handler   \* the callback each handler serves, its row read

vars == <<deposit, credited, request, provider, sent, handler>>

Callback == {"ACCEPTED", "COMPLETED", "FAILED"}
Idle == [status |-> "idle"]
Serving == [status : Callback, depositId : Deposit]

TypeOK ==
    /\ deposit \in [Deposit -> {"NONE", "PENDING", "SUCCESS", "FAILED"}]
    /\ credited \in [Deposit -> Nat]
    /\ request \in [Deposit -> {"none", "calling", "done", "refused"}]
    /\ provider \in [Deposit -> {"none", "processing", "rejected",
                                 "completed", "failed"}]
    /\ sent \in [Deposit -> SUBSET Callback]
    /\ handler \in [Handler -> {Idle} \cup Serving]

Init ==
    /\ deposit = [d \in Deposit |-> "NONE"]
    /\ credited = [d \in Deposit |-> 0]
    /\ request = [d \in Deposit |-> "none"]
    /\ provider = [d \in Deposit |-> "none"]
    /\ sent = [d \in Deposit |-> {}]
    /\ handler = [h \in Handler |-> Idle]

-----------------------------------------------------------------------------
(* initiateDeposit. *)

CreateDeposit(d) ==
    /\ deposit[d] = "NONE"
    /\ deposit' = [deposit EXCEPT ![d] = "PENDING"]
    /\ request' = [request EXCEPT ![d] = IF Configured THEN "calling" ELSE "done"]
    /\ UNCHANGED <<credited, provider, sent, handler>>

ResponseOk(d) ==
    /\ request[d] = "calling"
    /\ provider[d] \in {"processing", "completed", "failed"}
    /\ request' = [request EXCEPT ![d] = "done"]
    /\ UNCHANGED <<deposit, credited, provider, sent, handler>>

\* The status is overwritten whatever it is by now.  An error that hides
\* PawaPay's decision (a timeout on its side) is possible.
ResponseError(d) ==
    /\ request[d] = "calling"
    /\ provider[d] # "none"
    /\ deposit' = [deposit EXCEPT ![d] = "FAILED"]
    /\ request' = [request EXCEPT ![d] = "refused"]
    /\ UNCHANGED <<credited, provider, sent, handler>>

\* fetch throws, or the process stops before it writes the answer.
NoResponse(d) ==
    /\ request[d] = "calling"
    /\ request' = [request EXCEPT ![d] = "done"]
    /\ UNCHANGED <<deposit, credited, provider, sent, handler>>

-----------------------------------------------------------------------------
(* PawaPay. *)

ProviderAccepts(d) ==
    /\ request[d] = "calling" /\ provider[d] = "none"
    /\ provider' = [provider EXCEPT ![d] = "processing"]
    /\ sent' = [sent EXCEPT ![d] = @ \cup {"ACCEPTED"}]
    /\ UNCHANGED <<deposit, credited, request, handler>>

\* A refusal may be announced by a callback, too.
ProviderRejects(d) ==
    /\ request[d] = "calling" /\ provider[d] = "none"
    /\ provider' = [provider EXCEPT ![d] = "rejected"]
    /\ sent' = [sent EXCEPT ![d] = @ \cup {"FAILED"}]
    /\ UNCHANGED <<deposit, credited, request, handler>>

ProviderEnds(d, outcome, status) ==
    /\ provider[d] = "processing"
    /\ provider' = [provider EXCEPT ![d] = outcome]
    /\ sent' = [sent EXCEPT ![d] = @ \cup {status}]
    /\ UNCHANGED <<deposit, credited, request, handler>>

-----------------------------------------------------------------------------
(* handleDepositCallback. *)

\* A row that is SUCCESS already, or unknown, ends the callback at once.
CallbackRead(h, d, status) ==
    /\ handler[h] = Idle
    /\ status \in sent[d]
    /\ deposit[d] \notin {"NONE", "SUCCESS"}
    /\ handler' = [handler EXCEPT ![h] = [status |-> status, depositId |-> d]]
    /\ UNCHANGED <<deposit, credited, request, provider, sent>>

Ends(h) == handler' = [handler EXCEPT ![h] = Idle]

CallbackFailed(h) ==
    /\ handler[h].status = "FAILED"
    /\ deposit' = [deposit EXCEPT ![handler[h].depositId] = "FAILED"]
    /\ Ends(h)
    /\ UNCHANGED <<credited, request, provider, sent>>

\* Mutant: a status that is not a success is taken for a failure.
NonFinalFails(h) ==
    /\ handler[h].status = "ACCEPTED"
    /\ deposit' = [deposit EXCEPT ![handler[h].depositId] = "FAILED"]
    /\ Ends(h)
    /\ UNCHANGED <<credited, request, provider, sent>>

\* Only the payload is kept.
CallbackNonFinal(h) ==
    /\ handler[h].status = "ACCEPTED"
    /\ Ends(h)
    /\ UNCHANGED <<deposit, credited, request, provider, sent>>

\* Mutant: the row is updated whatever its status.
CompletedUnchecked(h) ==
    /\ handler[h].status = "COMPLETED"
    /\ LET d == handler[h].depositId IN
         /\ deposit' = [deposit EXCEPT ![d] = "SUCCESS"]
         /\ credited' = [credited EXCEPT ![d] = @ + 1]
    /\ Ends(h)
    /\ UNCHANGED <<request, provider, sent>>

\* One transaction; updateMany finds no row unless it is still PENDING.
CallbackCompleted(h) ==
    /\ handler[h].status = "COMPLETED"
    /\ LET d == handler[h].depositId IN
         IF deposit[d] = "PENDING"
         THEN /\ deposit' = [deposit EXCEPT ![d] = "SUCCESS"]
              /\ credited' = [credited EXCEPT ![d] = @ + 1]
         ELSE UNCHANGED <<deposit, credited>>
    /\ Ends(h)
    /\ UNCHANGED <<request, provider, sent>>

\* The database refuses, or the process stops.
CallbackLost(h) ==
    /\ handler[h] # Idle
    /\ Ends(h)
    /\ UNCHANGED <<deposit, credited, request, provider, sent>>

-----------------------------------------------------------------------------

Next ==
    \/ \E d \in Deposit :
         \/ CreateDeposit(d) \/ ResponseOk(d) \/ ResponseError(d) \/ NoResponse(d)
         \/ ProviderAccepts(d) \/ ProviderRejects(d)
         \/ ProviderEnds(d, "completed", "COMPLETED")
         \/ ProviderEnds(d, "failed", "FAILED")
         \/ \E h \in Handler, status \in Callback : CallbackRead(h, d, status)
    \/ \E h \in Handler : \/ CallbackFailed(h) \/ CallbackNonFinal(h)
                          \/ CallbackCompleted(h) \/ CallbackLost(h)

Spec == Init /\ [][Next]_vars

Completes(h, d) ==
    handler[h] # Idle /\ handler[h].depositId = d /\ CallbackCompleted(h)

\* PawaPay repeats a callback that was not answered, and the server does not
\* fail every time it serves one of a deposit.
Fairness ==
    /\ \A d \in Deposit :
         /\ SF_vars(\E h \in Handler : CallbackRead(h, d, "COMPLETED"))
         /\ SF_vars(\E h \in Handler : Completes(h, d))
    /\ \A h \in Handler : WF_vars(CallbackFailed(h) \/ CallbackNonFinal(h))

FairSpec == Spec /\ Fairness

-----------------------------------------------------------------------------
(* Properties. *)

\* However often, late and out of order callbacks come, and whatever the
\* request's own answer was, a deposit is credited at most once, and only
\* after PawaPay has announced that the money was received.
CreditedOnceWhenCompleted ==
    \A d \in Deposit :
      /\ credited[d] <= 1
      /\ credited[d] = 1 => "COMPLETED" \in sent[d]

\* PawaPay answered the request with an error and went on with the deposit.
Misled(d) == request[d] = "refused" /\ provider[d] # "rejected"

\* The status shown to the user and to staff tells whether the wallet was
\* credited, also after late and repeated callbacks, unless PawaPay's answer
\* was misleading.
SuccessIffCredited ==
    \A d \in Deposit : ~ Misled(d) => (deposit[d] = "SUCCESS" <=> credited[d] = 1)

\* Money PawaPay received reaches the wallet, with the same exception.
CompletedIsCredited ==
    \A d \in Deposit : provider[d] = "completed" ~> credited[d] = 1 \/ Misled(d)

=============================================================================
