------------------------- MODULE FiatDepositProofs -------------------------
(***************************************************************************)
(* The crediting of deposits, for any number of deposits and of callbacks  *)
(* served at once, and for a provider whose answers may be wrong.          *)
(*                                                                         *)
(* That a deposit is credited once is not inductive: the credit is guarded *)
(* by the status PENDING, so the invariant must add that a row that is     *)
(* PENDING, or not there yet, has not been credited; and a handler must    *)
(* serve a callback that was sent, on a row that exists.                   *)
(***************************************************************************)
EXTENDS FiatDeposit, TLAPS

HandlersServeSent ==
    \A h \in Handler : handler[h] # Idle =>
      /\ handler[h].status \in sent[handler[h].depositId]
      /\ deposit[handler[h].depositId] # "NONE"

OpenIsNotCredited ==
    \A d \in Deposit : deposit[d] \in {"NONE", "PENDING"} => credited[d] = 0

IInv == /\ TypeOK
        /\ HandlersServeSent
        /\ OpenIsNotCredited
        /\ CreditedOnceWhenCompleted

\* No deposit has been requested yet.
LEMMA InitHolds == Init => IInv
  BY DEF Init, IInv, TypeOK, HandlersServeSent, OpenIsNotCredited,
         CreditedOnceWhenCompleted, Idle

(* What the request and PawaPay do: rows are created or fail, callbacks are *)
(* only added to what was sent, and nobody is credited.                     *)
RequestStep ==
    /\ UNCHANGED <<credited, handler>>
    /\ \A d \in Deposit :
         /\ sent[d] \subseteq sent'[d]
         /\ deposit[d] # "NONE" => deposit'[d] # "NONE"
         /\ deposit'[d] \in {"NONE", "PENDING"} => deposit[d] \in {"NONE", "PENDING"}

\* The request of a deposit and the provider's work on it, seen from the row.
LEMMA RequestsAreRequestSteps ==
  ASSUME TypeOK, NEW d \in Deposit,
         \/ CreateDeposit(d) \/ ResponseOk(d) \/ ResponseError(d) \/ NoResponse(d)
         \/ ProviderAccepts(d) \/ ProviderRejects(d)
         \/ ProviderEnds(d, "completed", "COMPLETED")
         \/ ProviderEnds(d, "failed", "FAILED")
  PROVE  TypeOK' /\ RequestStep
  <1>1. CASE CreateDeposit(d)
    BY <1>1 DEF CreateDeposit, TypeOK, RequestStep
  <1>2. CASE ResponseOk(d)
    BY <1>2 DEF ResponseOk, TypeOK, RequestStep
  <1>3. CASE ResponseError(d)
    BY <1>3 DEF ResponseError, TypeOK, RequestStep
  <1>4. CASE NoResponse(d)
    BY <1>4 DEF NoResponse, TypeOK, RequestStep
  <1>5. CASE ProviderAccepts(d)
    BY <1>5 DEF ProviderAccepts, TypeOK, RequestStep, Callback
  <1>6. CASE ProviderRejects(d)
    BY <1>6 DEF ProviderRejects, TypeOK, RequestStep, Callback
  <1>7. CASE ProviderEnds(d, "completed", "COMPLETED")
    BY <1>7 DEF ProviderEnds, TypeOK, RequestStep, Callback
  <1>8. CASE ProviderEnds(d, "failed", "FAILED")
    BY <1>8 DEF ProviderEnds, TypeOK, RequestStep, Callback
  <1>9. QED
    BY <1>1, <1>2, <1>3, <1>4, <1>5, <1>6, <1>7, <1>8

\* None of them credits.
LEMMA RequestStepPreserves ==
  ASSUME IInv, TypeOK', RequestStep
  PROVE  IInv'
  <1>1. HandlersServeSent'
    <2> SUFFICES ASSUME NEW h \in Handler, handler[h] # Idle
                 PROVE  /\ handler[h].status \in sent'[handler[h].depositId]
                        /\ deposit'[handler[h].depositId] # "NONE"
      BY DEF HandlersServeSent, RequestStep
    <2>1. handler[h].depositId \in Deposit
      BY DEF IInv, TypeOK, Serving
    <2>2. QED
      BY <2>1 DEF IInv, HandlersServeSent, RequestStep
  <1>2. OpenIsNotCredited'
    BY DEF IInv, OpenIsNotCredited, RequestStep
  <1>3. CreditedOnceWhenCompleted'
    BY DEF IInv, CreditedOnceWhenCompleted, RequestStep
  <1>4. QED
    BY <1>1, <1>2, <1>3 DEF IInv

\* What a callback writes, once it has read the row.
LEMMA CallbacksPreserve ==
  ASSUME IInv, NEW h \in Handler,
         \/ CallbackFailed(h) \/ CallbackNonFinal(h)
         \/ CallbackCompleted(h) \/ CallbackLost(h)
  PROVE  IInv'
  <1> DEFINE d == handler[h].depositId
  <1> USE DEF IInv
  <1>1. handler' = [handler EXCEPT ![h] = Idle] /\ UNCHANGED <<request, provider, sent>>
    BY DEF CallbackFailed, CallbackNonFinal, CallbackCompleted, CallbackLost, Ends
  <1>2. ASSUME NEW g \in Handler, handler'[g] # Idle
        PROVE  /\ g # h /\ handler'[g] = handler[g] /\ handler[g] # Idle
               /\ handler[g].depositId \in Deposit
    BY <1>1, <1>2 DEF TypeOK, Serving
  <1>3. CASE CallbackNonFinal(h) \/ CallbackLost(h)
    <2>1. UNCHANGED <<deposit, credited>>
      BY <1>3 DEF CallbackNonFinal, CallbackLost
    <2>2. TypeOK'
      BY <1>1, <2>1 DEF TypeOK
    <2>3. HandlersServeSent'
      BY <1>1, <1>2, <2>1 DEF HandlersServeSent
    <2>4. QED
      BY <1>1, <2>1, <2>2, <2>3 DEF OpenIsNotCredited, CreditedOnceWhenCompleted
  <1>4. ASSUME CallbackFailed(h) \/ CallbackCompleted(h)
        PROVE  d \in Deposit /\ handler[h] # Idle /\ deposit[d] # "NONE"
               /\ handler[h].status \in sent[d]
    <2>1. handler[h].status # "idle"
      BY <1>4 DEF CallbackFailed, CallbackCompleted
    <2>2. QED
      BY <2>1 DEF TypeOK, Serving, Idle, HandlersServeSent
  <1>5. CASE CallbackFailed(h)
    <2>1. d \in Deposit /\ deposit' = [deposit EXCEPT ![d] = "FAILED"]
          /\ UNCHANGED credited
      BY <1>4, <1>5 DEF CallbackFailed
    <2>2. TypeOK'
      BY <1>1, <2>1 DEF TypeOK
    <2>3. HandlersServeSent'
      BY <1>1, <1>2, <2>1 DEF HandlersServeSent, TypeOK
    <2>4. OpenIsNotCredited' /\ CreditedOnceWhenCompleted'
      BY <1>1, <2>1 DEF OpenIsNotCredited, CreditedOnceWhenCompleted, TypeOK
    <2>5. QED
      BY <2>2, <2>3, <2>4
  <1>6. CASE CallbackCompleted(h)
    <2>1. d \in Deposit /\ "COMPLETED" \in sent[d]
      BY <1>4, <1>6 DEF CallbackCompleted
    <2>2. CASE deposit[d] # "PENDING"
      <3>1. UNCHANGED <<deposit, credited>>
        BY <1>6, <2>2 DEF CallbackCompleted
      <3>2. TypeOK' /\ HandlersServeSent'
        BY <1>1, <1>2, <3>1 DEF TypeOK, HandlersServeSent
      <3>3. QED
        BY <1>1, <3>1, <3>2 DEF OpenIsNotCredited, CreditedOnceWhenCompleted
    <2>3. CASE deposit[d] = "PENDING"
      <3>1. /\ deposit' = [deposit EXCEPT ![d] = "SUCCESS"]
            /\ credited' = [credited EXCEPT ![d] = credited[d] + 1]
        BY <1>6, <2>3 DEF CallbackCompleted
      <3>2. credited[d] = 0
        BY <2>1, <2>3 DEF OpenIsNotCredited
      <3>3. TypeOK'
        BY <1>1, <2>1, <3>1, <3>2 DEF TypeOK
      <3>4. HandlersServeSent'
        BY <1>1, <1>2, <2>1, <3>1 DEF HandlersServeSent, TypeOK
      <3>5. OpenIsNotCredited' /\ CreditedOnceWhenCompleted'
        BY <1>1, <2>1, <3>1, <3>2 DEF OpenIsNotCredited, CreditedOnceWhenCompleted, TypeOK
      <3>6. QED
        BY <3>3, <3>4, <3>5
    <2>4. QED
      BY <2>2, <2>3
  <1>7. QED
    BY <1>3, <1>5, <1>6

\* A callback reads the row.
LEMMA ReadPreserves ==
  ASSUME IInv, NEW h \in Handler, NEW d \in Deposit, NEW status \in Callback,
         CallbackRead(h, d, status)
  PROVE  IInv'
  <1> USE DEF IInv
  <1>1. /\ handler' = [handler EXCEPT ![h] = [status |-> status, depositId |-> d]]
        /\ status \in sent[d] /\ deposit[d] # "NONE"
        /\ UNCHANGED <<deposit, credited, request, provider, sent>>
    BY DEF CallbackRead
  <1>2. TypeOK'
    BY <1>1 DEF TypeOK, Serving
  <1>3. HandlersServeSent'
    BY <1>1 DEF HandlersServeSent, TypeOK
  <1>4. OpenIsNotCredited' /\ CreditedOnceWhenCompleted'
    BY <1>1 DEF OpenIsNotCredited, CreditedOnceWhenCompleted
  <1>5. QED
    BY <1>2, <1>3, <1>4

(* The inductive invariant holds in every reachable state. *)
THEOREM DepositInvariance == Spec => []IInv
  <1>1. IInv /\ [Next]_vars => IInv'
    <2> SUFFICES ASSUME IInv, [Next]_vars PROVE IInv'
      OBVIOUS
    <2>1. CASE UNCHANGED vars
      BY <2>1 DEF vars, IInv, TypeOK, HandlersServeSent, OpenIsNotCredited,
                  CreditedOnceWhenCompleted
    <2>2. CASE Next
      <3>1. CASE \E d \in Deposit, h \in Handler, status \in Callback :
                   CallbackRead(h, d, status)
        BY <3>1, ReadPreserves
      <3>2. CASE \E h \in Handler : \/ CallbackFailed(h) \/ CallbackNonFinal(h)
                                    \/ CallbackCompleted(h) \/ CallbackLost(h)
        BY <3>2, CallbacksPreserve
      <3>3. CASE \E d \in Deposit :
                   \/ CreateDeposit(d) \/ ResponseOk(d)
                   \/ ResponseError(d) \/ NoResponse(d)
                   \/ ProviderAccepts(d) \/ ProviderRejects(d)
                   \/ ProviderEnds(d, "completed", "COMPLETED")
                   \/ ProviderEnds(d, "failed", "FAILED")
        <4>1. TypeOK' /\ RequestStep
          BY <3>3, RequestsAreRequestSteps DEF IInv
        <4>2. QED
          BY <4>1, RequestStepPreserves
      <3>4. QED
        BY <2>2, <3>1, <3>2, <3>3 DEF Next
    <2>3. QED
      BY <2>1, <2>2
  <1>2. QED
    BY <1>1, InitHolds, PTL DEF Spec

(* Whatever PawaPay answers, a deposit is credited at most once, and only   *)
(* after a COMPLETED callback was sent for it (handleDepositCallback).      *)
THEOREM CreditedOnceHolds == Spec => []CreditedOnceWhenCompleted
  BY DepositInvariance, PTL DEF IInv

-----------------------------------------------------------------------------

(* PawaPay announces one end of a deposit, the one it had. *)
EndsKnow ==
    \A d \in Deposit :
      /\ "FAILED" \in sent[d] => provider[d] \in {"rejected", "failed"}
      /\ "COMPLETED" \in sent[d] => provider[d] = "completed"

(* A deposit that PawaPay refused or failed has not been credited. *)
LEMMA DeadIsNotCredited ==
  ASSUME IInv, EndsKnow, NEW d \in Deposit, provider[d] \in {"rejected", "failed"}
  PROVE  credited[d] = 0
  BY DEF IInv, TypeOK, EndsKnow, CreditedOnceWhenCompleted

\* Every step keeps the status and the credit of a deposit together.
LEMMA StatusStep ==
  ASSUME IInv, EndsKnow, SuccessIffCredited, [Next]_vars
  PROVE  EndsKnow' /\ SuccessIffCredited'
  <1> USE DEF IInv
  <1>1. CASE UNCHANGED vars
    BY <1>1 DEF vars, EndsKnow, SuccessIffCredited, Misled
  <1>2. ASSUME NEW d \in Deposit, CreateDeposit(d) \/ ResponseError(d)
        PROVE  EndsKnow' /\ SuccessIffCredited'
    <2>1. EndsKnow'
      BY <1>2 DEF CreateDeposit, ResponseError, EndsKnow
    <2>2. Misled(d)' \/ credited[d] = 0
      <3>1. CASE CreateDeposit(d)
        BY <3>1 DEF CreateDeposit, OpenIsNotCredited
      <3>2. CASE ResponseError(d) /\ provider[d] = "rejected"
        BY <3>2, DeadIsNotCredited
      <3>3. CASE ResponseError(d) /\ provider[d] # "rejected"
        BY <3>3 DEF ResponseError, Misled, TypeOK
      <3>4. QED
        BY <1>2, <3>1, <3>2, <3>3
    <2>3. deposit' \in {[deposit EXCEPT ![d] = "PENDING"],
                        [deposit EXCEPT ![d] = "FAILED"]}
          /\ UNCHANGED <<credited, provider>>
          /\ \E answer \in {"calling", "done", "refused"} :
               request' = [request EXCEPT ![d] = answer]
      BY <1>2 DEF CreateDeposit, ResponseError
    <2>4. SuccessIffCredited'
      <3> SUFFICES ASSUME NEW e \in Deposit, ~ Misled(e)'
                   PROVE  deposit'[e] = "SUCCESS" <=> credited'[e] = 1
        BY DEF SuccessIffCredited
      <3>1. CASE e = d
        BY <2>2, <2>3, <3>1 DEF TypeOK
      <3>2. CASE e # d
        BY <2>3, <3>2 DEF SuccessIffCredited, Misled, TypeOK
      <3>3. QED
        BY <3>1, <3>2
    <2>5. QED
      BY <2>1, <2>4
  <1>3. ASSUME NEW d \in Deposit, ResponseOk(d) \/ NoResponse(d)
        PROVE  EndsKnow' /\ SuccessIffCredited'
    <2>1. request[d] = "calling" /\ request' = [request EXCEPT ![d] = "done"]
          /\ UNCHANGED <<deposit, credited, provider, sent>>
      BY <1>3 DEF ResponseOk, NoResponse
    <2>2. \A e \in Deposit : Misled(e) <=> Misled(e)'
      BY <2>1 DEF Misled, TypeOK
    <2>3. QED
      BY <2>1, <2>2 DEF EndsKnow, SuccessIffCredited
  <1>4. ASSUME NEW d \in Deposit,
               \/ ProviderAccepts(d) \/ ProviderRejects(d)
               \/ ProviderEnds(d, "completed", "COMPLETED")
               \/ ProviderEnds(d, "failed", "FAILED")
        PROVE  EndsKnow' /\ SuccessIffCredited'
    <2>1. PICK move \in {<<"none", "processing", "ACCEPTED">>,
                         <<"none", "rejected", "FAILED">>,
                         <<"processing", "completed", "COMPLETED">>,
                         <<"processing", "failed", "FAILED">>} :
            /\ provider[d] = move[1]
            /\ provider' = [provider EXCEPT ![d] = move[2]]
            /\ sent' = [sent EXCEPT ![d] = @ \cup {move[3]}]
            /\ move[2] = "rejected" => request[d] = "calling"
            /\ UNCHANGED <<deposit, credited, request>>
      BY <1>4 DEF ProviderAccepts, ProviderRejects, ProviderEnds
    <2>2. EndsKnow'
      <3> SUFFICES ASSUME NEW e \in Deposit
                   PROVE  /\ "FAILED" \in sent'[e] => provider'[e] \in {"rejected", "failed"}
                          /\ "COMPLETED" \in sent'[e] => provider'[e] = "completed"
        BY DEF EndsKnow
      <3>1. CASE e # d
        BY <2>1, <3>1 DEF EndsKnow, TypeOK
      <3>2. CASE e = d
        BY <2>1, <3>2 DEF EndsKnow, TypeOK
      <3>3. QED
        BY <3>1, <3>2
    <2>3. ASSUME NEW e \in Deposit, Misled(e)
          PROVE  Misled(e)'
      BY <2>1, <2>3 DEF Misled, TypeOK
    <2>4. QED
      BY <2>1, <2>2, <2>3 DEF SuccessIffCredited
  <1>5. ASSUME NEW h \in Handler, NEW d \in Deposit, NEW status \in Callback,
               CallbackRead(h, d, status)
        PROVE  EndsKnow' /\ SuccessIffCredited'
    BY <1>5 DEF CallbackRead, EndsKnow, SuccessIffCredited, Misled
  <1>6. ASSUME NEW h \in Handler, CallbackNonFinal(h) \/ CallbackLost(h)
        PROVE  EndsKnow' /\ SuccessIffCredited'
    BY <1>6 DEF CallbackNonFinal, CallbackLost, EndsKnow, SuccessIffCredited, Misled
  <1>7. ASSUME NEW h \in Handler, CallbackFailed(h)
        PROVE  EndsKnow' /\ SuccessIffCredited'
    <2> DEFINE d == handler[h].depositId
    <2>1. d \in Deposit /\ "FAILED" \in sent[d]
      BY <1>7 DEF CallbackFailed, TypeOK, Serving, Idle, HandlersServeSent
    <2>2. credited[d] = 0
      BY <2>1, DeadIsNotCredited DEF EndsKnow
    <2>3. QED
      BY <1>7, <2>1, <2>2 DEF CallbackFailed, EndsKnow, SuccessIffCredited,
         Misled, TypeOK
  <1>8. ASSUME NEW h \in Handler, CallbackCompleted(h)
        PROVE  EndsKnow' /\ SuccessIffCredited'
    <2> DEFINE d == handler[h].depositId
    <2>1. d \in Deposit
      BY <1>8 DEF CallbackCompleted, TypeOK, Serving, Idle
    <2>2. CASE deposit[d] = "PENDING"
      <3>1. credited[d] = 0
        BY <2>1, <2>2 DEF OpenIsNotCredited
      <3>2. QED
        BY <1>8, <2>1, <2>2, <3>1
        DEF CallbackCompleted, EndsKnow, SuccessIffCredited, Misled, TypeOK
    <2>3. CASE deposit[d] # "PENDING"
      BY <1>8, <2>3 DEF CallbackCompleted, EndsKnow, SuccessIffCredited, Misled
    <2>4. QED
      BY <2>2, <2>3
  <1>9. QED
    BY <1>1, <1>2, <1>3, <1>4, <1>5, <1>6, <1>7, <1>8 DEF Next

(* The status of a deposit says whether it was credited, whatever callbacks *)
(* are repeated, late or out of order, unless PawaPay answered the request  *)
(* with an error and went on (initiateDeposit, handleDepositCallback).      *)
THEOREM SuccessIffCreditedHolds == Spec => []SuccessIffCredited
  <1>1. Init => EndsKnow /\ SuccessIffCredited
    BY DEF Init, EndsKnow, SuccessIffCredited
  <1>2. IInv /\ EndsKnow /\ SuccessIffCredited /\ [Next]_vars
          => (EndsKnow /\ SuccessIffCredited)'
    BY StatusStep
  <1>3. QED
    BY <1>1, <1>2, DepositInvariance, PTL DEF Spec

=============================================================================
