---------------------------- MODULE TradePromise ----------------------------
(***************************************************************************)
(* What the marketplace promises about one trade, with no clock, wallets,  *)
(* sweeper or requests.  The escrow is held; the buyer claims to have paid;*)
(* the seller pays the escrow out, once, and only after a claim; it goes   *)
(* back to the seller, once, and only before a claim.  Whoever contests a  *)
(* trade leaves this promise for the decision of the staff.                *)
(***************************************************************************)
EXTENDS Naturals

CONSTANT Trade

VARIABLES
    phase,   \* where each trade is
    toBuyer, \* times its escrow was paid to the buyer
    toSeller \* times its escrow was returned to the seller

vars == <<phase, toBuyer, toSeller>>

Init ==
    /\ phase = [t \in Trade |-> "none"]
    /\ toBuyer = [t \in Trade |-> 0]
    /\ toSeller = [t \in Trade |-> 0]

Move(t, from, to) == phase[t] = from /\ phase' = [phase EXCEPT ![t] = to]

Hold(t)  == Move(t, "none", "held") /\ UNCHANGED <<toBuyer, toSeller>>
Claim(t) == Move(t, "held", "claimed") /\ UNCHANGED <<toBuyer, toSeller>>

PayBuyer(t) ==
    /\ Move(t, "claimed", "bought")
    /\ toBuyer' = [toBuyer EXCEPT ![t] = @ + 1]
    /\ UNCHANGED toSeller

Return(t) ==
    /\ Move(t, "held", "returned")
    /\ toSeller' = [toSeller EXCEPT ![t] = @ + 1]
    /\ UNCHANGED toBuyer

Contest(t) ==
    /\ phase[t] \notin {"none", "contested"}
    /\ phase' = [phase EXCEPT ![t] = "contested"]
    /\ UNCHANGED <<toBuyer, toSeller>>

Arbitrate(t) ==
    /\ phase[t] = "contested"
    /\ \/ toBuyer' = [toBuyer EXCEPT ![t] = @ + 1] /\ UNCHANGED toSeller
       \/ toSeller' = [toSeller EXCEPT ![t] = @ + 1] /\ UNCHANGED toBuyer
    /\ UNCHANGED phase

Next == \E t \in Trade : Hold(t) \/ Claim(t) \/ PayBuyer(t) \/ Return(t)
                         \/ Contest(t) \/ Arbitrate(t)

Spec == Init /\ [][Next]_vars

=============================================================================
