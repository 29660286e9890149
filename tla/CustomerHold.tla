---------------------------- MODULE CustomerHold ----------------------------
(***************************************************************************)
(* What a customer may rely on, and nothing else: credit is set aside for  *)
(* a piece of paid work, perhaps raised while the work runs, and then      *)
(* settled once, for no more than was set aside.  Credit moves in no other *)
(* way, except that the operator may add some.                             *)
(***************************************************************************)
EXTENDS Integers

CONSTANTS Users, Engagements, Owner

VARIABLES
    credit,     \* what the customer can still spend
    held,       \* set aside for an engagement
    phase,      \* "none", "open" or "closed"
    charged     \* what a closed engagement cost

holdVars == <<credit, held, phase, charged>>

HoldInit ==
    /\ credit = [u \in Users |-> 0]
    /\ held = [e \in Engagements |-> 0]
    /\ phase = [e \in Engagements |-> "none"]
    /\ charged = [e \in Engagements |-> 0]

\* Set aside what the customer can pay.
Place(e) ==
    /\ phase[e] = "none"
    /\ \E amount \in 0 .. credit[Owner[e]] :
         /\ credit' = [credit EXCEPT ![Owner[e]] = @ - amount]
         /\ held' = [held EXCEPT ![e] = amount]
    /\ phase' = [phase EXCEPT ![e] = "open"]
    /\ UNCHANGED charged

Raise(e) ==
    /\ phase[e] = "open"
    /\ \E amount \in 1 .. credit[Owner[e]] :
         /\ credit' = [credit EXCEPT ![Owner[e]] = @ - amount]
         /\ held' = [held EXCEPT ![e] = @ + amount]
    /\ UNCHANGED <<phase, charged>>

\* Charge no more than was set aside and give the rest back.
Settle(e) ==
    /\ phase[e] = "open"
    /\ \E amount \in 0 .. held[e] :
         /\ credit' = [credit EXCEPT ![Owner[e]] = @ + (held[e] - amount)]
         /\ charged' = [charged EXCEPT ![e] = amount]
    /\ phase' = [phase EXCEPT ![e] = "closed"]
    /\ UNCHANGED held

AddCredit ==
    /\ \A u \in Users : credit'[u] >= credit[u]
    /\ UNCHANGED <<held, phase, charged>>

HoldStep ==
    \/ \E e \in Engagements : Place(e) \/ Raise(e) \/ Settle(e)
    \/ AddCredit

HoldSpec == HoldInit /\ [][HoldStep]_holdVars
=============================================================================
