---------------------------- MODULE MCEngagement ----------------------------
(***************************************************************************)
(* One user.  Two open requests share the key of one session, or two       *)
(* sessions compete for the user's credit and spend window.                *)
(***************************************************************************)
EXTENDS EngagementInvariant, BillingProperties

CONSTANTS u1, e1, e2, a1, a2, a3

OneOwner == [e \in Engagements |-> u1]

Keys == [a \in Attempts |-> IF a = a3 THEN e2 ELSE e1]

\* The spend cap is smaller than the credit the user can get.
TightConfig == {[period |-> 1, cap |-> 3, increment |-> 0, threshold |-> 0]}

\* Two requests of one session, or two smaller sessions with one refill each.
Scenarios ==
    \/ pc[a3] = "idle"
    \/ /\ pc[a2] = "idle"
       /\ \A a \in Attempts : quote[a] <= 2
       /\ \A e \in Engagements : customerMax[e] <= 2 /\ authorization[e] <= 1
=============================================================================
