----------------------------- MODULE MCBilling -----------------------------
(* Two engagements of one user, spend windows of two lengths and two caps. *)
EXTENDS BillingProperties

CONSTANTS u1, e1, e2

MCOwner == [e \in {e1, e2} |-> u1]

MCConfigs ==
    {[period |-> 1, cap |-> 2, increment |-> 2, threshold |-> 1],
     [period |-> 2, cap |-> 3, increment |-> 0, threshold |-> 0]}
=============================================================================
