----------------------------- MODULE MCPaidJob -----------------------------
(* Two jobs of one customer, so that a pass and a settle request can wait *)
(* for each other; the broker of the first has all the trouble.           *)
EXTENDS PaidJob

CONSTANTS u1, j1, j2, s1

OneOwner == [j \in Jobs |-> u1]

\* Only the first of these routes may be opened.
Offers ==
    {[protocol |-> "paid-job/v1", transport |-> "unary", delegated |-> TRUE],
     [protocol |-> "paid-job/v1", transport |-> "unary", delegated |-> FALSE],
     [protocol |-> "paid-session/v1", transport |-> "unary", delegated |-> TRUE]}

Troubled == [j \in Jobs |-> IF j = j1 THEN {"refusal", "restart", "cancellation", "data loss"} ELSE {}]
Wrong == [j \in Jobs |-> IF j = j1 THEN {"none", "foreign key"} ELSE {"none"}]
=============================================================================
