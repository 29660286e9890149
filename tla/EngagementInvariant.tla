------------------------ MODULE EngagementInvariant ------------------------
(***************************************************************************)
(* The inductive invariant behind the safety properties of an engagement:  *)
(* each conjunct says how two tables, or a table and the broker, agree.    *)
(***************************************************************************)
EXTENDS EngagementProperties

\* What the ledger records of an engagement never runs ahead of its row: an
\* open one has no release, and no cap revision it has not been authorized for.
LedgerFollowsRow ==
    \A row \in ledger :
        LET e == row.engagement
        IN  /\ state[e] # "none"
            /\ row.reason = ReleaseReason => state[e] = "closed"
            /\ state[e] = "open" => \A n \in Revisions :
                 row.reason = CapRevision(n) => n <= authorization[e]

\* Until the row is closed its grants are the revisions up to the current one.
GrantsFollowAuthorization ==
    \A e \in Engagements :
        /\ state[e] = "none" => authorization[e] = NoAuth
        /\ state[e] # "closed" =>
             \A n \in Revisions : Present(e, n) <=> n <= authorization[e]
        /\ outcome[e] # "none" => state[e] = "closed"

\* An open row's grants authorize no more than the customer's hold.
GrantsWithinHold ==
    \A e \in Engagements, n \in Revisions :
        state[e] = "open" /\ Present(e, n) => grantCap[e][n] <= customerMax[e]

\* A request that is about to be authorized has a row, and while that row is
\* unauthorized it holds what the request quotes.
QuoteIsHeld ==
    \A a \in Attempts : pc[a] \in {"claimed", "refused", "signed"} =>
        /\ state[Target[a]] # "none"
        /\ Releasable(Target[a]) => quote[a] = customerMax[Target[a]]

\* A request goes on to funding only once its grant is recorded.
FundedIsGranted ==
    \A a \in Attempts : pc[a] = "granted" => Present(Target[a], 0)

\* Only recorded grants are delivered, and the broker knows no others.
OnlyGrantsTravel ==
    /\ \A e \in Engagements, n \in Revisions :
         /\ <<e, n>> \in delivered => Present(e, n)
         /\ broker[e][n] # "unknown" => <<e, n>> \in delivered
    /\ \A e \in Engagements :
         (\A n \in Revisions : ~Present(e, n)) => debit[e] = 0

\* The broker admits revisions in order, each superseding the one before.
BrokerChain ==
    \A e \in Engagements, m, n \in Revisions :
        m < n /\ broker[e][n] \notin {"unknown"} \cup UnusedGrant
            => broker[e][m] = "superseded"

\* A grant is only recorded as unused when the broker retired it unused.
UnusedIsFinal ==
    \A e \in Engagements, n \in Revisions :
        grantState[e][n] \in UnusedGrant => broker[e][n] = grantState[e][n]

(***************************************************************************)
(* The inductive invariant: the conjuncts above together with the          *)
(* properties they make provable.                                          *)
(***************************************************************************)
EngagementInv ==
    /\ TypeOK
    /\ LedgerFollowsRow
    /\ GrantsFollowAuthorization
    /\ GrantsWithinHold
    /\ QuoteIsHeld
    /\ FundedIsGranted
    /\ OnlyGrantsTravel
    /\ BrokerChain
    /\ UnusedIsFinal
    /\ DebitCoveredByHold
    /\ ReleasedClaimHasNoGrant
    /\ SettledCloseLeavesNoAuthority
=============================================================================
