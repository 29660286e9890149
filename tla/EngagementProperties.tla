------------------------ MODULE EngagementProperties ------------------------
(***************************************************************************)
(* What the life of a paid session must guarantee to the customer, to the  *)
(* operator and to the broker.                                             *)
(***************************************************************************)
EXTENDS Engagement, BillingProperties

Present(e, n) == grantState[e][n] # "absent"

\* What the session row says the engagement has taken from the customer.
RowOwes(e) ==
    CASE state[e] = "none" -> 0
      [] state[e] = "open" -> -customerMax[e]
      [] state[e] = "closed" -> -billed[e]

(***************************************************************************)
(* The ledger rows of an engagement add up to what its row says: nothing   *)
(* before the claim, the hold while it is open, the bill once it is        *)
(* closed, and nothing for a claim that was never admitted.  Claim, refill *)
(* and the three ways to close each write the ledger and the row.          *)
(***************************************************************************)
LedgerMatchesEngagement ==
    \A e \in Engagements : DeltaSum(RowsAbout(e)) = RowOwes(e)

(***************************************************************************)
(* Whatever the broker debits is covered by the customer's hold while the  *)
(* session is open, through refills, late deliveries and lost outcomes,    *)
(* and the debit of a session closed by a settlement is exactly the        *)
(* customer's bill, then and for ever after.                               *)
(***************************************************************************)
DebitCoveredByHold ==
    \A e \in Engagements :
        /\ state[e] = "open" => debit[e] <= customerMax[e]
        /\ outcome[e] = "settled" => debit[e] = billed[e]

(***************************************************************************)
(* "A released claim is never authorized later" (docs/RELIABILITY.md): a   *)
(* hold that went back to the customer as NOT_ADMITTED has no grant, has   *)
(* delivered nothing and is never debited, however slow the request that   *)
(* claimed it is.                                                          *)
(***************************************************************************)
ReleasedClaimHasNoGrant ==
    \A e \in Engagements : outcome[e] = "not_admitted" =>
        /\ \A n \in Revisions : ~Present(e, n) /\ <<e, n>> \notin delivered
        /\ debit[e] = 0

(***************************************************************************)
(* After a settlement closed the session, no authorization it ever issued  *)
(* can still be used at the broker: the settled one is spent, those before *)
(* it are superseded and those after it are retired unused                 *)
(* (_require_retired_successors).                                          *)
(***************************************************************************)
SettledCloseLeavesNoAuthority ==
    \A e \in Engagements : outcome[e] = "settled" =>
        \A n \in Revisions : Present(e, n) => broker[e][n] \in SpentOut

(***************************************************************************)
(* A retired grant is never brought back or relabelled by a late receiver  *)
(* answer, a close or operator recourse ("Already-terminal receiver        *)
(* evidence is preserved").                                                *)
(***************************************************************************)
RetiredGrantsStay ==
    [][\A e \in Engagements, n \in Revisions :
          grantState[e][n] \in RetiredGrant =>
              grantState'[e][n] = grantState[e][n]]_vars

(***************************************************************************)
(* The service implements the customer's view of a hold: every step of the *)
(* detailed specification places, raises or settles exactly one hold, adds *)
(* credit, or moves no credit at all.                                      *)
(***************************************************************************)
Hold == INSTANCE CustomerHold WITH
            credit <- balance, held <- customerMax, phase <- state, charged <- billed

ImplementsCustomerHold == Hold!HoldSpec
=============================================================================
