----------------------------- MODULE Engagement -----------------------------
(***************************************************************************)
(* The life of a paid session: domains/sessions/service.py, with the hold  *)
(* it keeps on the customer's credit (module Billing), the open requests   *)
(* that may run twice for one Idempotency-Key, the payer daemon that signs *)
(* spend authorizations and the broker (receiver) that admits and debits   *)
(* them.                                                                   *)
(*                                                                         *)
(* An engagement is one payment_session row; e is also its broker request  *)
(* id, which is unique per user.  Revision n of its authorization is the   *)
(* spend_authorization_grant row with revision n; revision 0 comes from    *)
(* the open request, every later one from a refill.                        *)
(*                                                                         *)
(* An open request commits three times (claim, grant, completion) and      *)
(* waits for the daemon and the broker in between, so it is a process with *)
(* a program counter.  Refill, close, operator recourse and the            *)
(* reconcilers lock the payment_session row from their first read to their *)
(* commit, so each of them is one step.                                    *)
(***************************************************************************)
EXTENDS Billing

CONSTANTS
    Attempts,        \* open requests, retries included
    Target           \* Target[a]: the engagement that a's Idempotency-Key names

ASSUME TargetAssumption == Target \in [Attempts -> Engagements]

VARIABLES
    \* payment_session columns
    state,           \* lifecycle state ("none": no row)
    customerMax,     \* customer_max_debit_wei, the amount held
    authorization,   \* revision of the current authorization_id, or NoAuth
    billed,          \* billed_value_wei
    outcome,         \* how the row was closed
    \* spend_authorization_grant columns
    grantState,      \* state of revision n ("absent": no row)
    grantCap,        \* max_debit_wei of revision n
    \* open requests
    pc,              \* where the request is
    quote,           \* worst_case_value_wei on the route it selected
    resolved,        \* the billing configuration it read
    \* the customer and the broker
    delivered,       \* authorizations returned to the customer
    broker,          \* the receiver's durable state of each authorization
    debit            \* what the receiver has debited for the session

sessionVars == <<state, customerMax, authorization, billed, outcome>>
grantVars == <<grantState, grantCap>>
requestVars == <<pc, quote, resolved>>
brokerVars == <<delivered, broker, debit>>
vars == <<billingVars, sessionVars, grantVars, requestVars, brokerVars>>

NoAuth == -1

SessionStates == {"none", "open", "closed"}
Outcomes == {"none", "settled", "not_admitted", "operator"}

ActiveGrant == {"issued", "admitted", "outcome_unknown"}
UnusedGrant == {"canceled_unused", "expired_unused"}
RetiredGrant == UnusedGrant \cup {"settled", "superseded", "operator_resolved"}
GrantStates == {"absent"} \cup ActiveGrant \cup RetiredGrant

\* What the receiver may answer; "unknown" is an authorization it never saw.
BrokerStates ==
    {"unknown", "admitted", "outcome_unknown", "settled", "superseded"} \cup UnusedGrant

\* The receiver no longer debits an authorization in one of these states.
SpentOut == {"settled", "superseded"} \cup UnusedGrant

RunningRequest == {"routed", "claimed", "refused", "signed", "granted"}
FinishedRequest == {"completed", "failed", "unavailable", "crashed"}

TypeOK ==
    /\ BillingTypeOK
    /\ state \in [Engagements -> SessionStates]
    /\ customerMax \in [Engagements -> Nat]
    /\ authorization \in [Engagements -> Revisions \cup {NoAuth}]
    /\ billed \in [Engagements -> Nat]
    /\ outcome \in [Engagements -> Outcomes]
    /\ grantState \in [Engagements -> [Revisions -> GrantStates]]
    /\ grantCap \in [Engagements -> [Revisions -> Nat]]
    /\ pc \in [Attempts -> {"idle"} \cup RunningRequest \cup FinishedRequest]
    /\ quote \in [Attempts -> Nat]
    /\ resolved \in [Attempts -> Configs]
    /\ delivered \subseteq Engagements \X Revisions
    /\ broker \in [Engagements -> [Revisions -> BrokerStates]]
    /\ debit \in [Engagements -> Nat]

Init ==
    /\ BillingInit
    /\ state = [e \in Engagements |-> "none"]
    /\ customerMax = [e \in Engagements |-> 0]
    /\ authorization = [e \in Engagements |-> NoAuth]
    /\ billed = [e \in Engagements |-> 0]
    /\ outcome = [e \in Engagements |-> "none"]
    /\ grantState = [e \in Engagements |-> [n \in Revisions |-> "absent"]]
    /\ grantCap = [e \in Engagements |-> [n \in Revisions |-> 0]]
    /\ pc = [a \in Attempts |-> "idle"]
    /\ quote = [a \in Attempts |-> 0]
    /\ resolved = [a \in Attempts |-> config[Owner[Target[a]]]]
    /\ delivered = {}
    /\ broker = [e \in Engagements |-> [n \in Revisions |-> "unknown"]]
    /\ debit = [e \in Engagements |-> 0]

-----------------------------------------------------------------------------
(* Transaction fragments. *)

\* The hold that release_unauthorized_engagement may give back.
Releasable(e) == state[e] = "open" /\ authorization[e] = NoAuth

\* release_unauthorized_engagement: the whole hold, under the row lock.
ReleaseUnauthorizedEngagement(e) ==
    /\ Releasable(e)
    /\ ReleaseCustomerEngagement(e, customerMax[e])
    /\ state' = [state EXCEPT ![e] = "closed"]
    /\ billed' = [billed EXCEPT ![e] = 0]
    /\ outcome' = [outcome EXCEPT ![e] = "not_admitted"]
    /\ UNCHANGED <<customerMax, authorization>>

\* Mutant: gives the whole hold back.
CloseRefundsAll(e, amount, how) ==
    /\ state' = [state EXCEPT ![e] = "closed"]
    /\ ReleaseCustomerEngagement(e, customerMax[e])
    /\ billed' = [billed EXCEPT ![e] = amount]
    /\ outcome' = [outcome EXCEPT ![e] = how]

\* The money part of a close: transition_state, then the unused part of the
\* hold goes back.
CloseAndRelease(e, amount, how) ==
    /\ state' = [state EXCEPT ![e] = "closed"]
    /\ IF customerMax[e] > amount
         THEN ReleaseCustomerEngagement(e, customerMax[e] - amount)
         ELSE UNCHANGED <<balance, ledger, window>>
    /\ billed' = [billed EXCEPT ![e] = amount]
    /\ outcome' = [outcome EXCEPT ![e] = how]

-----------------------------------------------------------------------------
(***************************************************************************)
(* Opening a session: open_session and _open_wholesale_session.  A request *)
(* that ends "failed" has recorded a terminal failure under its key; one   *)
(* that ends "unavailable" or "crashed" left its claim to be retried.      *)
(***************************************************************************)
Goto(a, next) == pc' = [pc EXCEPT ![a] = next]

\* Configuration, route selection, price and the unlocked balance preflight.
OpenSession(a, amount) ==
    LET u == Owner[Target[a]]
    IN  /\ pc[a] = "idle"
        /\ Goto(a, IF balance[u] < amount THEN "failed" ELSE "routed")
        /\ quote' = [quote EXCEPT ![a] = amount]
        /\ resolved' = [resolved EXCEPT ![a] = config[u]]
        /\ UNCHANGED <<billingVars, sessionVars, grantVars, brokerVars>>

\* claim_wholesale_engagement on a new key: row and hold in one commit.
ClaimWholesaleEngagement(a) ==
    LET e == Target[a]
    IN  /\ pc[a] = "routed"
        /\ state[e] = "none"
        /\ EncumberCustomerEngagement(e, quote[a], resolved[a])
        /\ state' = [state EXCEPT ![e] = "open"]
        /\ customerMax' = [customerMax EXCEPT ![e] = quote[a]]
        /\ Goto(a, "claimed")
        /\ UNCHANGED <<granted, replenished, config, now, authorization, billed,
                       outcome, grantVars, quote, resolved, brokerVars>>

\* claim_wholesale_engagement on a key that has its row: resume the exact
\* replay while the row is open, otherwise fail.
ResumeWholesaleEngagement(a) ==
    LET e == Target[a]
    IN  /\ pc[a] = "routed"
        /\ state[e] # "none"
        /\ Goto(a, IF state[e] = "open" /\ customerMax[e] = quote[a]
                     THEN "claimed" ELSE "failed")
        /\ UNCHANGED <<billingVars, sessionVars, grantVars, quote, resolved, brokerVars>>

\* InsufficientCredit or SpendCapExceeded under the lock: all rolled back.
ClaimRefused(a) ==
    LET e == Target[a]
        row == CurrentWindow(Owner[e], resolved[a])
    IN  /\ pc[a] = "routed"
        /\ state[e] = "none"
        /\ \/ balance[Owner[e]] < quote[a]
           \/ resolved[a].cap > 0 /\ row.spent + quote[a] > row.cap
        /\ Goto(a, "failed")
        /\ UNCHANGED <<billingVars, sessionVars, grantVars, quote, resolved, brokerVars>>

\* issue_initial_authorization_or_release up to the daemon's answer: it
\* signs, refuses for good, or the outcome is unknown.
IssueInitialAuthorization(a) ==
    /\ pc[a] = "claimed"
    /\ \E answer \in {"signed", "refused", "unavailable"} : Goto(a, answer)
    /\ UNCHANGED <<billingVars, sessionVars, grantVars, quote, resolved, brokerVars>>

\* A definitive refusal releases the hold, unless a concurrent grant won.
ReleaseRefused(a) ==
    LET e == Target[a]
    IN  /\ pc[a] = "refused"
        /\ Goto(a, "failed")
        /\ \/ ReleaseUnauthorizedEngagement(e)
           \/ ~Releasable(e) /\ UNCHANGED <<balance, ledger, window, sessionVars>>
        /\ UNCHANGED <<granted, replenished, config, now, grantVars, quote, resolved,
                       brokerVars>>

\* Mutant: does not look at the session state under the lock.
RecordLateGrant(a) ==
    LET e == Target[a]
    IN  /\ pc[a] = "signed"
        /\ grantState[e][0] = "absent"
        /\ grantState' = [grantState EXCEPT ![e][0] = "issued"]
        /\ grantCap' = [grantCap EXCEPT ![e][0] = quote[a]]
        /\ authorization' = [authorization EXCEPT ![e] = 0]
        /\ Goto(a, "granted")
        /\ UNCHANGED <<billingVars, state, customerMax, billed, outcome, quote,
                       resolved, brokerVars>>

\* record_spend_authorization_grant for revision 0.
RecordInitialGrant(a) ==
    LET e == Target[a]
    IN  /\ pc[a] = "signed"
        /\ state[e] = "open"
        /\ grantState[e][0] = "absent"
        /\ grantState' = [grantState EXCEPT ![e][0] = "issued"]
        /\ grantCap' = [grantCap EXCEPT ![e][0] = quote[a]]
        /\ authorization' = [authorization EXCEPT ![e] = 0]
        /\ Goto(a, "granted")
        /\ UNCHANGED <<billingVars, state, customerMax, billed, outcome, quote,
                       resolved, brokerVars>>

\* The row is no longer open (EngagementClosed), or revision 0 was recorded
\* by another request: its not_before and expires_at are that request's
\* clock, so the scope differs ("authorization revision replay changed scope").
InitialGrantRejected(a) ==
    LET e == Target[a]
    IN  /\ pc[a] = "signed"
        /\ state[e] # "open" \/ grantState[e][0] # "absent"
        /\ Goto(a, "failed")
        /\ UNCHANGED <<billingVars, sessionVars, grantVars, quote, resolved, brokerVars>>

\* _replenish_for_request, then the response: the account is funded and
\* verified, or the request ends as WHOLESALE_FUNDING_UNVERIFIED.
FundInitialGrant(a) ==
    /\ pc[a] = "granted"
    /\ \/ /\ Goto(a, "completed")
          /\ delivered' = delivered \cup {<<Target[a], 0>>}
       \/ /\ Goto(a, "unavailable")
          /\ UNCHANGED delivered
    /\ UNCHANGED <<billingVars, sessionVars, grantVars, quote, resolved, broker, debit>>

\* The process stops, or the client goes away, between two commits.
Crash(a) ==
    /\ pc[a] \in RunningRequest
    /\ Goto(a, "crashed")
    /\ UNCHANGED <<billingVars, sessionVars, grantVars, quote, resolved, brokerVars>>

RequestNext ==
    \E a \in Attempts :
        \/ \E amount \in Amounts : OpenSession(a, amount)
        \/ ClaimWholesaleEngagement(a)
        \/ ResumeWholesaleEngagement(a)
        \/ ClaimRefused(a)
        \/ IssueInitialAuthorization(a)
        \/ ReleaseRefused(a)
        \/ RecordInitialGrant(a)
        \/ InitialGrantRejected(a)
        \/ FundInitialGrant(a)
        \/ Crash(a)

-----------------------------------------------------------------------------
(* Releasing a claim that died, refilling, closing, operator recourse. *)

\* release_stale_unauthorized_engagements, one candidate: each has its own
\* transaction and rechecks the row under the lock.  How old a claim is says
\* nothing about where its request stands, so any open claim is a candidate.
ReleaseStale(e) ==
    /\ ReleaseUnauthorizedEngagement(e)
    /\ UNCHANGED <<granted, replenished, config, now, grantVars, requestVars, brokerVars>>

\* Mutant: the new grant is recorded for more than the hold that backs it.
RefillBeyondHold(e, amount, cfg) ==
    LET next == authorization[e] + 1
    IN  /\ state[e] = "open"
        /\ authorization[e] \in 0 .. MaxRevision - 1
        /\ amount > customerMax[e]
        /\ IncreaseCustomerEngagementCap(e, next, amount - customerMax[e], cfg)
        /\ grantState' = [grantState EXCEPT ![e][next] = "issued"]
        /\ grantCap' = [grantCap EXCEPT ![e][next] = amount]
        /\ authorization' = [authorization EXCEPT ![e] = next]
        /\ UNCHANGED <<granted, replenished, config, now, state, customerMax, billed,
                       outcome, requestVars, brokerVars>>

\* refill_session and _refill_wholesale_session up to their commit: a larger
\* hold, the next revision and the session row under one row lock, which is
\* held while the daemon signs.  A refusal rolls all of it back.
RefillSession(e, amount, cfg) ==
    LET next == authorization[e] + 1
    IN  /\ state[e] = "open"
        /\ authorization[e] \in 0 .. MaxRevision - 1
        /\ amount > customerMax[e]
        /\ IncreaseCustomerEngagementCap(e, next, amount - customerMax[e], cfg)
        /\ grantState' = [grantState EXCEPT ![e][next] = "issued"]
        /\ grantCap' = [grantCap EXCEPT ![e][next] = amount]
        /\ authorization' = [authorization EXCEPT ![e] = next]
        /\ customerMax' = [customerMax EXCEPT ![e] = amount]
        /\ UNCHANGED <<granted, replenished, config, now, state, billed, outcome,
                       requestVars, brokerVars>>

\* The rest of a refill, or its same-key replay: funding first reads the
\* predecessor from the broker and needs it admitted.
DeliverRevision(e, n) ==
    /\ n > 0
    /\ grantState[e][n] # "absent"
    /\ broker[e][n - 1] = "admitted"
    /\ <<e, n>> \notin delivered
    /\ delivered' = delivered \cup {<<e, n>>}
    /\ UNCHANGED <<billingVars, sessionVars, grantVars, requestVars, broker, debit>>

\* Mutant: closes without looking at the successors of the settled grant.
CloseIgnoringSuccessors(e, n) ==
    /\ state[e] = "open"
    /\ broker[e][n] = "settled"
    /\ grantState[e][n] \in {"issued", "admitted", "settled"}
    /\ debit[e] <= grantCap[e][n]
    /\ debit[e] <= customerMax[e]
    /\ CloseAndRelease(e, debit[e], "settled")
    /\ authorization' = [authorization EXCEPT ![e] = n]
    /\ grantState' = [grantState EXCEPT ![e][n] = "settled"]
    /\ UNCHANGED <<granted, replenished, config, now, customerMax, grantCap,
                   requestVars, brokerVars>>

\* close_session with the broker-signed terminal settlement of revision n,
\* sent by the SDK or fetched by reconcile_open_sessions.  The settlement
\* bills the debit; every later revision must be retired as unused.
CloseSession(e, n) ==
    /\ state[e] = "open"
    /\ broker[e][n] = "settled"
    /\ grantState[e][n] \in {"issued", "admitted", "settled"}
    /\ debit[e] <= grantCap[e][n]
    /\ \A m \in Revisions :
         m > n /\ grantState[e][m] # "absent" => grantState[e][m] \in UnusedGrant
    /\ debit[e] <= customerMax[e]
    /\ CloseAndRelease(e, debit[e], "settled")
    /\ authorization' = [authorization EXCEPT ![e] = n]
    /\ grantState' = [grantState EXCEPT ![e][n] = "settled"]
    /\ UNCHANGED <<granted, replenished, config, now, customerMax, grantCap,
                   requestVars, brokerVars>>

\* mark_spend_authorization_operator_resolved refuses every other state:
\* canceled_unused is neither in its terminal nor in its active states.
OperatorCanRetire(e) ==
    \A n \in Revisions : grantState[e][n] # "canceled_unused"

\* resolve_stuck_work: refund_hold bills 0, charge_full the whole hold and
\* accept_reported something in between.
ResolveStuckWork(e, amount) ==
    /\ state[e] = "open"
    /\ authorization[e] # NoAuth
    /\ amount <= customerMax[e]
    /\ OperatorCanRetire(e)
    /\ CloseAndRelease(e, amount, "operator")
    /\ grantState' = [grantState EXCEPT ![e] =
                        [n \in Revisions |->
                           IF @[n] \in ActiveGrant THEN "operator_resolved" ELSE @[n]]]
    /\ UNCHANGED <<granted, replenished, config, now, customerMax, authorization,
                   grantCap, requestVars, brokerVars>>

\* Mutant: any observation is applied, as if the receiver could not lag.
ReconcileBlindly(e, n) ==
    /\ grantState[e][n] # "absent"
    /\ broker[e][n] # "unknown"
    /\ grantState' = [grantState EXCEPT ![e][n] = broker[e][n]]
    /\ UNCHANGED <<billingVars, sessionVars, grantCap, requestVars, brokerVars>>

\* reconcile_spend_authorization_states, one grant: the receiver's durable
\* state is applied, except where it would undo what LOC already knows.  The
\* caller commits here; SessionJanitor has the scheduler job's own transaction.
ReconcileGrant(e, n) ==
    /\ grantState[e][n] \in ActiveGrant
    /\ broker[e][n] \notin {"unknown", grantState[e][n]}
    /\ grantState[e][n] = "admitted" => broker[e][n] \notin UnusedGrant
    /\ grantState[e][n] = "outcome_unknown" => broker[e][n] \in SpentOut
    /\ grantState' = [grantState EXCEPT ![e][n] = broker[e][n]]
    /\ UNCHANGED <<billingVars, sessionVars, grantCap, requestVars, brokerVars>>

ServiceNext ==
    \E e \in Engagements :
        \/ ReleaseStale(e)
        \/ \E amount \in Amounts, cfg \in Configs : RefillSession(e, amount, cfg)
        \/ \E amount \in 0 .. customerMax[e] : ResolveStuckWork(e, amount)
        \/ \E n \in Revisions :
             DeliverRevision(e, n) \/ CloseSession(e, n) \/ ReconcileGrant(e, n)

-----------------------------------------------------------------------------
(***************************************************************************)
(* The broker, which is not part of this repository: what the code relies  *)
(* on.  It admits only authorizations it was given, a revision replaces    *)
(* the one before it, and it never debits past the admitted cap.           *)
(***************************************************************************)
BrokerMoves(e, n, from, to) ==
    /\ broker[e][n] \in from
    /\ broker' = [broker EXCEPT ![e][n] = to]
    /\ UNCHANGED <<billingVars, sessionVars, grantVars, requestVars, delivered, debit>>

BrokerAdmitsFirst(e) == <<e, 0>> \in delivered /\ BrokerMoves(e, 0, {"unknown"}, "admitted")

BrokerAdmitsRevision(e, n) ==
    /\ n > 0
    /\ <<e, n>> \in delivered
    /\ broker[e][n] = "unknown"
    /\ broker[e][n - 1] = "admitted"
    /\ broker' = [broker EXCEPT ![e][n] = "admitted", ![e][n - 1] = "superseded"]
    /\ UNCHANGED <<billingVars, sessionVars, grantVars, requestVars, delivered, debit>>

BrokerDebits(e, n) ==
    /\ broker[e][n] = "admitted"
    /\ debit[e] < grantCap[e][n]
    /\ debit' = [debit EXCEPT ![e] = @ + 1]
    /\ UNCHANGED <<billingVars, sessionVars, grantVars, requestVars, delivered, broker>>

BrokerRetiresUnused(e, n, to) ==
    <<e, n>> \in delivered /\ BrokerMoves(e, n, {"unknown"}, to)

BrokerLosesOutcome(e, n) == BrokerMoves(e, n, {"admitted"}, "outcome_unknown")

BrokerSettles(e, n) == BrokerMoves(e, n, {"admitted", "outcome_unknown"}, "settled")

BrokerNext ==
    \E e \in Engagements :
        \/ BrokerAdmitsFirst(e)
        \/ \E n \in Revisions :
             \/ BrokerAdmitsRevision(e, n)
             \/ BrokerDebits(e, n)
             \/ \E to \in UnusedGrant : BrokerRetiresUnused(e, n, to)
             \/ BrokerLosesOutcome(e, n)
             \/ BrokerSettles(e, n)

-----------------------------------------------------------------------------
\* Credit moves and time passes while engagements are under way.
CreditStep ==
    /\ CreditNext
    /\ UNCHANGED <<sessionVars, grantVars, requestVars, brokerVars>>

Next == RequestNext \/ ServiceNext \/ BrokerNext \/ CreditStep

Spec == Init /\ [][Next]_vars
=============================================================================
