------------------------------ MODULE Billing ------------------------------
(***************************************************************************)
(* Customer credit: domains/billing/service.py.                            *)
(*                                                                         *)
(* Each user has one credit_balance row and the credit_ledger rows that    *)
(* explain it.  Every operation takes the balance row with FOR UPDATE and  *)
(* refreshes it, so an operation that commits is one atomic step; one that *)
(* raises (InsufficientCredit, SpendCapExceeded, a replay that changed the *)
(* amount) rolls its transaction back, so it is no step at all.            *)
(*                                                                         *)
(* Rows about an engagement are kept one by one, because the code looks    *)
(* them up by (related_engagement_id, reason).  Top-up rows are never      *)
(* looked up: their deltas are kept as two running totals per user.        *)
(***************************************************************************)
EXTENDS Integers

CONSTANTS
    Users,          \* customers
    Engagements,    \* payment_session ids
    Owner,          \* Owner[e]: the user an engagement belongs to
    Amounts,        \* amounts of wei a caller may pass
    Configs,        \* resolved billing configurations the operator may choose
    MaxRevision,    \* bound on the cap revisions of one engagement
    MaxCredit,      \* bound on the credit ever granted to one user
    MaxTime         \* bound on the clock

Revisions == 0 .. MaxRevision

Config == [period: Nat \ {0}, cap: Nat, increment: Nat, threshold: Nat]

ASSUME OwnerAssumption == Owner \in [Engagements -> Users]
ASSUME AmountsAssumption == Amounts \subseteq Nat
ASSUME ConfigsAssumption == Configs \subseteq Config
ASSUME BoundsAssumption ==
    MaxRevision \in Nat /\ MaxCredit \in Nat /\ MaxTime \in Nat

VARIABLES
    balance,        \* credit_balance.amount_wei
    ledger,         \* credit_ledger rows that name an engagement
    granted,        \* sum of the ledger rows of operator top-ups
    replenished,    \* sum of the ledger rows of auto-replenish top-ups
    window,         \* spend_window rows, by window_start
    config,         \* resolved user_billing_config
    now             \* the clock

billingVars == <<balance, ledger, granted, replenished, window, config, now>>

(***************************************************************************)
(* Ledger reasons.  uq_credit_ledger_engagement_reason makes the pair      *)
(* (engagement, reason) unique.                                            *)
(***************************************************************************)
Encumbrance == <<"engagement_encumbrance", 0>>
CapRevision(n) == <<"engagement_cap_revision", n>>
ReleaseReason == <<"engagement_release", 0>>

Reasons ==
    {"engagement_encumbrance", "engagement_cap_revision", "engagement_release"}
        \X Revisions

LedgerRow == [engagement: Engagements, reason: Reasons, delta: Int]

\* A spend_window row is only created for a positive cap: cap 0 is "no row".
WindowRow == [cap: Nat, spent: Nat]
NoWindow == [cap |-> 0, spent |-> 0]

BillingTypeOK ==
    /\ balance \in [Users -> Nat]
    /\ ledger \subseteq LedgerRow
    /\ granted \in [Users -> Nat]
    /\ replenished \in [Users -> Nat]
    /\ window \in [Users -> [0 .. MaxTime -> WindowRow]]
    /\ config \in [Users -> Configs]
    /\ now \in 0 .. MaxTime

BillingInit ==
    /\ balance = [u \in Users |-> 0]
    /\ ledger = {}
    /\ granted = [u \in Users |-> 0]
    /\ replenished = [u \in Users |-> 0]
    /\ window = [u \in Users |-> [t \in 0 .. MaxTime |-> NoWindow]]
    /\ config \in [Users -> Configs]
    /\ now = 0

-----------------------------------------------------------------------------
(* Fragments of a transaction. *)

RowsFor(e, reason) == {row \in ledger : row.engagement = e /\ row.reason = reason}

\* Mutant: trusts the caller's earlier look at the balance.
ApplyDeltaUnchecked(e, reason, delta) ==
    /\ balance' = [balance EXCEPT ![Owner[e]] = @ + delta]
    /\ ledger' = ledger \cup
         {[engagement |-> e, reason |-> reason, delta |-> delta]}

\* _apply_delta, for a row about an engagement: never below zero.
ApplyDelta(e, reason, delta) ==
    /\ balance[Owner[e]] + delta >= 0
    /\ balance' = [balance EXCEPT ![Owner[e]] = @ + delta]
    /\ ledger' = ledger \cup
         {[engagement |-> e, reason |-> reason, delta |-> delta]}

\* window_bounds_for: the start of the window that contains the clock.
WindowStart(cfg) == (now \div cfg.period) * cfg.period

\* _get_or_create_spend_window: the cap is snapshotted when the row is made.
CurrentWindow(u, cfg) ==
    LET row == window[u][WindowStart(cfg)]
    IN  IF row = NoWindow THEN [cap |-> cfg.cap, spent |-> 0] ELSE row

\* Mutant: compares what was spent before this charge.
EnforceBeforeCharge(u, amount, cfg) ==
    IF cfg.cap = 0
      THEN UNCHANGED window
      ELSE LET row == CurrentWindow(u, cfg)
           IN  /\ row.spent <= row.cap
               /\ window' = [window EXCEPT ![u][WindowStart(cfg)] =
                               [row EXCEPT !.spent = @ + amount]]

\* enforce_and_record_spend: a cap of 0 means "no cap" and touches no row.
EnforceAndRecordSpend(u, amount, cfg) ==
    IF cfg.cap = 0
      THEN UNCHANGED window
      ELSE LET row == CurrentWindow(u, cfg)
           IN  /\ row.spent + amount <= row.cap
               /\ window' = [window EXCEPT ![u][WindowStart(cfg)] =
                               [row EXCEPT !.spent = @ + amount]]

\* Mutant: charges the spend window before looking for a replay.
HoldChargesReplay(e, reason, amount, cfg) ==
    \/ /\ RowsFor(e, reason) # {}
       /\ \A row \in RowsFor(e, reason) : row.delta = -amount
       /\ EnforceAndRecordSpend(Owner[e], amount, cfg)
       /\ UNCHANGED <<balance, ledger>>
    \/ /\ RowsFor(e, reason) = {}
       /\ EnforceAndRecordSpend(Owner[e], amount, cfg)
       /\ ApplyDelta(e, reason, -amount)

\* The part encumber_customer_engagement and increase_customer_engagement_cap
\* share: an existing row of the same amount is a replay.
HoldOnce(e, reason, amount, cfg) ==
    \/ /\ RowsFor(e, reason) # {}
       /\ \A row \in RowsFor(e, reason) : row.delta = -amount
       /\ UNCHANGED <<balance, ledger, window>>
    \/ /\ RowsFor(e, reason) = {}
       /\ EnforceAndRecordSpend(Owner[e], amount, cfg)
       /\ ApplyDelta(e, reason, -amount)

EncumberCustomerEngagement(e, amount, cfg) == HoldOnce(e, Encumbrance, amount, cfg)

IncreaseCustomerEngagementCap(e, revision, amount, cfg) ==
    /\ revision > 0
    /\ amount > 0
    /\ HoldOnce(e, CapRevision(revision), amount, cfg)

\* Mutant: releases without looking for an earlier release.
ReleaseAgain(e, amount) ==
    /\ ApplyDelta(e, ReleaseReason, amount)
    /\ UNCHANGED window

\* release_customer_engagement: the spend window keeps what was held.
ReleaseCustomerEngagement(e, amount) ==
    /\ \/ /\ RowsFor(e, ReleaseReason) # {}
          /\ \A row \in RowsFor(e, ReleaseReason) : row.delta = amount
          /\ UNCHANGED <<balance, ledger>>
       \/ /\ RowsFor(e, ReleaseReason) = {}
          /\ ApplyDelta(e, ReleaseReason, amount)
    /\ UNCHANGED window

-----------------------------------------------------------------------------
(* Operations that are a transaction of their own. *)

\* topup and grant_initial_credit: a non-positive initial credit is a no-op.
Topup(u, amount) ==
    /\ amount > 0
    /\ granted[u] + replenished[u] + amount <= MaxCredit
    /\ balance' = [balance EXCEPT ![u] = @ + amount]
    /\ granted' = [granted EXCEPT ![u] = @ + amount]
    /\ UNCHANGED <<ledger, replenished, window, config, now>>

NeedsReplenish(u) ==
    /\ config[u].increment > 0
    /\ config[u].threshold > 0
    /\ balance[u] < config[u].threshold

\* What run_auto_replenish credits to one user.
ReplenishAmount(u) == IF NeedsReplenish(u) THEN config[u].increment ELSE 0

\* run_auto_replenish: one transaction for the whole batch of users.
RunAutoReplenish ==
    /\ \E u \in Users : NeedsReplenish(u)
    /\ \A u \in Users :
         granted[u] + replenished[u] + ReplenishAmount(u) <= MaxCredit
    /\ balance' = [u \in Users |-> balance[u] + ReplenishAmount(u)]
    /\ replenished' = [u \in Users |-> replenished[u] + ReplenishAmount(u)]
    /\ UNCHANGED <<ledger, granted, window, config, now>>

\* upsert_billing_config, seen through resolve_billing_config.
UpsertBillingConfig(u, cfg) ==
    /\ config[u] # cfg
    /\ config' = [config EXCEPT ![u] = cfg]
    /\ UNCHANGED <<balance, ledger, granted, replenished, window, now>>

Tick ==
    /\ now < MaxTime
    /\ now' = now + 1
    /\ UNCHANGED <<balance, ledger, granted, replenished, window, config>>

\* Steps that need no engagement; the modules that extend this one reuse them.
CreditNext ==
    \/ \E u \in Users, amount \in Amounts : Topup(u, amount)
    \/ RunAutoReplenish
    \/ \E u \in Users, cfg \in Configs : UpsertBillingConfig(u, cfg)
    \/ Tick

-----------------------------------------------------------------------------
(***************************************************************************)
(* Billing on its own, under callers that may pass any amount, any cap     *)
(* revision and a configuration they resolved at any earlier time.         *)
(***************************************************************************)
Encumber(e, amount, cfg) ==
    /\ EncumberCustomerEngagement(e, amount, cfg)
    /\ UNCHANGED <<granted, replenished, config, now>>

Increase(e, revision, amount, cfg) ==
    /\ IncreaseCustomerEngagementCap(e, revision, amount, cfg)
    /\ UNCHANGED <<granted, replenished, config, now>>

Release(e, amount) ==
    /\ ReleaseCustomerEngagement(e, amount)
    /\ UNCHANGED <<granted, replenished, config, now>>

HoldNext ==
    \E e \in Engagements, amount \in Amounts :
        \/ \E cfg \in Configs : Encumber(e, amount, cfg)
        \/ \E cfg \in Configs, n \in Revisions : Increase(e, n, amount, cfg)
        \/ Release(e, amount)

BillingNext == CreditNext \/ HoldNext

BillingSpec == BillingInit /\ [][BillingNext]_billingVars
=============================================================================
