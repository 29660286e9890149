# A TLA+ model of the Livepeer Open Clearinghouse

The clearinghouse (LOC) sells paid work on Livepeer brokers to customers who
hold prepaid credit. It never executes work itself. It picks a route, sets
customer credit aside, has a payer daemon sign a *spend authorization*, hands
that to the customer's SDK, and later settles the hold against a record the
broker signed. This directory holds TLA+ modules for the parts of it that move
money or decide who may, for what surrounds them (accounts, discovery,
reporting, the SDK), the TLC configurations that check them, and TLAPS proofs.

Paths below are relative to the Python package
`src/livepeer_open_clearinghouse` unless they start with `docs/` or `sdks/`.

## 1. The system

| Component | State | Operations | Hard part |
|---|---|---|---|
| Customer billing `domains/billing` | `credit_balance`, `credit_ledger`, `spend_window`, `user_billing_config` | top-up, auto-replenish, hold, raise a hold, release, change configuration | replays, a cap that changes while a window is open |
| Paid sessions `domains/sessions` | `payment_session`, `spend_authorization_grant`, `payment_settlement` | prepare, open, refill, close, reconcile, release a dead claim | three commits with two remote calls between them, concurrent retries, late grants, refills that race a close |
| Paid jobs `domains/jobs` | the same tables | open, settle, reconcile, charge at the deadline | one transaction over many broker calls, two clocks, competing evidence |
| Wholesale accounts `domains/wholesale` | `wholesale_account`, `wholesale_funding`, `wholesale_exposure_budget` | observe, plan a shortfall, claim, mint, deposit, acknowledge | crash windows, row objects older than the row, opposite lock orders |
| Idempotent create requests `domains/payments` | `payment_idempotency_key` | claim, reclaim after a timeout, complete, fail, release a preparation, expire | leases, compare-and-set, stalled attempts, clock steps |
| Periodic jobs `main.py`, `providers/scheduler`, `providers/db` | one database session per job | session reconciler, job reconciler, funding poller, auto-replenish, expiry, telemetry retention | one transaction around several functions, aborts in the middle of a batch |
| Operator recourse `domains/admin` | the session row, grants, audit rows | `resolve_stuck_work` | closes against missing or contradictory broker evidence |
| Payer daemon client `providers/payment_daemon` | none (the daemon is remote) | sign an authorization, mint funding | unknown outcomes |
| Broker client and verification `providers/broker_settlement.py`, `settlement_verification.py` | none | query authorization, account, exchange; verify | late, missing, foreign and contradictory answers |
| Registry client and discovery `providers/registry_daemon`, `domains/discovery` | two in-process caches, refresh tasks | list the catalog, select a route, invalidate | answers that arrive after the state they describe has changed |
| Accounts, API keys, operators `domains/accounts`, `api_keys`, `admin` | users, one-time tokens, portal sessions, keys, operators, SDK approvals | sign-up, sign-in, reset, approve, revoke, rotate | checks and writes in different statements of concurrent transactions |
| Telemetry and notifications `domains/telemetry`, `notifications` | event rows, in-process dedupe map, banners, mails, callbacks | ingest, alert, record a refusal, notify, callbacks, purge | second database connections, redelivery, alerts across batches |
| Python SDK `sdks/python` | the runner's fields, the emitter's buffer | start, react to a balance, refill, close, submit a job, flush | lost replies, cancelled tasks, two closers |
| Usage views, other SDKs, console, migrations, conformance | - | views, ports, presentation, schema history, tests | - |

A paid session runs like this. The SDK prepares a session, then posts an open
request under an `Idempotency-Key`. The endpoint takes the *create-request claim*
of the key (first commit). `open_session` checks the balance without a lock,
`claim_wholesale_engagement` writes the session row and the hold (second
commit), the daemon signs, `record_spend_authorization_grant` records revision 0
(third commit), the shared wholesale account is funded, and the response goes
back together with the completion of the claim (fourth commit). A refill raises
the hold and records the next revision in one transaction. A close needs the
broker-signed terminal record and gives back what was not billed. Three periodic
functions clean up: grants are reconciled with the receiver's state, silent
sessions are finalized from broker records, and claims whose request died are
released. The operator may close a session by decision. A job opens the same
way and ends by a posted settlement, by one the job reconciler recovers, by a
signed non-admission, or by the release of its claim.

What makes each component correct:

- billing: the balance is the sum of the ledger, every hold is counted once, in
  one window, and no window exceeds the cap it was made with;
- sessions: a broker debit is always covered by a hold, a released claim is
  never authorized, a settled close leaves no usable authorization, and the
  customer sees holds that are placed, raised and settled once;
- jobs: a job ends once, its hold is split into bill and refund, the bill is
  what the broker debited, and it does end;
- wholesale accounts: no mint without its record, no acknowledgement without
  its credit, no claim beyond the operator's limits, no attempt that hangs;
- create requests: one winner, one payer identity per key;
- session reconciler: dead claims are released, live ones never, and silent
  sessions are finalized;
- registry: what a caller is shown is as current, and as complete, as it says,
  and no session opens on a route that was withdrawn longer ago than the caches
  may remember;
- accounts: revoked means revoked, a reset ends the old sessions, an approval
  grants credit once, an owner remains;
- reporting: refusals leave a trace, crossings are reported, redeliveries change
  nothing, and no request waits for ever;
- SDK: runner, LOC and broker agree on the cap, no grant is forgotten, settled
  means that the broker ended and LOC accepted the close.

`PROJECT.json` lists the hazards behind these statements at the source lines
where they bite.

## 2. Modules

| Module | Models | State and actions |
|---|---|---|
| `Billing` | `domains/billing/service.py` | One action per operation. Each one locks the balance row, so a committed operation is one step, and one that raises is no step. Ledger rows about an engagement are kept one by one, because the code looks them up by (engagement, reason); top-ups are two running totals. |
| `BillingProperties` | - | Properties that add up rows and windows. |
| `SumTheorems` | - | What the community operator `SumFunctionOnSet` does, proved once for the modules that add up rows. |
| `Engagement` | `domains/sessions/service.py`, `resolve_stuck_work`, the daemon's answers | EXTENDS `Billing`: every claim, refill, release and close is a session step and its ledger step together. An open request is a process with a program counter, one action between two commits or remote calls. Refill, close, recourse and reconciliation hold the row lock from first read to commit and are one action each. The broker is external: it admits what it was given, in revision order, and never debits past the cap it admitted. |
| `EngagementProperties`, `EngagementInvariant`, `EngagementProofs` | - | Properties, the inductive invariant, proofs of `Billing` and of `Engagement`. |
| `CustomerHold` | - | Abstract specification: what a customer may rely on. |
| `CreateRequest` | `domains/payments/service.py`, `release_session_preparation_claim` | One `payment_idempotency_key` row of one operation, several attempts, the expiry job. A claim is a read followed by a compare-and-set or an insert, each an action. |
| `SessionJanitor` | `_reconcile_open_sessions` in `main.py` and the three functions it calls | The shared transaction `tx` with its row locks, committed rows `db`, one action per visited row, requests that run in between and wait for locks. |
| `ClaimProofs` | - | Proofs of `CreateRequest` and of `SessionJanitor`. |
| `WholesaleFunding`, `WholesaleFundingProofs` | `domains/wholesale`, `_replenish_wholesale_account`, the poller in `main.py` | A worker is an open or refill request or the poller; every remote call and every commit is an action, `Fail` may strike between any two. `memory` is the row objects a worker still refers to: the sessionmaker has `expire_on_commit=False` and the selects do not ask for `populate_existing`, so a locked row is read as it was first loaded. |
| `PaidJob`, `PaidJobProofs` | `domains/jobs/service.py`, the exchange client, the verifier | `draft` is what the pass has written and not committed, `rowLock` what it keeps locked, `pass` the job it is asking about. A record of the broker says whom it is about, who signed it and its numbers, and is checked as `verify_job_settlement` and `verify_non_admission` do. |
| `RouteCache`, `RouteCacheProofs` | `CachingRegistryClient`, the discovery endpoints, `prepare_session` and the route check of `open_session` | One step between two awaits. A refresh is a task with the generation it began in, the registry's answer is read at one instant and arrives at another. `lastRanked` is history: the last instant at which each route was in the ranking. |
| `Identity`, `IdentityProofs` | `domains/accounts`, `api_keys`, operators, approvals and SDK builds of `admin`, authentication in `dependencies.py` | A request reads (`at = "read"`), takes the rows it writes (`"held"`) and commits or rolls back, each an action, so that two transactions interleave as under READ COMMITTED. `Clash` is the unique keys. |
| `SdkClient` | `sdks/python` `SessionRunner`, `submit_job` | Every await is a step: a call is sent, the peer handles it, the reply arrives or is lost. LOC and the broker are what the SDK sees of them. A refill commits before it is answered; a close and a settle call are answered before the commit (`CommitClose`, `CommitSettle`), which may fail. |
| `Reporting` | `domains/telemetry`, `domains/notifications`, the SDK's emitter | A request is the list of steps it has still to take and holds one of `Connections` from the first to the last; a step in an independent session takes a second one. A batch waits for the key's row, which an earlier one stamped and keeps locked until its commit (`KeyLocked`), and is answered (`Respond`) before it. |
| `SdkReportingProofs` | - | Proofs of `SdkClient` and of `Reporting`. |
| `MC*` | - | Small instances for TLC. |

`Engagement` composes `Billing` with the session tables, the requests, the
customer and the broker. `EngagementProperties` instantiates `CustomerHold` with
the refinement mapping credit = balance, held = `customer_max_debit_wei`, phase =
state, charged = `billed_value_wei`. `SessionJanitor` looks at the same rows as
`Engagement`, but at the grain of one scheduler transaction: `Engagement` lets each
function commit what it does, as a caller with a session of its own would see it,
and `SessionJanitor` shows what the deployed job makes of that. `SdkClient`
composes the runner with LOC's create request and session row and with the
broker; `WholesaleFunding` opens up the funding step of `Engagement`; `PaidJob`
opens up the evidence that `Engagement` takes for granted.

### Abstractions

- Amounts, units and times are small integers. The customer price is the
  wholesale price: `claim_wholesale_engagement` always writes a
  `wholesale_pass_through` policy.
- `draining` is not modelled: no code sets it.
- `Engagement` represents no routes, prices or signatures. A retry that resolves
  another price is a different `quote`; a settlement that does not verify is no
  close there and the record `"invalid"` in `SessionJanitor`. `PaidJob` has them:
  price per units, rounding, subject, signer and totals of a record.
- In `Engagement` funding the wholesale account is one step that succeeds or ends
  in `WHOLESALE_FUNDING_UNVERIFIED`. For a refill it needs the predecessor admitted.
- The age of a claim is left out: any open, unauthorized claim may be picked by
  the stale-claim release. This allows more interleavings than the 10-minute cutoff.
- `last_polled_at` and the batch limits of the session reconciler are left out;
  a session may be skipped in a pass (`PollSession` may leave it untouched). In
  `PaidJob` the polling order and the batch limit are kept.
- Fencing of open requests by the create-request lease is left out of
  `Engagement`: two attempts with one key may always overlap there, as they may in
  the code once the lease ran out.
- The `outcome_unknown` tombstone of `fail_create_request` is left out: nothing
  behind the claim raises `IdempotencyOutcomeUnknown`.
- `charge_payment`, `refund_payment`, `encumber_for_session` and
  `release_session_encumbrance` have no caller and are left out.
- `PaidJob` reduces time to two instants per job, the expiry of its authorization
  on LOC's clock and on the broker's. The operational deadline is not before the
  first. Opening a job is `Engagement`'s claim and grant in three steps.
- `RouteCache` keeps of a catalog entry what the parser and the endpoints look at
  (capability, eligibility, protocol, soundness), of a route its binding, schema
  and delegation. Token signatures hold.
- `Identity` keeps a password's version, not its hash, and one-time tokens by
  name. Rate limits on sign-in are left out.
- `SdkClient`: one caller of `on_balance` at a time, as the runner's own listener
  provides. Units are cumulative, as in the protocol.
- `Reporting`: one customer and one API key; every event of a batch is a valid
  `session.error`, the type the alert counts; callbacks carry a good signature. Two
  requests read the clock at different instants, so each one's `last_used_at` is a
  new value and its UPDATE takes the lock.

## 3. Runs

| Run | Instance | Shows |
|---|---|---|
| `billing` | 1 user, 2 engagements, amounts 1-2, 2 configurations (window length 1 and 2, cap 2 and 3), 1 cap revision, credit up to 4, 3 clock values | Ledger, balance and windows agree through replays, releases, rollovers and configuration changes. |
| `engagement` | 1 user, spend cap 3, credit up to 4; either 2 open requests with the key of one session, amounts 1-3, revisions 0-2, or 2 sessions with amounts up to 2 and one refill each | The session properties and the refinement, with attempts that race each other, the stale-claim release, the operator, refills and the broker, and with sessions that compete for one balance and one window. |
| `create_request` | 3 attempts, timeout 1, retention 2, clock 0-5; a paid operation (one attempt with another body, clock moving forwards) or a preparation (clock 0-3 moving both ways) | One live attempt, stable payer identity, a late release that leaves a newer attempt alone while no result is stored. |
| `session_janitor` | 2 rows, each a claim or a session at the start, with fairness | Dead claims are released, authorized sessions never are. |
| `wholesale` | 1 open request (reservation 2) for the first and the poller for both of 2 accounts of 1 payee, the first new or in use, target 1, limits 3, attempts at versions 0-1, with fairness | Funding survives crashes and replays, stays within the limits and ends. |
| `jobs` | 2 jobs of 1 customer (one settled at the broker at the start), 1 settle request, 2 units at 3 wei per 2 units, a deadline; the first job's broker refuses, restarts, cancels, loses data or signs with a foreign key; with fairness | A job is accounted once and for what was debited, and ends unless no evidence can exist. |
| `route_cache` | 2 discovery callers (clock 0-2, 1 invalidation) or 2 customers of which one only prepares (clock 0-3, preparations valid for 3), 3 listings, 3 rankings, TTL 1, staleness 1, timeouts 1, 1 publication, with fairness | What callers are shown and how old a route a session may open on. |
| `identity` | 1 address, 1 OAuth identity, 1 link, 2 portal sessions, 1 key, 2 operators, 1 SDK build, 2 requests in flight, 4 in all | Revocation, reset, approval and ownership under two interleaved transactions. |
| `sdk` | 1 session with caps up to 4 and 3 refill keys, or 1 job with 3 lookups and 3 settle attempts | Caps agree, no grant is forgotten, settled means that broker and LOC are done though LOC's commit comes after its answer, a submit call ends. |
| `reporting` | 2 requests on 2 connections, threshold 2, window 1, retention 1, batches of 1, buffer 2; four kinds of behaviour with 2 to 4 requests | Refusals, alerts, callbacks and the pool. |

Deadlock is checked in `billing`, `create_request`, `session_janitor` and
`wholesale`, where replays, the expiry job, the periodic pass or the poller
always can go on. In the other runs all work may simply be finished.

The bounds are small but reach the cases that matter. Two attempts are the
smallest number that can race, and a third one lets an attempt be reclaimed twice
or meet another body. Two refills make a chain with a predecessor and a successor
around a settled revision. With credit 4 and amounts up to 3 a session can be
opened, refilled and refused. A clock of 5 with timeout 1 and retention 2 lets a key
be claimed, reclaimed, completed, deleted and claimed again. Two rows let one
session's error end the pass before the other's turn, and let a pass and a settle
request wait for each other. Two accounts of one payee make the payee limit and
the aggregate limit bind with a shortfall of 2, and one version step lets an
intent be replayed against a newer account. Two transactions are enough for every
check that another one invalidates, because each check reads one row or one
count. A clock of 3 with timeout 1 and life 1 lets an answer be a full timeout
late, be kept for its life, and a preparation made from it be opened afterwards.
Two requests that both hold one of two connections are the pool's
worst case. The theorems remove the bounds for the statements they cover.

Some instances are a union of smaller ones, where the whole product would add
size and no new interaction. `Scenarios` (engagement) and `PrepareHorizon`
(create_request) are state constraints: two requests of one session *or* two
sessions, and a shorter horizon for preparations. No liveness is checked under
them. `MCInit` (route_cache), `NoJob` and `NoSession` (sdk) and `focus`
(reporting) split behaviours by the kind of request; the kinds left apart share no
state but the clock, except in `reporting`, where they share the pool: refusals
and callbacks meet there, batches meet only batches.

Each module has properties that several steps of several actors would have to
break. Type invariants were used while the modules were written; of them
`BillingTypeOK` stays, because "never negative" is in it, and `TypeOK` of
`Engagement` is proved.

Two more runs check a statement of the documentation or of a docstring that the
code does not keep; TLC prints the behaviour.

| Run | Statement | What happens |
|---|---|---|
| `session_janitor_silent` | docstring of `reconcile_open_sessions` | `release_stale_unauthorized_engagements` rolls back the transaction the closes are in. For the same reason the receiver states and `settlement_block`s of a pass are lost. |
| `jobs_deadline` | `docs/RELIABILITY.md:188` a failed lookup does not bypass the configured deadline for ever | `finalize_conservative_full_charge` returns without effect for a job without a `payment` row, and no code writes such rows for wholesale jobs. |

### Fairness

Safety runs need none. Nothing obliges a customer, an operator or an SDK to
begin anything, nor a broker to give evidence.

- `FairJanitorSpec`: weak fairness of the pass (`register_interval_job` runs the
  job for ever, one instance at a time, and every step of it returns: the HTTP
  client has a 10-second timeout); strong fairness, per session, of an answered
  authorization query and of a finalization: a broker that is asked again and
  again answers again and again. Without this a session in conflict could end
  every pass before the stale claims are reached.
- `FairFundingSpec`: strong fairness of each worker's next step. Every call has a
  timeout, PostgreSQL serves lock waiters in turn and breaks lock cycles
  (`DeadlockAbort`, an environment step like `Fail`). What the code adds is that
  every way out of an attempt gives up its locks; the mutant of `AttemptsEnd` is a
  refused claim that is handled without a rollback.
- `FairJobSpec`: weak fairness of the pass as above; strong fairness of what ends
  by itself (the validity of an authorization, admitted work, requests in flight),
  of a commit that waits for a lock, and of an answered lookup, per job. A pass
  that dies is possible but not for ever.
- `RouteCacheFairness`: weak fairness of a refresh, which its timeout ends, and of
  the delivery of a finished one, which is what the event loop does.
- `SubmitStep` in `MCSdkClient`: weak fairness, because a call that is awaited
  returns or times out.
- `ReportingSpec`: weak fairness of each request's next step that does not wait for
  the key's row (`RunsOn`); a wait for a connection ends with the pool's 30-second
  timeout, a wait for the row with the commit of the batch that has it.

## 4. Proofs

All theorems hold for every value of the constants that satisfies the named
assumptions of the modules. These are the types of the parameters and:

- `Retention >= InflightTimeout`, true of the defaults 60 s and 24 h though the
  settings do not enforce it;
- for `Identity`, accounts that exist at the start were granted credit if and only
  if they are approved;
- for `WholesaleFunding`, finitely many accounts and requests, and the order of the
  thresholds that the settings validate;
- for `Reporting`, finitely many requests, and a window and a threshold above zero;
- names that are distinct: `NoOne` is no worker and no account, the pass is no
  settle request.

`TypeOK`-like invariants describe rows by their fields where the provers need it
(`IsRow`, `IsFunding`: a record is the record of its fields).

**Sums.** `SumFunctionOnSet` folds a set in an order of its own. The library's
induction over finite sets takes an operator and cannot be used, so `SumTheorems`
argues from the smallest counterexample: the subset ordering of a finite set is well
founded, and a set of bad subsets without a minimal member is empty. It shows that
the fold exists, is unique, and that any element can be taken out first
(`SumSplits`); `SumChanges`, `SumGains`, `SumOrder` (no summand grows, nor does the
sum) and `SumAdds` (the sum of two parts) are what the other modules cite. They are
lemmas of arithmetic and say nothing about the code.

**Billing** (`EngagementProofs`): `BillingTypeCorrect` (so balances are never negative),
`SpendCapHolds`, `WindowsOnlyFill`. The cap is inductive with the types: a charge
compares spent + amount with the cap stored in the row, and a configuration change
touches no row. `LedgerIsTruth` and `HoldsCountedOnce` follow from `SumsAgree`, which
is inductive because a hold or a release adds at most one row, under a (engagement,
reason) that was not there, and moves balance and window by the same amount.

**Sessions** (`EngagementProofs`): the session properties are not inductive as they
stand. `EngagementInv` adds how the tables agree: an open row has no release and no
ledger row beyond its revision, its grants are exactly the revisions up to the
current one, each within the hold, a request about to be authorized quotes what is
held, the broker knows only delivered grants and admits them in order, and a grant is
recorded as unused only when the broker retired it. `InvariantHolds` proves it action
by action. `DebitIsCovered`, `ReleasedClaimStaysUnauthorized`, `SettledCloseIsFinal`
and `RetiredGrantsAreFinal` follow. `CustomerHoldImplemented` maps every step to
`Place`, `Raise`, `Settle`, `AddCredit` or a stutter: the ledger conjunct is what makes
a release move exactly `customerMax - billed`, because no release row can exist
before the row is closed. `MoneyInv` adds the sums: `LedgerMatchesRows` says that the
rows about a session add up to what its row owes, `SessionsKeepLedger` that the
balance is the sum of the ledger under the whole life cycle.

**Create requests** (`ClaimProofs`): `OneWinner` from `LeaseInv` (an unexpired
lease is covered by the row's expiry, so neither a compare-and-set nor the deletion
can match the row) for paid operations, and `IdentityStays` from `AbsentInv`. Both
assume `Forwards`, a clock that does not step back during paid operations. This is
needed: a preparation has a fence against clock steps, a paid operation has not.
`LateReleaseIsHarmless` is that fence, under any clock. `FenceInv` says that the
leases drawn under one request id are distinct and none exceeds the row's expiry,
which the compare-and-set keeps because it asks for more than the expiry it
compares. A stored result breaks it (section 5), so property and theorem are about
rows that have stored none.

**Session claims** (`ClaimProofs`): `JanitorKeepsAuthorized` from `JanitorInv`, which
says that the shared transaction of a pass holds no row when the pass comes to the
stale claims: the rollback that loses the reconciled closes (section 5) is also what
keeps an old copy of a row from being committed over an authorization.

**Wholesale accounts** (`WholesaleFundingProofs`): `FundingInv` orders the stages of an
intent: a worker past its claim has the intent on record, at the daemon with the
plan it has in hand, a receipt exists only for a recorded intent and says its
shortfall, and a worker past its deposit holds a receipt the broker keeps. A
replay with an old row object may set the status back, but no stage loses its
predecessor. `MintsAreOnRecord` and `AcknowledgedWasCredited` follow.
`LimitsHoldAtClaims` adds `LimitsInv` (a plan that waits for its claim passed the
limits) and the sums: because the claim computes the plan again under the locks and
compares, what the rows add up to after the commit is exactly the planned exposure.
It says nothing about the time between claims, when an acknowledgement may store an
older observation (section 5).

**Jobs** (`PaidJobProofs`): `JobInv` ties five places where evidence may be: the
row, the uncommitted draft of the pass, the answer the pass is about to apply, the
record a settle request verified, and what the broker knows. The heart is `Sound`: a
record that would be accepted states the final debit of a job that cannot be debited
again, and a signed non-admission comes from a broker that will never admit. Both are
stable while the broker moves on, which is why an answer may be applied late.
`JobsAccountedOnce` and `ChargesMatchDebits` follow.

**Accounts** (`IdentityProofs`): `IdentityInv` says, for every kind of transaction in
flight, what its read still guarantees when it writes: the rows it read still exist,
an insert or approval of the same key is the only one, a reset lists every session
but those that sign in with it, and without overlap an operator change is alone and
leaves another owner.
`ResetEndsSessions`, `CreditGrantedOnce` and `AnOwnerIsLeft` are conjuncts of it;
`AccountsStay` and `RevokedForGood` are action properties proved from it.

**SDK** (`SdkReportingProofs`): `SdkInv` says that a grant not yet admitted is the last one
and is named by the runner's refill key or by the call under way, and that LOC has
answered a close only of what the broker ended. `CapsAlwaysAgree` and
`GrantsAreRemembered` follow, and `SettledMeansOver`: once a closer has LOC's 2xx the
broker has ended the session, and no granted revision is open while LOC's commit is
done or still to come. After a commit that failed LOC may refill a session whose
runner is settled, and the theorem promises no more than that the broker ended it; nor
does it say when LOC's row is closed, because LOC answers first (section 5).

**Registry cache** (`RouteCacheProofs`): `CacheInv` has a part for each place a catalog
can be. The cached entry is unmarked, of the current generation and no older than its
life (`EntryOK`); a refresh belongs to the generation it began in and is ended by its
timeout, and its answer was read after it began (`TaskOK`); the registered refresh is
of the current generation (`RunningOK`); a caller waits for a refresh no older than
itself (`RequestOK`). `CacheHonoursInvalidation`, `CacheAnswersAreCurrent` and
`CacheEmptyIsConclusive` follow step by step: an answer that arrives after an
invalidation may still be given to the caller that asked before it, but is not
stored. `OpenedRoutesAreRanked` is about the other cache, which compares no
generation. `SelectionInv` bounds the age of a ranking wherever it can be: in the
registry (now), under way (no older than the selection timeout, `ClientOK`), in an
entry (which expires before its routes are out of reach, `KeptOK`), and therefore in an
opened session. It holds for any number of customers, because an entry's bound does
not depend on who filled it or on what it replaced; the preparation token, which
outlives the entry, gives no route back.

**Telemetry and notifications** (`SdkReportingProofs`): `ReportInv` is the types and
four parts. `Shape` says which lists of steps a request of each kind can have left, so
that a step determines what came before it. `RefusalInv` counts the refusals whose
row or log line is there and whose exception is not raised yet: an independent commit
adds one, the exception moves it, a failure only drops it, and a purge moves rows from
one summand to another (`SumAdds`). `MailInv` says that messages about to be recorded
are distinct and have no row. `CrossingInv` says that one batch at a time has stamped
the key's row and not committed, that what it counted covers the rows of its window
and its own, whatever is purged meanwhile (`SumOrder`), and that the dedupe mark
of a process always has its alert. `RefusalsAreRecorded`, `RedeliveriesAreSilent` and
`CrossingsAreReported` follow, for any number of requests and connections and any
window and threshold.

Only model-checked:

- everything about liveness (`DeadClaimReleased`, `AttemptsEnd`, `JobsEnd`,
  `CallersAnswered`, `SubmitEnds`, `ReportsEnd`): fairness and ENABLED are beyond the
  prover.

Every invariant and every action property of a passing run is the statement of a
theorem. What the theorems do not say is that the instances of TLC reach the cases
they are about; the mutants are for that.

Each property of a passing run has a mutant: a definition marked `Mutant` that
changes one mapped definition as a plausible bug would, and that TLC refutes.

## 5. Where code and documentation part

Besides the two violation runs, modelling met these disagreements and edges. The
models contain them, so the properties are stated to be true with them; none is
kept as a run of its own.

Statements the code does not keep:

- `docs/RELIABILITY.md:283` replenish at most the room in the window:
  `run_auto_replenish` never reads the window.
- `docs/RELIABILITY.md:65` "a same-key retry resumes it": the balance preflight of
  `open_session` runs before the claim is found, and the claim's own hold may have
  emptied the balance; the refusal is stored as a terminal failure.
- `docs/RELIABILITY.md:77` a retry "replays the exact payment bytes": the retry asks
  for a validity interval of its own clock, and the recorded grant rejects it.
- `docs/RELIABILITY.md:212` the operator closes an open session: a grant in
  `canceled_unused` is neither terminal nor active to
  `mark_spend_authorization_operator_resolved`. `_non_admission_grant` refuses such a
  grant, too.
- `docs/RELIABILITY.md:92` results are "replayed exactly": completion and failure are
  not fenced by the lease, and the expiry job writes a row it read earlier.
- `docs/RELIABILITY.md:381` the old expiry as a lower bound "prevents a late failure
  from releasing a newer attempt even when [...] the clock moves backwards": the
  unfenced completion sets the expiry to now plus the retention, which is earlier
  after a clock step of more than retention minus timeout; the expiry job, which read
  the row in flight, writes `expired` over the result; the next attempt draws, from
  the lowered expiry, a lease that an older attempt may still hold, and that one's
  failure releases it. TLC finds this with three equal preparations, timeout 1,
  retention 2 and clock 0-2 when `result = {}` is dropped from
  `ReleaseLeavesNewerAttempt`.
- `docs/RELIABILITY.md:124` "A new refill intent gets a new key": `_refill` of the
  Python runner keeps `_pending_refill_key` after a refused or lost refill, and the
  next intent, with another cap, reuses it (the TypeScript runner alike).
- `domains/wholesale/service.py:519` "Conservatively include deposits claimed but not
  yet observed as credit": an acknowledgement may write an older observation over a
  newer one, because the locked account row is read as it was first loaded.
- `domains/admin/service.py:539` "Don't allow demoting the last active owner": two
  overlapping changes each count the other's owner. `OwnerLeftUnlessOverlapped`
  shows that nothing else empties the set.
- `domains/telemetry/server_events.py:7` the call that triggered an event "still
  succeeds": a failed
  statement of `_safe_emit` leaves the request's transaction aborted, and its commit
  stores nothing. The alert query after an ingest does the same to the batch it
  follows, although 202 is answered (`EvaluationFails`), and so does the look-up of a
  webhook's address (`WebhookLookupFails`).
- `domains/telemetry/runtime.py:191` "the next fire requires a fresh crossing": under
  sustained errors the rows of the last window keep the count above the threshold,
  and the first batch after the window fires again without having dropped below it.
- `sdks/python` `submit_job` retries a settle call whose reply was lost, but LOC
  answers the repeat of a settled job with 409 (`domains/jobs/service.py:489`), so the
  call raises although the job is settled.

Edges worth knowing:

- Funding: a worker with a stale `claimed` row may write `minted` over
  `acknowledged` (it is acknowledged again later); claims whose worker died stay
  pending until the same request or poller version replays them, and count against
  the limits for as long; `_open_wholesale_job` does not catch
  `BrokerWholesaleAccountError`.
- Jobs: `SessionSettlementVerificationFailed` from `mark_spend_authorization_settled`
  is not caught in the pass and rolls back the whole pass (`SettleConflict`); a
  rolled-back pass has already emitted its verification event and emits it again; the
  pass writes `breakdown` from the row it listed, not from the one it locked; a
  `NOT_ADMITTED` job is reported as `broker_settled`.
- Registry: `invalidate()` is called by tests only; a `select` in flight across it
  fills the cache again; `select` and `select_many` entries age apart, so a prepared
  route may be refused until the older one expires.
- Accounts: a login in flight during a reset keeps its session (`raced`); two uses of
  one reset token in flight together may both succeed; a mailed link may have no row
  when the commit fails; a demoted or revoked bootstrap operator stays so after a
  restart; a key's row stays locked to the end of the request that uses it.
- SDK: LOC answers a close (`domains/sessions/runtime.py:391`) and a settle call before
  `get_session` (`dependencies.py:130`) commits: since FastAPI 0.118 a dependency with
  `yield` ends after the response is sent, and `uv.lock` has 0.136.1. A runner may be
  settled while LOC's row is still open, and if the commit fails it stays open: the
  runner keeps the result (`_final_settle`) and never closes again, and the reconciler
  that should finalize the session loses its work (run `session_janitor_silent`).
  An exception in `on_balance` ends the listener silently; a failed websocket
  attach leaves a session without one; a failed `close()` leaves `_closing` set; the
  application's close may cancel the listener's own close midway.
- Reporting: `emit_mint_refused` notifies twice; the dedupe mark is set before the
  notification, so a failed one suppresses a window; batches of one key are put in a
  row only by the lock that stamping `last_used_at` takes
  (`domains/api_keys/service.py:92`), so a slow alert delays the next batch; a batch
  is answered 202 before its commit, which may fail unseen; a lost reply makes the
  emitter send a batch twice; a buffer larger than the batch limit is rejected and
  dropped; the last callback to arrive decides a mail's status; a callback before the
  commit of its mail stays uncorrelated.

## 6. Not modelled

- Usage views, admin queries and exports, telemetry reports and downloads: they
  read rows and change none.
- The session variant of the settlement verifier and the canonical encoding that is
  signed: `PaidJob` has the checks that decide about money, `SessionJanitor` their
  two outcomes for sessions.
- Protobuf conversion, generated code, label parsing, e-mail templates, password
  hashing, OAuth exchanges, HTTP middleware and the rate limiter: libraries or
  conversions without state of their own.
- Go, Rust and TypeScript SDKs: ports of the Python SDK with the same protocol.
- The web console, migrations, conformance harness, examples and deployment files.

The payer daemon, the broker, the registry and the mail provider are other programs
and appear as environments. What is left to extend is depth rather than breadth: a
composition of `SdkClient` with `Engagement` instead of with the SDK's view of it,
and `WholesaleFunding` checked with several requests at a time (its theorems hold for
any number).
