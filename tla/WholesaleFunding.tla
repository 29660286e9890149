-------------------------- MODULE WholesaleFunding --------------------------
(***************************************************************************)
(* Funding of the shared wholesale accounts: domains/wholesale/service.py  *)
(* as _replenish_wholesale_account of domains/sessions/service.py and the  *)
(* scheduler job of main.py drive it.                                      *)
(*                                                                         *)
(* A worker is an open or refill request, or the poller.  It observes the  *)
(* account at the broker, plans the shortfall, claims one mint intent      *)
(* under the lock of the exposure budget, asks the payer daemon to mint,   *)
(* deposits the payment and acknowledges the credit.  Every remote call    *)
(* and every commit is a step of its own, and a worker may die between any *)
(* two of them.                                                            *)
(*                                                                         *)
(* The database sessions are made with expire_on_commit=False and the      *)
(* selects of this component do not ask for populate_existing, so a row    *)
(* object that a worker still refers to keeps the attributes it was first  *)
(* loaded with, even under FOR UPDATE, and a flush writes the attributes   *)
(* that differ from the loaded ones.  `memory' is that copy.               *)
(***************************************************************************)
EXTENDS Integers, FiniteSetsExt, Functions

CONSTANTS
    Accounts,        \* (payee, settlement domain, account id)
    Payee,           \* Payee[x]: whom account x pays
    Workers,
    Poller,          \* the workers that run the scheduler job
    Requests,        \* broker request ids of open and refill requests
    Request,         \* Request[w]: the request id of a request worker
    Serves,          \* Serves[w]: the accounts w may fund
    Required,        \* Required[w]: required_reservation_wei, 0 for a poller
    Target,          \* wholesale_target_available_wei
    ReplenishBelow,  \* wholesale_replenish_below_wei
    MaxPayee,        \* wholesale_max_available_per_payee_wei
    MaxAggregate,    \* wholesale_max_aggregate_available_wei
    MaxSingle,       \* wholesale_max_single_funding_wei
    Opening,         \* what the accounts may be at the start, versions counted from there
    MaxVersion,      \* bound: no attempt begins at an account that is older
    NoOne            \* no worker, no row object

\* The mint intents: one per request, and one per account and version.
MintIds == Requests \cup (Accounts \X (0 .. MaxVersion))

ASSUME FundingAssumption ==
    /\ IsFiniteSet(Accounts) /\ IsFiniteSet(Requests)
    /\ Poller \subseteq Workers /\ NoOne \notin Workers \cup Accounts
    /\ Request \in [Workers \ Poller -> Requests]
    /\ Serves \in [Workers -> SUBSET Accounts]
    /\ Required \in [Workers -> Nat] /\ \A w \in Poller : Required[w] = 0
    /\ {Target, ReplenishBelow, MaxPayee, MaxAggregate, MaxSingle} \subseteq Nat \ {0}
    /\ ReplenishBelow <= Target /\ Target <= MaxPayee /\ Target <= MaxAggregate
    /\ MaxVersion \in Nat
    /\ Opening \subseteq [Accounts -> [credited : Nat, reserved : Nat, debited : Nat, version : {0}]]

VARIABLES
    broker,     \* broker[x]: the account as the receiver keeps it
    receipts,   \* receipts[i]: the deposits of payment i, {} or one receipt
    daemon,     \* daemon[i]: what the payer daemon did for mint id i
    account,    \* account[x]: the wholesale_account row
    funding,    \* funding[i]: the wholesale_funding row
    projected,  \* projected_available_wei of the exposure budget
    budgetLock, \* who holds the exposure budget row
    rowLock,    \* rowLock[x]: who holds account row x
    pc,         \* where each worker is
    work,       \* work[w]: account, mint id, observation and plan
    memory      \* memory[w]: row objects w still refers to

remoteVars == <<broker, receipts, daemon>>
rowVars == <<account, funding, projected>>
lockVars == <<budgetLock, rowLock>>
workerVars == <<pc, work, memory>>
fundingVars == <<remoteVars, rowVars, lockVars, workerVars>>

Available(b) == b.credited - b.reserved - b.debited

NoFunding == [status |-> "none", account |-> NoOne, target |-> 0, observed |-> 0,
              shortfall |-> 0, credited |-> 0, version |-> 0]

NoMint == [state |-> "none", target |-> 0, observed |-> 0]
NoPlan == [target |-> 0, observed |-> 0, shortfall |-> 0, payee |-> 0, aggregate |-> 0]
NoWork == [account |-> NoOne, id |-> NoOne, seen |-> NoOne, plan |-> NoPlan, receipt |-> NoOne]
NoMemory == [status |-> "none", account |-> NoOne]

\* What the account rows xs say is available, in all.
AvailableOn(xs) == SumFunctionOnSet([y \in Accounts |-> account[y].available], xs)

FundingInit ==
    /\ broker \in Opening
    /\ receipts = [i \in MintIds |-> {}]
    /\ daemon = [i \in MintIds |-> NoMint]
    /\ account = [x \in Accounts |-> [known |-> broker[x].credited > 0, version |-> 0,
                                       credited |-> broker[x].credited,
                                       available |-> Available(broker[x])]]
    /\ funding = [i \in MintIds |-> NoFunding]
    /\ projected = AvailableOn(Accounts)
    /\ budgetLock = NoOne
    /\ rowLock = [x \in Accounts |-> NoOne]
    /\ pc = [w \in Workers |-> "idle"]
    /\ work = [w \in Workers |-> NoWork]
    /\ memory = [w \in Workers |-> NoMemory]

Goto(w, where) == pc' = [pc EXCEPT ![w] = where]

-----------------------------------------------------------------------------
(* The plan *)

\* admission_funding_limits: a request raises the floor to its reservation.
FloorFor(w) == [target |-> Max({Target, Required[w]}),
                below |-> Max({ReplenishBelow, Required[w]})]

Admissible(w) == FloorFor(w).target <= Min({MaxPayee, MaxAggregate})

\* _pending_account_funding
Pending(xs) ==
    SumFunctionOnSet([i \in MintIds |-> funding[i].shortfall],
                     {i \in MintIds : /\ funding[i].status \in {"claimed", "minted"}
                                      /\ funding[i].account \in xs})

\* _synchronized_exposure: what LOC believes is at stake on the accounts xs,
\* with the row of x replaced by the observation b.
Exposure(xs, x, b) ==
    AvailableOn(xs \ {x}) + Pending(xs) + Available(b)

\* _matching_payee_accounts.  An account without a row counts nothing.
PayeeAccounts(x) == {y \in Accounts : Payee[y] = Payee[x]}

\* plan_account_shortfall
PlanFor(w, x, b) ==
    LET short == IF Available(b) < FloorFor(w).below
                   THEN FloorFor(w).target - Available(b) ELSE 0
    IN  [target |-> FloorFor(w).target, observed |-> Available(b), shortfall |-> short,
         payee |-> Exposure(PayeeAccounts(x), x, b) + short,
         aggregate |-> Exposure(Accounts, x, b) + short]

WithinLimits(plan) ==
    plan.shortfall > 0 =>
        /\ plan.shortfall <= MaxSingle
        /\ plan.payee <= MaxPayee
        /\ plan.aggregate <= MaxAggregate

-----------------------------------------------------------------------------
(* _replenish_wholesale_account *)

\* The mint id of an attempt: the request's, or one per observed version.
IdFor(w, x, b) == IF w \in Poller THEN <<x, b.version>> ELSE Request[w]

\* An attempt begins with an account snapshot from the broker.
Observe(w, x) ==
    /\ pc[w] = "idle"
    /\ x \in Serves[w]
    /\ broker[x].version <= MaxVersion
    /\ Admissible(w)
    /\ work' = [work EXCEPT ![w] = [NoWork EXCEPT !.account = x, !.seen = broker[x],
                                                   !.id = IdFor(w, x, broker[x])]]
    /\ Goto(w, "plan")
    /\ UNCHANGED <<remoteVars, rowVars, lockVars, memory>>

\* plan_observed_account_shortfall reads the rows without a lock.
Plan(w) ==
    /\ pc[w] = "plan"
    /\ LET plan == PlanFor(w, work[w].account, work[w].seen)
       IN  /\ WithinLimits(plan)
           /\ work' = [work EXCEPT ![w].plan = plan]
    /\ Goto(w, "lookup")
    /\ UNCHANGED <<remoteVars, rowVars, lockVars, memory>>

SameScope(w) ==
    LET f == funding[work[w].id]
    IN  /\ f.account = work[w].account
        /\ f.target = work[w].plan.target
        /\ f.status = "claimed" => /\ f.observed = work[w].plan.observed
                                   /\ f.shortfall = work[w].plan.shortfall

\* claim_account_funding, the replay: the intent exists and has the same scope.
\* complete_account_funding loads the account row and keeps it.
ClaimReplay(w) ==
    /\ pc[w] = "lookup"
    /\ funding[work[w].id].status # "none"
    /\ SameScope(w)
    /\ IF funding[work[w].id].status = "acknowledged"
         THEN /\ Goto(w, "verify")
              /\ UNCHANGED memory
         ELSE /\ Goto(w, IF funding[work[w].id].status = "claimed" THEN "mint" ELSE "deposit")
              /\ memory' = [memory EXCEPT ![w] = [status |-> funding[work[w].id].status,
                                                  account |-> account[work[w].account]]]
    /\ UNCHANGED <<remoteVars, rowVars, lockVars, work>>

ClaimLockBudget(w) ==
    /\ pc[w] = "lookup"
    /\ funding[work[w].id].status = "none"
    /\ budgetLock = NoOne
    /\ budgetLock' = w
    /\ Goto(w, "claim")
    /\ UNCHANGED <<remoteVars, rowVars, rowLock, work, memory>>

\* Mutant: the plan made without a lock is used as it is.
TrustPlan(w) == TRUE

\* The plan is computed again under the locks and must not have changed.
PlanHolds(w) == work[w].plan = PlanFor(w, work[w].account, work[w].seen)

\* Mutant: the intent is not committed before the daemon is asked to mint.
RowOfUnsavedClaim(w) == NoFunding

RowOfClaim(w) ==
    [NoFunding EXCEPT !.status = "claimed", !.account = work[w].account,
                      !.target = work[w].plan.target, !.observed = work[w].plan.observed,
                      !.shortfall = work[w].plan.shortfall]

\* Every account row is locked, the observation is stored, and the intent is
\* committed before the daemon hears of it.
ClaimCommit(w) ==
    LET x == work[w].account
        b == work[w].seen
        row == [known |-> TRUE, credited |-> b.credited, available |-> Available(b),
                version |-> b.version]
    IN  /\ pc[w] = "claim"
        /\ \A y \in Accounts : rowLock[y] = NoOne
        /\ funding[work[w].id].status = "none"     \* unique mint_request_id
        /\ PlanHolds(w)
        /\ account[x].known => b.version >= account[x].version
        /\ account' = [account EXCEPT ![x] = row]
        /\ projected' = work[w].plan.aggregate
        /\ budgetLock' = NoOne
        /\ IF work[w].plan.shortfall = 0
             THEN /\ Goto(w, "verify")
                  /\ UNCHANGED <<funding, memory>>
             ELSE /\ Goto(w, "mint")
                  /\ funding' = [funding EXCEPT ![work[w].id] = RowOfClaim(w)]
                  /\ memory' = [memory EXCEPT ![w] = [status |-> "claimed", account |-> row]]
        /\ UNCHANGED <<remoteVars, rowLock, work>>

\* The plan changed, another worker wrote the intent, or the row is newer.
ClaimStale(w) ==
    \/ funding[work[w].id].status # "none"
    \/ ~PlanHolds(w)
    \/ account[work[w].account].known /\ work[w].seen.version < account[work[w].account].version

\* Mutant: the refusal is handled without a rollback, the budget row stays locked.
RefusedWithoutRollback(w) ==
    /\ pc[w] = "claim"
    /\ \A y \in Accounts : rowLock[y] = NoOne
    /\ ClaimStale(w)
    /\ Goto(w, "idle")
    /\ work' = [work EXCEPT ![w] = NoWork]
    /\ UNCHANGED <<remoteVars, rowVars, lockVars, memory>>

\* A refusal under the lock rolls back.
ClaimRefused(w) ==
    /\ pc[w] = "claim"
    /\ \A y \in Accounts : rowLock[y] = NoOne
    /\ ClaimStale(w)
    /\ budgetLock' = NoOne
    /\ Goto(w, "idle")
    /\ work' = [work EXCEPT ![w] = NoWork]
    /\ UNCHANGED <<remoteVars, rowVars, rowLock, memory>>

-----------------------------------------------------------------------------
(* complete_account_funding *)

\* What the request to the daemon says.  The daemon compares it with the
\* request it has recorded under the id.
Intent(w) == [state |-> "minted", target |-> work[w].plan.target,
              observed |-> work[w].plan.observed]

\* The daemon mints, or replays the payment it minted for the id.
Mint(w) ==
    /\ pc[w] = "mint"
    /\ daemon[work[w].id] \in {NoMint, Intent(w)}
    /\ daemon' = [daemon EXCEPT ![work[w].id] = Intent(w)]
    /\ Goto(w, "record")
    /\ UNCHANGED <<broker, receipts, rowVars, lockVars, work, memory>>

\* The daemon reserved the id and can neither complete nor replay it
\* (MintOutcomeUnknown), for this attempt and for every later one.
MintOutcomeUnknown(w) ==
    /\ pc[w] = "mint"
    /\ daemon[work[w].id].state \in {"none", "reserved"}
    /\ daemon' = [daemon EXCEPT ![work[w].id] = [Intent(w) EXCEPT !.state = "reserved"]]
    /\ Goto(w, "idle")
    /\ work' = [work EXCEPT ![w] = NoWork]
    /\ memory' = [memory EXCEPT ![w] = NoMemory]
    /\ UNCHANGED <<broker, receipts, rowVars, lockVars>>

\* The funding row is locked while its acknowledgement waits for the budget.
FundingLocked(i) == \E v \in Workers : pc[v] = "budget" /\ work[v].id = i

\* record_minted_funding: the row gets the payment.  The status it compares is
\* the one in memory.
RecordMinted(w) ==
    /\ pc[w] = "record"
    /\ ~FundingLocked(work[w].id)
    /\ funding' = [funding EXCEPT ![work[w].id].status =
                      IF memory[w].status = "acknowledged" THEN @ ELSE "minted"]
    /\ memory' = [memory EXCEPT ![w].status = "minted"]
    /\ Goto(w, "deposit")
    /\ UNCHANGED <<remoteVars, account, projected, lockVars, work>>

\* fund_wholesale_account: the broker credits a payment once and replays its
\* receipt.
Deposit(w) ==
    LET x == work[w].account
        i == work[w].id
        after == [broker[x] EXCEPT !.credited = @ + funding[i].shortfall, !.version = @ + 1]
        receipt == [version |-> after.version, available |-> Available(after),
                    credited |-> funding[i].shortfall]
    IN  /\ pc[w] = "deposit"
        /\ IF receipts[i] = {}
             THEN /\ broker' = [broker EXCEPT ![x] = after]
                  /\ receipts' = [receipts EXCEPT ![i] = {receipt}]
             ELSE UNCHANGED <<broker, receipts>>
        /\ work' = [work EXCEPT ![w].receipt = IF receipts[i] = {} THEN receipt
                                               ELSE CHOOSE r \in receipts[i] : TRUE]
        /\ Goto(w, "observe")
        /\ UNCHANGED <<daemon, rowVars, lockVars, memory>>

\* The account is read again after the deposit.
ObserveAfter(w) ==
    /\ pc[w] = "observe"
    /\ work' = [work EXCEPT ![w].seen = broker[work[w].account]]
    /\ Goto(w, "acknowledge")
    /\ UNCHANGED <<remoteVars, rowVars, lockVars, memory>>

\* acknowledge_account_funding locks the funding row and the account row ...
AckLockRow(w) ==
    /\ pc[w] = "acknowledge"
    /\ rowLock[work[w].account] = NoOne
    /\ rowLock' = [rowLock EXCEPT ![work[w].account] = w]
    /\ Goto(w, "budget")
    /\ UNCHANGED <<remoteVars, rowVars, budgetLock, work, memory>>

\* The receipt belongs to the observed account, and the observation is not
\* older than the row in memory.
AckAccepts(w) ==
    LET b == work[w].seen
        r == work[w].receipt
    IN  /\ r.version <= b.version
        /\ r.version = b.version => r.available = Available(b)
        /\ b.version >= memory[w].account.version

\* A column is written when the new value differs from the one in memory.
Flush(row, loaded, value) ==
    [known |-> TRUE,
     credited |-> IF value.credited # loaded.credited THEN value.credited ELSE row.credited,
     available |-> IF value.available # loaded.available THEN value.available ELSE row.available,
     version |-> IF value.version # loaded.version THEN value.version ELSE row.version]

\* Mutant: the version of the account as it is now, not of the deposit.
AckedRowNow(w) ==
    [funding[work[w].id] EXCEPT !.status = "acknowledged",
                                !.credited = work[w].receipt.credited,
                                !.version = work[w].seen.version]

AckedRow(w) ==
    [funding[work[w].id] EXCEPT !.status = "acknowledged",
                                !.credited = work[w].receipt.credited,
                                !.version = work[w].receipt.version]

\* ... and then the budget row, and converges all three.
AckCommit(w) ==
    LET x == work[w].account
        b == work[w].seen
        i == work[w].id
        value == [known |-> TRUE, credited |-> b.credited, available |-> Available(b),
                  version |-> b.version]
    IN  /\ pc[w] = "budget"
        /\ budgetLock = NoOne
        /\ AckAccepts(w)
        /\ projected' = projected - memory[w].account.available - funding[i].shortfall
                        + Available(b)
        /\ account' = [account EXCEPT ![x] = Flush(@, memory[w].account, value)]
        /\ funding' = [funding EXCEPT ![i] = AckedRow(w)]
        /\ rowLock' = [rowLock EXCEPT ![x] = NoOne]
        /\ memory' = [memory EXCEPT ![w] = NoMemory]
        /\ Goto(w, "verify")
        /\ UNCHANGED <<remoteVars, budgetLock, work>>

-----------------------------------------------------------------------------
(* How an attempt ends *)

\* The worker lets go of everything; an open transaction is rolled back.
Abandon(w) ==
    /\ Goto(w, "idle")
    /\ work' = [work EXCEPT ![w] = NoWork]
    /\ memory' = [memory EXCEPT ![w] = NoMemory]
    /\ budgetLock' = IF budgetLock = w THEN NoOne ELSE budgetLock
    /\ rowLock' = [x \in Accounts |-> IF rowLock[x] = w THEN NoOne ELSE rowLock[x]]
    /\ UNCHANGED <<remoteVars, rowVars>>

\* verify_admission_funding_readiness: a request is answered only when the
\* broker still shows the credit its reservation needs.  The poller is done.
Verify(w) ==
    /\ pc[w] = "verify"
    /\ Abandon(w)

\* WholesaleFundingPolicyError and PaymentDaemonError.
PolicyError(w) ==
    /\ \/ pc[w] = "plan" /\ ~WithinLimits(PlanFor(w, work[w].account, work[w].seen))
       \/ pc[w] = "lookup" /\ funding[work[w].id].status # "none" /\ ~SameScope(w)
       \/ pc[w] = "mint" /\ daemon[work[w].id].state = "minted" /\ daemon[work[w].id] # Intent(w)
       \/ pc[w] = "budget" /\ budgetLock = NoOne /\ ~AckAccepts(w)
    /\ Abandon(w)

\* A claim holds the budget row and waits for account rows; an acknowledgement
\* holds an account row and waits for the budget.
LockCycle(v, w) == budgetLock = v /\ pc[v] = "claim" /\ pc[w] = "budget"

\* The database aborts one of the two transactions.
DeadlockAbort(w) ==
    /\ \E v \in Workers : LockCycle(v, w) \/ LockCycle(w, v)
    /\ Abandon(w)

\* The process dies, or a remote call fails or times out.
Fail(w) ==
    /\ pc[w] # "idle"
    /\ Abandon(w)

-----------------------------------------------------------------------------
(* The broker's own work on an account: external *)

BrokerReserve(x) ==
    /\ Available(broker[x]) > 0 /\ broker[x].version < MaxVersion
    /\ broker' = [broker EXCEPT ![x].reserved = @ + 1, ![x].version = @ + 1]
    /\ UNCHANGED <<receipts, daemon, rowVars, lockVars, workerVars>>

BrokerDebit(x) ==
    /\ broker[x].reserved > 0 /\ broker[x].version < MaxVersion
    /\ broker' = [broker EXCEPT ![x].reserved = @ - 1, ![x].debited = @ + 1, ![x].version = @ + 1]
    /\ UNCHANGED <<receipts, daemon, rowVars, lockVars, workerVars>>

BrokerRelease(x) ==
    /\ broker[x].reserved > 0 /\ broker[x].version < MaxVersion
    /\ broker' = [broker EXCEPT ![x].reserved = @ - 1, ![x].version = @ + 1]
    /\ UNCHANGED <<receipts, daemon, rowVars, lockVars, workerVars>>

-----------------------------------------------------------------------------
\* One step of an attempt that has begun.
Step(w) ==
    \/ Plan(w)
    \/ ClaimReplay(w)
    \/ ClaimLockBudget(w)
    \/ ClaimCommit(w)
    \/ ClaimRefused(w)
    \/ Mint(w)
    \/ MintOutcomeUnknown(w)
    \/ RecordMinted(w)
    \/ Deposit(w)
    \/ ObserveAfter(w)
    \/ AckLockRow(w)
    \/ AckCommit(w)
    \/ Verify(w)
    \/ PolicyError(w)
    \/ DeadlockAbort(w)

FundingNext ==
    \/ \E w \in Workers : \/ \E x \in Accounts : Observe(w, x)
                          \/ Step(w)
                          \/ Fail(w)
    \/ \E x \in Accounts : BrokerReserve(x) \/ BrokerDebit(x) \/ BrokerRelease(x)

FundingSpec == FundingInit /\ [][FundingNext]_fundingVars

\* Every call returns within its timeout and the database serves lock waiters
\* in turn, so an attempt that can go on again and again does.
FairFundingSpec == FundingSpec /\ \A w \in Workers : SF_fundingVars(Step(w))

-----------------------------------------------------------------------------
(* Properties *)

\* "An external mint can never precede its replay record" (claim_account_funding):
\* whatever the daemon did for a mint id, the database holds the intent it did it
\* for, whoever crashed, so a restart can replay the mint and never mints a second
\* payment for the same shortfall.
MintHasRecord ==
    \A i \in MintIds : daemon[i].state # "none" =>
        /\ funding[i].status # "none"
        /\ funding[i].target = daemon[i].target
        /\ funding[i].observed = daemon[i].observed

\* A funding row is acknowledged only for a payment that the broker has
\* credited, with the value and the account version of its one receipt, however
\* many workers replay it.
AcknowledgedIsCredited ==
    \A i \in MintIds : funding[i].status = "acknowledged" =>
        \E r \in receipts[i] : /\ funding[i].credited = r.credited
                              /\ funding[i].version = r.version
                              /\ r.credited = funding[i].shortfall

\* What LOC has committed to, as its rows show it.
Committed(xs) == AvailableOn(xs) + Pending(xs)

\* A new intent is committed only when all available value and all unfinished
\* intents together stay within the operator's limits, however many workers
\* planned from the same rows.
ClaimsWithinLimits ==
    [][\A i \in MintIds, x \in Accounts :
           (funding[i].status = "none" /\ funding'[i].account = x) =>
               /\ Committed(Accounts)' <= MaxAggregate
               /\ Committed(PayeeAccounts(x))' <= MaxPayee]_fundingVars

\* Every attempt ends, although claims and acknowledgements lock the same rows in
\* opposite orders.
AttemptsEnd == \A w \in Workers : pc[w] # "idle" ~> pc[w] = "idle"
=============================================================================
