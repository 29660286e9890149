------------------------------ MODULE PaidJob ------------------------------
(***************************************************************************)
(* Paid jobs: domains/jobs/service.py with the evidence checks of          *)
(* providers/settlement_verification.py and the exchange client of         *)
(* providers/broker_settlement.py.                                         *)
(*                                                                         *)
(* A job is opened like a session (module Engagement), so its opening is   *)
(* three steps here.  It ends in one of three ways: a customer posts the   *)
(* broker's signed settlement, the scheduler's pass recovers a settlement  *)
(* or a signed non-admission from the broker, or the stale claim is        *)
(* released.                                                               *)
(*                                                                         *)
(* A pass is one database transaction: it lists jobs without a lock, asks  *)
(* the broker about each of them in turn, and keeps every row it writes    *)
(* and every balance it touches locked until it commits.  `draft' holds    *)
(* the rows it wrote.  Time is reduced to the two instants that matter,    *)
(* the expiry of the authorization on LOC's clock and on the broker's,     *)
(* which need not agree.  The operational deadline, when there is one, is  *)
(* not before the expiry.                                                  *)
(***************************************************************************)
EXTENDS Integers, Sequences, FiniteSets, Functions, SequencesExt

CONSTANTS
    Jobs,
    Owner,           \* Owner[j]: the customer whose balance holds the money
    Settlers,        \* concurrent POST /v1/jobs/{id}/settle requests
    Routes,          \* [protocol, transport, delegated] the registry offers
    MaxUnits,        \* max_total_units
    Usage,           \* the numbers of units a job may turn out to use
    Amount, PerUnits, \* the price of the route: Amount wei per PerUnits units
    Batch,           \* batch_limit of the pass
    Deadline,        \* job_conservative_charge_after_seconds > 0
    TicketFunded,    \* jobs with a payment row; no code writes one any more
    Slips,           \* Slips[j]: what may be wrong with the broker's record of j
    Faults,          \* Faults[j]: what else may go wrong at the broker of j
    Finished,        \* jobs that the broker has settled before the behaviour begins
    NoOne

ASSUME JobAssumption ==
    /\ Usage # {}
    /\ Routes \subseteq [protocol : STRING, transport : STRING, delegated : BOOLEAN]
    /\ MaxUnits \in Nat /\ Usage \subseteq 0 .. MaxUnits /\ Amount \in Nat /\ PerUnits \in Nat \ {0}
    /\ Batch \in Nat \ {0}
    /\ Deadline \in BOOLEAN /\ TicketFunded \subseteq Jobs /\ Finished \subseteq Jobs
    /\ NoOne \notin Settlers /\ "pass" \notin Settlers \cup {NoOne}

VARIABLES
    job,         \* committed payment_session rows with their grant and events
    order,       \* the jobs, least recently polled first
    expired,     \* authorizations that have expired on LOC's clock
    settler,     \* settler[s]: the settle request s works on
    rowLock,     \* rowLock[j]: who holds the row
    pass,        \* the scheduler's pass
    draft,       \* rows the pass has written and not committed
    died,        \* a pass has died
    broker,      \* the broker's exchange record of each job
    lapsed,      \* authorizations that have expired on the broker's clock
    covered,     \* jobs the broker's records have covered since they were issued
    debit        \* what the broker debited for each job

locVars == <<job, order, expired, settler, rowLock, pass, draft, died>>
remoteVars == <<broker, lapsed, covered, debit>>
jobVars == <<locVars, remoteVars>>

-----------------------------------------------------------------------------
(* Evidence *)

\* _bill
Bill(units) == (units * Amount + PerUnits - 1) \div PerUnits

\* worst_case_value_wei: the hold, and max_debit_wei of the grant.
Hold == Bill(MaxUnits)

NoRecord == [about |-> NoOne, key |-> "none", failed |-> FALSE, units |-> 0, debited |-> 0,
             bill |-> 0, authorized |-> 0, released |-> 0]

\* A record the broker signs after debiting u units of j.  A slip is a way in
\* which the record may disagree with the job.
SignedRecord(j, u, slip) ==
    [about |-> IF slip = "other job" THEN NoOne ELSE j,
     key |-> IF slip = "foreign key" THEN "foreign" ELSE "delegated",
     failed |-> slip = "debit failed",
     units |-> u,
     debited |-> IF slip = "gap" THEN u + 1 ELSE u,
     bill |-> IF slip = "overbilled" THEN Bill(u) + 1 ELSE Bill(u),
     authorized |-> Hold,
     released |-> Hold - Bill(u)]

\* _verify_envelope and _authorize_key against the keys the route pinned.
SignedBy(row, record) == row.delegated /\ record.key = "delegated"

\* verify_job_settlement: every identity field, the units, the normative bill
\* and the accounting of the authorization.
VerifyJobSettlement(j, row, record) ==
    /\ SignedBy(row, record)
    /\ ~record.failed
    /\ record.about = j
    /\ record.debited = record.units /\ record.units <= MaxUnits
    /\ record.bill = Bill(record.debited)
    /\ record.authorized = Hold
    /\ record.released <= Hold /\ record.bill + record.released <= Hold

\* verify_non_admission.  `late' is observed_at >= expires_at of the grant.
VerifyNonAdmission(row, evidence) == row.delegated /\ evidence.covered

-----------------------------------------------------------------------------
(* Rows *)

NoRow == [state |-> "none", delegated |-> FALSE, grant |-> "absent", billed |-> 0,
          outcome |-> "none", audit |-> FALSE, block |-> NoRecord, closes |-> 0, refund |-> 0]

Moving == {"ACCOUNTING_PENDING", "IN_FLIGHT", "ADMISSION_REJECTED"}
UnusedGrant == {"issued", "outcome_unknown", "expired_unused"}
GrantStates == {"absent", "admitted", "canceled_unused", "settled"} \cup UnusedGrant

NoAnswer == [outcome |-> "none", record |-> NoRecord, evidence |-> [covered |-> FALSE, late |-> FALSE]]
NoPass == [at |-> "idle", queue |-> <<>>, answer |-> NoAnswer, credit |-> {}]
NoSettle == [job |-> NoOne, record |-> NoRecord]
NoDraft == [j \in {} |-> NoRow]

\* `audit' says that breakdown holds verified non-admission evidence.  The row
\* as the pass sees it: what it wrote itself, or the committed row.
RowOf(j) == IF j \in DOMAIN draft THEN draft[j] ELSE job[j]

\* Mutant: gives the whole hold back.
ClosedRefundsAll(row, bill, how, grant) ==
    [row EXCEPT !.state = "closed", !.billed = bill, !.outcome = how, !.grant = grant,
                !.closes = @ + 1, !.refund = @ + Hold]

\* One close: transition_state, the refund of the unused part of the hold, the
\* final fields, the state of the grant and the settlement event.
Closed(row, bill, how, grant) ==
    [row EXCEPT !.state = "closed", !.billed = bill, !.outcome = how, !.grant = grant,
                !.closes = @ + 1, !.refund = @ + (Hold - bill)]

\* finalize_conservative_full_charge keeps the whole hold.
ConservativeCharge(j, row) ==
    IF Deadline /\ row.state = "open" /\ j \in expired /\ j \in TicketFunded
      THEN Closed(row, Hold, "conservative_full_charge", row.grant) ELSE row

\* mark_spend_authorization_settled takes no other state.
CanSettle(row) == row.grant \in {"issued", "admitted", "settled"}

\* Mutant: releases on evidence observed before the authorization expired.
RetainEarly(j, row, evidence) ==
    IF row.state = "open" /\ row.grant \in UnusedGrant /\ VerifyNonAdmission(row, evidence)
       /\ j \in expired
      THEN Closed(row, 0, "NOT_ADMITTED", "expired_unused") ELSE row

\* _retain_verified_non_admission: retained once per evidence, and released
\* only when both clocks are past the expiry.
RetainVerifiedNonAdmission(j, row, evidence) ==
    LET verified == /\ row.state = "open"
                    /\ row.grant \in UnusedGrant
                    /\ VerifyNonAdmission(row, evidence)
        audited == [row EXCEPT !.audit = TRUE]
    IN  IF ~verified THEN row
        ELSE IF j \in expired /\ evidence.late
               THEN Closed(audited, 0, "NOT_ADMITTED", "expired_unused")
               ELSE audited

\* settle_job raises JobAlreadySettled on a closed row and
\* SettlementVerificationFailed on a record that does not verify; the pass
\* remembers the latter as settlement_block.
Reconciled(j, row, answer) ==
    CASE answer.outcome = "NOT_ADMITTED" -> RetainVerifiedNonAdmission(j, row, answer.evidence)
      [] answer.outcome \in Moving -> row
      [] answer.outcome = "SETTLED" /\ row.state = "open" /\ row.block # answer.record ->
           IF VerifyJobSettlement(j, row, answer.record)
             THEN Closed(row, answer.record.bill, "settled", "settled")
             ELSE ConservativeCharge(j, [row EXCEPT !.block = answer.record])
      [] OTHER -> ConservativeCharge(j, row)

-----------------------------------------------------------------------------
(* Opening a job *)

\* Mutant: takes a route whose settlements nobody can verify.
SelectUndelegated(r) == r.protocol = "paid-job/v1" /\ r.transport = "unary"

\* _select_job_route
SelectJobRoute(r) ==
    /\ r.protocol = "paid-job/v1"
    /\ r.transport = "unary"
    /\ r.delegated

Free(j) == rowLock[j] = NoOne

\* claim_wholesale_engagement of _open_wholesale_job: row and hold, committed.
OpenJob(j, r) ==
    /\ job[j].state = "none"
    /\ SelectJobRoute(r)
    /\ job' = [job EXCEPT ![j].state = "open", ![j].delegated = r.delegated]
    /\ UNCHANGED <<died, order, expired, settler, rowLock, pass, draft, remoteVars>>

\* issue_initial_authorization_or_release and record_spend_authorization_grant.
AuthorizeJob(j) ==
    /\ job[j].state = "open" /\ job[j].grant = "absent" /\ Free(j)
    /\ job' = [job EXCEPT ![j].grant = "issued"]
    /\ UNCHANGED <<died, order, expired, settler, rowLock, pass, draft, remoteVars>>

\* The payer daemon refused, or the request died and the claim went stale.
ReleaseUnauthorized(j) ==
    /\ job[j].state = "open" /\ job[j].grant = "absent" /\ Free(j)
    /\ job' = [job EXCEPT ![j] = Closed(@, 0, "NOT_ADMITTED", "absent")]
    /\ UNCHANGED <<died, order, expired, settler, rowLock, pass, draft, remoteVars>>

Expire(j) ==
    /\ job[j].grant # "absent" /\ j \notin expired
    /\ expired' = expired \cup {j}
    /\ UNCHANGED <<died, job, order, settler, rowLock, pass, draft, remoteVars>>

-----------------------------------------------------------------------------
(* POST /v1/jobs/{id}/settle *)

\* settle_job locks the row, and ends at once on a closed job, on a record that
\* does not verify or on a grant that cannot be settled.
LockSettle(s, j) ==
    /\ settler[s] = NoSettle
    /\ Free(j)
    /\ job[j].state = "open"
    /\ VerifyJobSettlement(j, job[j], broker[j].record)
    /\ CanSettle(job[j])
    /\ settler' = [settler EXCEPT ![s] = [job |-> j, record |-> broker[j].record]]
    /\ rowLock' = [rowLock EXCEPT ![j] = s]
    /\ UNCHANGED <<died, job, order, expired, pass, draft, remoteVars>>

EndSettle(s) ==
    /\ settler' = [settler EXCEPT ![s] = NoSettle]
    /\ rowLock' = [rowLock EXCEPT ![settler[s].job] = NoOne]

\* The refund takes the balance row, which a pass may hold.
CommitSettle(s) ==
    LET j == settler[s].job
        bill == settler[s].record.bill
    IN  /\ settler[s] # NoSettle
        /\ bill < Hold => Owner[j] \notin pass.credit
        /\ job' = [job EXCEPT ![j] = Closed(@, bill, "settled", "settled")]
        /\ EndSettle(s)
        /\ UNCHANGED <<died, order, expired, pass, draft, remoteVars>>

-----------------------------------------------------------------------------
(* The pass of reconcile_open_jobs *)

Listed == SelectSeq(order, LAMBDA j : job[j].state = "open")

BeginPass ==
    /\ pass.at = "idle"
    /\ Len(Listed) > 0
    /\ pass' = [NoPass EXCEPT !.at = "ask",
                              !.queue = SubSeq(Listed, 1, IF Len(Listed) < Batch THEN Len(Listed) ELSE Batch)]
    /\ UNCHANGED <<died, job, order, expired, settler, rowLock, draft, remoteVars>>

\* What GET /v1/exchange answers, as _parse_exchange_response accepts it.  An
\* ADMITTED_EVIDENCE_EXPIRED is treated like an ADMITTED_OUTCOME_UNKNOWN.
Exchange(j) ==
    CASE broker[j].state = "settled" -> [NoAnswer EXCEPT !.outcome = "SETTLED", !.record = broker[j].record]
      [] broker[j].state = "fenced" -> [NoAnswer EXCEPT !.outcome = "NOT_ADMITTED",
                                          !.evidence = [covered |-> j \in covered, late |-> TRUE]]
      [] broker[j].state = "canceled" -> [NoAnswer EXCEPT !.outcome = "NO_RECORD"]
      [] OTHER -> [NoAnswer EXCEPT !.outcome = broker[j].state]

\* get_job_exchange; a NO_RECORD or ADMISSION_REJECTED leads to a second query.
AskBroker(j) ==
    /\ pass.at = "ask" /\ pass.queue # <<>> /\ Head(pass.queue) = j
    /\ pass' = [pass EXCEPT !.answer = Exchange(j),
                            !.at = IF Exchange(j).outcome \in {"NO_RECORD", "ADMISSION_REJECTED"}
                                     THEN "scope" ELSE "apply"]
    /\ UNCHANGED <<died, job, order, expired, settler, rowLock, draft, remoteVars>>

\* BrokerSettlementQueryError: LOOKUP_FAILED is recorded like any answer.
AskFails(j) ==
    /\ pass.at = "ask" /\ pass.queue # <<>> /\ Head(pass.queue) = j
    /\ pass' = [pass EXCEPT !.answer = [NoAnswer EXCEPT !.outcome = "LOOKUP_FAILED"], !.at = "apply"]
    /\ UNCHANGED <<died, job, order, expired, settler, rowLock, draft, remoteVars>>

\* _request_non_admission.  The broker fences an unused authorization that has
\* expired on its own clock; before that it only says what it has not seen.
RequestNonAdmission(j) ==
    /\ pass.at = "scope" /\ Head(pass.queue) = j
    /\ RowOf(j).grant \in UnusedGrant /\ j \in expired
    /\ broker[j].state \in {"NO_RECORD", "ADMISSION_REJECTED"}
    /\ pass' = [pass EXCEPT !.at = "apply",
                            !.answer = [NoAnswer EXCEPT !.outcome = "NOT_ADMITTED",
                                         !.evidence = [covered |-> j \in covered, late |-> j \in lapsed]]]
    /\ broker' = [broker EXCEPT ![j].state = IF j \in lapsed THEN "fenced" ELSE @]
    /\ UNCHANGED <<died, job, order, expired, settler, rowLock, draft,
                   lapsed, covered, debit>>

\* The grant is out of scope, the authorization has not expired or the query
\* failed: the first answer stands.
NoNonAdmission(j) ==
    /\ pass.at = "scope" /\ Head(pass.queue) = j
    /\ pass' = [pass EXCEPT !.at = "apply"]
    /\ UNCHANGED <<died, job, order, expired, settler, rowLock, draft, remoteVars>>

\* The flush of last_polled_at and breakdown takes the row lock; the financial
\* functions read the row again under it.  A refund takes the balance row.
ApplyAnswer(j) ==
    LET seen == [RowOf(j) EXCEPT !.audit = FALSE]
        row == Reconciled(j, seen, pass.answer)
    IN  /\ pass.at = "apply" /\ Head(pass.queue) = j
        /\ Free(j)
        /\ row.outcome = "settled" /\ seen.state = "open" => CanSettle(seen)
        /\ rowLock' = [rowLock EXCEPT ![j] = "pass"]
        /\ draft' = [k \in DOMAIN draft \cup {j} |-> IF k = j THEN row ELSE draft[k]]
        /\ pass' = [pass EXCEPT !.at = "ask", !.queue = Tail(@), !.answer = NoAnswer,
                                !.credit = IF row.refund # seen.refund THEN @ \cup {Owner[j]} ELSE @]
        /\ UNCHANGED <<died, job, order, expired, settler, remoteVars>>

\* last_polled_at, which the next pass sorts by.
PollOrder(done) ==
    SelectSeq(order, LAMBDA j : j \notin done) \o SelectSeq(order, LAMBDA j : j \in done)

ReleasePassLocks == rowLock' = [j \in Jobs |-> IF rowLock[j] \in Settlers THEN rowLock[j] ELSE NoOne]

CommitPass ==
    /\ pass.at = "ask" /\ pass.queue = <<>>
    /\ job' = [j \in Jobs |-> RowOf(j)]
    /\ order' = PollOrder(DOMAIN draft)
    /\ draft' = NoDraft
    /\ pass' = NoPass
    /\ ReleasePassLocks
    /\ UNCHANGED <<died, expired, settler, remoteVars>>

Rollback ==
    /\ draft' = NoDraft
    /\ pass' = NoPass
    /\ ReleasePassLocks

\* mark_spend_authorization_settled raises an error nothing in the pass
\* catches: the whole pass is rolled back.
SettleConflict(j) ==
    /\ pass.at = "apply" /\ Head(pass.queue) = j /\ Free(j)
    /\ pass.answer.outcome = "SETTLED" /\ RowOf(j).state = "open"
    /\ RowOf(j).block # pass.answer.record
    /\ VerifyJobSettlement(j, RowOf(j), pass.answer.record)
    /\ ~CanSettle(RowOf(j))
    /\ Rollback
    /\ UNCHANGED <<died, job, order, expired, settler, remoteVars>>

\* Bound: at most one pass dies.  Before it has written anything nothing is lost.
CrashPass ==
    /\ DOMAIN draft # {} /\ ~died
    /\ died' = TRUE
    /\ Rollback
    /\ UNCHANGED <<job, order, expired, settler, remoteVars>>

\* The pass waits for a row whose settle request waits for the balance row.
LockCycle(s) ==
    /\ pass.at = "apply" /\ settler[s] # NoSettle
    /\ Head(pass.queue) = settler[s].job
    /\ settler[s].record.bill < Hold /\ Owner[settler[s].job] \in pass.credit

\* PostgreSQL aborts one of the two.
AbortPass(s) ==
    /\ LockCycle(s)
    /\ Rollback
    /\ UNCHANGED <<died, job, order, expired, settler, remoteVars>>

AbortSettle(s) ==
    /\ LockCycle(s)
    /\ EndSettle(s)
    /\ UNCHANGED <<died, job, order, expired, pass, draft, remoteVars>>

-----------------------------------------------------------------------------
(* The authorization reconciler, one grant at a time, and the broker. *)

\* The receiver's authorization state that belongs to an exchange record.
Receiver(state) ==
    CASE state \in {"NO_RECORD", "ADMISSION_REJECTED"} -> "issued"
      [] state \in {"IN_FLIGHT", "ACCOUNTING_PENDING"} -> "admitted"
      [] state = "ADMITTED_OUTCOME_UNKNOWN" -> "outcome_unknown"
      [] state = "settled" -> "settled"
      [] state = "fenced" -> "expired_unused"
      [] OTHER -> "canceled_unused"

\* reconcile_spend_authorization_states
ObserveGrant(j) ==
    LET seen == Receiver(broker[j].state)
    IN  /\ job[j].grant \in {"issued", "admitted", "outcome_unknown"} /\ Free(j)
        /\ seen # job[j].grant
        /\ job[j].grant = "admitted" => seen \notin {"issued", "expired_unused", "canceled_unused"}
        /\ job[j].grant = "outcome_unknown" => seen \notin {"issued", "admitted"}
        /\ job' = [job EXCEPT ![j].grant = seen]
        /\ UNCHANGED <<died, order, expired, settler, rowLock, pass, draft, remoteVars>>

BrokerBecomes(j, state) == broker' = [broker EXCEPT ![j].state = state]

\* The caller presents its authorization, if the response of the open request
\* reached it (module WholesaleFunding has its last part); a refusal is not final.  A broker that
\* lost its records asks the receiver's ledger, which admits nothing twice.
Admit(j) ==
    /\ job[j].grant # "absent" /\ j \notin lapsed /\ j \in covered
    /\ broker[j].state \in {"NO_RECORD", "ADMISSION_REJECTED"}
    /\ \/ BrokerBecomes(j, "IN_FLIGHT")
       \/ /\ broker[j].state = "NO_RECORD" /\ "refusal" \in Faults[j]
          /\ BrokerBecomes(j, "ADMISSION_REJECTED")
    /\ UNCHANGED <<locVars, lapsed, covered, debit>>

FinishWork(j) ==
    /\ broker[j].state = "IN_FLIGHT"
    /\ \/ BrokerBecomes(j, "ACCOUNTING_PENDING")
       \/ /\ "restart" \in Faults[j]
          /\ BrokerBecomes(j, "ADMITTED_OUTCOME_UNKNOWN")
    /\ UNCHANGED <<locVars, lapsed, covered, debit>>

\* The debit, and the record that is signed for it.
DebitAndSign(j, u, slip) ==
    /\ broker[j].state \in {"ACCOUNTING_PENDING", "ADMITTED_OUTCOME_UNKNOWN"}
    /\ debit' = [debit EXCEPT ![j] = IF slip = "debit failed" THEN 0 ELSE Bill(u)]
    /\ broker' = [broker EXCEPT ![j] = [state |-> "settled", record |-> SignedRecord(j, u, slip)]]
    /\ UNCHANGED <<locVars, lapsed, covered>>

Cancel(j) ==
    /\ "cancellation" \in Faults[j]
    /\ job[j].grant # "absent"
    /\ broker[j].state = "NO_RECORD"
    /\ BrokerBecomes(j, "canceled")
    /\ UNCHANGED <<locVars, lapsed, covered, debit>>

Lapse(j) ==
    /\ job[j].grant # "absent" /\ j \notin lapsed
    /\ lapsed' = lapsed \cup {j}
    /\ UNCHANGED <<locVars, broker, covered, debit>>

\* The broker loses its records; what it signs from now on says so.
LoseRecords(j) ==
    /\ "data loss" \in Faults[j]
    /\ j \in covered /\ job[j].grant # "absent"
    /\ broker[j].state \notin {"NO_RECORD", "canceled", "fenced"}
    /\ broker' = [broker EXCEPT ![j] = [state |-> "NO_RECORD", record |-> NoRecord]]
    /\ covered' = covered \ {j}
    /\ UNCHANGED <<locVars, lapsed, debit>>

-----------------------------------------------------------------------------
JobInit ==
    /\ job = [j \in Jobs |-> IF j \in Finished
                               THEN [NoRow EXCEPT !.state = "open", !.delegated = TRUE, !.grant = "settled"]
                               ELSE NoRow]
    /\ order = SetToSeq(Jobs)
    /\ expired = Finished
    /\ settler = [s \in Settlers |-> NoSettle]
    /\ rowLock = [j \in Jobs |-> NoOne]
    /\ pass = NoPass /\ draft = NoDraft /\ died = FALSE
    /\ broker = [j \in Jobs |-> IF j \in Finished
                                 THEN [state |-> "settled", record |-> SignedRecord(j, CHOOSE u \in Usage : TRUE, "none")]
                                 ELSE [state |-> "NO_RECORD", record |-> NoRecord]]
    /\ lapsed = Finished /\ covered = Jobs
    /\ debit = [j \in Jobs |-> broker[j].record.bill]

OpenNext(j) ==
    \/ \E r \in Routes : OpenJob(j, r)
    \/ AuthorizeJob(j) \/ ReleaseUnauthorized(j)
    \/ Expire(j)

PassNext(j) ==
    \/ AskBroker(j) \/ AskFails(j) \/ RequestNonAdmission(j) \/ NoNonAdmission(j)
    \/ ApplyAnswer(j) \/ SettleConflict(j)

BrokerNext(j) ==
    \/ Admit(j) \/ FinishWork(j) \/ Cancel(j) \/ Lapse(j) \/ LoseRecords(j)
    \/ \E u \in Usage, slip \in Slips[j] : DebitAndSign(j, u, slip)

SettleNext(s) ==
    \/ \E j \in Jobs : LockSettle(s, j)
    \/ CommitSettle(s) \/ AbortPass(s) \/ AbortSettle(s)

JobNext ==
    \/ \E j \in Jobs : OpenNext(j) \/ PassNext(j) \/ BrokerNext(j) \/ ObserveGrant(j)
    \/ \E s \in Settlers : SettleNext(s)
    \/ BeginPass \/ CommitPass \/ CrashPass

JobSpec == JobInit /\ [][JobNext]_jobVars

\* What ends by itself: requests, the validity of an authorization, work at the
\* broker, and the differences between a grant and its receiver.
Proceed ==
    \E j \in Jobs :
        \/ AuthorizeJob(j) \/ ReleaseUnauthorized(j) \/ Expire(j) \/ Lapse(j)
        \/ FinishWork(j) \/ ObserveGrant(j)
        \/ \E u \in Usage, slip \in Slips[j] : DebitAndSign(j, u, slip)

PassProceeds ==
    \/ BeginPass \/ CommitPass
    \/ \E j \in Jobs : PassNext(j)
    \/ \E s \in Settlers : CommitSettle(s) \/ AbortPass(s) \/ AbortSettle(s)

\* The scheduler starts a pass again and again, passes do not die for ever,
\* PostgreSQL serves a waiting transaction before later ones and breaks lock
\* cycles, and a broker that is asked again and again answers at times.
FairJobSpec ==
    /\ JobSpec
    /\ WF_jobVars(PassProceeds)
    /\ SF_jobVars(Proceed)
    /\ SF_jobVars(\E j \in Jobs : ApplyAnswer(j))
    /\ \A s \in Settlers : SF_jobVars(CommitSettle(s))
    /\ \A j \in Jobs : SF_jobVars(AskBroker(j)) /\ SF_jobVars(RequestNonAdmission(j))

-----------------------------------------------------------------------------
(* Properties *)

\* get_job_status
AccountingOutcome(row) ==
    CASE row.outcome = "conservative_full_charge" -> "conservative_full_charge"
      [] row.outcome # "conservative_full_charge" /\ row.state = "closed" -> "broker_settled"
      [] row.state # "closed" /\ row.audit -> "non_admission_audit"
      [] OTHER -> "unresolved"

\* The status a customer reads agrees with the money: a job reported as
\* unresolved or audit-only still has its whole hold and no terminal event,
\* and any other has exactly one event that splits the hold into bill and
\* refund (settle_job, _retain_verified_non_admission and the conservative
\* charge serialize on the row lock).
AccountedOnce ==
    \A j \in Jobs :
        IF AccountingOutcome(job[j]) \in {"unresolved", "non_admission_audit"}
          THEN job[j].closes = 0 /\ job[j].refund = 0 /\ job[j].billed = 0
          ELSE job[j].closes = 1 /\ job[j].refund + job[j].billed = Hold

\* A job closed on non-admission was never debited and never will be, and one
\* closed on a settlement is billed what the broker debited: not an early
\* observation, nor a refusal, nor a broker that lost its records, gives back
\* money that is spent at the broker.
ChargeMatchesDebit ==
    \A j \in Jobs :
        /\ job[j].outcome = "NOT_ADMITTED" => debit[j] = 0
        /\ job[j].outcome = "settled" => job[j].billed = debit[j]

\* What no evidence can resolve: the broker lost its records, canceled the
\* authorization, cannot say what happened or signed a record that does not
\* verify.  settlement_block keeps such a job for the operator.
NeedsOperator(j) ==
    \/ j \notin covered
    \/ broker[j].state \in {"canceled", "ADMITTED_OUTCOME_UNKNOWN"}
    \/ broker[j].state = "settled" /\ ~VerifyJobSettlement(j, job[j], broker[j].record)

\* A job on a delegated route ends, through its customer or through the pass,
\* unless the broker has nothing to verify (reconcile_open_jobs): a failed
\* lookup, another job's poisoned row, a lock cycle or a crash only delays it.
JobsEnd ==
    \A j \in Jobs : job[j].state = "open" ~> (job[j].state = "closed" \/ NeedsOperator(j))

\* docs/RELIABILITY.md on a configured deadline: an unresolved lookup "must
\* not bypass an operator's configured deadline forever".
DeadlineEndsJob ==
    \A j \in Jobs : (Deadline /\ j \in expired) ~> job[j].state = "closed"
=============================================================================
