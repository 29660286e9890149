--------------------------- MODULE PaidJobProofs ---------------------------
(***************************************************************************)
(* Theorems about paid jobs, for any number of jobs, concurrent settle     *)
(* requests, faults of the broker and prices.                              *)
(***************************************************************************)
EXTENDS PaidJob, TLAPS

BrokerStates ==
    {"NO_RECORD", "ADMISSION_REJECTED", "IN_FLIGHT", "ACCOUNTING_PENDING",
     "ADMITTED_OUTCOME_UNKNOWN", "settled", "fenced", "canceled"}

\* What a row, a pass, a broker's exchange and a settle request consist of.
IsRow(r) ==
    r = [state |-> r.state, delegated |-> r.delegated, grant |-> r.grant, billed |-> r.billed,
         outcome |-> r.outcome, audit |-> r.audit, block |-> r.block, closes |-> r.closes,
         refund |-> r.refund]

IsPass(p) == p = [at |-> p.at, queue |-> p.queue, answer |-> p.answer, credit |-> p.credit]

IsExchange(x) == x = [state |-> x.state, record |-> x.record]

-----------------------------------------------------------------------------
\* The broker has debited all it ever will: it settled, or it lost what it had.
DebitIsFinal(j) == broker[j].state = "settled" \/ j \notin covered

(***************************************************************************)
(* The broker debits a job once, between its admission and its settlement; *)
(* without records it admits nothing.                                      *)
(***************************************************************************)
BrokerOK(j) ==
    /\ IsExchange(broker[j]) /\ broker[j].state \in BrokerStates
    /\ debit[j] \in Int
    /\ j \in covered /\ broker[j].state # "settled" => debit[j] = 0
    /\ j \notin covered => broker[j].state \in {"NO_RECORD", "canceled", "fenced"}

\* A record that verify_job_settlement accepts states the debit, for good.
Sound(j, record) ==
    /\ record.key = "delegated" /\ ~record.failed
    /\ record.debited = record.units
    /\ record.bill = Bill(record.debited)
    => record.bill = debit[j] /\ DebitIsFinal(j)

(***************************************************************************)
(* A row is open with its whole hold, or closed by exactly one event that  *)
(* splits the hold.  What closed it still stands at the broker.            *)
(***************************************************************************)
RowAccounts(row) ==
    IF row.state = "closed"
      THEN /\ row.closes = 1 /\ row.refund + row.billed = Hold
           /\ row.outcome \in {"NOT_ADMITTED", "settled", "conservative_full_charge"}
      ELSE row.closes = 0 /\ row.refund = 0 /\ row.billed = 0 /\ row.outcome = "none"

RowAgrees(j, row) ==
    /\ row.grant = "absent" => broker[j].state = "NO_RECORD" /\ j \in covered
    /\ row.outcome = "NOT_ADMITTED" =>
          debit[j] = 0 /\ (broker[j].state = "fenced" \/ row.grant = "absent")
    /\ row.outcome = "settled" => row.billed = debit[j] /\ DebitIsFinal(j)

RowOK(j, row) == IsRow(row) /\ RowAccounts(row) /\ RowAgrees(j, row)

\* What the pass wrote is under its lock, so the committed row waits for it.
DraftOK(j) ==
    /\ rowLock[j] = "pass"
    /\ RowOK(j, draft[j])
    /\ (draft[j].grant = "absent") <=> (job[j].grant = "absent")

\* An answer is applied later than it was given; it still says the truth.
AnswerOK(j, answer) ==
    /\ answer.outcome = "SETTLED" => Sound(j, answer.record)
    /\ answer.outcome = "NOT_ADMITTED" /\ answer.evidence.covered /\ answer.evidence.late =>
          broker[j].state = "fenced" /\ debit[j] = 0

\* A settle request between its check and its commit holds the open row.
SettlerOK(s) ==
    LET j == settler[s].job
    IN  /\ j \in Jobs /\ rowLock[j] = s
        /\ job[j].state = "open"
        /\ settler[s].record.bill = debit[j] /\ DebitIsFinal(j)
        /\ job[j].grant # "absent"

JobTypes ==
    /\ job = [j \in Jobs |-> job[j]] /\ broker = [j \in Jobs |-> broker[j]]
    /\ debit = [j \in Jobs |-> debit[j]] /\ rowLock = [j \in Jobs |-> rowLock[j]]
    /\ settler = [s \in Settlers |-> settler[s]]
    /\ draft = [j \in DOMAIN draft |-> draft[j]] /\ DOMAIN draft \subseteq Jobs
    /\ IsPass(pass)

RowsOK == \A j \in Jobs : RowOK(j, job[j])
BrokersOK == \A j \in Jobs : BrokerOK(j) /\ Sound(j, broker[j].record)
DraftsOK == \A j \in DOMAIN draft : DraftOK(j)
AnswersOK ==
    \A j \in Jobs : pass.at \in {"scope", "apply"} /\ Head(pass.queue) = j =>
        AnswerOK(j, pass.answer)
SettlersOK == \A s \in Settlers : settler[s] # NoSettle => SettlerOK(s)

(***************************************************************************)
(* The inductive invariant.                                                *)
(***************************************************************************)
JobInv == JobTypes /\ RowsOK /\ BrokersOK /\ DraftsOK /\ AnswersOK /\ SettlersOK

-----------------------------------------------------------------------------
(* Operators *)

\* A bill is an integer (_bill).
LEMMA BillType == \A u \in Int : Bill(u) \in Int
  <1> SUFFICES ASSUME NEW u \in Int PROVE Bill(u) \in Int
    OBVIOUS
  <1> DEFINE n == u * Amount + PerUnits - 1
  <1>1. n \in Int /\ PerUnits \in Nat \ {0}
    BY JobAssumption
  <1> HIDE DEF n
  <1>2. n \div PerUnits \in Int
    BY <1>1
  <1> QED  BY <1>2 DEF Bill, n

\* The hold of a job is an amount.
LEMMA HoldType == Hold \in Int
  BY BillType, JobAssumption DEF Hold

\* What a close writes, field by field.
LEMMA ClosedFields ==
    ASSUME NEW row, IsRow(row), NEW bill, NEW how, NEW grant
    PROVE  /\ IsRow(Closed(row, bill, how, grant))
           /\ Closed(row, bill, how, grant).state = "closed"
           /\ Closed(row, bill, how, grant).billed = bill
           /\ Closed(row, bill, how, grant).outcome = how
           /\ Closed(row, bill, how, grant).grant = grant
           /\ Closed(row, bill, how, grant).closes = row.closes + 1
           /\ Closed(row, bill, how, grant).refund = row.refund + (Hold - bill)
  <1>1. Closed(row, bill, how, grant) =
          [state |-> "closed", delegated |-> row.delegated, grant |-> grant, billed |-> bill,
           outcome |-> how, audit |-> row.audit, block |-> row.block, closes |-> row.closes + 1,
           refund |-> row.refund + (Hold - bill)]
    <2> DEFINE k1 == [row EXCEPT !.state = "closed"]
               k2 == [k1 EXCEPT !.billed = bill]
               k3 == [k2 EXCEPT !.outcome = how]
               k4 == [k3 EXCEPT !.grant = grant]
               k5 == [k4 EXCEPT !.closes = row.closes + 1]
               k6 == [k5 EXCEPT !.refund = row.refund + (Hold - bill)]
    <2>1. k1 = [state |-> "closed", delegated |-> row.delegated, grant |-> row.grant,
                billed |-> row.billed, outcome |-> row.outcome, audit |-> row.audit,
                block |-> row.block, closes |-> row.closes, refund |-> row.refund]
      BY DEF IsRow
    <2>2. k4 = [state |-> "closed", delegated |-> row.delegated, grant |-> grant,
                billed |-> bill, outcome |-> how, audit |-> row.audit,
                block |-> row.block, closes |-> row.closes, refund |-> row.refund]
      <3> HIDE DEF k1
      <3>1. k2 = [state |-> "closed", delegated |-> row.delegated, grant |-> row.grant,
                  billed |-> bill, outcome |-> row.outcome, audit |-> row.audit,
                  block |-> row.block, closes |-> row.closes, refund |-> row.refund]
        BY <2>1
      <3> HIDE DEF k2
      <3>2. k3 = [state |-> "closed", delegated |-> row.delegated, grant |-> row.grant,
                  billed |-> bill, outcome |-> how, audit |-> row.audit,
                  block |-> row.block, closes |-> row.closes, refund |-> row.refund]
        BY <3>1
      <3> HIDE DEF k3
      <3> QED  BY <3>2
    <2>3. k6 = [state |-> "closed", delegated |-> row.delegated, grant |-> grant, billed |-> bill,
                outcome |-> how, audit |-> row.audit, block |-> row.block,
                closes |-> row.closes + 1, refund |-> row.refund + (Hold - bill)]
      <3> HIDE DEF k4
      <3>1. k5 = [state |-> "closed", delegated |-> row.delegated, grant |-> grant,
                  billed |-> bill, outcome |-> how, audit |-> row.audit, block |-> row.block,
                  closes |-> row.closes + 1, refund |-> row.refund]
        BY <2>2
      <3> HIDE DEF k5
      <3> QED  BY <3>1
    <2>4. Closed(row, bill, how, grant) = k6
      BY DEF Closed
    <2> QED  BY <2>3, <2>4
  <1> QED  BY <1>1 DEF IsRow

\* The first close of a row splits its hold into bill and refund.
LEMMA ClosedAccounts ==
    ASSUME NEW row, IsRow(row), RowAccounts(row), row.state # "closed", NEW bill \in Int,
           NEW how \in {"NOT_ADMITTED", "settled", "conservative_full_charge"}, NEW grant
    PROVE  RowAccounts(Closed(row, bill, how, grant))
  <1> DEFINE c == Closed(row, bill, how, grant)
  <1>1. /\ c.state = "closed" /\ c.billed = bill /\ c.outcome = how
        /\ c.closes = row.closes + 1 /\ c.refund = row.refund + (Hold - bill)
    BY ClosedFields
  <1>2. row.closes = 0 /\ row.refund = 0
    BY DEF RowAccounts
  <1>3. 0 + 1 = 1 /\ 0 + (Hold - bill) + bill = Hold
    BY HoldType
  <1> HIDE DEF c
  <1> QED  BY <1>1, <1>2, <1>3 DEF RowAccounts, c

\* A field that no accounting depends on.
LEMMA AuditKeepsRow ==
    ASSUME NEW j, NEW row, RowOK(j, row), NEW flag
    PROVE  /\ RowOK(j, [row EXCEPT !.audit = flag])
           /\ [row EXCEPT !.audit = flag].state = row.state
           /\ [row EXCEPT !.audit = flag].grant = row.grant
           /\ [row EXCEPT !.audit = flag].delegated = row.delegated
           /\ [row EXCEPT !.audit = flag].outcome = row.outcome
           /\ [row EXCEPT !.audit = flag].refund = row.refund
  <1> DEFINE new == [row EXCEPT !.audit = flag]
  <1>1. new = [state |-> row.state, delegated |-> row.delegated, grant |-> row.grant,
               billed |-> row.billed, outcome |-> row.outcome, audit |-> flag,
               block |-> row.block, closes |-> row.closes, refund |-> row.refund]
    BY DEF RowOK, IsRow
  <1>2. /\ IsRow(new) /\ new.state = row.state /\ new.grant = row.grant
        /\ new.delegated = row.delegated /\ new.outcome = row.outcome
        /\ new.refund = row.refund /\ new.billed = row.billed /\ new.closes = row.closes
    BY <1>1 DEF IsRow
  <1> HIDE DEF new
  <1>3. RowAccounts(new) /\ RowAgrees(j, new)
    BY <1>2 DEF RowOK, RowAccounts, RowAgrees
  <1> QED  BY <1>2, <1>3 DEF RowOK, new

\* Storing a refused record in the row changes nothing else of it.
LEMMA BlockKeepsRow ==
    ASSUME NEW j, NEW row, RowOK(j, row), NEW record
    PROVE  /\ RowOK(j, [row EXCEPT !.block = record])
           /\ [row EXCEPT !.block = record].grant = row.grant
           /\ [row EXCEPT !.block = record].outcome = row.outcome
  <1> DEFINE new == [row EXCEPT !.block = record]
  <1>1. new = [state |-> row.state, delegated |-> row.delegated, grant |-> row.grant,
               billed |-> row.billed, outcome |-> row.outcome, audit |-> row.audit,
               block |-> record, closes |-> row.closes, refund |-> row.refund]
    BY DEF RowOK, IsRow
  <1>2. /\ IsRow(new) /\ new.state = row.state /\ new.grant = row.grant
        /\ new.delegated = row.delegated /\ new.outcome = row.outcome
        /\ new.refund = row.refund /\ new.billed = row.billed /\ new.closes = row.closes
    BY <1>1 DEF IsRow
  <1> HIDE DEF new
  <1>3. RowAccounts(new) /\ RowAgrees(j, new)
    BY <1>2 DEF RowOK, RowAccounts, RowAgrees
  <1> QED  BY <1>2, <1>3 DEF RowOK, new

\* Storing the grant changes no other field of the row.
LEMMA GrantFields ==
    ASSUME NEW row, IsRow(row), NEW grant
    PROVE  /\ IsRow([row EXCEPT !.grant = grant])
           /\ [row EXCEPT !.grant = grant].grant = grant
           /\ [row EXCEPT !.grant = grant].state = row.state
           /\ [row EXCEPT !.grant = grant].outcome = row.outcome
           /\ [row EXCEPT !.grant = grant].billed = row.billed
           /\ [row EXCEPT !.grant = grant].closes = row.closes
           /\ [row EXCEPT !.grant = grant].refund = row.refund
  <1> DEFINE new == [row EXCEPT !.grant = grant]
  <1>1. new = [state |-> row.state, delegated |-> row.delegated, grant |-> grant,
               billed |-> row.billed, outcome |-> row.outcome, audit |-> row.audit,
               block |-> row.block, closes |-> row.closes, refund |-> row.refund]
    BY DEF IsRow
  <1> QED  BY <1>1 DEF IsRow

-----------------------------------------------------------------------------
(* What the pass makes of an answer *)

\* finalize_conservative_full_charge closes an open row for its whole hold.
LEMMA ConservativeKeepsRow ==
    ASSUME NEW j, NEW row, RowOK(j, row)
    PROVE  /\ RowOK(j, ConservativeCharge(j, row))
           /\ ConservativeCharge(j, row).grant = row.grant
           /\ ConservativeCharge(j, row).outcome = "settled" => row.state = "closed"
  <1> DEFINE c == Closed(row, Hold, "conservative_full_charge", row.grant)
  <1>1. CASE ConservativeCharge(j, row) = row
    BY <1>1 DEF RowOK, RowAccounts
  <1>2. CASE ConservativeCharge(j, row) = c /\ row.state = "open"
    <2>1. /\ IsRow(c) /\ c.outcome = "conservative_full_charge" /\ c.grant = row.grant
      BY ClosedFields DEF RowOK
    <2>2. RowAccounts(c)
      BY <1>2, ClosedAccounts, HoldType DEF RowOK
    <2> HIDE DEF c
    <2>3. RowAgrees(j, c)
      BY <2>1 DEF RowOK, RowAgrees
    <2> QED  BY <1>2, <2>1, <2>2, <2>3 DEF RowOK
  <1> QED  BY <1>1, <1>2 DEF ConservativeCharge

\* _retain_verified_non_admission closes only what the broker has fenced.
LEMMA RetainKeepsRow ==
    ASSUME NEW j, NEW row, RowOK(j, row), NEW answer, answer.outcome = "NOT_ADMITTED",
           AnswerOK(j, answer)
    PROVE  /\ RowOK(j, RetainVerifiedNonAdmission(j, row, answer.evidence))
           /\ (RetainVerifiedNonAdmission(j, row, answer.evidence).grant = "absent")
                <=> (row.grant = "absent")
  <1> DEFINE new == RetainVerifiedNonAdmission(j, row, answer.evidence)
             audited == [row EXCEPT !.audit = TRUE]
             c == Closed(audited, 0, "NOT_ADMITTED", "expired_unused")
  <1>0. RowOK(j, audited) /\ audited.state = row.state /\ audited.grant = row.grant
        /\ audited.outcome = row.outcome
    BY AuditKeepsRow
  <1>1. CASE new = row
    BY <1>1
  <1>2. CASE new = audited
    BY <1>0, <1>2
  <1>3. CASE /\ new = c /\ row.state = "open" /\ row.grant \in UnusedGrant
             /\ answer.evidence.covered /\ answer.evidence.late
    <2>1. broker[j].state = "fenced" /\ debit[j] = 0
      BY <1>3 DEF AnswerOK
    <2> HIDE DEF audited
    <2>2. IsRow(c) /\ c.outcome = "NOT_ADMITTED" /\ c.grant = "expired_unused"
      BY <1>0, ClosedFields DEF RowOK
    <2>3. RowAccounts(c)
      BY <1>0, <1>3, ClosedAccounts DEF RowOK
    <2> HIDE DEF c
    <2>4. RowAgrees(j, c)
      BY <2>1, <2>2 DEF RowAgrees
    <2>5. row.grant # "absent"
      BY <1>3 DEF UnusedGrant
    <2> HIDE DEF new
    <2>6. RowOK(j, new) /\ new.grant = "expired_unused"
      BY <1>3, <2>2, <2>3, <2>4 DEF RowOK
    <2> QED  BY <2>5, <2>6 DEF new
  <1>4. \/ new = row \/ new = audited
        \/ /\ new = c /\ row.state = "open" /\ row.grant \in UnusedGrant
           /\ answer.evidence.covered /\ answer.evidence.late
    BY DEF RetainVerifiedNonAdmission, VerifyNonAdmission
  <1> QED  BY <1>1, <1>2, <1>3, <1>4

(***************************************************************************)
(* Whatever the answer, the row the pass writes accounts for its hold and  *)
(* agrees with the broker.                                                 *)
(***************************************************************************)
LEMMA ReconciledKeepsRow ==
    ASSUME NEW j, NEW row, RowOK(j, row), NEW answer, AnswerOK(j, answer), debit[j] \in Int,
           Reconciled(j, row, answer).outcome = "settled" /\ row.state = "open" => CanSettle(row)
    PROVE  /\ RowOK(j, Reconciled(j, row, answer))
           /\ (Reconciled(j, row, answer).grant = "absent") <=> (row.grant = "absent")
  <1> DEFINE new == Reconciled(j, row, answer)
             blocked == [row EXCEPT !.block = answer.record]
             c == Closed(row, answer.record.bill, "settled", "settled")
  <1>1. CASE answer.outcome = "NOT_ADMITTED"
    <2>1. new = RetainVerifiedNonAdmission(j, row, answer.evidence)
      BY <1>1 DEF Reconciled, Moving
    <2> QED  BY <1>1, <2>1, RetainKeepsRow
  <1>2. CASE new = row
    BY <1>2
  <1>3. CASE new = ConservativeCharge(j, row)
    BY <1>3, ConservativeKeepsRow
  <1>4. CASE new = ConservativeCharge(j, blocked)
    <2>1. RowOK(j, blocked) /\ blocked.grant = row.grant
      BY BlockKeepsRow
    <2> HIDE DEF blocked
    <2> QED  BY <1>4, <2>1, ConservativeKeepsRow
  <1>5. CASE /\ new = c /\ row.state = "open" /\ answer.outcome = "SETTLED"
             /\ VerifyJobSettlement(j, row, answer.record)
    <2>1. answer.record.bill = debit[j] /\ DebitIsFinal(j)
      BY <1>5 DEF AnswerOK, Sound, VerifyJobSettlement, SignedBy
    <2>2. /\ IsRow(c) /\ c.outcome = "settled" /\ c.grant = "settled"
          /\ c.billed = answer.record.bill
      BY ClosedFields DEF RowOK
    <2>3. RowAccounts(c)
      BY <1>5, <2>1, ClosedAccounts DEF RowOK
    <2>4. new.outcome = "settled" /\ CanSettle(row)
      BY <1>5, <2>2
    <2>5. row.grant # "absent"
      BY <2>4 DEF CanSettle
    <2> HIDE DEF c
    <2>6. RowAgrees(j, c)
      BY <2>1, <2>2 DEF RowAgrees
    <2> HIDE DEF new
    <2>7. RowOK(j, new) /\ new.grant = "settled"
      BY <1>5, <2>2, <2>3, <2>6 DEF RowOK
    <2> QED  BY <2>5, <2>7 DEF new
  <1>6. \/ answer.outcome = "NOT_ADMITTED"
        \/ new = row \/ new = ConservativeCharge(j, row) \/ new = ConservativeCharge(j, blocked)
        \/ /\ new = c /\ row.state = "open" /\ answer.outcome = "SETTLED"
           /\ VerifyJobSettlement(j, row, answer.record)
    <2>1. CASE answer.outcome \in Moving
      BY <2>1 DEF Reconciled, Moving
    <2>2. CASE /\ answer.outcome = "SETTLED" /\ row.state = "open" /\ row.block # answer.record
      BY <2>2 DEF Reconciled, Moving
    <2>3. CASE /\ answer.outcome # "NOT_ADMITTED" /\ answer.outcome \notin Moving
               /\ ~(answer.outcome = "SETTLED" /\ row.state = "open" /\ row.block # answer.record)
      BY <2>3 DEF Reconciled
    <2> QED  BY <2>1, <2>2, <2>3
  <1> QED  BY <1>1, <1>2, <1>3, <1>4, <1>5, <1>6

-----------------------------------------------------------------------------
(* The broker *)

(***************************************************************************)
(* How the broker may move on from what LOC has learned: a final debit and *)
(* a fence stay, and nothing happens to a job that has no authorization.   *)
(***************************************************************************)
Advances(j) ==
    /\ DebitIsFinal(j) => DebitIsFinal(j)' /\ debit'[j] = debit[j]
    /\ broker[j].state = "fenced" => broker'[j].state = "fenced" /\ debit'[j] = debit[j]
    /\ job[j].grant = "absent" =>
          /\ broker'[j].state = broker[j].state /\ debit'[j] = debit[j]
          /\ j \in covered => j \in covered'

\* A job at whose broker nothing happens.
LEMMA AdvancesFrame ==
    ASSUME NEW j, broker'[j] = broker[j], debit'[j] = debit[j], (j \in covered') <=> (j \in covered)
    PROVE  Advances(j)
  BY DEF Advances, DebitIsFinal

\* A record that was true stays true.
LEMMA SoundStays ==
    ASSUME NEW j, NEW record, Advances(j), Sound(j, record)
    PROVE  Sound(j, record)'
  BY DEF Advances, Sound

\* An answer that was true stays true while the pass carries it.
LEMMA AnswerStays ==
    ASSUME NEW j, NEW answer, Advances(j), AnswerOK(j, answer)
    PROVE  AnswerOK(j, answer)'
  <1>1. Sound(j, answer.record) => Sound(j, answer.record)'
    BY SoundStays
  <1> QED  BY <1>1 DEF AnswerOK, Advances

\* A row that agrees with the broker still does.
LEMMA RowStays ==
    ASSUME NEW j, NEW row, RowOK(j, row), Advances(j),
           row.grant = "absent" => job[j].grant = "absent"
    PROVE  RowOK(j, row)'
  <1>1. IsRow(row)' /\ RowAccounts(row)'
    BY DEF RowOK, IsRow, RowAccounts, Hold, Bill
  <1>2. RowAgrees(j, row)'
    BY DEF RowOK, RowAgrees, Advances
  <1> QED  BY <1>1, <1>2 DEF RowOK

(***************************************************************************)
(* The broker moves on at any moment, before the pass applies an answer or *)
(* a settle request commits; what LOC has written or is about to write     *)
(* still agrees with it.                                                   *)
(***************************************************************************)
LEMMA BrokerMovesOn ==
    ASSUME JobInv, UNCHANGED <<job, settler, rowLock, draft>>, \A j \in Jobs : Advances(j)
    PROVE  RowsOK' /\ DraftsOK' /\ SettlersOK'
  <1>1. RowsOK'
    <2> SUFFICES ASSUME NEW j \in Jobs PROVE RowOK(j, job[j])'
      BY DEF RowsOK
    <2>1. RowOK(j, job[j])
      BY DEF JobInv, RowsOK
    <2>2. PICK row : row = job[j]
      OBVIOUS
    <2>3. RowOK(j, row) /\ (row.grant = "absent" => job[j].grant = "absent") /\ job'[j] = row
      BY <2>1, <2>2
    <2>4. RowOK(j, row)'
      BY <2>3, RowStays
    <2> QED  BY <2>3, <2>4
  <1>2. DraftsOK'
    <2> SUFFICES ASSUME NEW j \in DOMAIN draft PROVE DraftOK(j)'
      BY DEF DraftsOK
    <2>1. DraftOK(j) /\ j \in Jobs
      BY DEF JobInv, DraftsOK, JobTypes
    <2>2. PICK row : row = draft[j]
      OBVIOUS
    <2>3. RowOK(j, row) /\ (row.grant = "absent" => job[j].grant = "absent") /\ draft'[j] = row
      BY <2>1, <2>2 DEF DraftOK
    <2>4. RowOK(j, row)'
      BY <2>1, <2>3, RowStays
    <2>5. RowOK(j, draft[j])'
      BY <2>3, <2>4
    <2> QED  BY <2>1, <2>5 DEF DraftOK
  <1>3. SettlersOK'
    <2> SUFFICES ASSUME NEW s \in Settlers, settler[s] # NoSettle PROVE SettlerOK(s)'
      BY DEF SettlersOK
    <2>1. SettlerOK(s)
      BY DEF JobInv, SettlersOK
    <2> QED  BY <2>1 DEF SettlerOK, Advances
  <1> QED  BY <1>1, <1>2, <1>3

\* One job's broker moves and every other broker stays.
OthersStay(k) ==
    \A j \in Jobs : j # k =>
        broker'[j] = broker[j] /\ debit'[j] = debit[j] /\ ((j \in covered') <=> (j \in covered))

\* The other jobs' brokers stay, so only the moved one is to be shown.
LEMMA BrokersStay ==
    ASSUME JobInv, NEW k \in Jobs, OthersStay(k), Advances(k), BrokerOK(k)',
           Sound(k, broker[k].record)'
    PROVE  BrokersOK' /\ \A j \in Jobs : Advances(j)
  <1>1. \A j \in Jobs : Advances(j)
    BY AdvancesFrame DEF OthersStay
  <1>2. ASSUME NEW j \in Jobs, j # k PROVE BrokerOK(j)' /\ Sound(j, broker[j].record)'
    <2>1. /\ BrokerOK(j) /\ Sound(j, broker[j].record)
          /\ broker'[j] = broker[j] /\ debit'[j] = debit[j] /\ ((j \in covered') <=> (j \in covered))
      BY <1>2 DEF JobInv, BrokersOK, OthersStay
    <2>2. BrokerOK(j)'
      BY <2>1 DEF BrokerOK
    <2>3. Sound(j, broker[j].record)'
      BY <2>1 DEF Sound, DebitIsFinal
    <2> QED  BY <2>2, <2>3
  <1> QED  BY <1>1, <1>2 DEF BrokersOK

\* A step of one broker that the service does not see keeps the invariant.
LEMMA RemoteStep ==
    ASSUME JobInv, NEW k \in Jobs, UNCHANGED locVars, JobTypes', OthersStay(k), Advances(k),
           BrokerOK(k)', Sound(k, broker[k].record)'
    PROVE  JobInv'
  <1>1. BrokersOK' /\ \A j \in Jobs : Advances(j)
    BY BrokersStay
  <1>2. UNCHANGED <<job, settler, rowLock, draft, pass>>
    BY DEF locVars
  <1>3. RowsOK' /\ DraftsOK' /\ SettlersOK'
    BY <1>1, <1>2, BrokerMovesOn
  <1>4. AnswersOK'
    <2> SUFFICES ASSUME NEW j \in Jobs, pass.at \in {"scope", "apply"}, Head(pass.queue) = j
                 PROVE  AnswerOK(j, pass.answer)'
      BY <1>2 DEF AnswersOK
    <2>1. AnswerOK(j, pass.answer) /\ Advances(j)
      BY <1>1 DEF JobInv, AnswersOK
    <2>2. PICK answer : answer = pass.answer
      OBVIOUS
    <2>3. AnswerOK(j, answer)'
      BY <2>1, <2>2, AnswerStays
    <2> QED  BY <1>2, <2>2, <2>3
  <1> QED  BY <1>1, <1>3, <1>4 DEF JobInv

\* The exchange record takes another state, and nothing else happens.
LEMMA BecomesStep ==
    ASSUME JobInv, NEW k \in Jobs, NEW to \in BrokerStates, BrokerBecomes(k, to),
           to # "settled", broker[k].state \notin {"settled", "fenced"},
           job[k].grant # "absent" \/ to = "NO_RECORD",
           k \notin covered => to \in {"NO_RECORD", "canceled", "fenced"},
           UNCHANGED <<covered, debit>>
    PROVE  /\ OthersStay(k) /\ Advances(k) /\ BrokerOK(k)' /\ Sound(k, broker[k].record)'
           /\ broker' = [j \in Jobs |-> broker'[j]]
           /\ broker'[k].state = to
  <1>1. BrokerOK(k) /\ Sound(k, broker[k].record) /\ broker = [j \in Jobs |-> broker[j]]
        /\ RowOK(k, job[k])
    BY DEF JobInv, BrokersOK, JobTypes, RowsOK
  <1>2. /\ broker' = [j \in Jobs |-> broker'[j]]
        /\ \A j \in Jobs : j # k => broker'[j] = broker[j]
        /\ broker'[k] = [broker[k] EXCEPT !.state = to]
    BY <1>1 DEF BrokerBecomes
  <1>3. broker'[k] = [state |-> to, record |-> broker[k].record]
    BY <1>1, <1>2 DEF BrokerOK, IsExchange
  <1>4. broker'[k].state = to /\ broker'[k].record = broker[k].record /\ IsExchange(broker[k])'
    BY <1>3 DEF IsExchange
  <1>5. OthersStay(k)
    BY <1>2 DEF OthersStay
  <1>6. BrokerOK(k)'
    BY <1>1, <1>4 DEF BrokerOK
  <1>7. Advances(k)
    BY <1>1, <1>4 DEF Advances, DebitIsFinal, RowOK, RowAgrees
  <1>8. Sound(k, broker[k].record)'
    <2>1. PICK record : record = broker[k].record
      OBVIOUS
    <2>2. Sound(k, record)'
      BY <1>1, <1>7, <2>1, SoundStays
    <2> QED  BY <1>4, <2>1, <2>2
  <1> QED  BY <1>2, <1>4, <1>5, <1>6, <1>7, <1>8

\* The broker debits and signs, or fails to debit: what it signs is sound.
LEMMA DebitStep ==
    ASSUME JobInv, NEW k \in Jobs, NEW u \in Usage, NEW slip, DebitAndSign(k, u, slip)
    PROVE  JobInv'
  <1> DEFINE record == SignedRecord(k, u, slip)
             owed == IF slip = "debit failed" THEN 0 ELSE Bill(u)
  <1>1. /\ broker' = [broker EXCEPT ![k] = [state |-> "settled", record |-> record]]
        /\ debit' = [debit EXCEPT ![k] = owed]
        /\ broker[k].state \in {"ACCOUNTING_PENDING", "ADMITTED_OUTCOME_UNKNOWN"}
        /\ UNCHANGED <<locVars, lapsed, covered>>
    BY DEF DebitAndSign
  <1>2. /\ broker = [j \in Jobs |-> broker[j]] /\ debit = [j \in Jobs |-> debit[j]]
        /\ BrokerOK(k) /\ RowOK(k, job[k]) /\ JobTypes
    BY DEF JobInv, JobTypes, BrokersOK, RowsOK
  <1>3. owed \in Int
    <2>1. u \in Int
      BY JobAssumption
    <2>2. Bill(u) \in Int
      BY <2>1, BillType
    <2>3. CASE slip = "debit failed"
      <3>1. owed = 0
        BY <2>3, Zenon
      <3> HIDE DEF owed
      <3> QED  BY <3>1
    <2>4. CASE slip # "debit failed"
      BY <2>2, <2>4
    <2> QED  BY <2>3, <2>4
  <1>4. /\ record.failed = (slip = "debit failed") /\ record.units = u
        /\ record.bill = (IF slip = "overbilled" THEN Bill(u) + 1 ELSE Bill(u))
        /\ record.debited = (IF slip = "gap" THEN u + 1 ELSE u)
    BY DEF SignedRecord
  <1> HIDE DEF record
  <1>5. (/\ ~record.failed /\ record.debited = record.units
         /\ record.bill = Bill(record.debited)) => record.bill = owed
    BY <1>4
  <1> HIDE DEF owed
  <1>6. /\ broker'[k].state = "settled" /\ broker'[k].record = record /\ IsExchange(broker[k])'
        /\ debit'[k] = owed
        /\ broker' = [j \in Jobs |-> broker'[j]] /\ debit' = [j \in Jobs |-> debit'[j]]
        /\ \A j \in Jobs : j # k => broker'[j] = broker[j] /\ debit'[j] = debit[j]
    BY <1>1, <1>2 DEF IsExchange
  <1>7. OthersStay(k)
    BY <1>1, <1>6 DEF OthersStay
  <1>8. BrokerOK(k)'
    BY <1>1, <1>2, <1>3, <1>6 DEF BrokerOK, BrokerStates
  <1>9. Advances(k)
    BY <1>1, <1>2 DEF Advances, DebitIsFinal, BrokerOK, RowOK, RowAgrees
  <1>10. Sound(k, broker[k].record)'
    BY <1>5, <1>6 DEF Sound, DebitIsFinal
  <1>11. JobTypes'
    BY <1>1, <1>2, <1>6 DEF JobTypes, locVars
  <1> QED  BY <1>1, <1>7, <1>8, <1>9, <1>10, <1>11, RemoteStep

\* The broker loses its records; a debit it made stays unknown.
LEMMA LoseStep ==
    ASSUME JobInv, NEW k \in Jobs, LoseRecords(k)
    PROVE  JobInv'
  <1>1. /\ broker' = [broker EXCEPT ![k] = [state |-> "NO_RECORD", record |-> NoRecord]]
        /\ broker[k].state \notin {"NO_RECORD", "canceled", "fenced"}
        /\ job[k].grant # "absent" /\ covered' = covered \ {k}
        /\ UNCHANGED <<locVars, lapsed, debit>>
    BY DEF LoseRecords
  <1>2. broker = [j \in Jobs |-> broker[j]] /\ BrokerOK(k) /\ JobTypes
    BY DEF JobInv, JobTypes, BrokersOK
  <1>3. NoRecord.key # "delegated"
    BY DEF NoRecord
  <1>4. /\ broker'[k].state = "NO_RECORD" /\ broker'[k].record = NoRecord
        /\ IsExchange(broker[k])'
        /\ broker' = [j \in Jobs |-> broker'[j]]
        /\ \A j \in Jobs : j # k => broker'[j] = broker[j]
    BY <1>1, <1>2 DEF IsExchange
  <1>5. OthersStay(k)
    BY <1>1, <1>4 DEF OthersStay
  <1>6. BrokerOK(k)'
    BY <1>1, <1>2, <1>4 DEF BrokerOK, BrokerStates
  <1>7. Advances(k)
    BY <1>1 DEF Advances, DebitIsFinal
  <1>8. Sound(k, broker[k].record)'
    BY <1>3, <1>4 DEF Sound
  <1>9. JobTypes'
    BY <1>1, <1>2, <1>4 DEF JobTypes, locVars
  <1> QED  BY <1>1, <1>5, <1>6, <1>7, <1>8, <1>9, RemoteStep

(***************************************************************************)
(* Every step of a broker keeps the invariant.                             *)
(***************************************************************************)
LEMMA BrokerStep ==
    ASSUME JobInv, NEW k \in Jobs, BrokerNext(k)
    PROVE  JobInv'
  <1>0. JobTypes /\ BrokerOK(k)
    BY DEF JobInv, BrokersOK
  <1>1. ASSUME NEW to \in BrokerStates, BrokerBecomes(k, to), to # "settled",
               broker[k].state \notin {"settled", "fenced"}, job[k].grant # "absent",
               k \notin covered => to \in {"NO_RECORD", "canceled", "fenced"},
               UNCHANGED <<locVars, covered, debit>>
        PROVE  JobInv'
    <2>1. /\ OthersStay(k) /\ Advances(k) /\ BrokerOK(k)' /\ Sound(k, broker[k].record)'
          /\ broker' = [j \in Jobs |-> broker'[j]]
      BY <1>1, BecomesStep
    <2>2. JobTypes'
      BY <1>0, <1>1, <2>1 DEF JobTypes, locVars
    <2> QED  BY <1>1, <2>1, <2>2, RemoteStep
  <1>2. \A to \in {"IN_FLIGHT", "ADMISSION_REJECTED", "ACCOUNTING_PENDING",
                    "ADMITTED_OUTCOME_UNKNOWN", "canceled"} :
           to \in BrokerStates /\ to # "settled"
    BY DEF BrokerStates
  <1>3. CASE Admit(k)
    <2>1. PICK to \in {"IN_FLIGHT", "ADMISSION_REJECTED"} : BrokerBecomes(k, to)
      BY <1>3 DEF Admit
    <2> QED  BY <1>1, <1>2, <1>3, <2>1 DEF Admit
  <1>4. CASE FinishWork(k)
    <2>1. PICK to \in {"ACCOUNTING_PENDING", "ADMITTED_OUTCOME_UNKNOWN"} : BrokerBecomes(k, to)
      BY <1>4 DEF FinishWork
    <2>2. k \in covered /\ job[k].grant # "absent"
      <3>1. RowOK(k, job[k])
        BY DEF JobInv, RowsOK
      <3> QED  BY <1>0, <1>4, <3>1 DEF FinishWork, BrokerOK, RowOK, RowAgrees
    <2> QED  BY <1>1, <1>2, <1>4, <2>1, <2>2 DEF FinishWork
  <1>5. CASE Cancel(k)
    BY <1>1, <1>2, <1>5 DEF Cancel
  <1>6. CASE Lapse(k)
    <2>1. UNCHANGED <<locVars, broker, covered, debit>>
      BY <1>6 DEF Lapse
    <2>2. OthersStay(k) /\ Advances(k)
      BY <2>1, AdvancesFrame DEF OthersStay
    <2>3. BrokerOK(k)'
      BY <1>0, <2>1 DEF BrokerOK, IsExchange
    <2>4. Sound(k, broker[k].record)'
      BY <2>1 DEF JobInv, BrokersOK, Sound, DebitIsFinal
    <2>5. JobTypes'
      BY <1>0, <2>1 DEF JobTypes, locVars
    <2> QED  BY <2>1, <2>2, <2>3, <2>4, <2>5, RemoteStep
  <1>7. CASE LoseRecords(k)
    BY <1>7, LoseStep
  <1>8. CASE \E u \in Usage, slip \in Slips[k] : DebitAndSign(k, u, slip)
    BY <1>8, DebitStep
  <1> QED  BY <1>3, <1>4, <1>5, <1>6, <1>7, <1>8 DEF BrokerNext

-----------------------------------------------------------------------------
(* Rows that commit one by one *)

\* With the broker still, everything that is said of it stays.
LEMMA RemoteFrame ==
    ASSUME JobInv, UNCHANGED <<broker, debit, covered>>
    PROVE  BrokersOK' /\ \A j \in Jobs : Advances(j)
  <1>1. \A j \in Jobs : Advances(j)
    BY AdvancesFrame
  <1>2. BrokersOK'
    BY DEF JobInv, BrokersOK, BrokerOK, IsExchange, Sound, DebitIsFinal
  <1> QED  BY <1>1, <1>2

(***************************************************************************)
(* A transaction that writes one row and commits.  If the pass has a draft *)
(* of that row, neither has an authorization that the other lacks.         *)
(***************************************************************************)
LEMMA RowStep ==
    ASSUME JobInv, NEW k \in Jobs, NEW new, job' = [job EXCEPT ![k] = new], RowOK(k, new),
           new.grant = "absent" => job[k].grant = "absent",
           k \in DOMAIN draft => new.grant = job[k].grant,
           UNCHANGED <<draft, pass, broker, debit, covered>>,
           rowLock' = [j \in Jobs |-> rowLock'[j]],
           \A j \in DOMAIN draft : rowLock'[j] = rowLock[j],
           settler' = [s \in Settlers |-> settler'[s]], SettlersOK'
    PROVE  JobInv'
  <1>0. /\ job = [j \in Jobs |-> job[j]] /\ JobTypes
        /\ BrokersOK' /\ \A j \in Jobs : Advances(j)
    BY RemoteFrame DEF JobInv, JobTypes
  <1>1. /\ job' = [j \in Jobs |-> job'[j]] /\ job'[k] = new
        /\ \A j \in Jobs : j # k => job'[j] = job[j]
    BY <1>0
  <1>2. JobTypes'
    BY <1>0, <1>1 DEF JobTypes
  <1>3. RowsOK'
    <2> SUFFICES ASSUME NEW j \in Jobs PROVE RowOK(j, job[j])'
      BY DEF RowsOK
    <2>1. CASE j = k
      <3>1. RowOK(k, new)'
        BY <1>0, RowStays
      <3> QED  BY <1>1, <2>1, <3>1
    <2>2. CASE j # k
      <3>1. PICK row : row = job[j]
        OBVIOUS
      <3>2. RowOK(j, row) /\ job'[j] = row
        BY <1>1, <2>2, <3>1 DEF JobInv, RowsOK
      <3>3. RowOK(j, row)'
        BY <1>0, <3>1, <3>2, RowStays
      <3> QED  BY <3>2, <3>3
    <2> QED  BY <2>1, <2>2
  <1>4. DraftsOK'
    <2> SUFFICES ASSUME NEW j \in DOMAIN draft PROVE DraftOK(j)'
      BY DEF DraftsOK
    <2>1. DraftOK(j) /\ j \in Jobs
      BY DEF JobInv, DraftsOK, JobTypes
    <2>2. PICK row : row = draft[j]
      OBVIOUS
    <2>3. RowOK(j, row) /\ (row.grant = "absent" => job[j].grant = "absent") /\ draft'[j] = row
      BY <2>1, <2>2 DEF DraftOK
    <2>4. RowOK(j, row)'
      BY <1>0, <2>1, <2>3, RowStays
    <2>5. RowOK(j, draft[j])'
      BY <2>3, <2>4
    <2>6. job'[j].grant = job[j].grant
      BY <1>1, <2>1
    <2> QED  BY <2>1, <2>5, <2>6 DEF DraftOK
  <1>5. AnswersOK'
    <2> SUFFICES ASSUME NEW j \in Jobs, pass.at \in {"scope", "apply"}, Head(pass.queue) = j
                 PROVE  AnswerOK(j, pass.answer)'
      BY DEF AnswersOK
    <2>1. AnswerOK(j, pass.answer) /\ Advances(j)
      BY <1>0 DEF JobInv, AnswersOK
    <2>2. PICK answer : answer = pass.answer
      OBVIOUS
    <2>3. AnswerOK(j, answer)'
      BY <2>1, <2>2, AnswerStays
    <2> QED  BY <2>2, <2>3
  <1> QED  BY <1>0, <1>2, <1>3, <1>4, <1>5 DEF JobInv

\* A row that no settle request holds may change under them.
LEMMA SettlersFrame ==
    ASSUME JobInv, NEW k \in Jobs, job[k].state # "open" \/ rowLock[k] \notin Settlers,
           \A j \in Jobs : j # k => job'[j] = job[j],
           UNCHANGED <<settler, rowLock, broker, debit, covered>>
    PROVE  SettlersOK'
  <1> SUFFICES ASSUME NEW s \in Settlers, settler[s] # NoSettle PROVE SettlerOK(s)'
    BY DEF SettlersOK
  <1>1. SettlerOK(s)
    BY DEF JobInv, SettlersOK
  <1>2. settler[s].job # k
    BY <1>1 DEF SettlerOK
  <1> QED  BY <1>1, <1>2 DEF SettlerOK, DebitIsFinal

\* The pass has a draft of no row that is free.
LEMMA FreeIsNotDrafted ==
    ASSUME JobInv, NEW k \in Jobs, Free(k)
    PROVE  k \notin DOMAIN draft /\ rowLock[k] \notin Settlers
  <1>1. NoOne \notin Settlers /\ NoOne # "pass"
    BY JobAssumption
  <1> QED  BY <1>1 DEF Free, JobInv, DraftsOK, DraftOK

\* Opening, authorizing, releasing an unauthorized claim, and the clock.
LEMMA OpenStep ==
    ASSUME JobInv, NEW k \in Jobs, OpenNext(k)
    PROVE  JobInv'
  <1>0. /\ JobTypes /\ RowOK(k, job[k]) /\ BrokerOK(k)
        /\ job = [j \in Jobs |-> job[j]] /\ rowLock = [j \in Jobs |-> rowLock[j]]
        /\ settler = [s \in Settlers |-> settler[s]]
    BY DEF JobInv, RowsOK, BrokersOK, JobTypes
  <1>a. ASSUME NEW new, job' = [job EXCEPT ![k] = new], RowOK(k, new),
               new.grant = "absent" => job[k].grant = "absent",
               k \in DOMAIN draft => new.grant = job[k].grant,
               job[k].state # "open" \/ Free(k),
               UNCHANGED <<settler, rowLock, draft, pass, broker, debit, covered>>
        PROVE  JobInv'
    <2>1. \A j \in Jobs : j # k => job'[j] = job[j]
      BY <1>0, <1>a
    <2>2. job[k].state # "open" \/ rowLock[k] \notin Settlers
      BY <1>a, FreeIsNotDrafted
    <2>3. SettlersOK'
      BY <1>a, <2>1, <2>2, SettlersFrame
    <2>4. /\ rowLock' = [j \in Jobs |-> rowLock'[j]]
          /\ settler' = [s \in Settlers |-> settler'[s]]
          /\ \A j \in DOMAIN draft : rowLock'[j] = rowLock[j]
      BY <1>0, <1>a
    <2> QED  BY <1>a, <2>3, <2>4, RowStep
  <1>1. ASSUME NEW r \in Routes, OpenJob(k, r) PROVE JobInv'
    <2>1. PICK row : row = job[k]
      OBVIOUS
    <2> DEFINE k1 == [row EXCEPT !.state = "open"]
               k2 == [k1 EXCEPT !.delegated = r.delegated]
    <2>2. RowOK(k, row) /\ row.state = "none"
      BY <1>0, <1>1, <2>1 DEF OpenJob
    <2>3. k1 = [state |-> "open", delegated |-> row.delegated, grant |-> row.grant,
                billed |-> row.billed, outcome |-> row.outcome, audit |-> row.audit,
                block |-> row.block, closes |-> row.closes, refund |-> row.refund]
      BY <2>2 DEF RowOK, IsRow
    <2>4. k2 = [state |-> "open", delegated |-> r.delegated, grant |-> row.grant,
                billed |-> row.billed, outcome |-> row.outcome, audit |-> row.audit,
                block |-> row.block, closes |-> row.closes, refund |-> row.refund]
      <3> HIDE DEF k1
      <3> QED  BY <2>3
    <2>5. job' = [job EXCEPT ![k] = k2] /\ UNCHANGED <<settler, rowLock, draft, pass, broker, debit, covered>>
      BY <1>1, <2>1 DEF OpenJob, remoteVars
    <2> HIDE DEF k1, k2
    <2>6. /\ IsRow(k2) /\ k2.state = "open" /\ k2.grant = row.grant /\ k2.outcome = row.outcome
          /\ k2.billed = row.billed /\ k2.closes = row.closes /\ k2.refund = row.refund
      BY <2>4 DEF IsRow
    <2>7. RowOK(k, k2)
      BY <2>2, <2>6 DEF RowOK, RowAccounts, RowAgrees
    <2>8. k2.grant = job[k].grant /\ job[k].state # "open"
      BY <2>1, <2>2, <2>6
    <2> QED  BY <1>a, <2>5, <2>7, <2>8
  <1>2. CASE AuthorizeJob(k)
    <2>1. PICK row : row = job[k]
      OBVIOUS
    <2> DEFINE new == [row EXCEPT !.grant = "issued"]
    <2>2. RowOK(k, row) /\ row.state = "open" /\ Free(k) /\ k \notin DOMAIN draft
      BY <1>0, <1>2, <2>1, FreeIsNotDrafted DEF AuthorizeJob
    <2>3. job' = [job EXCEPT ![k] = new] /\ UNCHANGED <<settler, rowLock, draft, pass, broker, debit, covered>>
      BY <1>2, <2>1 DEF AuthorizeJob, remoteVars
    <2>4. /\ IsRow(new) /\ new.state = row.state /\ new.grant = "issued" /\ new.outcome = row.outcome
          /\ new.billed = row.billed /\ new.closes = row.closes /\ new.refund = row.refund
      BY <2>2, GrantFields DEF RowOK
    <2> HIDE DEF new
    <2>5. RowOK(k, new)
      BY <2>2, <2>4 DEF RowOK, RowAccounts, RowAgrees
    <2> QED  BY <1>a, <2>2, <2>3, <2>4, <2>5
  <1>3. CASE ReleaseUnauthorized(k)
    <2>1. PICK row : row = job[k]
      OBVIOUS
    <2> DEFINE new == Closed(row, 0, "NOT_ADMITTED", "absent")
    <2>2. /\ RowOK(k, row) /\ row.state = "open" /\ row.grant = "absent"
          /\ Free(k) /\ k \notin DOMAIN draft
      BY <1>0, <1>3, <2>1, FreeIsNotDrafted DEF ReleaseUnauthorized
    <2>3. job' = [job EXCEPT ![k] = new] /\ UNCHANGED <<settler, rowLock, draft, pass, broker, debit, covered>>
      BY <1>3, <2>1 DEF ReleaseUnauthorized, remoteVars
    <2>4. IsRow(new) /\ new.grant = "absent" /\ new.outcome = "NOT_ADMITTED"
      BY <2>2, ClosedFields DEF RowOK
    <2>5. RowAccounts(new)
      BY <2>2, ClosedAccounts DEF RowOK
    <2> HIDE DEF new
    <2>6. RowAgrees(k, new)
      BY <1>0, <2>2, <2>4 DEF RowOK, RowAgrees, BrokerOK
    <2>7. RowOK(k, new) /\ job[k].grant = "absent"
      BY <2>1, <2>2, <2>4, <2>5, <2>6 DEF RowOK
    <2> QED  BY <1>a, <2>2, <2>3, <2>7
  <1>4. CASE Expire(k)
    <2>1. UNCHANGED <<job, settler, rowLock, draft, pass, broker, debit, covered>>
      BY <1>4 DEF Expire, remoteVars
    <2>2. PICK row : row = job[k]
      OBVIOUS
    <2>3. job' = [job EXCEPT ![k] = row] /\ RowOK(k, row) /\ row.grant = job[k].grant
      BY <1>0, <2>1, <2>2
    <2>4. SettlersOK'
      BY <2>1 DEF JobInv, SettlersOK, SettlerOK, DebitIsFinal
    <2> QED  BY <1>0, <2>1, <2>3, <2>4, RowStep
  <1> QED  BY <1>1, <1>2, <1>3, <1>4 DEF OpenNext

\* reconcile_spend_authorization_states changes the grant alone, never to absent.
LEMMA ObserveStep ==
    ASSUME JobInv, NEW k \in Jobs, ObserveGrant(k)
    PROVE  JobInv'
  <1>0. /\ JobTypes /\ RowOK(k, job[k])
        /\ job = [j \in Jobs |-> job[j]] /\ rowLock = [j \in Jobs |-> rowLock[j]]
        /\ settler = [s \in Settlers |-> settler[s]]
    BY DEF JobInv, RowsOK, BrokersOK, JobTypes
  <1>1. PICK row : row = job[k]
    OBVIOUS
  <1>2. PICK seen : seen = Receiver(broker[k].state)
    OBVIOUS
  <1> DEFINE new == [row EXCEPT !.grant = seen]
  <1>3. /\ RowOK(k, row) /\ row.grant # "absent" /\ Free(k)
        /\ job' = [job EXCEPT ![k] = new]
        /\ UNCHANGED <<settler, rowLock, draft, pass, broker, debit, covered>>
    BY <1>0, <1>1, <1>2 DEF ObserveGrant, remoteVars
  <1>4. seen # "absent"
    BY <1>2 DEF Receiver
  <1>5. /\ IsRow(new) /\ new.state = row.state /\ new.grant = seen /\ new.outcome = row.outcome
        /\ new.billed = row.billed /\ new.closes = row.closes /\ new.refund = row.refund
    BY <1>3, GrantFields DEF RowOK
  <1> HIDE DEF new
  <1>6. RowOK(k, new)
    BY <1>3, <1>4, <1>5 DEF RowOK, RowAccounts, RowAgrees
  <1>7. k \notin DOMAIN draft /\ rowLock[k] \notin Settlers
    BY <1>3, FreeIsNotDrafted
  <1>8. \A j \in Jobs : j # k => job'[j] = job[j]
    BY <1>0, <1>3
  <1>9. SettlersOK'
    BY <1>3, <1>7, <1>8, SettlersFrame
  <1>10. /\ rowLock' = [j \in Jobs |-> rowLock'[j]]
         /\ settler' = [s \in Settlers |-> settler'[s]]
         /\ \A j \in DOMAIN draft : rowLock'[j] = rowLock[j]
    BY <1>0, <1>3
  <1> QED  BY <1>3, <1>4, <1>5, <1>6, <1>7, <1>9, <1>10, RowStep

-----------------------------------------------------------------------------
(* Settle requests *)

\* Two settle requests never hold the same row, and the pass holds another.
LEMMA SettlerAlone ==
    ASSUME JobInv, NEW s \in Settlers, settler[s] # NoSettle
    PROVE  /\ settler[s].job \in Jobs /\ settler[s].job \notin DOMAIN draft
           /\ \A t \in Settlers : t # s /\ settler[t] # NoSettle => settler[t].job # settler[s].job
  <1>1. /\ settler[s].job \in Jobs /\ rowLock[settler[s].job] = s
        /\ \A t \in Settlers : settler[t] # NoSettle => rowLock[settler[t].job] = t
    BY DEF JobInv, SettlersOK, SettlerOK
  <1>2. s # "pass"
    BY JobAssumption
  <1>3. \A j \in DOMAIN draft : rowLock[j] = "pass"
    BY DEF JobInv, DraftsOK, DraftOK
  <1> QED  BY <1>1, <1>2, <1>3

\* Ending one settle request leaves the others and the pass as they were.
LEMMA EndSettleKeeps ==
    ASSUME JobInv, NEW s \in Settlers, settler[s] # NoSettle, EndSettle(s),
           \A j \in Jobs : j # settler[s].job => job'[j] = job[j],
           UNCHANGED <<broker, debit, covered>>
    PROVE  /\ SettlersOK'
           /\ rowLock' = [j \in Jobs |-> rowLock'[j]]
           /\ settler' = [t \in Settlers |-> settler'[t]]
           /\ \A j \in DOMAIN draft : rowLock'[j] = rowLock[j]
  <1> DEFINE k == settler[s].job
  <1>1. /\ k \in Jobs /\ k \notin DOMAIN draft
        /\ \A t \in Settlers : t # s /\ settler[t] # NoSettle => settler[t].job # k
    BY SettlerAlone
  <1>2. /\ rowLock = [j \in Jobs |-> rowLock[j]] /\ settler = [t \in Settlers |-> settler[t]]
        /\ DOMAIN draft \subseteq Jobs
    BY DEF JobInv, JobTypes
  <1>3. rowLock' = [rowLock EXCEPT ![k] = NoOne] /\ settler' = [settler EXCEPT ![s] = NoSettle]
    BY DEF EndSettle
  <1>4. \A j \in Jobs : j # k => job'[j] = job[j]
    OBVIOUS
  <1> HIDE DEF k
  <1>5. /\ rowLock' = [j \in Jobs |-> rowLock'[j]] /\ settler' = [t \in Settlers |-> settler'[t]]
        /\ \A j \in Jobs : j # k => rowLock'[j] = rowLock[j]
        /\ settler'[s] = NoSettle /\ \A t \in Settlers : t # s => settler'[t] = settler[t]
    BY <1>2, <1>3
  <1>6. SettlersOK'
    <2> SUFFICES ASSUME NEW t \in Settlers, settler'[t] # NoSettle PROVE SettlerOK(t)'
      BY DEF SettlersOK
    <2>1. t # s /\ settler'[t] = settler[t] /\ settler[t] # NoSettle
      BY <1>5
    <2>2. SettlerOK(t) /\ settler[t].job # k
      BY <1>1, <2>1 DEF JobInv, SettlersOK
    <2> QED  BY <1>4, <1>5, <2>1, <2>2 DEF SettlerOK, DebitIsFinal
  <1> QED  BY <1>1, <1>2, <1>5, <1>6

\* A settler locks the row and reads it again.
LEMMA LockStep ==
    ASSUME JobInv, NEW s \in Settlers, NEW k \in Jobs, LockSettle(s, k)
    PROVE  JobInv'
  <1>0. /\ RowOK(k, job[k]) /\ Sound(k, broker[k].record)
        /\ job = [j \in Jobs |-> job[j]] /\ rowLock = [j \in Jobs |-> rowLock[j]]
        /\ settler = [t \in Settlers |-> settler[t]] /\ DOMAIN draft \subseteq Jobs
    BY DEF JobInv, RowsOK, BrokersOK, JobTypes
  <1>1. PICK record : record = broker[k].record
    OBVIOUS
  <1>2. /\ Free(k) /\ job[k].state = "open"
        /\ VerifyJobSettlement(k, job[k], record) /\ CanSettle(job[k])
        /\ settler' = [settler EXCEPT ![s] = [job |-> k, record |-> record]]
        /\ rowLock' = [rowLock EXCEPT ![k] = s]
        /\ UNCHANGED <<job, draft, pass, broker, debit, covered>>
    BY <1>1 DEF LockSettle, remoteVars
  <1>3. k \notin DOMAIN draft /\ rowLock[k] \notin Settlers
    BY <1>2, FreeIsNotDrafted
  <1>4. record.bill = debit[k] /\ DebitIsFinal(k) /\ job[k].grant # "absent"
    BY <1>0, <1>1, <1>2 DEF Sound, VerifyJobSettlement, SignedBy, CanSettle
  <1>5. /\ rowLock' = [j \in Jobs |-> rowLock'[j]] /\ settler' = [t \in Settlers |-> settler'[t]]
        /\ rowLock'[k] = s /\ \A j \in Jobs : j # k => rowLock'[j] = rowLock[j]
        /\ settler'[s].job = k /\ settler'[s].record = record
        /\ \A t \in Settlers : t # s => settler'[t] = settler[t]
    BY <1>0, <1>2
  <1>6. SettlersOK'
    <2> SUFFICES ASSUME NEW t \in Settlers, settler'[t] # NoSettle PROVE SettlerOK(t)'
      BY DEF SettlersOK
    <2>1. CASE t = s
      BY <1>2, <1>4, <1>5, <2>1 DEF SettlerOK, DebitIsFinal
    <2>2. CASE t # s
      <3>1. SettlerOK(t) /\ settler'[t] = settler[t]
        BY <1>5, <2>2 DEF JobInv, SettlersOK
      <3>2. settler[t].job # k
        BY <1>3, <3>1 DEF SettlerOK
      <3> QED  BY <1>2, <1>5, <3>1, <3>2 DEF SettlerOK, DebitIsFinal
    <2> QED  BY <2>1, <2>2
  <1>7. PICK row : row = job[k]
    OBVIOUS
  <1>8. /\ job' = [job EXCEPT ![k] = row] /\ RowOK(k, row) /\ row.grant = job[k].grant
        /\ \A j \in DOMAIN draft : rowLock'[j] = rowLock[j]
    BY <1>0, <1>2, <1>3, <1>5, <1>7
  <1> QED  BY <1>2, <1>5, <1>6, <1>8, RowStep

\* A settler commits the settlement it verified.
LEMMA CommitStep ==
    ASSUME JobInv, NEW s \in Settlers, CommitSettle(s)
    PROVE  JobInv'
  <1>1. PICK k : k = settler[s].job
    OBVIOUS
  <1>2. PICK bill : bill = settler[s].record.bill
    OBVIOUS
  <1>3. PICK row : row = job[k]
    OBVIOUS
  <1> DEFINE new == Closed(row, bill, "settled", "settled")
  <1>4. /\ settler[s] # NoSettle /\ EndSettle(s)
        /\ job' = [job EXCEPT ![k] = new]
        /\ UNCHANGED <<draft, pass, broker, debit, covered>>
    BY <1>1, <1>2, <1>3 DEF CommitSettle, remoteVars
  <1>5. /\ k \in Jobs /\ k \notin DOMAIN draft
        /\ row.state = "open" /\ bill = debit[k] /\ DebitIsFinal(k) /\ row.grant # "absent"
    BY <1>1, <1>2, <1>3, <1>4, SettlerAlone DEF JobInv, SettlersOK, SettlerOK
  <1>6. RowOK(k, row) /\ bill \in Int /\ job = [j \in Jobs |-> job[j]]
    BY <1>3, <1>5 DEF JobInv, RowsOK, BrokersOK, BrokerOK, JobTypes
  <1>7. IsRow(new) /\ new.outcome = "settled" /\ new.grant = "settled" /\ new.billed = bill
    BY <1>6, ClosedFields DEF RowOK
  <1>8. RowAccounts(new)
    BY <1>5, <1>6, ClosedAccounts DEF RowOK
  <1> HIDE DEF new
  <1>9. RowOK(k, new)
    BY <1>5, <1>7, <1>8 DEF RowOK, RowAgrees
  <1>10. \A j \in Jobs : j # k => job'[j] = job[j]
    BY <1>4, <1>6
  <1>11. /\ SettlersOK'
         /\ rowLock' = [j \in Jobs |-> rowLock'[j]]
         /\ settler' = [t \in Settlers |-> settler'[t]]
         /\ \A j \in DOMAIN draft : rowLock'[j] = rowLock[j]
    BY <1>1, <1>4, <1>10, EndSettleKeeps
  <1>12. new.grant = "absent" => job[k].grant = "absent"
    BY <1>7
  <1> QED  BY <1>4, <1>5, <1>9, <1>11, <1>12, RowStep

\* PostgreSQL aborts the settle request: its row stays open.
LEMMA AbortSettleStep ==
    ASSUME JobInv, NEW s \in Settlers, AbortSettle(s)
    PROVE  JobInv'
  <1>1. PICK k : k = settler[s].job
    OBVIOUS
  <1>2. /\ settler[s] # NoSettle /\ EndSettle(s)
        /\ UNCHANGED <<job, draft, pass, broker, debit, covered>>
    BY DEF AbortSettle, LockCycle, remoteVars
  <1>3. k \in Jobs /\ RowOK(k, job[k]) /\ job = [j \in Jobs |-> job[j]]
    BY <1>1, <1>2, SettlerAlone DEF JobInv, RowsOK, JobTypes
  <1>4. /\ SettlersOK'
        /\ rowLock' = [j \in Jobs |-> rowLock'[j]]
        /\ settler' = [t \in Settlers |-> settler'[t]]
        /\ \A j \in DOMAIN draft : rowLock'[j] = rowLock[j]
    BY <1>2, EndSettleKeeps
  <1>5. PICK row : row = job[k]
    OBVIOUS
  <1>6. job' = [job EXCEPT ![k] = row] /\ RowOK(k, row) /\ row.grant = job[k].grant
    BY <1>2, <1>3, <1>5
  <1> QED  BY <1>2, <1>3, <1>4, <1>6, RowStep

-----------------------------------------------------------------------------
(* The pass *)

\* A step of the pass that writes no row.
LEMMA PassStep ==
    ASSUME JobInv, UNCHANGED <<job, settler, rowLock, draft, broker, debit, covered>>,
           IsPass(pass)', AnswersOK'
    PROVE  JobInv'
  <1>1. BrokersOK' /\ \A j \in Jobs : Advances(j)
    BY RemoteFrame
  <1>2. RowsOK' /\ DraftsOK' /\ SettlersOK'
    BY <1>1, BrokerMovesOn
  <1>3. JobTypes'
    BY DEF JobInv, JobTypes
  <1> QED  BY <1>1, <1>2, <1>3 DEF JobInv

\* The broker's answer is the truth at the moment it is given.
LEMMA ExchangeIsTrue ==
    ASSUME JobInv, NEW k \in Jobs
    PROVE  AnswerOK(k, Exchange(k))
  <1>0. BrokerOK(k) /\ Sound(k, broker[k].record)
    BY DEF JobInv, BrokersOK
  <1>1. CASE broker[k].state = "settled"
    <2>1. Exchange(k) = [NoAnswer EXCEPT !.outcome = "SETTLED", !.record = broker[k].record]
      BY <1>1 DEF Exchange
    <2>2. Exchange(k).outcome = "SETTLED" /\ Exchange(k).record = broker[k].record
      BY <2>1 DEF NoAnswer
    <2> QED  BY <1>0, <2>2 DEF AnswerOK
  <1>2. CASE broker[k].state = "fenced"
    <2>1. Exchange(k) = [NoAnswer EXCEPT !.outcome = "NOT_ADMITTED",
                                         !.evidence = [covered |-> k \in covered, late |-> TRUE]]
      BY <1>2 DEF Exchange
    <2>2. Exchange(k).outcome = "NOT_ADMITTED" /\ Exchange(k).evidence.covered = (k \in covered)
      BY <2>1 DEF NoAnswer
    <2> QED  BY <1>0, <1>2, <2>2 DEF AnswerOK, BrokerOK
  <1>3. CASE broker[k].state \notin {"settled", "fenced"}
    <2>1. Exchange(k).outcome \notin {"SETTLED", "NOT_ADMITTED"}
      <3>1. CASE broker[k].state = "canceled"
        <4>1. Exchange(k) = [NoAnswer EXCEPT !.outcome = "NO_RECORD"]
          BY <3>1 DEF Exchange
        <4> QED  BY <4>1 DEF NoAnswer
      <3>2. CASE broker[k].state # "canceled"
        <4>1. Exchange(k) = [NoAnswer EXCEPT !.outcome = broker[k].state]
          BY <1>3, <3>2 DEF Exchange
        <4>2. Exchange(k).outcome = broker[k].state
          BY <4>1 DEF NoAnswer
        <4> QED  BY <1>0, <1>3, <4>2 DEF BrokerOK, BrokerStates
      <3> QED  BY <3>1, <3>2
    <2> QED  BY <2>1 DEF AnswerOK
  <1> QED  BY <1>1, <1>2, <1>3

\* Asking, being refused an answer, and staying with the first answer.
LEMMA AskStep ==
    ASSUME JobInv, NEW k \in Jobs, AskBroker(k) \/ AskFails(k) \/ NoNonAdmission(k)
    PROVE  JobInv'
  <1>0. IsPass(pass) /\ UNCHANGED <<job, settler, rowLock, draft, broker, debit, covered>>
    BY DEF JobInv, JobTypes, AskBroker, AskFails, NoNonAdmission, remoteVars
  <1>1. ASSUME NEW answer, NEW at, AnswerOK(k, answer), Head(pass.queue) = k,
               pass' = [pass EXCEPT !.answer = answer, !.at = at]
        PROVE  JobInv'
    <2>1. pass' = [at |-> at, queue |-> pass.queue, answer |-> answer, credit |-> pass.credit]
      BY <1>0, <1>1 DEF IsPass
    <2>2. pass'.queue = pass.queue /\ pass'.answer = answer /\ IsPass(pass)'
      BY <2>1 DEF IsPass
    <2>3. AnswerOK(k, answer)'
      BY <1>0, <1>1, AnswerStays, AdvancesFrame
    <2>4. AnswersOK'
      BY <1>1, <2>2, <2>3 DEF AnswersOK
    <2> QED  BY <1>0, <2>2, <2>4, PassStep
  <1>2. CASE AskBroker(k)
    <2>1. PICK answer : answer = Exchange(k)
      OBVIOUS
    <2>2. PICK at : at = IF Exchange(k).outcome \in {"NO_RECORD", "ADMISSION_REJECTED"}
                           THEN "scope" ELSE "apply"
      OBVIOUS
    <2>3. AnswerOK(k, answer)
      BY <2>1, ExchangeIsTrue
    <2>4. pass' = [pass EXCEPT !.answer = answer, !.at = at] /\ Head(pass.queue) = k
      BY <1>2, <2>1, <2>2 DEF AskBroker
    <2> QED  BY <1>1, <2>3, <2>4
  <1>3. CASE AskFails(k)
    <2>1. PICK answer : answer = [NoAnswer EXCEPT !.outcome = "LOOKUP_FAILED"]
      OBVIOUS
    <2>2. answer.outcome = "LOOKUP_FAILED"
      BY <2>1 DEF NoAnswer
    <2>3. AnswerOK(k, answer)
      BY <2>2 DEF AnswerOK
    <2>4. pass' = [pass EXCEPT !.answer = answer, !.at = "apply"] /\ Head(pass.queue) = k
      BY <1>3, <2>1 DEF AskFails
    <2> QED  BY <1>1, <2>3, <2>4
  <1>4. CASE NoNonAdmission(k)
    <2>1. PICK answer : answer = pass.answer
      OBVIOUS
    <2>2. AnswerOK(k, answer) /\ Head(pass.queue) = k
      BY <1>4, <2>1 DEF NoNonAdmission, JobInv, AnswersOK
    <2>3. pass' = [pass EXCEPT !.answer = answer, !.at = "apply"]
      BY <1>0, <1>4, <2>1 DEF NoNonAdmission, IsPass
    <2> QED  BY <1>1, <2>2, <2>3
  <1> QED  BY <1>2, <1>3, <1>4

\* A scheduler pass begins with the jobs it selected.
LEMMA BeginStep ==
    ASSUME JobInv, BeginPass
    PROVE  JobInv'
  <1>0. UNCHANGED <<job, settler, rowLock, draft, broker, debit, covered>>
    BY DEF BeginPass, remoteVars
  <1>1. PICK queue : pass' = [NoPass EXCEPT !.at = "ask", !.queue = queue]
    BY DEF BeginPass
  <1>2. pass'.at = "ask" /\ IsPass(pass)'
    BY <1>1 DEF NoPass, IsPass
  <1>3. AnswersOK'
    BY <1>2 DEF AnswersOK
  <1> QED  BY <1>0, <1>2, <1>3, PassStep

(***************************************************************************)
(* _request_non_admission: an answer that is both covered and late comes   *)
(* with the fence that keeps it true.                                      *)
(***************************************************************************)
LEMMA NonAdmissionStep ==
    ASSUME JobInv, NEW k \in Jobs, RequestNonAdmission(k)
    PROVE  JobInv'
  <1>0. JobTypes /\ IsPass(pass) /\ BrokerOK(k) /\ RowOK(k, job[k])
        /\ broker = [j \in Jobs |-> broker[j]]
    BY DEF JobInv, JobTypes, BrokersOK, RowsOK
  <1>1. PICK evidence : evidence = [covered |-> k \in covered, late |-> k \in lapsed]
    OBVIOUS
  <1>2. PICK answer : answer = [NoAnswer EXCEPT !.outcome = "NOT_ADMITTED", !.evidence = evidence]
    OBVIOUS
  <1>3. /\ Head(pass.queue) = k /\ RowOf(k).grant \in UnusedGrant
        /\ broker[k].state \in {"NO_RECORD", "ADMISSION_REJECTED"}
        /\ pass' = [pass EXCEPT !.at = "apply", !.answer = answer]
        /\ broker' = [broker EXCEPT ![k].state = IF k \in lapsed THEN "fenced" ELSE @]
        /\ UNCHANGED <<job, settler, rowLock, draft, covered, debit>>
    BY <1>1, <1>2 DEF RequestNonAdmission
  <1>4. /\ answer.outcome = "NOT_ADMITTED"
        /\ answer.evidence.covered = (k \in covered) /\ answer.evidence.late = (k \in lapsed)
    BY <1>1, <1>2 DEF NoAnswer
  <1>5. job[k].grant # "absent"
    <2>1. RowOf(k).grant # "absent"
      BY <1>3 DEF UnusedGrant
    <2>2. CASE k \in DOMAIN draft
      BY <2>1, <2>2 DEF RowOf, JobInv, DraftsOK, DraftOK
    <2>3. CASE k \notin DOMAIN draft
      BY <2>1, <2>3 DEF RowOf
    <2> QED  BY <2>2, <2>3
  <1>6. /\ OthersStay(k) /\ Advances(k) /\ BrokerOK(k)' /\ Sound(k, broker[k].record)'
        /\ broker' = [j \in Jobs |-> broker'[j]]
        /\ k \in lapsed => broker'[k].state = "fenced"
    <2>1. CASE k \in lapsed
      <3>1. BrokerBecomes(k, "fenced")
        BY <1>3, <2>1 DEF BrokerBecomes
      <3>2. "fenced" \in BrokerStates
        BY DEF BrokerStates
      <3> QED  BY <1>3, <1>5, <3>1, <3>2, BecomesStep
    <2>2. CASE k \notin lapsed
      <3>1. broker' = broker
        <4>1. broker' = [broker EXCEPT ![k] = [broker[k] EXCEPT !.state = broker[k].state]]
          BY <1>3, <2>2
        <4>2. [broker[k] EXCEPT !.state = broker[k].state] = broker[k]
          BY <1>0 DEF BrokerOK, IsExchange
        <4> QED  BY <1>0, <4>1, <4>2
      <3>2. OthersStay(k) /\ Advances(k)
        BY <1>3, <3>1, AdvancesFrame DEF OthersStay
      <3>3. BrokerOK(k)'
        BY <1>0, <1>3, <3>1 DEF BrokerOK, IsExchange
      <3>4. Sound(k, broker[k].record)'
        BY <1>3, <3>1 DEF JobInv, BrokersOK, Sound, DebitIsFinal
      <3> QED  BY <1>0, <2>2, <3>1, <3>2, <3>3, <3>4
    <2> QED  BY <2>1, <2>2
  <1>7. BrokersOK' /\ \A j \in Jobs : Advances(j)
    BY <1>6, BrokersStay
  <1>8. RowsOK' /\ DraftsOK' /\ SettlersOK'
    BY <1>3, <1>7, BrokerMovesOn
  <1>9. pass' = [at |-> "apply", queue |-> pass.queue, answer |-> answer, credit |-> pass.credit]
    BY <1>0, <1>3 DEF IsPass
  <1>10. pass'.queue = pass.queue /\ pass'.answer = answer /\ IsPass(pass)'
    BY <1>9 DEF IsPass
  <1>11. AnswersOK'
    <2>1. AnswerOK(k, answer)'
      BY <1>0, <1>3, <1>4, <1>6 DEF AnswerOK, BrokerOK
    <2> QED  BY <1>3, <1>10, <2>1 DEF AnswersOK
  <1>12. JobTypes'
    BY <1>0, <1>3, <1>6, <1>10 DEF JobTypes
  <1> QED  BY <1>7, <1>8, <1>11, <1>12 DEF JobInv

(***************************************************************************)
(* Applying an answer: the row is free, so it is the committed one that is *)
(* read again, and the draft that replaces it is under the pass's lock.    *)
(***************************************************************************)
LEMMA ApplyStep ==
    ASSUME JobInv, NEW k \in Jobs, ApplyAnswer(k)
    PROVE  JobInv'
  <1>1. PICK seen : seen = [RowOf(k) EXCEPT !.audit = FALSE]
    OBVIOUS
  <1>2. PICK answer : answer = pass.answer
    OBVIOUS
  <1>3. PICK row : row = Reconciled(k, seen, answer)
    OBVIOUS
  <1>4. /\ pass.at = "apply" /\ Head(pass.queue) = k /\ Free(k)
        /\ row.outcome = "settled" /\ seen.state = "open" => CanSettle(seen)
        /\ rowLock' = [rowLock EXCEPT ![k] = "pass"]
        /\ draft' = [j \in DOMAIN draft \cup {k} |-> IF j = k THEN row ELSE draft[j]]
        /\ UNCHANGED <<job, settler, broker, debit, covered>>
    BY <1>1, <1>2, <1>3 DEF ApplyAnswer, remoteVars
  <1>5. PICK credit : pass' = [pass EXCEPT !.at = "ask", !.queue = Tail(@), !.answer = NoAnswer,
                                           !.credit = credit]
    BY DEF ApplyAnswer
  <1>6. /\ k \notin DOMAIN draft /\ rowLock[k] \notin Settlers
    BY <1>4, FreeIsNotDrafted
  <1>7. RowOK(k, seen) /\ seen.grant = job[k].grant
    <2>1. RowOf(k) = job[k] /\ RowOK(k, job[k])
      BY <1>6 DEF RowOf, JobInv, RowsOK
    <2> QED  BY <1>1, <2>1, AuditKeepsRow
  <1>8. AnswerOK(k, answer) /\ debit[k] \in Int
    BY <1>2, <1>4 DEF JobInv, AnswersOK, BrokersOK, BrokerOK
  <1>9. RowOK(k, row) /\ ((row.grant = "absent") <=> (seen.grant = "absent"))
    BY <1>3, <1>4, <1>7, <1>8, ReconciledKeepsRow
  <1>10. /\ JobTypes /\ rowLock = [j \in Jobs |-> rowLock[j]] /\ IsPass(pass)
         /\ DOMAIN draft \subseteq Jobs
    BY DEF JobInv, JobTypes
  <1>11. BrokersOK' /\ \A j \in Jobs : Advances(j)
    BY <1>4, RemoteFrame
  <1>12. /\ rowLock' = [j \in Jobs |-> rowLock'[j]] /\ rowLock'[k] = "pass"
         /\ \A j \in Jobs : j # k => rowLock'[j] = rowLock[j]
         /\ DOMAIN draft' = DOMAIN draft \cup {k} /\ draft' = [j \in DOMAIN draft' |-> draft'[j]]
         /\ draft'[k] = row /\ \A j \in DOMAIN draft : j # k => draft'[j] = draft[j]
    BY <1>4, <1>10
  <1>13. pass'.at = "ask" /\ IsPass(pass)'
    <2>1. pass' = [at |-> "ask", queue |-> Tail(pass.queue), answer |-> NoAnswer, credit |-> credit]
      BY <1>5, <1>10 DEF IsPass
    <2> QED  BY <2>1 DEF IsPass
  <1>14. RowsOK'
    <2> SUFFICES ASSUME NEW j \in Jobs PROVE RowOK(j, job[j])'
      BY DEF RowsOK
    <2>1. PICK r : r = job[j]
      OBVIOUS
    <2>2. RowOK(j, r) /\ job'[j] = r
      BY <1>4, <2>1 DEF JobInv, RowsOK
    <2>3. RowOK(j, r)'
      BY <1>11, <2>1, <2>2, RowStays
    <2> QED  BY <2>2, <2>3
  <1>15. DraftsOK'
    <2> SUFFICES ASSUME NEW j \in DOMAIN draft' PROVE DraftOK(j)'
      BY DEF DraftsOK
    <2>1. CASE j = k
      <3>1. RowOK(k, row)'
        BY <1>7, <1>9, <1>11, RowStays
      <3> QED  BY <1>4, <1>7, <1>9, <1>12, <2>1, <3>1 DEF DraftOK
    <2>2. CASE j # k
      <3>1. j \in DOMAIN draft /\ j \in Jobs /\ DraftOK(j) /\ draft'[j] = draft[j]
        BY <1>10, <1>12, <2>2 DEF JobInv, DraftsOK
      <3>2. PICK r : r = draft[j]
        OBVIOUS
      <3>3. RowOK(j, r) /\ (r.grant = "absent" => job[j].grant = "absent") /\ draft'[j] = r
        BY <3>1, <3>2 DEF DraftOK
      <3>4. RowOK(j, r)'
        BY <1>11, <3>1, <3>3, RowStays
      <3>5. RowOK(j, draft[j])'
        BY <3>3, <3>4
      <3> QED  BY <1>4, <1>12, <2>2, <3>1, <3>5 DEF DraftOK
    <2> QED  BY <2>1, <2>2
  <1>16. SettlersOK'
    <2> SUFFICES ASSUME NEW s \in Settlers, settler[s] # NoSettle PROVE SettlerOK(s)'
      BY <1>4 DEF SettlersOK
    <2>1. SettlerOK(s)
      BY DEF JobInv, SettlersOK
    <2>2. settler[s].job # k
      BY <1>6, <2>1 DEF SettlerOK
    <2> QED  BY <1>4, <1>12, <2>1, <2>2 DEF SettlerOK, DebitIsFinal
  <1>17. AnswersOK'
    BY <1>13 DEF AnswersOK
  <1>18. JobTypes'
    BY <1>4, <1>10, <1>12, <1>13 DEF JobTypes
  <1> QED  BY <1>11, <1>14, <1>15, <1>16, <1>17, <1>18 DEF JobInv

(***************************************************************************)
(* The end of a pass: its drafts become the rows, all at once, or are      *)
(* thrown away, and only its own locks go.                                 *)
(***************************************************************************)
LEMMA PassEnds ==
    ASSUME JobInv, draft' = NoDraft, pass' = NoPass, ReleasePassLocks,
           job' = job \/ job' = [j \in Jobs |-> RowOf(j)],
           UNCHANGED <<settler, broker, debit, covered>>
    PROVE  JobInv'
  <1>0. /\ JobTypes /\ job = [j \in Jobs |-> job[j]]
        /\ BrokersOK' /\ \A j \in Jobs : Advances(j)
    BY RemoteFrame DEF JobInv, JobTypes
  <1>1. \A j \in Jobs : job'[j] = job[j] \/ (j \in DOMAIN draft /\ job'[j] = draft[j])
    BY DEF RowOf
  <1>2. job' = [j \in Jobs |-> job'[j]]
    BY <1>0
  <1>3. /\ DOMAIN draft' = {} /\ draft' = [j \in DOMAIN draft' |-> draft'[j]]
        /\ pass'.at = "idle" /\ IsPass(pass)'
    BY DEF NoDraft, NoPass, IsPass
  <1>4. /\ rowLock' = [j \in Jobs |-> rowLock'[j]]
        /\ \A j \in Jobs : rowLock[j] \in Settlers => rowLock'[j] = rowLock[j]
    BY DEF ReleasePassLocks
  <1>5. JobTypes'
    BY <1>0, <1>2, <1>3, <1>4 DEF JobTypes
  <1>6. RowsOK'
    <2> SUFFICES ASSUME NEW j \in Jobs PROVE RowOK(j, job[j])'
      BY DEF RowsOK
    <2>1. PICK row : row = job'[j]
      OBVIOUS
    <2>2. RowOK(j, row) /\ (row.grant = "absent" => job[j].grant = "absent")
      <3>1. CASE job'[j] = job[j]
        BY <2>1, <3>1 DEF JobInv, RowsOK
      <3>2. CASE j \in DOMAIN draft /\ job'[j] = draft[j]
        BY <2>1, <3>2 DEF JobInv, DraftsOK, DraftOK
      <3> QED  BY <1>1, <3>1, <3>2
    <2>3. RowOK(j, row)'
      BY <1>0, <2>2, RowStays
    <2> QED  BY <2>1, <2>3
  <1>7. SettlersOK'
    <2> SUFFICES ASSUME NEW s \in Settlers, settler[s] # NoSettle PROVE SettlerOK(s)'
      BY DEF SettlersOK
    <2>1. SettlerOK(s) /\ settler[s].job \notin DOMAIN draft
      BY SettlerAlone DEF JobInv, SettlersOK
    <2>2. job'[settler[s].job] = job[settler[s].job] /\ rowLock'[settler[s].job] = s
      BY <1>1, <1>4, <2>1 DEF SettlerOK
    <2> QED  BY <2>1, <2>2 DEF SettlerOK, DebitIsFinal
  <1>8. DraftsOK' /\ AnswersOK'
    BY <1>3 DEF DraftsOK, AnswersOK
  <1> QED  BY <1>0, <1>5, <1>6, <1>7, <1>8 DEF JobInv

-----------------------------------------------------------------------------
(***************************************************************************)
(* The invariant holds at the start and is kept by every step.             *)
(***************************************************************************)
LEMMA JobStep ==
    ASSUME JobInv, [JobNext]_jobVars
    PROVE  JobInv'
  <1>1. ASSUME NEW k \in Jobs, PassNext(k) PROVE JobInv'
    <2>1. CASE AskBroker(k) \/ AskFails(k) \/ NoNonAdmission(k)
      BY <2>1, AskStep
    <2>2. CASE RequestNonAdmission(k)
      BY <2>2, NonAdmissionStep
    <2>3. CASE ApplyAnswer(k)
      BY <2>3, ApplyStep
    <2>4. CASE SettleConflict(k)
      BY <2>4, PassEnds DEF SettleConflict, Rollback, remoteVars
    <2> QED  BY <1>1, <2>1, <2>2, <2>3, <2>4 DEF PassNext
  <1>2. ASSUME NEW s \in Settlers, SettleNext(s) PROVE JobInv'
    <2>1. CASE \E j \in Jobs : LockSettle(s, j)
      BY <2>1, LockStep
    <2>2. CASE CommitSettle(s)
      BY <2>2, CommitStep
    <2>3. CASE AbortSettle(s)
      BY <2>3, AbortSettleStep
    <2>4. CASE AbortPass(s)
      BY <2>4, PassEnds DEF AbortPass, Rollback, remoteVars
    <2> QED  BY <1>2, <2>1, <2>2, <2>3, <2>4 DEF SettleNext
  <1>3. CASE BeginPass
    BY <1>3, BeginStep
  <1>4. CASE CommitPass
    BY <1>4, PassEnds DEF CommitPass, remoteVars
  <1>5. CASE CrashPass
    BY <1>5, PassEnds DEF CrashPass, Rollback, remoteVars
  <1>6. CASE UNCHANGED jobVars
    <2>1. UNCHANGED <<job, settler, rowLock, draft, pass, broker, debit, covered>>
      BY <1>6 DEF jobVars, locVars, remoteVars
    <2>2. AnswersOK'
      BY <2>1 DEF JobInv, AnswersOK, AnswerOK, Sound, DebitIsFinal
    <2>3. IsPass(pass)'
      BY <2>1 DEF JobInv, JobTypes, IsPass
    <2> QED  BY <2>1, <2>2, <2>3, PassStep
  <1> QED  BY <1>1, <1>2, <1>3, <1>4, <1>5, <1>6, OpenStep, BrokerStep, ObserveStep DEF JobNext

\* The invariant holds at the start.
LEMMA JobStart ==
    ASSUME JobInit
    PROVE  JobInv
  <1>1. PICK units \in Usage : units = CHOOSE u \in Usage : TRUE
    BY JobAssumption
  <1>2. \A j \in Jobs :
           IF j \in Finished
             THEN job[j] = [NoRow EXCEPT !.state = "open", !.delegated = TRUE, !.grant = "settled"]
                  /\ broker[j] = [state |-> "settled", record |-> SignedRecord(j, units, "none")]
             ELSE job[j] = NoRow /\ broker[j] = [state |-> "NO_RECORD", record |-> NoRecord]
    BY <1>1 DEF JobInit
  <1>3. /\ covered = Jobs /\ draft = NoDraft /\ pass = NoPass
        /\ \A j \in Jobs : debit[j] = broker[j].record.bill
        /\ \A s \in Settlers : settler[s] = NoSettle
        /\ job = [j \in Jobs |-> job[j]] /\ broker = [j \in Jobs |-> broker[j]]
        /\ debit = [j \in Jobs |-> debit[j]] /\ rowLock = [j \in Jobs |-> rowLock[j]]
        /\ settler = [s \in Settlers |-> settler[s]]
    BY DEF JobInit
  <1>4. /\ DOMAIN draft = {} /\ draft = [j \in DOMAIN draft |-> draft[j]]
        /\ pass.at = "idle" /\ IsPass(pass)
    BY <1>3 DEF NoDraft, NoPass, IsPass
  <1>5. JobTypes
    BY <1>3, <1>4 DEF JobTypes
  <1>6. Bill(units) \in Int
    <2>1. units \in Int
      BY JobAssumption
    <2> QED  BY <2>1, BillType
  <1>7. ASSUME NEW j \in Jobs
        PROVE  RowOK(j, job[j]) /\ BrokerOK(j) /\ Sound(j, broker[j].record)
    <2>1. CASE j \in Finished
      <3>1. job[j] = [NoRow EXCEPT !.state = "open", !.delegated = TRUE, !.grant = "settled"]
            /\ broker[j] = [state |-> "settled", record |-> SignedRecord(j, units, "none")]
        BY <1>2, <2>1
      <3>2. /\ IsRow(job[j]) /\ job[j].state = "open" /\ job[j].grant = "settled"
            /\ job[j].outcome = "none" /\ job[j].closes = 0 /\ job[j].refund = 0 /\ job[j].billed = 0
        BY <3>1 DEF NoRow, IsRow
      <3>3. /\ broker[j].state = "settled" /\ IsExchange(broker[j])
            /\ broker[j].record.bill = Bill(units)
        BY <3>1 DEF IsExchange, SignedRecord
      <3>4. debit[j] = Bill(units) /\ debit[j] = broker[j].record.bill
        BY <1>3, <3>3
      <3>5. RowOK(j, job[j])
        BY <3>2 DEF RowOK, RowAccounts, RowAgrees
      <3>6. BrokerOK(j)
        BY <1>3, <1>6, <3>3, <3>4 DEF BrokerOK, BrokerStates
      <3>7. Sound(j, broker[j].record)
        BY <3>3, <3>4 DEF Sound, DebitIsFinal
      <3> QED  BY <3>5, <3>6, <3>7
    <2>2. CASE j \notin Finished
      <3>1. job[j] = NoRow /\ broker[j] = [state |-> "NO_RECORD", record |-> NoRecord]
        BY <1>2, <2>2
      <3>2. /\ IsRow(job[j]) /\ job[j].state = "none" /\ job[j].grant = "absent"
            /\ job[j].outcome = "none" /\ job[j].closes = 0 /\ job[j].refund = 0 /\ job[j].billed = 0
        BY <3>1 DEF NoRow, IsRow
      <3>3. /\ broker[j].state = "NO_RECORD" /\ IsExchange(broker[j])
            /\ broker[j].record.bill = 0 /\ broker[j].record.key # "delegated"
        BY <3>1 DEF IsExchange, NoRecord
      <3>4. debit[j] = 0
        BY <1>3, <3>3
      <3>5. RowOK(j, job[j])
        BY <1>3, <3>2, <3>3 DEF RowOK, RowAccounts, RowAgrees
      <3>6. BrokerOK(j)
        BY <1>3, <3>3, <3>4 DEF BrokerOK, BrokerStates
      <3>7. Sound(j, broker[j].record)
        BY <3>3 DEF Sound
      <3> QED  BY <3>5, <3>6, <3>7
    <2> QED  BY <2>1, <2>2
  <1>8. RowsOK /\ BrokersOK
    BY <1>7 DEF RowsOK, BrokersOK
  <1>9. DraftsOK /\ AnswersOK /\ SettlersOK
    BY <1>3, <1>4 DEF DraftsOK, AnswersOK, SettlersOK
  <1> QED  BY <1>5, <1>8, <1>9 DEF JobInv

(***************************************************************************)
(* The broker, the pass, the settle requests and the rows agree in every   *)
(* reachable state, whoever dies, waits, is aborted or loses its records.  *)
(***************************************************************************)
THEOREM JobInvariant == JobSpec => []JobInv
  <1>1. JobInit => JobInv
    BY JobStart
  <1>2. JobInv /\ [JobNext]_jobVars => JobInv'
    BY JobStep
  <1> QED  BY <1>1, <1>2, PTL DEF JobSpec

(***************************************************************************)
(* A job is accounted for exactly once: while it is open its whole hold    *)
(* stands, and one event splits it into bill and refund (settle_job,       *)
(* _retain_verified_non_admission, finalize_conservative_full_charge).     *)
(***************************************************************************)
THEOREM JobsAccountedOnce == JobSpec => []AccountedOnce
  <1>1. JobInv => AccountedOnce
    <2> SUFFICES ASSUME JobInv, NEW j \in Jobs
                 PROVE  IF AccountingOutcome(job[j]) \in {"unresolved", "non_admission_audit"}
                          THEN job[j].closes = 0 /\ job[j].refund = 0 /\ job[j].billed = 0
                          ELSE job[j].closes = 1 /\ job[j].refund + job[j].billed = Hold
      BY DEF AccountedOnce
    <2>1. RowAccounts(job[j])
      BY DEF JobInv, RowsOK, RowOK
    <2>2. CASE job[j].state = "closed"
      <3>1. AccountingOutcome(job[j]) \in {"conservative_full_charge", "broker_settled"}
        BY <2>2 DEF AccountingOutcome
      <3> QED  BY <2>1, <2>2, <3>1 DEF RowAccounts
    <2>3. CASE job[j].state # "closed"
      <3>1. job[j].outcome = "none"
        BY <2>1, <2>3 DEF RowAccounts
      <3>2. AccountingOutcome(job[j]) \in {"non_admission_audit", "unresolved"}
        BY <2>3, <3>1 DEF AccountingOutcome
      <3> QED  BY <2>1, <2>3, <3>2 DEF RowAccounts
    <2> QED  BY <2>2, <2>3
  <1> QED  BY <1>1, JobInvariant, PTL

(***************************************************************************)
(* What the customer pays is what the broker debited: a job closed as not  *)
(* admitted is never debited, and a settled one is billed its debit,       *)
(* although every answer is applied later than it was given.               *)
(***************************************************************************)
THEOREM ChargesMatchDebits == JobSpec => []ChargeMatchesDebit
  <1>1. JobInv => ChargeMatchesDebit
    BY DEF JobInv, RowsOK, RowOK, RowAgrees, ChargeMatchesDebit
  <1> QED  BY <1>1, JobInvariant, PTL
=============================================================================
