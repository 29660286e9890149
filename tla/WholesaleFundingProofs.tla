----------------------- MODULE WholesaleFundingProofs -----------------------
(***************************************************************************)
(* Proofs about the funding of wholesale accounts, for any accounts, any   *)
(* workers, any limits and any number of crashes.                          *)
(***************************************************************************)
EXTENDS WholesaleFunding, SumTheorems, TLAPS

(***************************************************************************)
(* The tables are functions on their keys and their rows are records.      *)
(***************************************************************************)
IsFunding(f) ==
    f = [status |-> f.status, account |-> f.account, target |-> f.target, observed |-> f.observed,
         shortfall |-> f.shortfall, credited |-> f.credited, version |-> f.version]
IsWork(k) ==
    k = [account |-> k.account, id |-> k.id, seen |-> k.seen, plan |-> k.plan, receipt |-> k.receipt]
IsBalance(b) ==
    /\ b = [credited |-> b.credited, reserved |-> b.reserved, debited |-> b.debited,
            version |-> b.version]
    /\ b.version \in Nat

Shape ==
    /\ broker = [x \in Accounts |-> broker[x]] /\ \A x \in Accounts : IsBalance(broker[x])
    /\ receipts = [i \in MintIds |-> receipts[i]]
    /\ daemon = [i \in MintIds |-> daemon[i]]
    /\ funding = [i \in MintIds |-> funding[i]] /\ \A i \in MintIds : IsFunding(funding[i])
    /\ pc = [w \in Workers |-> pc[w]]
    /\ work = [w \in Workers |-> work[w]] /\ \A w \in Workers : IsWork(work[w])

\* Where a worker has a committed intent, and where it has its receipt.
Claimed == {"mint", "record", "deposit", "observe", "acknowledge", "budget"}
Deposited == {"observe", "acknowledge", "budget"}

\* An attempt that has begun has a mint id.
AttemptHasId == \A w \in Workers : pc[w] # "idle" => work[w].id \in MintIds

\* A worker goes to the daemon only for an intent that is on record as it
\* plans it, and works on no intent that is not on record.
ClaimOnRecord ==
    \A w \in Workers :
        /\ pc[w] \in Claimed => funding[work[w].id].status # "none"
        /\ pc[w] = "mint" => /\ funding[work[w].id].target = work[w].plan.target
                             /\ funding[work[w].id].observed = work[w].plan.observed

\* The broker credits what the intent says.
ReceiptsMatchIntents ==
    \A i \in MintIds : \A r \in receipts[i] :
        funding[i].status # "none" /\ r.credited = funding[i].shortfall

\* A worker that has deposited holds the receipt the broker keeps.
ReceiptIsKept ==
    \A w \in Workers : pc[w] \in Deposited => work[w].receipt \in receipts[work[w].id]

(***************************************************************************)
(* The inductive invariant: records come before mints, mints before        *)
(* deposits, deposits before acknowledgements, whoever replays which.      *)
(***************************************************************************)
FundingInv ==
    /\ Shape
    /\ AttemptHasId
    /\ ClaimOnRecord
    /\ ReceiptsMatchIntents
    /\ ReceiptIsKept
    /\ MintHasRecord
    /\ AcknowledgedIsCredited

-----------------------------------------------------------------------------
(***************************************************************************)
(* Nothing has been claimed when the server starts.                        *)
(***************************************************************************)
LEMMA FundingInitInv == FundingInit => FundingInv
<1> SUFFICES ASSUME FundingInit PROVE FundingInv
  OBVIOUS
<1>1. broker \in [Accounts -> [credited : Nat, reserved : Nat, debited : Nat, version : {0}]]
  BY FundingAssumption DEF FundingInit
<1>2. \A x \in Accounts : IsBalance(broker[x])
  BY <1>1 DEF IsBalance
<1>3. IsFunding(NoFunding) /\ IsWork(NoWork)
  BY DEF IsFunding, NoFunding, IsWork, NoWork
<1>4. Shape
  BY <1>1, <1>2, <1>3 DEF FundingInit, Shape
<1>5. AttemptHasId /\ ClaimOnRecord /\ ReceiptIsKept
  BY DEF FundingInit, AttemptHasId, ClaimOnRecord, ReceiptIsKept, Claimed, Deposited
<1>6. ReceiptsMatchIntents /\ MintHasRecord /\ AcknowledgedIsCredited
  BY DEF FundingInit, ReceiptsMatchIntents, MintHasRecord, AcknowledgedIsCredited, NoMint, NoFunding
<1> QED
  BY <1>4, <1>5, <1>6 DEF FundingInv

(***************************************************************************)
(* A worker moves and the rows it depends on stay: what it needs where it  *)
(* goes is all there is to show.                                           *)
(***************************************************************************)
LEMMA WorkerMoves ==
    ASSUME FundingInv, NEW w \in Workers, NEW where, NEW job,
           pc' = [pc EXCEPT ![w] = where], work' = [work EXCEPT ![w] = job], IsWork(job),
           where # "idle" => job.id \in MintIds,
           where \in Claimed => funding[job.id].status # "none",
           where = "mint" => /\ funding[job.id].target = job.plan.target
                             /\ funding[job.id].observed = job.plan.observed,
           where \in Deposited => job.receipt \in receipts[job.id],
           UNCHANGED <<broker, receipts, daemon, funding>>
    PROVE  FundingInv'
<1>1. \A v \in Workers : /\ pc'[v] = IF v = w THEN where ELSE pc[v]
                         /\ work'[v] = IF v = w THEN job ELSE work[v]
  BY DEF FundingInv, Shape
<1>2. Shape'
  BY <1>1 DEF FundingInv, Shape
<1>3. AttemptHasId' /\ ClaimOnRecord'
  BY <1>1 DEF FundingInv, AttemptHasId, ClaimOnRecord
<1>4. ReceiptIsKept'
  BY <1>1 DEF FundingInv, ReceiptIsKept
<1>5. ReceiptsMatchIntents' /\ MintHasRecord' /\ AcknowledgedIsCredited'
  BY DEF FundingInv, ReceiptsMatchIntents, MintHasRecord, AcknowledgedIsCredited
<1> QED
  BY <1>2, <1>3, <1>4, <1>5 DEF FundingInv

(***************************************************************************)
(* Nothing of an attempt is left when the worker lets go, in whatever way. *)
(***************************************************************************)
LEMMA AbandonKeeps ==
    ASSUME FundingInv, NEW w \in Workers, pc' = [pc EXCEPT ![w] = "idle"],
           work' = [work EXCEPT ![w] = NoWork], UNCHANGED <<broker, receipts, daemon, funding>>
    PROVE  FundingInv'
<1>1. IsWork(NoWork)
  BY DEF IsWork, NoWork
<1> QED
  BY <1>1, WorkerMoves DEF Claimed, Deposited

(***************************************************************************)
(* A record keeps its fields but the one that is replaced.                 *)
(***************************************************************************)
LEMMA WorkUpdates ==
    ASSUME NEW k, IsWork(k), NEW v
    PROVE  /\ IsWork([k EXCEPT !.account = v])
           /\ IsWork([k EXCEPT !.seen = v])
           /\ IsWork([k EXCEPT !.id = v]) /\ [k EXCEPT !.id = v].id = v
<1>1. IsWork([k EXCEPT !.account = v])
  BY DEF IsWork
<1>2. IsWork([k EXCEPT !.seen = v])
  BY DEF IsWork
<1>3. IsWork([k EXCEPT !.id = v]) /\ [k EXCEPT !.id = v].id = v
  BY DEF IsWork
<1> QED
  BY <1>1, <1>2, <1>3

SameScopeRow(f, g) ==
    /\ IsFunding(g) /\ g.target = f.target /\ g.observed = f.observed /\ g.shortfall = f.shortfall

\* A balance stays one when a field is replaced, the version by a number.
LEMMA BalanceUpdates ==
    ASSUME NEW b, IsBalance(b), NEW v, NEW n \in Nat
    PROVE  /\ IsBalance([b EXCEPT !.credited = v]) /\ [b EXCEPT !.credited = v].version = b.version
           /\ IsBalance([b EXCEPT !.reserved = v]) /\ [b EXCEPT !.reserved = v].version = b.version
           /\ IsBalance([b EXCEPT !.debited = v]) /\ [b EXCEPT !.debited = v].version = b.version
           /\ IsBalance([b EXCEPT !.version = n])
<1>1. IsBalance([b EXCEPT !.credited = v]) /\ [b EXCEPT !.credited = v].version = b.version
  BY DEF IsBalance
<1>2. IsBalance([b EXCEPT !.reserved = v]) /\ [b EXCEPT !.reserved = v].version = b.version
  BY DEF IsBalance
<1>3. IsBalance([b EXCEPT !.debited = v]) /\ [b EXCEPT !.debited = v].version = b.version
  BY DEF IsBalance
<1>4. IsBalance([b EXCEPT !.version = n])
  BY DEF IsBalance
<1> QED
  BY <1>1, <1>2, <1>3, <1>4

(***************************************************************************)
(* The account is observed: the attempt gets its mint id.                  *)
(***************************************************************************)
LEMMA ObserveKeeps ==
    ASSUME FundingInv, NEW w \in Workers, NEW x \in Accounts, Observe(w, x)
    PROVE  FundingInv'
<1> DEFINE job == [NoWork EXCEPT !.account = x, !.seen = broker[x], !.id = IdFor(w, x, broker[x])]
<1>1. IdFor(w, x, broker[x]) \in MintIds
  <2>1. broker[x].version \in 0 .. MaxVersion
    BY FundingAssumption DEF Observe, FundingInv, Shape, IsBalance
  <2> QED
    BY <2>1, FundingAssumption DEF IdFor, MintIds
<1>2. IsWork(job) /\ job.id = IdFor(w, x, broker[x])
  <2> DEFINE k1 == [NoWork EXCEPT !.account = x]
             k2 == [k1 EXCEPT !.seen = broker[x]]
             k3 == [k2 EXCEPT !.id = IdFor(w, x, broker[x])]
  <2>1. job = k3
    OBVIOUS
  <2>2. IsWork(NoWork)
    BY DEF IsWork, NoWork
  <2> HIDE DEF job
  <2>3. IsWork(k1)
    BY <2>2, WorkUpdates
  <2> HIDE DEF k1
  <2>4. IsWork(k2)
    BY <2>3, WorkUpdates
  <2> HIDE DEF k2
  <2> QED
    BY <2>1, <2>4, WorkUpdates
<1>3. /\ pc' = [pc EXCEPT ![w] = "plan"] /\ work' = [work EXCEPT ![w] = job]
      /\ UNCHANGED <<broker, receipts, daemon, funding>>
  BY DEF Observe, Goto, remoteVars, rowVars
<1> HIDE DEF job
<1> QED
  BY <1>1, <1>2, <1>3, WorkerMoves DEF Claimed, Deposited

(***************************************************************************)
(* A step of a worker that replaces none of the rows.                      *)
(***************************************************************************)
LEMMA PlainStepKeeps ==
    ASSUME FundingInv, NEW w \in Workers,
           Plan(w) \/ ClaimReplay(w) \/ ClaimLockBudget(w) \/ ObserveAfter(w) \/ AckLockRow(w)
    PROVE  FundingInv'
<1>1. /\ pc[w] # "idle" => work[w].id \in MintIds
      /\ pc[w] \in Claimed => funding[work[w].id].status # "none"
      /\ pc[w] \in Deposited => work[w].receipt \in receipts[work[w].id]
      /\ IsWork(work[w]) /\ work = [work EXCEPT ![w] = work[w]]
  BY DEF FundingInv, AttemptHasId, ClaimOnRecord, ReceiptIsKept, Shape
<1>2. CASE Plan(w)
  <2> DEFINE job == [work[w] EXCEPT !.plan = PlanFor(w, work[w].account, work[w].seen)]
  <2>1. IsWork(job) /\ job.id = work[w].id
    BY <1>1 DEF IsWork
  <2>2. /\ pc[w] = "plan" /\ pc' = [pc EXCEPT ![w] = "lookup"] /\ work' = [work EXCEPT ![w] = job]
        /\ UNCHANGED <<broker, receipts, daemon, funding>>
    BY <1>2 DEF Plan, Goto, remoteVars, rowVars
  <2> HIDE DEF job
  <2> QED
    BY <1>1, <2>1, <2>2, WorkerMoves DEF Claimed, Deposited
<1>3. CASE ClaimReplay(w)
  <2>1. PICK where \in {"verify", "mint", "deposit"} :
          /\ pc' = [pc EXCEPT ![w] = where]
          /\ where = "mint" => funding[work[w].id].status = "claimed"
    BY <1>3 DEF ClaimReplay, Goto
  <2>2. /\ pc[w] = "lookup" /\ funding[work[w].id].status # "none" /\ SameScope(w) /\ work' = work
        /\ UNCHANGED <<broker, receipts, daemon, funding>>
    BY <1>3 DEF ClaimReplay, remoteVars, rowVars
  <2>3. where = "mint" => /\ funding[work[w].id].target = work[w].plan.target
                          /\ funding[work[w].id].observed = work[w].plan.observed
    BY <2>1, <2>2 DEF SameScope
  <2> QED
    BY <1>1, <2>1, <2>2, <2>3, WorkerMoves DEF Deposited
<1>4. CASE ClaimLockBudget(w)
  <2>1. /\ pc[w] = "lookup" /\ pc' = [pc EXCEPT ![w] = "claim"] /\ work' = work
        /\ UNCHANGED <<broker, receipts, daemon, funding>>
    BY <1>4 DEF ClaimLockBudget, Goto, remoteVars, rowVars
  <2> QED
    BY <1>1, <2>1, WorkerMoves DEF Claimed, Deposited
<1>5. CASE ObserveAfter(w)
  <2> DEFINE job == [work[w] EXCEPT !.seen = broker[work[w].account]]
  <2>1. IsWork(job) /\ job.id = work[w].id /\ job.receipt = work[w].receipt
    BY <1>1 DEF IsWork
  <2>2. /\ pc[w] = "observe" /\ pc' = [pc EXCEPT ![w] = "acknowledge"]
        /\ work' = [work EXCEPT ![w] = job]
        /\ UNCHANGED <<broker, receipts, daemon, funding>>
    BY <1>5 DEF ObserveAfter, Goto, remoteVars, rowVars
  <2> HIDE DEF job
  <2> QED
    BY <1>1, <2>1, <2>2, WorkerMoves DEF Claimed, Deposited
<1>6. CASE AckLockRow(w)
  <2>1. /\ pc[w] = "acknowledge" /\ pc' = [pc EXCEPT ![w] = "budget"] /\ work' = work
        /\ UNCHANGED <<broker, receipts, daemon, funding>>
    BY <1>6 DEF AckLockRow, Goto, remoteVars, rowVars
  <2> QED
    BY <1>1, <2>1, WorkerMoves DEF Claimed, Deposited
<1> QED
  BY <1>2, <1>3, <1>4, <1>5, <1>6

(***************************************************************************)
(* The claim commits: the record is there before the worker goes to the    *)
(* daemon, and nobody has worked on the intent before.                     *)
(***************************************************************************)
LEMMA ClaimKeeps ==
    ASSUME FundingInv, NEW w \in Workers, ClaimCommit(w)
    PROVE  FundingInv'
<1> DEFINE i == work[w].id
<1>1. /\ pc[w] = "claim" /\ funding[i].status = "none" /\ work' = work
      /\ UNCHANGED <<broker, receipts, daemon>>
  BY DEF ClaimCommit, remoteVars
<1>2. i \in MintIds /\ IsWork(work[w]) /\ work = [work EXCEPT ![w] = work[w]]
  BY <1>1 DEF FundingInv, AttemptHasId, Shape
<1>3. CASE work[w].plan.shortfall = 0
  <2>1. pc' = [pc EXCEPT ![w] = "verify"] /\ funding' = funding
    BY <1>3 DEF ClaimCommit, Goto
  <2> QED
    BY <1>1, <1>2, <2>1, WorkerMoves DEF Claimed, Deposited
<1>4. CASE work[w].plan.shortfall # 0
  <2> DEFINE row == RowOfClaim(w)
  <2>1. pc' = [pc EXCEPT ![w] = "mint"] /\ funding' = [funding EXCEPT ![i] = row]
    BY <1>4 DEF ClaimCommit, Goto
  <2>2. /\ IsFunding(row) /\ row.status = "claimed" /\ row.target = work[w].plan.target
        /\ row.observed = work[w].plan.observed
    <3> DEFINE f1 == [NoFunding EXCEPT !.status = "claimed"]
               f2 == [f1 EXCEPT !.account = work[w].account]
               f3 == [f2 EXCEPT !.target = work[w].plan.target]
               f4 == [f3 EXCEPT !.observed = work[w].plan.observed]
               f5 == [f4 EXCEPT !.shortfall = work[w].plan.shortfall]
    <3>1. row = f5
      BY DEF RowOfClaim
    <3> HIDE DEF row
    <3>3. IsFunding(f1) /\ f1.status = "claimed"
      BY DEF NoFunding, IsFunding
    <3> HIDE DEF f1
    <3>4. IsFunding(f2) /\ f2.status = "claimed"
      BY <3>3 DEF IsFunding
    <3> HIDE DEF f2
    <3>5. IsFunding(f3) /\ f3.status = "claimed" /\ f3.target = work[w].plan.target
      BY <3>4 DEF IsFunding
    <3> HIDE DEF f3
    <3>6. /\ IsFunding(f4) /\ f4.status = "claimed" /\ f4.target = work[w].plan.target
          /\ f4.observed = work[w].plan.observed
      BY <3>5 DEF IsFunding
    <3> HIDE DEF f4
    <3>7. /\ IsFunding(f5) /\ f5.status = "claimed" /\ f5.target = work[w].plan.target
          /\ f5.observed = work[w].plan.observed
      BY <3>6 DEF IsFunding
    <3> QED
      BY <3>1, <3>7
  <2> HIDE DEF row
  <2>3. \A j \in MintIds : funding'[j] = IF j = i THEN row ELSE funding[j]
    BY <1>2, <2>1 DEF FundingInv, Shape
  <2>4. \A v \in Workers : pc'[v] = IF v = w THEN "mint" ELSE pc[v]
    BY <2>1 DEF FundingInv, Shape
  <2>5. Shape'
    BY <1>1, <2>1, <2>2, <2>3, <2>4 DEF FundingInv, Shape
  <2>6. AttemptHasId'
    BY <1>1, <1>2, <2>4 DEF FundingInv, AttemptHasId
  <2>7. ClaimOnRecord'
    BY <1>1, <1>2, <2>2, <2>3, <2>4 DEF FundingInv, ClaimOnRecord, AttemptHasId, Claimed
  <2>8. ReceiptIsKept'
    BY <1>1, <2>4 DEF FundingInv, ReceiptIsKept, Deposited
  <2>9. receipts[i] = {} /\ daemon[i].state = "none"
    BY <1>1, <1>2 DEF FundingInv, ReceiptsMatchIntents, MintHasRecord
  <2>10. ReceiptsMatchIntents' /\ MintHasRecord' /\ AcknowledgedIsCredited'
    BY <1>1, <2>2, <2>3, <2>9 DEF FundingInv, ReceiptsMatchIntents, MintHasRecord, AcknowledgedIsCredited
  <2> QED
    BY <2>5, <2>6, <2>7, <2>8, <2>10 DEF FundingInv
<1> QED
  BY <1>3, <1>4

(***************************************************************************)
(* The daemon mints, or reserves the id: for the intent on record.         *)
(***************************************************************************)
LEMMA DaemonKeeps ==
    ASSUME FundingInv, NEW w \in Workers, Mint(w) \/ MintOutcomeUnknown(w)
    PROVE  FundingInv'
<1> DEFINE i == work[w].id
<1>1. /\ pc[w] = "mint" /\ UNCHANGED <<broker, receipts, funding>>
  BY DEF Mint, MintOutcomeUnknown, rowVars
<1>2. /\ i \in MintIds /\ funding[i].status # "none" /\ IsWork(work[w])
      /\ funding[i].target = work[w].plan.target /\ funding[i].observed = work[w].plan.observed
      /\ work = [work EXCEPT ![w] = work[w]]
  BY <1>1 DEF FundingInv, AttemptHasId, ClaimOnRecord, Claimed, Shape
<1>3. PICK made : /\ daemon' = [daemon EXCEPT ![i] = made]
                  /\ made.target = work[w].plan.target /\ made.observed = work[w].plan.observed
  <2>1. CASE Mint(w)
    BY <2>1 DEF Mint, Intent
  <2>2. CASE MintOutcomeUnknown(w)
    <3> DEFINE made == [state |-> "reserved", target |-> work[w].plan.target,
                        observed |-> work[w].plan.observed]
    <3>1. [Intent(w) EXCEPT !.state = "reserved"] = made
      BY DEF Intent
    <3>2. daemon' = [daemon EXCEPT ![i] = made]
      BY <2>2, <3>1 DEF MintOutcomeUnknown
    <3>3. made.target = work[w].plan.target /\ made.observed = work[w].plan.observed
      OBVIOUS
    <3> HIDE DEF made
    <3> QED
      BY <3>2, <3>3
  <2> QED
    BY <2>1, <2>2
<1>4. MintHasRecord'
  BY <1>1, <1>2, <1>3 DEF FundingInv, Shape, MintHasRecord
<1>5. PICK where \in {"record", "idle"}, job \in {work[w], NoWork} :
        /\ pc' = [pc EXCEPT ![w] = where] /\ work' = [work EXCEPT ![w] = job]
        /\ where = "record" => job = work[w]
  BY <1>2 DEF Mint, MintOutcomeUnknown, Goto
<1>6. \A v \in Workers : /\ pc'[v] = IF v = w THEN where ELSE pc[v]
                         /\ work'[v] = IF v = w THEN job ELSE work[v]
  BY <1>5 DEF FundingInv, Shape
<1>7. IsWork(NoWork)
  BY DEF IsWork, NoWork
<1>8. Shape'
  BY <1>1, <1>2, <1>3, <1>5, <1>6, <1>7 DEF FundingInv, Shape
<1>9. AttemptHasId' /\ ClaimOnRecord'
  BY <1>1, <1>2, <1>5, <1>6 DEF FundingInv, AttemptHasId, ClaimOnRecord, Claimed
<1>10. ReceiptIsKept' /\ ReceiptsMatchIntents' /\ AcknowledgedIsCredited'
  BY <1>1, <1>5, <1>6 DEF FundingInv, ReceiptIsKept, Deposited, ReceiptsMatchIntents,
                          AcknowledgedIsCredited
<1> QED
  BY <1>4, <1>8, <1>9, <1>10 DEF FundingInv

(***************************************************************************)
(* A funding row on record changes its status and, when it is              *)
(* acknowledged, what was credited; its scope stays.                       *)
(***************************************************************************)
LEMMA RowMoves ==
    ASSUME FundingInv, NEW w \in Workers, NEW where, NEW row,
           pc[w] \in Claimed, pc' = [pc EXCEPT ![w] = where], work' = work,
           where \notin {"idle", "mint"}, where \in Deposited => pc[w] \in Deposited,
           funding' = [funding EXCEPT ![work[w].id] = row],
           SameScopeRow(funding[work[w].id], row), row.status # "none",
           row.status = "acknowledged" =>
              \E r \in receipts[work[w].id] : row.credited = r.credited /\ row.version = r.version,
           UNCHANGED <<broker, receipts, daemon>>
    PROVE  FundingInv'
<1> USE DEF SameScopeRow
<1> DEFINE i == work[w].id
<1>1. i \in MintIds /\ funding[i].status # "none"
  BY DEF FundingInv, AttemptHasId, ClaimOnRecord, Claimed
<1>2. \A j \in MintIds : funding'[j] = IF j = i THEN row ELSE funding[j]
  BY <1>1 DEF FundingInv, Shape
<1>3. \A v \in Workers : pc'[v] = IF v = w THEN where ELSE pc[v]
  BY DEF FundingInv, Shape
<1>4. Shape'
  BY <1>2, <1>3 DEF FundingInv, Shape
<1>5. AttemptHasId' /\ ReceiptIsKept'
  BY <1>1, <1>3 DEF FundingInv, AttemptHasId, ReceiptIsKept
<1>6. ClaimOnRecord'
  BY <1>1, <1>2, <1>3 DEF FundingInv, ClaimOnRecord, AttemptHasId, Claimed
<1>7. ReceiptsMatchIntents' /\ MintHasRecord'
  BY <1>1, <1>2 DEF FundingInv, ReceiptsMatchIntents, MintHasRecord
<1>8. AcknowledgedIsCredited'
  BY <1>1, <1>2 DEF FundingInv, ReceiptsMatchIntents, AcknowledgedIsCredited
<1> QED
  BY <1>4, <1>5, <1>6, <1>7, <1>8 DEF FundingInv

(***************************************************************************)
(* record_minted_funding: a replay may set an acknowledged row back to     *)
(* minted, never to one that is not on record.                             *)
(***************************************************************************)
LEMMA RecordKeeps ==
    ASSUME FundingInv, NEW w \in Workers, RecordMinted(w)
    PROVE  FundingInv'
<1> DEFINE i == work[w].id
           status == IF memory[w].status = "acknowledged" THEN funding[i].status ELSE "minted"
           row == [funding[i] EXCEPT !.status = status]
<1>1. /\ pc[w] = "record" /\ pc' = [pc EXCEPT ![w] = "deposit"] /\ work' = work
      /\ UNCHANGED <<broker, receipts, daemon>>
      /\ funding' = [funding EXCEPT ![i].status =
                       IF memory[w].status = "acknowledged" THEN @ ELSE "minted"]
  BY DEF RecordMinted, Goto, remoteVars
<1>2. i \in MintIds /\ funding[i].status # "none" /\ IsFunding(funding[i])
  BY <1>1 DEF FundingInv, AttemptHasId, ClaimOnRecord, Claimed, Shape
<1>3. funding' = [funding EXCEPT ![i] = row]
  BY <1>1, <1>2 DEF FundingInv, Shape
<1>4. status # "none" /\ (status = "acknowledged" => funding[i].status = "acknowledged")
  BY <1>2
<1> HIDE DEF status
<1>5. /\ SameScopeRow(funding[i], row) /\ row.status = status
      /\ row.credited = funding[i].credited /\ row.version = funding[i].version
  BY <1>2 DEF IsFunding, SameScopeRow
<1> HIDE DEF row
<1>6. row.status = "acknowledged" =>
        \E r \in receipts[i] : row.credited = r.credited /\ row.version = r.version
  BY <1>2, <1>4, <1>5 DEF FundingInv, AcknowledgedIsCredited
<1>7. pc[w] \in Claimed /\ "deposit" \notin {"idle", "mint"} /\ "deposit" \notin Deposited
  BY <1>1 DEF Claimed, Deposited
<1>8. row.status # "none"
  BY <1>4, <1>5
<1> QED
  BY <1>1, <1>3, <1>5, <1>6, <1>7, <1>8, RowMoves

(***************************************************************************)
(* acknowledge_account_funding: the receipt in hand is the broker's.       *)
(***************************************************************************)
LEMMA AckKeeps ==
    ASSUME FundingInv, NEW w \in Workers, AckCommit(w)
    PROVE  FundingInv'
<1> DEFINE i == work[w].id
           row == AckedRow(w)
<1>1. /\ pc[w] = "budget" /\ pc' = [pc EXCEPT ![w] = "verify"] /\ work' = work
      /\ funding' = [funding EXCEPT ![i] = row] /\ UNCHANGED <<broker, receipts, daemon>>
  BY DEF AckCommit, Goto, remoteVars
<1>2. i \in MintIds /\ IsFunding(funding[i]) /\ work[w].receipt \in receipts[i]
  BY <1>1 DEF FundingInv, AttemptHasId, ReceiptIsKept, Deposited, Shape
<1>3. /\ SameScopeRow(funding[i], row) /\ row.status = "acknowledged"
      /\ row.credited = work[w].receipt.credited /\ row.version = work[w].receipt.version
  <2> DEFINE f1 == [funding[i] EXCEPT !.status = "acknowledged"]
             f2 == [f1 EXCEPT !.credited = work[w].receipt.credited]
             f3 == [f2 EXCEPT !.version = work[w].receipt.version]
  <2>1. row = f3
    BY DEF AckedRow
  <2> HIDE DEF row
  <2>2. SameScopeRow(funding[i], f1) /\ f1.status = "acknowledged"
    BY <1>2 DEF IsFunding, SameScopeRow
  <2> HIDE DEF f1
  <2>3. SameScopeRow(f1, f2) /\ f2.status = f1.status /\ f2.credited = work[w].receipt.credited
    BY <2>2 DEF IsFunding, SameScopeRow
  <2> HIDE DEF f2
  <2>4. /\ SameScopeRow(f2, f3) /\ f3.status = f2.status /\ f3.credited = f2.credited
        /\ f3.version = work[w].receipt.version
    BY <2>3 DEF IsFunding, SameScopeRow
  <2> HIDE DEF f3
  <2> QED
    BY <2>1, <2>2, <2>3, <2>4 DEF SameScopeRow
<1> HIDE DEF row
<1>4. pc[w] \in Claimed /\ "verify" \notin {"idle", "mint"} /\ "verify" \notin Deposited
  BY <1>1 DEF Claimed, Deposited
<1>5. \E r \in receipts[i] : row.credited = r.credited /\ row.version = r.version
  BY <1>2, <1>3
<1>6. row.status # "none"
  BY <1>3
<1> QED
  BY <1>1, <1>3, <1>4, <1>5, <1>6, RowMoves

(***************************************************************************)
(* The broker credits a payment once, with what the intent says, and the   *)
(* worker takes the receipt.                                               *)
(***************************************************************************)
LEMMA DepositKeeps ==
    ASSUME FundingInv, NEW w \in Workers, Deposit(w)
    PROVE  FundingInv'
<1> DEFINE x == work[w].account
           i == work[w].id
           after == [broker[x] EXCEPT !.credited = @ + funding[i].shortfall, !.version = @ + 1]
           receipt == [version |-> after.version, available |-> Available(after),
                       credited |-> funding[i].shortfall]
           kept == IF receipts[i] = {} THEN receipt ELSE CHOOSE r \in receipts[i] : TRUE
           job == [work[w] EXCEPT !.receipt = kept]
<1>1. /\ pc[w] = "deposit" /\ pc' = [pc EXCEPT ![w] = "observe"]
      /\ work' = [work EXCEPT ![w].receipt = kept] /\ UNCHANGED <<daemon, funding>>
  BY DEF Deposit, Goto, rowVars
<1>2. /\ IF receipts[i] = {} THEN /\ broker' = [broker EXCEPT ![x] = after]
                                  /\ receipts' = [receipts EXCEPT ![i] = {receipt}]
         ELSE broker' = broker /\ receipts' = receipts
  BY DEF Deposit
<1>3. i \in MintIds /\ funding[i].status # "none" /\ IsWork(work[w])
  BY <1>1 DEF FundingInv, AttemptHasId, ClaimOnRecord, Claimed, Shape
<1>4. x \in Accounts => IsBalance(after)
  <2> SUFFICES ASSUME x \in Accounts PROVE IsBalance(after)
    OBVIOUS
  <2> DEFINE b == broker[x]
             b1 == [b EXCEPT !.credited = b.credited + funding[i].shortfall]
             n == b1.version + 1
  <2>1. IsBalance(b)
    BY DEF FundingInv, Shape
  <2>2. after = [b1 EXCEPT !.version = n]
    OBVIOUS
  <2>3. IsBalance(b1)
    BY <2>1, BalanceUpdates
  <2> HIDE DEF b1, after
  <2>4. n \in Nat
    BY <2>3 DEF IsBalance
  <2> HIDE DEF n
  <2> QED
    BY <2>2, <2>3, <2>4, BalanceUpdates
<1>5. receipt.credited = funding[i].shortfall
  OBVIOUS
<1> HIDE DEF after, receipt
<1>6. \A j \in MintIds : /\ receipts[j] # {} => receipts'[j] = receipts[j]
                         /\ receipts[j] = {} => receipts'[j] = {} \/ (j = i /\ receipts'[j] = {receipt})
  BY <1>2, <1>3 DEF FundingInv, Shape
<1>7. kept \in receipts'[i]
  BY <1>2, <1>3 DEF FundingInv, Shape
<1> HIDE DEF kept
<1>8. IsWork(job) /\ job.id = i /\ job.plan = work[w].plan /\ job.receipt = kept
  BY <1>3 DEF IsWork
<1>9. work' = [work EXCEPT ![w] = job]
  BY <1>1 DEF FundingInv, Shape
<1> HIDE DEF job
<1>10. \A v \in Workers : /\ pc'[v] = IF v = w THEN "observe" ELSE pc[v]
                          /\ work'[v] = IF v = w THEN job ELSE work[v]
  BY <1>1, <1>9 DEF FundingInv, Shape
<1>11. Shape'
  <2>1. broker' = [y \in Accounts |-> broker'[y]] /\ \A y \in Accounts : IsBalance(broker'[y])
    BY <1>2, <1>4 DEF FundingInv, Shape
  <2>2. receipts' = [j \in MintIds |-> receipts'[j]]
    BY <1>2 DEF FundingInv, Shape
  <2> QED
    BY <1>1, <1>8, <1>9, <1>10, <2>1, <2>2 DEF FundingInv, Shape
<1>12. AttemptHasId' /\ ClaimOnRecord'
  BY <1>1, <1>3, <1>8, <1>10 DEF FundingInv, AttemptHasId, ClaimOnRecord
<1>13. ReceiptIsKept'
  <2> SUFFICES ASSUME NEW v \in Workers, pc'[v] \in Deposited
               PROVE  work'[v].receipt \in receipts'[work'[v].id]
    BY DEF ReceiptIsKept
  <2>1. CASE v = w
    BY <1>7, <1>8, <1>10, <2>1
  <2>2. CASE v # w
    <3>1. work[v].receipt \in receipts[work[v].id] /\ work[v].id \in MintIds
      BY <1>10, <2>2 DEF FundingInv, ReceiptIsKept, AttemptHasId, Deposited
    <3> QED
      BY <1>6, <1>10, <2>2, <3>1
  <2> QED
    BY <2>1, <2>2
<1>14. ReceiptsMatchIntents' /\ AcknowledgedIsCredited' /\ MintHasRecord'
  BY <1>1, <1>3, <1>5, <1>6 DEF FundingInv, ReceiptsMatchIntents, AcknowledgedIsCredited, MintHasRecord
<1> QED
  BY <1>11, <1>12, <1>13, <1>14 DEF FundingInv

(***************************************************************************)
(* The broker's own work changes no more than its balances.                *)
(***************************************************************************)
LEMMA BrokerKeeps ==
    ASSUME FundingInv, NEW x \in Accounts, BrokerReserve(x) \/ BrokerDebit(x) \/ BrokerRelease(x)
    PROVE  FundingInv'
<1>1. UNCHANGED <<receipts, daemon, funding, pc, work>>
  BY DEF BrokerReserve, BrokerDebit, BrokerRelease, rowVars, workerVars
<1>2. IsBalance(broker[x]) /\ broker = [y \in Accounts |-> broker[y]] /\ broker[x].version + 1 \in Nat
  BY DEF FundingInv, Shape, IsBalance
<1>3. PICK b : IsBalance(b) /\ broker' = [broker EXCEPT ![x] = b]
  <2> DEFINE b == broker[x]
             n == b.version + 1
  <2>1. ASSUME NEW v PROVE /\ IsBalance([[b EXCEPT !.reserved = v] EXCEPT !.version = n])
                           /\ [b EXCEPT !.reserved = v].version = b.version
    BY <1>2, BalanceUpdates
  <2>2. ASSUME NEW u, NEW v
        PROVE  /\ IsBalance([[[b EXCEPT !.reserved = u] EXCEPT !.debited = v] EXCEPT !.version = n])
               /\ [[b EXCEPT !.reserved = u] EXCEPT !.debited = v].version = b.version
    <3> DEFINE b1 == [b EXCEPT !.reserved = u]
    <3>1. IsBalance(b1) /\ b1.version = b.version
      BY <1>2, BalanceUpdates
    <3> HIDE DEF b1
    <3>2. IsBalance([b1 EXCEPT !.debited = v]) /\ [b1 EXCEPT !.debited = v].version = b.version
      BY <3>1, <1>2, BalanceUpdates
    <3>3. IsBalance([[b1 EXCEPT !.debited = v] EXCEPT !.version = n])
      BY <3>2, <1>2, BalanceUpdates
    <3> QED
      BY <3>2, <3>3 DEF b1
  <2>3. CASE BrokerReserve(x)
    BY <1>2, <2>1, <2>3 DEF BrokerReserve
  <2>4. CASE BrokerDebit(x)
    BY <1>2, <2>2, <2>4 DEF BrokerDebit
  <2>5. CASE BrokerRelease(x)
    BY <1>2, <2>1, <2>5 DEF BrokerRelease
  <2> QED
    BY <2>3, <2>4, <2>5
<1>4. Shape'
  BY <1>1, <1>2, <1>3 DEF FundingInv, Shape
<1> QED
  BY <1>1, <1>4 DEF FundingInv, AttemptHasId, ClaimOnRecord, ReceiptsMatchIntents, ReceiptIsKept,
                    MintHasRecord, AcknowledgedIsCredited

(***************************************************************************)
(* Every step of the system keeps the invariant.                           *)
(***************************************************************************)
LEMMA FundingStepInv == FundingInv /\ [FundingNext]_fundingVars => FundingInv'
<1> SUFFICES ASSUME FundingInv, [FundingNext]_fundingVars PROVE FundingInv'
  OBVIOUS
<1>1. CASE UNCHANGED fundingVars
  BY <1>1 DEF fundingVars, remoteVars, rowVars, workerVars, FundingInv, Shape, AttemptHasId, ClaimOnRecord,
              ReceiptsMatchIntents, ReceiptIsKept, MintHasRecord, AcknowledgedIsCredited
<1>2. ASSUME NEW w \in Workers,
             ClaimRefused(w) \/ Verify(w) \/ PolicyError(w) \/ DeadlockAbort(w) \/ Fail(w)
      PROVE  FundingInv'
  BY <1>2, AbandonKeeps
  DEF ClaimRefused, Verify, PolicyError, DeadlockAbort, Fail, Abandon, Goto, remoteVars, rowVars
<1>3. ASSUME NEW w \in Workers, Step(w) PROVE FundingInv'
  BY <1>2, <1>3, PlainStepKeeps, ClaimKeeps, DaemonKeeps, RecordKeeps, DepositKeeps, AckKeeps DEF Step
<1> QED
  BY <1>1, <1>2, <1>3, ObserveKeeps, BrokerKeeps DEF FundingNext

(***************************************************************************)
(* The inductive invariant holds in every behaviour.                       *)
(***************************************************************************)
THEOREM FundingInvariant == FundingSpec => []FundingInv
  BY FundingInitInv, FundingStepInv, PTL DEF FundingSpec

(***************************************************************************)
(* claim_account_funding commits the intent before complete_account_funding*)
(* asks for a mint: what the daemon did is on record, whoever crashed.     *)
(***************************************************************************)
THEOREM MintsAreOnRecord == FundingSpec => []MintHasRecord
<1>1. FundingInv => MintHasRecord
  BY DEF FundingInv
<1> QED
  BY <1>1, FundingInvariant, PTL

(***************************************************************************)
(* acknowledge_account_funding acknowledges only what the broker credited. *)
(***************************************************************************)
THEOREM AcknowledgedWasCredited == FundingSpec => []AcknowledgedIsCredited
<1>1. FundingInv => AcknowledgedIsCredited
  BY DEF FundingInv
<1> QED
  BY <1>1, FundingInvariant, PTL

-----------------------------------------------------------------------------
(* The operator's limits. *)

\* The amounts of a balance are numbers.
WholeBalance(b) == b.credited \in Int /\ b.reserved \in Int /\ b.debited \in Int

\* A plan that was accepted asks for no negative amount and is within the limits.
PlanWithin(plan) == plan.shortfall \in Nat /\ WithinLimits(plan)

(***************************************************************************)
(* What a claim relies on besides FundingInv: amounts are numbers, an      *)
(* attempt is at an account, an intent that is not on record has none, and *)
(* a plan that waits for its claim was within the limits when it was made. *)
(***************************************************************************)
LimitsInv ==
    /\ \A x \in Accounts : WholeBalance(broker[x])
    /\ account = [x \in Accounts |-> account[x]]
    /\ \A x \in Accounts : account[x].available \in Int
    /\ \A i \in MintIds : /\ funding[i].shortfall \in Int
                          /\ funding[i].status = "none" => funding[i].account = NoOne
    /\ \A w \in Workers : pc[w] # "idle" => work[w].account \in Accounts /\ WholeBalance(work[w].seen)
    /\ \A w \in Workers : pc[w] \in {"lookup", "claim"} => PlanWithin(work[w].plan)

(***************************************************************************)
(* The larger of two numbers is one of them and at least each.             *)
(***************************************************************************)
LEMMA MaxOfTwo ==
    ASSUME NEW m \in Nat, NEW n \in Nat
    PROVE  Max({m, n}) \in {m, n} /\ Max({m, n}) >= m /\ Max({m, n}) >= n
<1>1. \E k \in {m, n} : \A j \in {m, n} : k >= j
  OBVIOUS
<1> QED
  BY <1>1 DEF Max

(***************************************************************************)
(* plan_account_shortfall never asks for a negative amount: the floor that *)
(* triggers it is not above the target.                                    *)
(***************************************************************************)
LEMMA ShortfallIsNatural ==
    ASSUME NEW w \in Workers, NEW x, NEW b, WholeBalance(b)
    PROVE  PlanFor(w, x, b).shortfall \in Nat
<1>1. /\ Required[w] \in Nat /\ Target \in Nat /\ ReplenishBelow \in Nat /\ ReplenishBelow <= Target
  BY FundingAssumption
<1> DEFINE t == Max({Target, Required[w]})
           l == Max({ReplenishBelow, Required[w]})
           short == IF Available(b) < l THEN t - Available(b) ELSE 0
<1>2. t \in Nat /\ l \in Nat /\ l <= t
  <2>1. t \in {Target, Required[w]} /\ t >= Target /\ t >= Required[w]
    BY <1>1, MaxOfTwo
  <2>2. l \in {ReplenishBelow, Required[w]}
    BY <1>1, MaxOfTwo
  <2> HIDE DEF t, l
  <2> QED
    BY <1>1, <2>1, <2>2
<1>3. FloorFor(w).target = t /\ FloorFor(w).below = l
  BY DEF FloorFor
<1>4. PlanFor(w, x, b).shortfall = short
  BY <1>3 DEF PlanFor
<1>5. Available(b) \in Int
  BY DEF Available, WholeBalance
<1> HIDE DEF t, l
<1> QED
  BY <1>2, <1>4, <1>5

(***************************************************************************)
(* A step of one worker that leaves balances and rows alone.               *)
(***************************************************************************)
LEMMA LimitsMove ==
    ASSUME FundingInv, LimitsInv, NEW w \in Workers, NEW where, NEW job,
           pc' = [pc EXCEPT ![w] = where], work' = [work EXCEPT ![w] = job],
           where # "idle" => job.account \in Accounts /\ WholeBalance(job.seen),
           where \in {"lookup", "claim"} => PlanWithin(job.plan),
           UNCHANGED <<broker, account, funding>>
    PROVE  LimitsInv'
<1>1. \A v \in Workers : /\ pc'[v] = IF v = w THEN where ELSE pc[v]
                         /\ work'[v] = IF v = w THEN job ELSE work[v]
  BY DEF FundingInv, Shape
<1> QED
  BY <1>1 DEF LimitsInv

(***************************************************************************)
(* A worker that has the same work as before and goes on.                  *)
(***************************************************************************)
LEMMA LimitsGoOn ==
    ASSUME FundingInv, LimitsInv, NEW w \in Workers, NEW where, pc[w] # "idle",
           where \in {"lookup", "claim"} => pc[w] = "lookup",
           pc' = [pc EXCEPT ![w] = where], work' = work,
           \A x \in Accounts : WholeBalance(broker'[x]),
           account' = [x \in Accounts |-> account'[x]],
           \A x \in Accounts : account'[x].available \in Int,
           \A i \in MintIds : /\ funding'[i].shortfall \in Int
                              /\ funding'[i].status = "none" => funding'[i].account = NoOne
    PROVE  LimitsInv'
<1>1. \A v \in Workers : pc'[v] = IF v = w THEN where ELSE pc[v]
  BY DEF FundingInv, Shape
<1>2. \A v \in Workers : pc'[v] # "idle" => work'[v].account \in Accounts /\ WholeBalance(work'[v].seen)
  BY <1>1 DEF LimitsInv
<1>3. \A v \in Workers : pc'[v] \in {"lookup", "claim"} => PlanWithin(work'[v].plan)
  BY <1>1 DEF LimitsInv
<1> QED
  BY <1>2, <1>3 DEF LimitsInv

(***************************************************************************)
(* The accounts are numbers when the server starts, and nobody works.      *)
(***************************************************************************)
LEMMA LimitsInit == FundingInit => LimitsInv
<1> SUFFICES ASSUME FundingInit PROVE LimitsInv
  OBVIOUS
<1>1. broker \in [Accounts -> [credited : Nat, reserved : Nat, debited : Nat, version : {0}]]
  BY FundingAssumption DEF FundingInit
<1>2. \A x \in Accounts : WholeBalance(broker[x]) /\ Available(broker[x]) \in Int
  BY <1>1 DEF WholeBalance, Available
<1>3. \A x \in Accounts : account[x].available = Available(broker[x])
  BY DEF FundingInit
<1>4. account = [x \in Accounts |-> account[x]]
  BY DEF FundingInit
<1> QED
  BY <1>2, <1>3, <1>4 DEF FundingInit, LimitsInv, NoFunding

(***************************************************************************)
(* A worker observes, plans, or goes on without writing a row.             *)
(***************************************************************************)
LEMMA LimitsPlain ==
    ASSUME FundingInv, LimitsInv, NEW w \in Workers,
           \/ \E x \in Accounts : Observe(w, x)
           \/ Plan(w) \/ ClaimReplay(w) \/ ClaimLockBudget(w) \/ Mint(w) \/ ObserveAfter(w)
           \/ AckLockRow(w)
    PROVE  LimitsInv'
<1>1. /\ pc[w] # "idle" => work[w].account \in Accounts /\ WholeBalance(work[w].seen)
      /\ IsWork(work[w])
      /\ \A x \in Accounts : WholeBalance(broker[x])
  BY DEF LimitsInv, FundingInv, Shape
<1>2. ASSUME NEW x \in Accounts, Observe(w, x) PROVE LimitsInv'
  <2> DEFINE k1 == [NoWork EXCEPT !.account = x]
             k2 == [k1 EXCEPT !.seen = broker[x]]
             k3 == [k2 EXCEPT !.id = IdFor(w, x, broker[x])]
  <2>1. /\ pc' = [pc EXCEPT ![w] = "plan"] /\ work' = [work EXCEPT ![w] = k3]
        /\ UNCHANGED <<broker, account, funding>>
    BY <1>2 DEF Observe, Goto, remoteVars, rowVars
  <2>2. IsWork(k1) /\ k1.account = x
    BY DEF IsWork, NoWork
  <2> HIDE DEF k1
  <2>3. IsWork(k2) /\ k2.account = x /\ k2.seen = broker[x]
    BY <2>2 DEF IsWork
  <2> HIDE DEF k2
  <2>4. k3.account = x /\ k3.seen = broker[x]
    BY <2>3 DEF IsWork
  <2> HIDE DEF k3
  <2> QED
    BY <1>1, <2>1, <2>4, LimitsMove
<1>3. CASE Plan(w)
  <2> DEFINE plan == PlanFor(w, work[w].account, work[w].seen)
             job == [work[w] EXCEPT !.plan = plan]
  <2>1. /\ pc[w] = "plan" /\ pc' = [pc EXCEPT ![w] = "lookup"] /\ work' = [work EXCEPT ![w] = job]
        /\ WithinLimits(plan) /\ UNCHANGED <<broker, account, funding>>
    BY <1>3 DEF Plan, Goto, remoteVars, rowVars
  <2>2. plan.shortfall \in Nat
    BY <1>1, <2>1, ShortfallIsNatural
  <2> HIDE DEF plan
  <2>3. job.account = work[w].account /\ job.seen = work[w].seen /\ job.plan = plan
    BY <1>1 DEF IsWork
  <2> HIDE DEF job
  <2> QED
    BY <1>1, <2>1, <2>2, <2>3, LimitsMove DEF PlanWithin
<1>4. CASE ObserveAfter(w)
  <2> DEFINE job == [work[w] EXCEPT !.seen = broker[work[w].account]]
  <2>1. /\ pc[w] = "observe" /\ pc' = [pc EXCEPT ![w] = "acknowledge"]
        /\ work' = [work EXCEPT ![w] = job] /\ UNCHANGED <<broker, account, funding>>
    BY <1>4 DEF ObserveAfter, Goto, remoteVars, rowVars
  <2>2. job.account = work[w].account /\ job.seen = broker[work[w].account]
    BY <1>1 DEF IsWork
  <2> HIDE DEF job
  <2> QED
    BY <1>1, <2>1, <2>2, LimitsMove
<1>5. CASE ClaimReplay(w) \/ ClaimLockBudget(w) \/ Mint(w) \/ AckLockRow(w)
  <2>1. PICK where : /\ pc' = [pc EXCEPT ![w] = where]
                     /\ where \in {"lookup", "claim"} => pc[w] = "lookup"
    BY <1>5 DEF ClaimReplay, ClaimLockBudget, Mint, AckLockRow, Goto
  <2>2. pc[w] # "idle" /\ UNCHANGED <<broker, account, funding, work>>
    BY <1>5 DEF ClaimReplay, ClaimLockBudget, Mint, AckLockRow, remoteVars, rowVars
  <2> QED
    BY <2>1, <2>2, LimitsGoOn DEF LimitsInv
<1> QED
  BY <1>2, <1>3, <1>4, <1>5

(***************************************************************************)
(* The attempt ends.                                                       *)
(***************************************************************************)
LEMMA LimitsEnd ==
    ASSUME FundingInv, LimitsInv, NEW w \in Workers,
           \/ ClaimRefused(w) \/ MintOutcomeUnknown(w) \/ Verify(w) \/ PolicyError(w)
           \/ DeadlockAbort(w) \/ Fail(w)
    PROVE  LimitsInv'
<1>1. /\ pc' = [pc EXCEPT ![w] = "idle"] /\ work' = [work EXCEPT ![w] = NoWork]
      /\ UNCHANGED <<broker, account, funding>>
  BY DEF ClaimRefused, MintOutcomeUnknown, Verify, PolicyError, DeadlockAbort, Fail, Abandon, Goto,
         remoteVars, rowVars
<1> QED
  BY <1>1, LimitsMove

\* What a committed intent says.
LEMMA ClaimedRow ==
    ASSUME NEW w
    PROVE  /\ RowOfClaim(w).status = "claimed"
           /\ RowOfClaim(w).account = work[w].account
           /\ RowOfClaim(w).shortfall = work[w].plan.shortfall
  BY DEF RowOfClaim, NoFunding

(***************************************************************************)
(* A claim stores the observation and the intent it planned.               *)
(***************************************************************************)
LEMMA LimitsClaim ==
    ASSUME FundingInv, LimitsInv, NEW w \in Workers, ClaimCommit(w)
    PROVE  LimitsInv'
<1> DEFINE x == work[w].account
           i == work[w].id
           b == work[w].seen
           row == [known |-> TRUE, credited |-> b.credited, available |-> Available(b),
                   version |-> b.version]
<1>1. /\ pc[w] = "claim" /\ account' = [account EXCEPT ![x] = row] /\ work' = work
      /\ broker' = broker
  BY DEF ClaimCommit, remoteVars
<1>2. /\ x \in Accounts /\ WholeBalance(b) /\ PlanWithin(work[w].plan) /\ i \in MintIds
  BY <1>1 DEF LimitsInv, FundingInv, AttemptHasId
<1>3. row.available \in Int
  BY <1>2 DEF Available, WholeBalance
<1>4. \A y \in Accounts : account'[y] = IF y = x THEN row ELSE account[y]
  BY <1>1 DEF LimitsInv
<1>5. account' = [y \in Accounts |-> account'[y]]
  BY <1>1 DEF LimitsInv
<1>6. PICK where \in {"verify", "mint"} : pc' = [pc EXCEPT ![w] = where]
  BY DEF ClaimCommit, Goto
<1>7. \A j \in MintIds : funding'[j] = funding[j] \/ (j = i /\ funding'[j] = RowOfClaim(w))
  BY <1>2 DEF ClaimCommit, FundingInv, Shape
<1>8. \A j \in MintIds : /\ funding'[j].shortfall \in Int
                         /\ funding'[j].status = "none" => funding'[j].account = NoOne
  BY <1>2, <1>7, ClaimedRow DEF LimitsInv, PlanWithin
<1> HIDE DEF row
<1>9. \A y \in Accounts : account'[y].available \in Int
  BY <1>3, <1>4 DEF LimitsInv
<1> QED
  BY <1>1, <1>5, <1>6, <1>8, <1>9, LimitsGoOn DEF LimitsInv

(***************************************************************************)
(* record_minted_funding and acknowledge_account_funding keep the amount   *)
(* of the intent; the account row takes amounts the broker showed.         *)
(***************************************************************************)
LEMMA LimitsRecord ==
    ASSUME FundingInv, LimitsInv, NEW w \in Workers, RecordMinted(w) \/ AckCommit(w)
    PROVE  LimitsInv'
<1> DEFINE x == work[w].account
           i == work[w].id
           b == work[w].seen
           value == [known |-> TRUE, credited |-> b.credited, available |-> Available(b),
                     version |-> b.version]
<1>1. /\ pc[w] \in Claimed /\ pc[w] # "idle" /\ work' = work /\ broker' = broker
  BY DEF RecordMinted, AckCommit, remoteVars, Claimed
<1>2. /\ x \in Accounts /\ WholeBalance(b) /\ i \in MintIds /\ IsFunding(funding[i])
      /\ funding[i].status # "none"
  BY <1>1 DEF LimitsInv, FundingInv, AttemptHasId, ClaimOnRecord, Shape
<1>3. PICK where \in {"deposit", "verify"} : pc' = [pc EXCEPT ![w] = where]
  BY DEF RecordMinted, AckCommit, Goto
<1>4. \A j \in MintIds : j # i => funding'[j] = funding[j]
  BY <1>2 DEF RecordMinted, AckCommit, FundingInv, Shape
<1>5. funding'[i].shortfall = funding[i].shortfall /\ funding'[i].status # "none"
  <2>1. CASE RecordMinted(w)
    <3> DEFINE status == IF memory[w].status = "acknowledged" THEN funding[i].status ELSE "minted"
    <3>1. funding'[i] = [funding[i] EXCEPT !.status = status]
      BY <1>2, <2>1 DEF RecordMinted, FundingInv, Shape
    <3>2. status # "none"
      BY <1>2
    <3> HIDE DEF status
    <3> QED
      BY <1>2, <3>1, <3>2 DEF IsFunding
  <2>2. CASE AckCommit(w)
    <3> DEFINE f1 == [funding[i] EXCEPT !.status = "acknowledged"]
               f2 == [f1 EXCEPT !.credited = work[w].receipt.credited]
               f3 == [f2 EXCEPT !.version = work[w].receipt.version]
    <3>1. funding'[i] = f3
      BY <1>2, <2>2 DEF AckCommit, AckedRow, FundingInv, Shape
    <3>2. SameScopeRow(funding[i], f1) /\ f1.status = "acknowledged"
      BY <1>2 DEF IsFunding, SameScopeRow
    <3> HIDE DEF f1
    <3>3. SameScopeRow(f1, f2) /\ f2.status = f1.status
      BY <3>2 DEF IsFunding, SameScopeRow
    <3> HIDE DEF f2
    <3>4. SameScopeRow(f2, f3) /\ f3.status = f2.status
      BY <3>3 DEF IsFunding, SameScopeRow
    <3> HIDE DEF f3
    <3> QED
      BY <3>1, <3>2, <3>3, <3>4 DEF SameScopeRow
  <2> QED
    BY <2>1, <2>2
<1>6. account' = [y \in Accounts |-> account'[y]] /\ \A y \in Accounts : account'[y].available \in Int
  <2>1. CASE RecordMinted(w)
    BY <2>1 DEF RecordMinted, LimitsInv
  <2>2. CASE AckCommit(w)
    <3>1. account' = [account EXCEPT ![x] = Flush(account[x], memory[w].account, value)]
      BY <2>2 DEF AckCommit
    <3>2. value.available \in Int
      BY <1>2 DEF Available, WholeBalance
    <3> HIDE DEF value
    <3>3. Flush(account[x], memory[w].account, value).available \in Int
      BY <1>2, <3>2 DEF Flush, LimitsInv
    <3> QED
      BY <1>2, <3>1, <3>3 DEF LimitsInv
  <2> QED
    BY <2>1, <2>2
<1>7. \A j \in MintIds : /\ funding'[j].shortfall \in Int
                         /\ funding'[j].status = "none" => funding'[j].account = NoOne
  BY <1>2, <1>4, <1>5 DEF LimitsInv
<1> QED
  BY <1>1, <1>3, <1>6, <1>7, LimitsGoOn DEF LimitsInv

(***************************************************************************)
(* The broker changes balances by whole amounts, at a deposit and on its   *)
(* own.                                                                    *)
(***************************************************************************)
LEMMA LimitsBalance ==
    ASSUME FundingInv, LimitsInv,
           \/ \E w \in Workers : Deposit(w)
           \/ \E x \in Accounts : BrokerReserve(x) \/ BrokerDebit(x) \/ BrokerRelease(x)
    PROVE  LimitsInv'
<1>1. ASSUME NEW x \in Accounts, NEW b, WholeBalance(b), broker' = [broker EXCEPT ![x] = b]
      PROVE  \A y \in Accounts : WholeBalance(broker'[y])
  <2>1. \A y \in Accounts : broker'[y] = IF y = x THEN b ELSE broker[y]
    BY <1>1 DEF FundingInv, Shape
  <2> QED
    BY <1>1, <2>1 DEF LimitsInv
<1>2. ASSUME NEW w \in Workers, Deposit(w) PROVE LimitsInv'
  <2> DEFINE x == work[w].account
             i == work[w].id
             after == [broker[x] EXCEPT !.credited = @ + funding[i].shortfall, !.version = @ + 1]
  <2>1. /\ pc[w] = "deposit" /\ pc' = [pc EXCEPT ![w] = "observe"]
        /\ broker' = broker \/ broker' = [broker EXCEPT ![x] = after]
        /\ UNCHANGED <<account, funding>>
    BY <1>2 DEF Deposit, Goto, rowVars
  <2>2. PICK receipt : work' = [work EXCEPT ![w].receipt = receipt]
    BY <1>2 DEF Deposit
  <2>3. /\ x \in Accounts /\ WholeBalance(broker[x]) /\ IsBalance(broker[x]) /\ i \in MintIds
        /\ funding[i].shortfall \in Int
    BY <2>1 DEF LimitsInv, FundingInv, AttemptHasId, Shape
  <2>4. WholeBalance(after)
    <3> DEFINE c == broker[x].credited + funding[i].shortfall
               b1 == [broker[x] EXCEPT !.credited = c]
               n == b1.version + 1
    <3>1. after = [b1 EXCEPT !.version = n]
      OBVIOUS
    <3>2. c \in Int
      BY <2>3 DEF WholeBalance
    <3> HIDE DEF c, after
    <3>3. IsBalance(b1) /\ WholeBalance(b1)
      BY <2>3, <3>2 DEF IsBalance, WholeBalance
    <3> HIDE DEF b1, n
    <3> QED
      BY <3>1, <3>3 DEF IsBalance, WholeBalance
  <2> HIDE DEF after
  <2>5. \A y \in Accounts : WholeBalance(broker'[y])
    BY <1>1, <2>1, <2>3, <2>4 DEF LimitsInv
  <2>6. \A v \in Workers : /\ pc'[v] = IF v = w THEN "observe" ELSE pc[v]
                           /\ work'[v].account = work[v].account /\ work'[v].seen = work[v].seen
                           /\ work'[v].plan = work[v].plan
    <3> DEFINE job == [work[w] EXCEPT !.receipt = receipt]
    <3>1. IsWork(work[w]) /\ work' = [work EXCEPT ![w] = job]
      BY <2>2 DEF FundingInv, Shape
    <3>2. job.account = work[w].account /\ job.seen = work[w].seen /\ job.plan = work[w].plan
      BY <3>1 DEF IsWork
    <3> HIDE DEF job
    <3> QED
      BY <2>1, <3>1, <3>2 DEF FundingInv, Shape
  <2> QED
    BY <2>1, <2>5, <2>6 DEF LimitsInv
<1>3. ASSUME NEW x \in Accounts, BrokerReserve(x) \/ BrokerDebit(x) \/ BrokerRelease(x)
      PROVE  LimitsInv'
  <2>1. UNCHANGED <<account, funding, pc, work>>
    BY <1>3 DEF BrokerReserve, BrokerDebit, BrokerRelease, rowVars, workerVars
  <2>2. WholeBalance(broker[x]) /\ IsBalance(broker[x])
    BY DEF LimitsInv, FundingInv, Shape
  <2>3. PICK b : WholeBalance(b) /\ broker' = [broker EXCEPT ![x] = b]
    <3> DEFINE now == broker[x]
    <3>1. ASSUME NEW r \in Int, NEW d \in Int, NEW n
          PROVE  /\ WholeBalance([[now EXCEPT !.reserved = r] EXCEPT !.version = n])
                 /\ WholeBalance([[[now EXCEPT !.reserved = r] EXCEPT !.debited = d] EXCEPT !.version = n])
      <4> DEFINE b1 == [now EXCEPT !.reserved = r]
                 b2 == [b1 EXCEPT !.debited = d]
      <4>1. IsBalance(b1) /\ WholeBalance(b1)
        BY <2>2 DEF IsBalance, WholeBalance
      <4> HIDE DEF b1
      <4>2. IsBalance(b2) /\ WholeBalance(b2)
        BY <4>1 DEF IsBalance, WholeBalance
      <4> HIDE DEF b2
      <4>3. WholeBalance([b1 EXCEPT !.version = n]) /\ WholeBalance([b2 EXCEPT !.version = n])
        BY <4>1, <4>2 DEF IsBalance, WholeBalance
      <4> QED
        BY <4>3 DEF b1, b2
    <3>2. now.reserved + 1 \in Int /\ now.reserved - 1 \in Int /\ now.debited + 1 \in Int
      BY <2>2 DEF WholeBalance
    <3>3. CASE BrokerReserve(x)
      BY <3>1, <3>2, <3>3 DEF BrokerReserve
    <3>4. CASE BrokerDebit(x)
      BY <3>1, <3>2, <3>4 DEF BrokerDebit
    <3>5. CASE BrokerRelease(x)
      <4> DEFINE b == [[now EXCEPT !.reserved = now.reserved - 1] EXCEPT !.version = now.version + 1]
      <4>1. broker' = [broker EXCEPT ![x] = b]
        BY <2>2, <3>5 DEF BrokerRelease, FundingInv, Shape
      <4>2. WholeBalance(b)
        BY <3>1, <3>2
      <4> HIDE DEF b
      <4> QED
        BY <4>1, <4>2
    <3> QED
      BY <1>3, <3>3, <3>4, <3>5
  <2>4. \A y \in Accounts : WholeBalance(broker'[y])
    BY <1>1, <2>3
  <2> QED
    BY <2>1, <2>4 DEF LimitsInv
<1> QED
  BY <1>2, <1>3

(***************************************************************************)
(* Every step keeps what the claims rely on.                               *)
(***************************************************************************)
LEMMA LimitsStep == FundingInv /\ LimitsInv /\ [FundingNext]_fundingVars => LimitsInv'
<1> SUFFICES ASSUME FundingInv, LimitsInv, [FundingNext]_fundingVars PROVE LimitsInv'
  OBVIOUS
<1>1. CASE UNCHANGED fundingVars
  BY <1>1 DEF fundingVars, remoteVars, rowVars, workerVars, LimitsInv
<1>2. ASSUME NEW w \in Workers, Step(w) PROVE LimitsInv'
  BY <1>2, LimitsPlain, LimitsEnd, LimitsClaim, LimitsRecord, LimitsBalance DEF Step
<1> QED
  BY <1>1, <1>2, LimitsPlain, LimitsEnd, LimitsBalance DEF FundingNext

\* There are finitely many mint ids.
LEMMA MintIdsFinite == IsFiniteSet(MintIds)
<1>1. IsFiniteSet(0 .. MaxVersion)
  BY FS_Interval, FundingAssumption
<1>2. IsFiniteSet(Accounts \X (0 .. MaxVersion))
  BY <1>1, FS_Product, FundingAssumption
<1> QED
  BY <1>2, FS_Union, FundingAssumption DEF MintIds

(***************************************************************************)
(* After a claim that commits an intent, the rows of any accounts that     *)
(* include the funded one add up to the exposure it was planned with and   *)
(* the shortfall: nothing was committed between the last look and the      *)
(* commit.                                                                 *)
(***************************************************************************)
LEMMA ClaimCommits ==
    ASSUME FundingInv, LimitsInv, NEW w \in Workers, ClaimCommit(w), work[w].plan.shortfall # 0,
           NEW xs \in SUBSET Accounts, work[w].account \in xs
    PROVE  Committed(xs)' = Exposure(xs, work[w].account, work[w].seen) + work[w].plan.shortfall
<1>0. PICK x, i, b, short, value : /\ x = work[w].account /\ i = work[w].id /\ b = work[w].seen
                            /\ short = work[w].plan.shortfall /\ value = Available(b)
  OBVIOUS
<1>1. /\ pc[w] = "claim" /\ funding[i].status = "none"
      /\ funding' = [funding EXCEPT ![i] = RowOfClaim(w)]
      /\ account' = [account EXCEPT ![x] = [known |-> TRUE, credited |-> b.credited,
                                            available |-> value, version |-> b.version]]
  BY <1>0 DEF ClaimCommit
<1>2. /\ x \in Accounts /\ WholeBalance(b) /\ short \in Nat /\ i \in MintIds
      /\ \A y \in Accounts : account[y].available \in Int
      /\ \A j \in MintIds : funding[j].shortfall \in Int
  BY <1>0, <1>1 DEF LimitsInv, FundingInv, AttemptHasId, PlanWithin
<1>3. value \in Int
  BY <1>0, <1>2 DEF Available, WholeBalance
<1>4. AvailableOn(xs)' = AvailableOn(xs \ {x}) + value
  <2> DEFINE f == [y \in Accounts |-> account[y].available]
             g == [y \in Accounts |-> account'[y].available]
  <2>1. \A y \in Accounts : g[y] = IF y = x THEN value ELSE f[y]
    BY <1>1, <1>2 DEF LimitsInv
  <2>2. \A y \in Accounts : f[y] \in Int
    BY <1>2
  <2>3. AvailableOn(xs)' = SumFunctionOnSet(g, xs) /\ AvailableOn(xs \ {x}) = SumFunctionOnSet(f, xs \ {x})
    BY DEF AvailableOn
  <2> HIDE DEF f, g
  <2>4. IsFiniteSet(xs) /\ IsFiniteSet(xs \ {x}) /\ x \in xs
    BY <1>0, FS_Subset, FundingAssumption
  <2>5. \A y \in xs : g[y] \in Int
    BY <1>3, <2>1, <2>2
  <2>6. SumFunctionOnSet(g, xs) = g[x] + SumFunctionOnSet(g, xs \ {x})
    BY <2>4, <2>5, SumSplits
  <2>7. SumFunctionOnSet(g, xs \ {x}) = SumFunctionOnSet(f, xs \ {x})
    BY <2>1, <2>4, SumSame
  <2>8. SumFunctionOnSet(f, xs \ {x}) \in Int
    BY <2>2, <2>4, SumType
  <2> QED
    BY <1>2, <1>3, <2>1, <2>3, <2>6, <2>7, <2>8
<1>5. Pending(xs)' = Pending(xs) + short /\ Pending(xs) \in Int
  <2> DEFINE f == [j \in MintIds |-> funding[j].shortfall]
             g == [j \in MintIds |-> funding'[j].shortfall]
             S == {j \in MintIds : /\ funding[j].status \in {"claimed", "minted"}
                                   /\ funding[j].account \in xs}
             T == {j \in MintIds : /\ funding'[j].status \in {"claimed", "minted"}
                                   /\ funding'[j].account \in xs}
  <2>1. /\ \A j \in MintIds : j # i => funding'[j] = funding[j]
        /\ funding'[i] = RowOfClaim(w)
    BY <1>1, <1>2 DEF FundingInv, Shape
  <2>2. /\ funding'[i].status = "claimed" /\ funding'[i].account = x
        /\ funding'[i].shortfall = short
    BY <1>0, <2>1, ClaimedRow
  <2>3. T = S \cup {i} /\ i \notin S
    BY <1>0, <1>1, <1>2, <2>1, <2>2
  <2>4. g[i] = short /\ \A j \in MintIds : f[j] \in Int /\ (j # i => g[j] = f[j])
    BY <1>2, <2>1, <2>2
  <2>5. Pending(xs)' = SumFunctionOnSet(g, T) /\ Pending(xs) = SumFunctionOnSet(f, S)
    BY DEF Pending
  <2>6. S \subseteq MintIds
    OBVIOUS
  <2> HIDE DEF f, g, S, T
  <2>7. IsFiniteSet(S)
    BY <2>6, FS_Subset, MintIdsFinite
  <2>8. /\ \A y \in S \cup {i} : g[y] \in Int
        /\ \A y \in S : f[y] = g[y] /\ f[y] \in Int
    BY <1>2, <2>3, <2>4, <2>6
  <2>9. SumFunctionOnSet(g, S \cup {i}) = SumFunctionOnSet(f, S) + g[i]
    BY <2>3, <2>7, <2>8, SumGains
  <2>10. SumFunctionOnSet(f, S) \in Int
    BY <2>7, <2>8, SumType
  <2> QED
    BY <2>3, <2>4, <2>5, <2>9, <2>10
<1>6. AvailableOn(xs \ {x}) \in Int
  <2> DEFINE f == [y \in Accounts |-> account[y].available]
  <2>1. IsFiniteSet(xs \ {x}) /\ \A y \in xs \ {x} : f[y] \in Int
    BY <1>2, FS_Subset, FundingAssumption
  <2> QED
    BY <2>1, SumType DEF AvailableOn
<1>7. Committed(xs)' = AvailableOn(xs)' + Pending(xs)'
  BY DEF Committed
<1>8. Exposure(xs, x, b) = AvailableOn(xs \ {x}) + Pending(xs) + value
  BY <1>0 DEF Exposure
<1>9. Committed(xs)' = Exposure(xs, x, b) + short
  BY <1>2, <1>3, <1>4, <1>5, <1>6, <1>7, <1>8
<1> QED
  BY <1>0, <1>9

(***************************************************************************)
(* Only a claim puts an intent on record, and what is then committed is    *)
(* what its plan said, which is within the limits.                         *)
(***************************************************************************)
LEMMA ClaimWithinLimits ==
    ASSUME FundingInv, LimitsInv, FundingNext, NEW i \in MintIds, NEW x \in Accounts,
           funding[i].status = "none", funding'[i].account = x
    PROVE  Committed(Accounts)' <= MaxAggregate /\ Committed(PayeeAccounts(x))' <= MaxPayee
<1>1. funding' # funding /\ funding'[i] # funding[i]
  BY FundingAssumption DEF LimitsInv
<1>2. PICK w \in Workers : ClaimCommit(w) \/ RecordMinted(w) \/ AckCommit(w)
  BY <1>1 DEF FundingNext, Step, Observe, Plan, ClaimReplay, ClaimLockBudget, ClaimRefused, Mint,
       MintOutcomeUnknown, Deposit, ObserveAfter, AckLockRow, Verify, PolicyError, DeadlockAbort, Fail,
       Abandon, BrokerReserve, BrokerDebit, BrokerRelease, rowVars
<1>3. ClaimCommit(w) /\ work[w].plan.shortfall # 0 /\ work[w].id = i
  <2>1. pc[w] \in Claimed => funding[work[w].id].status # "none"
    BY DEF FundingInv, ClaimOnRecord
  <2>2. ASSUME RecordMinted(w) \/ AckCommit(w) PROVE FALSE
    <3>1. pc[w] \in Claimed
      BY <2>2 DEF RecordMinted, AckCommit, Claimed
    <3>2. \A j \in MintIds : j # work[w].id => funding'[j] = funding[j]
      BY <2>2 DEF RecordMinted, AckCommit, FundingInv, Shape
    <3> QED
      BY <1>1, <2>1, <3>1, <3>2
  <2>3. ClaimCommit(w)
    BY <1>2, <2>2
  <2>4. work[w].plan.shortfall # 0
    BY <1>1, <2>3 DEF ClaimCommit
  <2>5. \A j \in MintIds : j # work[w].id => funding'[j] = funding[j]
    BY <2>3, <2>4 DEF ClaimCommit, FundingInv, Shape
  <2> QED
    BY <1>1, <2>3, <2>4, <2>5
<1>4. work[w].account = x
  <2>1. funding'[i] = RowOfClaim(w)
    BY <1>3 DEF ClaimCommit, FundingInv, Shape
  <2> QED
    BY <2>1, ClaimedRow
<1>5. PICK plan, b : plan = work[w].plan /\ b = work[w].seen
  OBVIOUS
<1>6. plan = PlanFor(w, x, b) /\ pc[w] = "claim"
  BY <1>3, <1>4, <1>5 DEF ClaimCommit, PlanHolds
<1>7. plan.shortfall \in Nat /\ plan.shortfall # 0 /\ WithinLimits(plan)
  BY <1>3, <1>5, <1>6 DEF LimitsInv, PlanWithin
<1>8. plan.payee <= MaxPayee /\ plan.aggregate <= MaxAggregate
  BY <1>7 DEF WithinLimits
<1>9. /\ plan.payee = Exposure(PayeeAccounts(x), x, b) + plan.shortfall
      /\ plan.aggregate = Exposure(Accounts, x, b) + plan.shortfall
  BY <1>6 DEF PlanFor
<1>10. x \in PayeeAccounts(x) /\ PayeeAccounts(x) \in SUBSET Accounts
  BY DEF PayeeAccounts
<1>11. Committed(Accounts)' = Exposure(Accounts, x, b) + plan.shortfall
  BY <1>3, <1>4, <1>5, ClaimCommits
<1>12. Committed(PayeeAccounts(x))' = Exposure(PayeeAccounts(x), x, b) + plan.shortfall
  BY <1>3, <1>4, <1>5, <1>10, ClaimCommits
<1> QED
  BY <1>8, <1>9, <1>11, <1>12

(***************************************************************************)
(* claim_account_funding: whenever an intent is committed, available value *)
(* and unfinished intents stay within the payee's and the operator's       *)
(* limits, however many workers planned from the same rows.                *)
(***************************************************************************)
THEOREM LimitsHoldAtClaims == FundingSpec => ClaimsWithinLimits
<1> DEFINE Within == \A i \in MintIds, x \in Accounts :
                        (funding[i].status = "none" /\ funding'[i].account = x) =>
                            /\ Committed(Accounts)' <= MaxAggregate
                            /\ Committed(PayeeAccounts(x))' <= MaxPayee
<1>1. FundingInit => LimitsInv
  BY LimitsInit
<1>2. FundingInv /\ LimitsInv /\ [FundingNext]_fundingVars => LimitsInv'
  BY LimitsStep
<1>3. FundingInv /\ LimitsInv /\ [FundingNext]_fundingVars => [Within]_fundingVars
  BY ClaimWithinLimits
<1> QED
  BY <1>1, <1>2, <1>3, FundingInvariant, PTL DEF FundingSpec, ClaimsWithinLimits
=============================================================================
