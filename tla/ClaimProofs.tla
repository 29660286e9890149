---------------------------- MODULE ClaimProofs -----------------------------
(***************************************************************************)
(* Proofs about the claims LOC keeps: the idempotency claim of a paid      *)
(* operation, for any number of attempts, any timeout and any retention    *)
(* that is at least as long, under a clock that does not move backwards;   *)
(* and the claimed session rows that the reconciler's pass releases, for   *)
(* any set of sessions.                                                    *)
(***************************************************************************)
EXTENDS CreateRequest, SessionJanitor, TLAPS

-----------------------------------------------------------------------------
(* The claim of a create request. *)

\* A clock that stands still or advances while a paid operation is tried.
Forwards == \A o \in Operations \ {Prepare} : ClockSteps[o] \subseteq Nat

(***************************************************************************)
(* Every column and every program counter keeps its type: no operation of  *)
(* payments/service.py writes a status outside the documented ones.        *)
(***************************************************************************)
LEMMA TypeStep ==
    RequestTypeOK /\ [RequestNext]_requestVars => RequestTypeOK'
<1> SUFFICES ASSUME RequestTypeOK, [RequestNext]_requestVars
             PROVE  RequestTypeOK'
  OBVIOUS
<1>0. operation' = operation
  BY DEF RequestNext, requestVars
<1> USE RequestAssumption, <1>0
<1>1. ASSUME NEW a \in Attempts, ClaimRead(a) PROVE RequestTypeOK'
  <2>1. NextLease(a) \in Int
    BY DEF NextLease, RequestTypeOK
  <2>2. Classify(a) \in Answered
    BY DEF Classify, Answered
  <2> QED
    BY <1>1, <2>1, <2>2 DEF ClaimRead, Goto, RequestTypeOK, Finished, rowVars, jobVars
<1>2. ASSUME NEW a \in Attempts, ClaimReclaim(a) PROVE RequestTypeOK'
  BY <1>2 DEF ClaimReclaim, Goto, RequestTypeOK, Statuses, Reclaimable, jobVars
<1>3. ASSUME NEW a \in Attempts, ClaimReclaimLost(a) \/ ClaimInsertLost(a)
      PROVE  RequestTypeOK'
  <2>1. Classify(a) \in Answered
    BY DEF Classify, Answered
  <2> QED
    BY <1>3, <2>1 DEF ClaimReclaimLost, ClaimInsertLost, Goto, RequestTypeOK, Finished,
                      rowVars, jobVars
<1>4. ASSUME NEW a \in Attempts, ClaimInsert(a) PROVE RequestTypeOK'
  BY <1>4 DEF ClaimInsert, Goto, RequestTypeOK, Statuses, Reclaimable, jobVars
<1>5. ASSUME NEW a \in Attempts, CompleteCreateRequest(a) \/ FailCreateRequest(a)
      PROVE  RequestTypeOK'
  BY <1>5 DEF CompleteCreateRequest, FailCreateRequest, StoreResult, Goto, RequestTypeOK,
              Statuses, Terminal, Finished, rowVars, jobVars
<1>6. ASSUME NEW a \in Attempts, ReleasePreparation(a) PROVE RequestTypeOK'
  BY <1>6 DEF ReleasePreparation, Goto, RequestTypeOK, Statuses, Reclaimable, Finished,
              jobVars
<1>7. ASSUME NEW a \in Attempts, LeaveInFlight(a) PROVE RequestTypeOK'
  BY <1>7 DEF LeaveInFlight, Goto, RequestTypeOK, Finished, rowVars, jobVars
<1>8. CASE JobSelect
  BY <1>8 DEF JobSelect, RequestTypeOK, rowVars, attemptVars
<1>9. CASE JobWrite
  BY <1>9 DEF JobWrite, RequestTypeOK, Statuses, Reclaimable, attemptVars
<1>10. CASE ClockStep
  BY <1>10 DEF ClockStep, RequestTypeOK, rowVars, attemptVars, jobVars
<1>11. CASE UNCHANGED requestVars
  BY <1>11 DEF requestVars, rowVars, attemptVars, jobVars, RequestTypeOK
<1> QED
  BY <1>1, <1>2, <1>3, <1>4, <1>5, <1>6, <1>7, <1>8, <1>9, <1>10, <1>11 DEF RequestNext

\* The types hold before the first claim.
LEMMA TypeInit == RequestInit => RequestTypeOK
  BY RequestAssumption DEF RequestInit, RequestTypeOK, Statuses

(***************************************************************************)
(* The lease invariant holds initially: nobody works and there is no row.  *)
(***************************************************************************)
LEMMA LeaseInit == RequestInit /\ operation # Prepare => LeaseInv
  BY TypeInit, RequestAssumption
  DEF RequestInit, LeaseInv, RequestTypeOK, Live, PendingReclaimKeepsRow, OneLiveAttempt

(***************************************************************************)
(* Every step keeps the lease invariant when the operation is a paid one.  *)
(***************************************************************************)
LEMMA LeaseStep ==
    ASSUME Forwards
    PROVE  LeaseInv /\ [RequestNext]_requestVars => LeaseInv'
<1> SUFFICES ASSUME LeaseInv, [RequestNext]_requestVars
             PROVE  LeaseInv'
  OBVIOUS
<1>p. operation # Prepare /\ operation' = operation
  BY DEF RequestNext, requestVars, LeaseInv
<1> USE RequestAssumption, <1>p
<1>0. RequestTypeOK /\ RequestTypeOK'
  BY TypeStep DEF LeaseInv
<1>1. ASSUME NEW a \in Attempts, ClaimRead(a) PROVE LeaseInv'
  <2>1. NextLease(a) = now + InflightTimeout
    BY DEF NextLease
  <2>2. Classify(a) \in Answered
    BY DEF Classify, Answered
  <2>3. \A b \in Attempts : b # a => pc'[b] = pc[b] /\ lease'[b] = lease[b]
    BY <1>0, <1>1 DEF ClaimRead, Goto, RequestTypeOK
  <2>4. pc'[a] # "working" /\ lease'[a] = now + InflightTimeout
    BY <1>0, <1>1, <2>1, <2>2 DEF ClaimRead, Goto, RequestTypeOK, Answered
  <2>5. pc'[a] = "reclaim" => fingerprint = Fingerprint[a] /\ status \in Reclaimable
    BY <1>0, <1>1, <2>2 DEF ClaimRead, Goto, RequestTypeOK, Answered
  <2>6. UNCHANGED <<rowVars, leaseId, jobVars, now>>
    BY <1>1 DEF ClaimRead
  <2>7. \A b \in Attempts : Live(b)' => b # a /\ Live(b)
    BY <2>3, <2>4, <2>6 DEF Live
  <2> QED
    BY <1>0, <2>3, <2>4, <2>5, <2>6, <2>7
    DEF LeaseInv, RequestTypeOK, PendingReclaimKeepsRow, OneLiveAttempt, Reclaimable,
        Terminal, rowVars, jobVars
<1>2. ASSUME NEW a \in Attempts, ClaimReclaim(a) PROVE LeaseInv'
  <2>1. expires <= now
    BY <1>2 DEF ClaimReclaim, ReclaimMatches
  <2>2. \A b \in Attempts : ~Live(b)
    BY <1>0, <2>1 DEF LeaseInv, RequestTypeOK, Live
  <2>3. \A b \in Attempts : b # a => pc'[b] = pc[b] /\ leaseId'[b] = leaseId[b]
    BY <1>0, <1>2 DEF ClaimReclaim, Goto, RequestTypeOK
  <2>4. /\ pc'[a] = "working"
        /\ leaseId'[a] = requestId
        /\ expires' = lease[a]
        /\ status' = "in_flight"
        /\ UNCHANGED <<fingerprint, requestId, lease, jobNow, now>>
    BY <1>0, <1>2 DEF ClaimReclaim, Goto, RequestTypeOK, jobVars
  <2>5. lease[a] > now => fingerprint = Fingerprint[a]
    BY <1>2 DEF ClaimReclaim, LeaseInv, PendingReclaimKeepsRow
  <2>6. \A b \in Attempts : Live(b)' => b = a
    BY <2>2, <2>3, <2>4 DEF Live
  <2>7. \A b \in Attempts : Live(b)' => expires' >= lease'[b]
    BY <1>0, <2>4, <2>6 DEF RequestTypeOK
  <2>8. OneLiveAttempt'
    BY <2>4, <2>5, <2>6 DEF OneLiveAttempt, Live
  <2>9. PendingReclaimKeepsRow'
    BY <2>3, <2>4 DEF LeaseInv, PendingReclaimKeepsRow, Terminal
  <2> QED
    BY <1>0, <2>4, <2>7, <2>8, <2>9 DEF LeaseInv
<1>3. ASSUME NEW a \in Attempts,
             \/ ClaimReclaimLost(a) \/ ClaimInsertLost(a)
             \/ ReleasePreparation(a) \/ LeaveInFlight(a)
      PROVE  LeaseInv'
  <2>1. Classify(a) \in Answered
    BY DEF Classify, Answered
  <2>2. \A b \in Attempts : b # a => pc'[b] = pc[b]
    BY <1>0, <1>3 DEF ClaimReclaimLost, ClaimInsertLost, ReleasePreparation,
                      LeaveInFlight, Goto, RequestTypeOK
  <2>3. pc'[a] \in Finished
    BY <1>0, <1>3, <2>1 DEF ClaimReclaimLost, ClaimInsertLost, ReleasePreparation,
                      LeaveInFlight, Goto, RequestTypeOK, Finished
  <2>4. UNCHANGED <<rowVars, lease, leaseId, jobVars, now>>
    BY <1>3 DEF ClaimReclaimLost, ClaimInsertLost, ReleasePreparation, LeaveInFlight
  <2>5. \A b \in Attempts : pc'[b] \in {"working", "reclaim"} => pc'[b] = pc[b]
    BY <2>2, <2>3 DEF Finished, Answered
  <2>6. \A b \in Attempts : Live(b)' => Live(b)
    BY <2>4, <2>5 DEF Live
  <2> QED
    BY <1>0, <2>4, <2>5, <2>6
    DEF LeaseInv, PendingReclaimKeepsRow, OneLiveAttempt, rowVars, jobVars
<1>4. ASSUME NEW a \in Attempts, ClaimInsert(a) PROVE LeaseInv'
  <2>1. \A b \in Attempts : ~Live(b) /\ ~(pc[b] = "reclaim" /\ lease[b] > now)
    BY <1>4 DEF ClaimInsert, LeaseInv, OneLiveAttempt, PendingReclaimKeepsRow
  <2>2. \A b \in Attempts : b # a => pc'[b] = pc[b]
    BY <1>0, <1>4 DEF ClaimInsert, Goto, RequestTypeOK
  <2>3. /\ pc'[a] = "working"
        /\ leaseId'[a] = requestId'
        /\ expires' = lease[a]
        /\ status' = "in_flight"
        /\ fingerprint' = Fingerprint[a]
        /\ UNCHANGED <<lease, jobNow, now>>
    BY <1>0, <1>4 DEF ClaimInsert, Goto, RequestTypeOK, jobVars
  <2>4. \A b \in Attempts : Live(b)' => b = a
    BY <2>1, <2>2, <2>3 DEF Live
  <2>5. \A b \in Attempts : Live(b)' => expires' >= lease'[b]
    BY <1>0, <2>3, <2>4 DEF RequestTypeOK
  <2>6. OneLiveAttempt'
    BY <2>3, <2>4 DEF OneLiveAttempt
  <2>7. PendingReclaimKeepsRow'
    BY <2>1, <2>2, <2>3 DEF PendingReclaimKeepsRow
  <2> QED
    BY <1>0, <2>3, <2>5, <2>6, <2>7 DEF LeaseInv
<1>5. ASSUME NEW a \in Attempts, CompleteCreateRequest(a) \/ FailCreateRequest(a)
      PROVE  LeaseInv'
  <2>1. \A b \in Attempts : b # a => pc'[b] = pc[b]
    BY <1>0, <1>5 DEF CompleteCreateRequest, FailCreateRequest, StoreResult, Goto,
                      RequestTypeOK
  <2>2. pc'[a] \in {"done", "crashed"}
    BY <1>0, <1>5 DEF CompleteCreateRequest, FailCreateRequest, StoreResult, Goto,
                      RequestTypeOK
  <2>3. /\ \/ status' \in Terminal /\ expires' = now + Retention
           \/ status' = status /\ expires' = expires
        /\ status # "none" => status' # "none"
        /\ UNCHANGED <<fingerprint, requestId, lease, leaseId, jobNow, now>>
    BY <1>5 DEF CompleteCreateRequest, FailCreateRequest, StoreResult, Terminal, rowVars,
                jobVars
  <2>4. \A b \in Attempts : Live(b)' => Live(b)
    BY <2>1, <2>2, <2>3 DEF Live
  <2>5. \A b \in Attempts : now + Retention >= lease[b]
    BY <1>0 DEF LeaseInv, RequestTypeOK
  <2>6. \A b \in Attempts : Live(b)' => expires' >= lease'[b]
    BY <2>3, <2>4, <2>5 DEF LeaseInv
  <2>7. OneLiveAttempt'
    BY <2>3, <2>4 DEF LeaseInv, OneLiveAttempt
  <2>8. PendingReclaimKeepsRow'
    BY <2>1, <2>2, <2>3, <2>5 DEF LeaseInv, PendingReclaimKeepsRow
  <2> QED
    BY <1>0, <2>3, <2>6, <2>7, <2>8 DEF LeaseInv
<1>6. CASE JobSelect
  BY <1>0, <1>6 DEF JobSelect, LeaseInv, RequestTypeOK, PendingReclaimKeepsRow,
                    OneLiveAttempt, Live, rowVars, attemptVars
<1>7. CASE JobWrite
  <2>1. /\ UNCHANGED <<fingerprint, requestId, expires, attemptVars, now>>
        /\ jobNow' = 0
    BY <1>7 DEF JobWrite
  <2>2. /\ status' \in {"expired", "none", status}
        /\ status' = "none" => status = "none" \/ (status \in Terminal /\ expires < now)
    BY <1>0, <1>7 DEF JobWrite, PastRetention, LeaseInv, RequestTypeOK
  <2>3. \A b \in Attempts : Live(b)' = Live(b)
    BY <2>1 DEF Live, attemptVars
  <2>4. status' = "none" =>
          /\ \A b \in Attempts : ~Live(b)
          /\ \A b \in Attempts : ~(pc[b] = "reclaim" /\ lease[b] > now)
    BY <1>0, <2>2 DEF LeaseInv, RequestTypeOK, OneLiveAttempt, PendingReclaimKeepsRow, Live
  <2>5. OneLiveAttempt'
    BY <2>1, <2>3, <2>4 DEF LeaseInv, OneLiveAttempt, attemptVars
  <2>6. PendingReclaimKeepsRow'
    BY <2>1, <2>2, <2>4 DEF LeaseInv, PendingReclaimKeepsRow, attemptVars, Terminal
  <2>7. jobNow' <= now' /\ \A b \in Attempts : lease'[b] <= now' + InflightTimeout
    BY <1>0, <2>1 DEF LeaseInv, RequestTypeOK, attemptVars
  <2>8. \A b \in Attempts : Live(b)' => expires' >= lease'[b]
    BY <2>1, <2>3 DEF LeaseInv, attemptVars
  <2> QED
    BY <1>0, <2>5, <2>6, <2>7, <2>8 DEF LeaseInv
<1>8. CASE ClockStep
  <2>1. now' \in Int /\ now' >= now
    BY <1>0, <1>8 DEF ClockStep, Forwards, RequestTypeOK
  <2>2. UNCHANGED <<rowVars, attemptVars, jobVars>>
    BY <1>8 DEF ClockStep
  <2>3. \A b \in Attempts : lease'[b] > now' => lease[b] > now
    BY <1>0, <2>1, <2>2 DEF attemptVars, RequestTypeOK
  <2>4. \A b \in Attempts : Live(b)' => Live(b)
    BY <2>2, <2>3 DEF Live, attemptVars
  <2>5. jobNow' <= now' /\ \A b \in Attempts : lease'[b] <= now' + InflightTimeout
    BY <1>0, <2>1, <2>2 DEF LeaseInv, RequestTypeOK, attemptVars, jobVars
  <2> QED
    BY <1>0, <2>2, <2>3, <2>4, <2>5
    DEF LeaseInv, PendingReclaimKeepsRow, OneLiveAttempt, rowVars, attemptVars
<1>9. CASE UNCHANGED requestVars
  BY <1>0, <1>9 DEF requestVars, rowVars, attemptVars, jobVars, LeaseInv, Live,
                    PendingReclaimKeepsRow, OneLiveAttempt
<1> QED
  BY <1>1, <1>2, <1>3, <1>4, <1>5, <1>6, <1>7, <1>8, <1>9 DEF RequestNext

(***************************************************************************)
(* For a paid operation at most one attempt works under an unexpired       *)
(* lease, and its fingerprint and broker request id are the row's: what    *)
(* claim_create_request promises to concurrent identical requests.         *)
(***************************************************************************)
THEOREM OneWinner ==
    ASSUME Forwards
    PROVE  RequestSpec => []OneLiveAttempt
<1> DEFINE IInv == operation = Prepare \/ LeaseInv
<1>1. RequestInit => IInv
  BY LeaseInit
<1>2. IInv /\ [RequestNext]_requestVars => IInv'
  BY LeaseStep DEF RequestNext, requestVars
<1>3. IInv => OneLiveAttempt
  BY DEF LeaseInv, OneLiveAttempt
<1> QED
  BY <1>1, <1>2, <1>3, PTL DEF RequestSpec

(***************************************************************************)
(* The row is absent only before the first claim or after a stored result  *)
(* outlived its retention.                                                 *)
(***************************************************************************)
LEMMA AbsentStep ==
    ASSUME Forwards
    PROVE  AbsentInv /\ [RequestNext]_requestVars => AbsentInv'
<1> SUFFICES ASSUME AbsentInv, [RequestNext]_requestVars
             PROVE  AbsentInv'
  OBVIOUS
<1>p. operation # Prepare /\ operation' = operation
  BY DEF RequestNext, requestVars, AbsentInv
<1> USE RequestAssumption, <1>p
<1>0. RequestTypeOK /\ RequestTypeOK'
  BY TypeStep DEF AbsentInv
<1>1. ASSUME NEW a \in Attempts,
             \/ ClaimRead(a) \/ ClaimReclaim(a) \/ ClaimReclaimLost(a)
             \/ ClaimInsert(a) \/ ClaimInsertLost(a)
             \/ ReleasePreparation(a) \/ LeaveInFlight(a)
      PROVE  AbsentInv'
  BY <1>0, <1>1 DEF ClaimRead, ClaimReclaim, ClaimReclaimLost, ClaimInsert,
       ClaimInsertLost, ReleasePreparation, ReleaseMatches, LeaveInFlight, AbsentInv,
       Terminal, rowVars, jobVars
<1>2. ASSUME NEW a \in Attempts, CompleteCreateRequest(a) \/ FailCreateRequest(a)
      PROVE  AbsentInv'
  BY <1>0, <1>2 DEF CompleteCreateRequest, FailCreateRequest, StoreResult, AbsentInv,
       Terminal, rowVars, jobVars
<1>3. CASE JobSelect
  BY <1>0, <1>3 DEF JobSelect, AbsentInv, RequestTypeOK, rowVars
<1>4. CASE JobWrite
  BY <1>0, <1>4 DEF JobWrite, PastRetention, AbsentInv, RequestTypeOK, Terminal
<1>5. CASE ClockStep
  <2>1. now' \in Int /\ now' >= now
    BY <1>0, <1>5 DEF ClockStep, Forwards, RequestTypeOK
  <2> QED
    BY <1>0, <1>5, <2>1 DEF ClockStep, AbsentInv, RequestTypeOK, rowVars, jobVars
<1>6. CASE UNCHANGED requestVars
  BY <1>0, <1>6 DEF requestVars, rowVars, jobVars, AbsentInv
<1> QED
  BY <1>1, <1>2, <1>3, <1>4, <1>5, <1>6 DEF RequestNext

(***************************************************************************)
(* The key of a paid operation is given a second broker request id only    *)
(* after a stored result outlived its retention: recovery never invents    *)
(* another mint identity.                                                  *)
(***************************************************************************)
THEOREM IdentityStays ==
    ASSUME Forwards
    PROVE  RequestSpec => IdentityIsStable
<1> DEFINE IInv == operation = Prepare \/ AbsentInv
<1>1. RequestInit => IInv
  BY TypeInit, RequestAssumption DEF RequestInit, AbsentInv, Terminal
<1>2. IInv /\ [RequestNext]_requestVars => IInv'
  BY AbsentStep DEF RequestNext, requestVars
<1>3. IInv /\ [RequestNext]_requestVars =>
        [operation # Prepare /\ drawn' = drawn + 1
         => drawn = 0 \/ (result # {} /\ expires < now)]_requestVars
  <2> SUFFICES ASSUME AbsentInv, RequestNext, drawn' = drawn + 1
               PROVE  drawn = 0 \/ (result # {} /\ expires < now)
    OBVIOUS
  <2>1. drawn' # drawn
    BY DEF AbsentInv, RequestTypeOK
  <2>2. PICK a \in Attempts : ClaimInsert(a)
    BY <2>1 DEF RequestNext, ClaimRead, ClaimReclaim, ClaimReclaimLost, ClaimInsertLost,
         CompleteCreateRequest, FailCreateRequest, StoreResult, ReleasePreparation,
         LeaveInFlight, JobSelect, JobWrite, ClockStep, rowVars
  <2> QED
    BY <2>2 DEF ClaimInsert, AbsentInv
<1> HIDE DEF IInv
<1> QED
  BY <1>1, <1>2, <1>3, PTL DEF RequestSpec, IdentityIsStable

(***************************************************************************)
(* Every step of a preparation keeps the fence, whatever the clock does.   *)
(***************************************************************************)
LEMMA FenceStep ==
    FenceInv /\ [RequestNext]_requestVars => FenceInv'
<1> SUFFICES ASSUME FenceInv, [RequestNext]_requestVars
             PROVE  FenceInv'
  OBVIOUS
<1>p. operation = Prepare /\ operation' = operation
  BY DEF RequestNext, requestVars, FenceInv
<1>0. RequestTypeOK /\ RequestTypeOK'
  BY TypeStep DEF FenceInv
<1> USE RequestAssumption, <1>p
<1>1. ASSUME NEW a \in Attempts, ClaimRead(a) PROVE FenceInv'
  <2>1. NextLease(a) > expires \/ status = "none"
    BY <1>0 DEF NextLease, RequestTypeOK
  <2>2. Classify(a) \in Answered
    BY DEF Classify, Answered
  <2>3. \A b \in Attempts : b # a =>
           pc'[b] = pc[b] /\ lease'[b] = lease[b] /\ seen'[b] = seen[b]
    BY <1>0, <1>1 DEF ClaimRead, Goto, RequestTypeOK
  <2>4. /\ pc'[a] # "working"
        /\ lease'[a] = NextLease(a) /\ seen'[a] = expires
        /\ pc'[a] = "reclaim" => status # "none"
    BY <1>0, <1>1, <2>2 DEF ClaimRead, Goto, RequestTypeOK, Answered, Reclaimable
  <2>5. UNCHANGED <<rowVars, leaseId>>
    BY <1>1 DEF ClaimRead
  <2>6. \A b \in Attempts : pc'[b] = "reclaim" => seen'[b] < lease'[b]
    BY <1>0, <2>1, <2>3, <2>4 DEF FenceInv, RequestTypeOK, NextLease
  <2>7. \A b \in Attempts : Current(b)' => b # a /\ Current(b)
    BY <2>3, <2>4, <2>5 DEF Current, rowVars
  <2> QED
    BY <1>0, <2>3, <2>5, <2>6, <2>7 DEF FenceInv, rowVars
<1>2. ASSUME NEW a \in Attempts, ClaimReclaim(a) PROVE FenceInv'
  <2>1. /\ expires = seen[a] /\ seen[a] < lease[a] /\ expires' = lease[a]
        /\ status' = "in_flight"
        /\ UNCHANGED <<requestId, drawn, result, lease, seen>>
    BY <1>2 DEF ClaimReclaim, ReclaimMatches, FenceInv
  <2>2. \A b \in Attempts : b # a => pc'[b] = pc[b] /\ leaseId'[b] = leaseId[b]
    BY <1>0, <1>2 DEF ClaimReclaim, Goto, RequestTypeOK
  <2>3. pc'[a] = "working" /\ leaseId'[a] = requestId
    BY <1>0, <1>2 DEF ClaimReclaim, Goto, RequestTypeOK
  <2>4. \A b \in Attempts : Current(b)' => b = a \/ Current(b)
    BY <2>1, <2>2 DEF Current
  <2>5. result = {} => \A b \in Attempts : Current(b) => lease[b] < lease[a]
    BY <1>0, <2>1 DEF FenceInv, RequestTypeOK
  <2>6. result' = {} => \A b \in Attempts : Current(b)' => lease'[b] <= expires'
    BY <1>0, <2>1, <2>4, <2>5 DEF RequestTypeOK
  <2>7. result' = {} => \A b, c \in Attempts :
           Current(b)' /\ Current(c)' /\ b # c => lease'[b] # lease'[c]
    BY <1>0, <2>1, <2>4, <2>5 DEF FenceInv, RequestTypeOK
  <2>8. \A b \in Attempts : leaseId'[b] <= drawn'
    BY <1>0, <2>1, <2>2, <2>3 DEF FenceInv, RequestTypeOK
  <2>9. \A b \in Attempts : pc'[b] = "reclaim" => seen'[b] < lease'[b]
    BY <2>1, <2>2, <2>3 DEF FenceInv
  <2> QED
    BY <1>0, <2>1, <2>6, <2>7, <2>8, <2>9 DEF FenceInv, Terminal
<1>3. ASSUME NEW a \in Attempts, ClaimInsert(a) PROVE FenceInv'
  <2>1. /\ requestId' = drawn + 1 /\ drawn' = drawn + 1 /\ expires' = lease[a]
        /\ status' = "in_flight"
        /\ UNCHANGED <<lease, seen>>
    BY <1>3 DEF ClaimInsert
  <2>2. \A b \in Attempts : b # a => pc'[b] = pc[b] /\ leaseId'[b] = leaseId[b]
    BY <1>0, <1>3 DEF ClaimInsert, Goto, RequestTypeOK
  <2>3. pc'[a] = "working" /\ leaseId'[a] = drawn + 1
    BY <1>0, <1>3 DEF ClaimInsert, Goto, RequestTypeOK
  <2>4. \A b \in Attempts : Current(b)' => b = a
    BY <1>0, <2>1, <2>2 DEF Current, FenceInv, RequestTypeOK
  <2>5. \A b \in Attempts : Current(b)' => lease'[b] <= expires'
    BY <1>0, <2>1, <2>4 DEF RequestTypeOK
  <2>6. \A b \in Attempts : leaseId'[b] <= drawn'
    BY <1>0, <2>1, <2>2, <2>3 DEF FenceInv, RequestTypeOK
  <2>7. \A b \in Attempts : pc'[b] = "reclaim" => seen'[b] < lease'[b]
    BY <2>1, <2>2, <2>3 DEF FenceInv
  <2> QED
    BY <1>0, <2>1, <2>4, <2>5, <2>6, <2>7 DEF FenceInv, Terminal
<1>4. ASSUME NEW a \in Attempts,
             \/ ClaimReclaimLost(a) \/ ClaimInsertLost(a)
             \/ ReleasePreparation(a) \/ LeaveInFlight(a)
             \/ CompleteCreateRequest(a) \/ FailCreateRequest(a)
      PROVE  FenceInv'
  <2>1. Classify(a) \in Answered
    BY DEF Classify, Answered
  <2>2. \A b \in Attempts : b # a => pc'[b] = pc[b]
    BY <1>0, <1>4 DEF ClaimReclaimLost, ClaimInsertLost, ReleasePreparation, LeaveInFlight,
                      CompleteCreateRequest, FailCreateRequest, StoreResult, Goto, RequestTypeOK
  <2>3. pc'[a] \in Finished
    BY <1>0, <1>4, <2>1 DEF ClaimReclaimLost, ClaimInsertLost, ReleasePreparation, LeaveInFlight,
         CompleteCreateRequest, FailCreateRequest, StoreResult, Goto, RequestTypeOK, Finished
  <2>4. /\ UNCHANGED <<requestId, drawn, lease, leaseId, seen>>
        /\ \/ result' # {}
           \/ UNCHANGED <<result, expires>> /\ (status' \in Terminal => status \in Terminal)
    BY <1>4 DEF ClaimReclaimLost, ClaimInsertLost, ReleasePreparation, LeaveInFlight,
                CompleteCreateRequest, FailCreateRequest, StoreResult, rowVars, Terminal
  <2>5. \A b \in Attempts : pc'[b] \in {"working", "reclaim"} => pc'[b] = pc[b]
    BY <2>2, <2>3 DEF Finished, Answered
  <2>6. \A b \in Attempts : Current(b)' => Current(b)
    BY <2>4, <2>5 DEF Current
  <2> QED
    BY <1>0, <2>4, <2>5, <2>6 DEF FenceInv
<1>5. CASE JobSelect \/ JobWrite \/ ClockStep \/ UNCHANGED requestVars
  <2>1. /\ UNCHANGED <<requestId, drawn, lease, leaseId, seen, pc, result, expires>>
        /\ status' \in Terminal => status \in Terminal
    BY <1>5 DEF JobSelect, JobWrite, ClockStep, requestVars, rowVars, attemptVars, Terminal
  <2>2. \A b \in Attempts : Current(b)' => Current(b)
    BY <2>1 DEF Current
  <2> QED
    BY <1>0, <2>1, <2>2 DEF FenceInv
<1> QED
  BY <1>1, <1>2, <1>3, <1>4, <1>5 DEF RequestNext

(***************************************************************************)
(* A preparation that fails late never releases the claim of a newer       *)
(* attempt of the same row, under any clock, as long as the row has not    *)
(* stored a result: what the lease in the WHERE clause of                  *)
(* release_session_preparation_claim is for.                               *)
(***************************************************************************)
THEOREM LateReleaseIsHarmless == RequestSpec => ReleaseLeavesNewerAttempt
<1> DEFINE IInv == operation # Prepare \/ FenceInv
           Harmless == \A a, b \in Attempts :
                          a # b /\ result = {} /\ Holder(a) /\ ReleasePreparation(b) => Holder(a)'
<1>1. RequestInit => IInv
  BY TypeInit, RequestAssumption DEF RequestInit, FenceInv, Current, Terminal, RequestTypeOK
<1>2. IInv /\ [RequestNext]_requestVars => IInv'
  BY FenceStep DEF RequestNext, requestVars
<1>3. IInv /\ [RequestNext]_requestVars => [Harmless]_requestVars
  <2> SUFFICES ASSUME IInv, NEW a \in Attempts, NEW b \in Attempts, a # b, result = {},
                      Holder(a), ReleasePreparation(b)
               PROVE  Holder(a)'
    OBVIOUS
  <2>1. FenceInv
    BY DEF ReleasePreparation
  <2>2. ~ReleaseMatches(b)
    BY <2>1 DEF FenceInv, Current, Holder, ReleasePreparation, ReleaseMatches
  <2>3. pc'[a] = pc[a]
    BY <2>1 DEF ReleasePreparation, Goto, FenceInv, RequestTypeOK
  <2> QED
    BY <2>2, <2>3 DEF Holder, ReleasePreparation
<1> HIDE DEF IInv
<1> QED
  BY <1>1, <1>2, <1>3, PTL DEF RequestSpec, ReleaseLeavesNewerAttempt

-----------------------------------------------------------------------------
(* The release of stale session claims. *)

\* What a session row may say of itself, its grant and its settlement block.
SessionRows == [state : {"claimed", "open", "closed", "released"},
         grant : {"none", "issued", "outcome_unknown", "settled"},
         next : {"none", "issued", "canceled_unused"}, block : BOOLEAN]

\* The rows, and that the pass holds no lock when it releases stale claims:
\* what it reconciled before was given up with db.rollback().
JanitorInv ==
    /\ db \in [Sessions -> SessionRows]
    /\ phase \in {"stale", "idle"} => tx = NoLocks

\* The rows a claim and an open session start with.
LEMMA RowsOfInit == NewClaim \in SessionRows /\ NewSession \in SessionRows
  BY DEF SessionRows, NewClaim, NewSession

\* Committing a transaction that holds nothing changes nothing.
LEMMA NothingToCommit ==
    ASSUME db \in [Sessions -> SessionRows], tx = NoLocks PROVE [s \in Sessions |-> View(s)] = db
  <1>1. DOMAIN tx = {}
    BY DEF NoLocks
  <1> QED BY <1>1 DEF View

\* What a release, a recorded revision and a settlement make of a row.
LEMMA RowChanges ==
    ASSUME NEW row \in SessionRows
    PROVE  /\ [row EXCEPT !.state = "released"] \in SessionRows
           /\ [row EXCEPT !.next = "issued"] \in SessionRows
           /\ [row EXCEPT !.next = "issued"].state = row.state
           /\ [row EXCEPT !.state = "closed", !.grant = "settled", !.block = FALSE] \in SessionRows
           /\ [row EXCEPT !.state = "closed", !.grant = "settled", !.block = FALSE].state = "closed"
  BY DEF SessionRows

\* No pass runs at the start.
LEMMA JanitorInitInv == JanitorInit => JanitorInv
  BY RowsOfInit DEF JanitorInit, JanitorInv

\* What one step may do to the committed rows.
DbStep ==
    \A s \in Sessions :
          /\ db[s].state = "open" => db'[s].state # "released"
          /\ db[s].state \in {"closed", "released"} => db'[s] = db[s]

\* Every step of the pass, of a request and of the broker keeps the invariant,
\* and commits nothing that releases an authorized session.
LEMMA JanitorStep ==
    ASSUME JanitorInv, [JanitorNext]_janitorVars
    PROVE  JanitorInv' /\ DbStep
  <1> USE DEF JanitorInv
  <1>1. ASSUME UNCHANGED <<db, tx, phase>> PROVE JanitorInv' /\ DbStep
    BY <1>1 DEF DbStep
  <1>2. ASSUME UNCHANGED db, phase' \in {"stale", "idle"} => tx' = NoLocks
        PROVE  JanitorInv' /\ DbStep
    BY <1>2 DEF DbStep
  <1>3. ASSUME NEW s \in Sessions, ReleaseCandidate(s) PROVE JanitorInv' /\ DbStep
    BY <1>3, RowChanges DEF ReleaseCandidate, StillUnauthorized, DbStep
  <1>4. ASSUME NEW s \in Sessions, GrantClaim(s) PROVE JanitorInv' /\ DbStep
    BY <1>4, RowsOfInit DEF GrantClaim, DbStep
  <1>5. ASSUME NEW s \in Sessions, Refill(s) PROVE JanitorInv' /\ DbStep
    BY <1>5, RowChanges DEF Refill, DbStep
  <1>6. ASSUME NEW s \in Sessions, SdkClose(s) PROVE JanitorInv' /\ DbStep
    BY <1>6, RowChanges DEF SdkClose, DbStep
  <1>7. CASE EndPass
    BY <1>7, NothingToCommit DEF EndPass, DbStep
  <1>8. CASE BeginPass \/ StartSessions \/ StartStale
    BY <1>8, <1>2 DEF BeginPass, StartSessions, StartStale
  <1>9. ASSUME NEW s \in Sessions,
               \/ ReconcileAuthorization(s) \/ AuthorizationUnanswered(s)
               \/ PollSession(s) \/ BlockSession(s) \/ FinalizeSession(s) \/ AbortPass(s)
        PROVE  JanitorInv' /\ DbStep
    BY <1>9, <1>2 DEF ReconcileAuthorization, AuthorizationUnanswered, PollSession,
                      BlockSession, FinalizeSession, AbortPass
  <1>10. ASSUME NEW s \in Sessions, BrokerRecords(s) PROVE JanitorInv' /\ DbStep
    BY <1>10, <1>1 DEF BrokerRecords
  <1>11. CASE UNCHANGED janitorVars
    BY <1>11, <1>1 DEF janitorVars
  <1> QED
    BY <1>3, <1>4, <1>5, <1>6, <1>7, <1>8, <1>9, <1>10, <1>11 DEF JanitorNext, Pass

(***************************************************************************)
(* The pass never releases a session that was authorized, and no closed or *)
(* released row changes again: release_stale_unauthorized_engagements runs *)
(* in a transaction that reconcile_open_sessions left without row locks,   *)
(* so what it reads of a session is what is committed, while requests      *)
(* authorize and settle in between.                                        *)
(***************************************************************************)
THEOREM JanitorKeepsAuthorized == JanitorSpec => AuthorizedNeverReleased
  <1>1. JanitorInit => JanitorInv BY JanitorInitInv
  <1>2. JanitorInv /\ [JanitorNext]_janitorVars => JanitorInv' BY JanitorStep
  <1>3. JanitorInv /\ [JanitorNext]_janitorVars => [DbStep]_janitorVars BY JanitorStep
  <1> QED BY <1>1, <1>2, <1>3, PTL DEF JanitorSpec, AuthorizedNeverReleased, DbStep
=============================================================================
