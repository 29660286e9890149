--------------------------- MODULE CreateRequest ---------------------------
(***************************************************************************)
(* The durable claim on an Idempotency-Key: domains/payments/service.py    *)
(* (claim, complete, fail, release, expire) as the create endpoints of     *)
(* domains/sessions/runtime.py and domains/jobs/runtime.py drive it.       *)
(*                                                                         *)
(* The module follows one payment_idempotency_key row, the row of one      *)
(* (user, operation, key), and the HTTP attempts that carry the key.  A    *)
(* claim is two statements (a read, then a compare-and-set or an insert),  *)
(* the business work between claim and result takes any time, and the      *)
(* expiry job reads the row in one statement and writes it in another.     *)
(***************************************************************************)
EXTENDS Integers

CONSTANTS
    Attempts,          \* HTTP requests that carry the key
    Fingerprints,      \* canonical request hashes
    Fingerprint,       \* Fingerprint[a]: the hash of a's body
    Operations,        \* the endpoint operations that claim keys
    InflightTimeout,   \* idempotency_inflight_timeout_seconds
    Retention,         \* idempotency_retention_seconds
    MaxTime,           \* bound on the clock
    ClockSteps         \* ClockSteps[o]: how the wall clock may move while o is tried

Prepare == "sessions.prepare"

ASSUME RequestAssumption ==
    /\ Fingerprint \in [Attempts -> Fingerprints]
    /\ Operations \subseteq {Prepare, "sessions.create", "sessions.refill", "jobs.create"}
    /\ InflightTimeout \in Nat /\ InflightTimeout > 0
    /\ Retention \in Nat /\ Retention >= InflightTimeout
    /\ MaxTime \in Nat
    /\ ClockSteps \in [Operations -> SUBSET Int]

VARIABLES
    operation,     \* the operation the key is scoped to
    status,        \* status of the row ("none": no row)
    fingerprint,   \* request_fingerprint
    requestId,     \* broker_request_id, numbered in the order they are drawn
    expires,       \* expires_at
    result,        \* the attempts whose answer the row stores: {} or {a}
    drawn,         \* broker request ids drawn so far
    pc,            \* where each attempt is
    seen,          \* the expires_at an attempt read
    lease,         \* the lease_expires_at an attempt asks for or holds
    leaseId,       \* the broker_request_id it works under
    job,           \* the expiry job: "idle", or whether it selected the row
    jobNow,        \* the clock the job read
    now

rowVars == <<status, fingerprint, requestId, expires, result, drawn>>
attemptVars == <<pc, seen, lease, leaseId>>
jobVars == <<job, jobNow>>
requestVars == <<operation, rowVars, attemptVars, jobVars, now>>

Reclaimable == {"in_flight", "expired"}
Terminal == {"completed", "failed"}
Statuses == {"none"} \cup Reclaimable \cup Terminal

\* How an attempt that did not get the claim is answered.
Answered == {"key_reuse", "in_progress", "outcome_unknown", "replayed"}
Finished == Answered \cup {"done", "unavailable", "crashed"}

RequestTypeOK ==
    /\ operation \in Operations
    /\ status \in Statuses
    /\ fingerprint \in Fingerprints
    /\ requestId \in Nat
    /\ expires \in Int
    /\ result \in {{}} \cup {{a} : a \in Attempts}
    /\ drawn \in Nat
    /\ pc \in [Attempts -> {"idle", "reclaim", "insert", "working"} \cup Finished]
    /\ seen \in [Attempts -> Int]
    /\ lease \in [Attempts -> Int]
    /\ leaseId \in [Attempts -> Nat]
    /\ job \in {"idle", "selected", "skipped"}
    /\ jobNow \in Int
    /\ now \in 0 .. MaxTime

RequestInit ==
    /\ operation \in Operations
    /\ status = "none"
    /\ fingerprint \in Fingerprints
    /\ requestId = 0
    /\ expires = 0
    /\ result = {}
    /\ drawn = 0
    /\ pc = [a \in Attempts |-> "idle"]
    /\ seen = [a \in Attempts |-> 0]
    /\ lease = [a \in Attempts |-> 0]
    /\ leaseId = [a \in Attempts |-> 0]
    /\ job = "idle"
    /\ jobNow = 0
    /\ now = 0

Goto(a, where) == pc' = [pc EXCEPT ![a] = where]

-----------------------------------------------------------------------------
(* claim_create_request *)

\* Mutant: a retry within one clock tick asks for the lease it replaces.
ClockLease(a) == now + InflightTimeout

\* The lease an attempt asks for.  A preparation may be retried at once, so
\* its lease must also exceed the one it replaces.
NextLease(a) ==
    LET timeout == now + InflightTimeout
    IN  IF operation = Prepare /\ status # "none" /\ expires >= timeout
          THEN expires + 1 ELSE timeout

\* _claim_from_existing
Classify(a) ==
    IF fingerprint # Fingerprint[a] THEN "key_reuse"
    ELSE IF status = "in_flight" THEN "in_progress"
    ELSE IF status = "expired" THEN "outcome_unknown"
    ELSE "replayed"

\* The first read: no row, a row to reclaim, or an answer.
ClaimRead(a) ==
    /\ pc[a] = "idle"
    /\ Goto(a, IF status = "none" THEN "insert"
               ELSE IF fingerprint = Fingerprint[a] /\ status \in Reclaimable
               THEN "reclaim" ELSE Classify(a))
    /\ seen' = [seen EXCEPT ![a] = expires]
    /\ lease' = [lease EXCEPT ![a] = NextLease(a)]
    /\ UNCHANGED <<rowVars, leaseId, jobVars, now>>

\* Mutant: the compare-and-set forgets to compare the expiry with the clock.
ReclaimAnyLease(a) ==
    /\ status \in Reclaimable
    /\ expires = seen[a]

\* The WHERE clause of the compare-and-set.
ReclaimMatches(a) ==
    /\ status \in Reclaimable
    /\ expires = seen[a]
    /\ expires <= now \/ (operation = Prepare /\ status = "expired")

ClaimReclaim(a) ==
    /\ pc[a] = "reclaim"
    /\ ReclaimMatches(a)
    /\ status' = "in_flight"
    /\ expires' = lease[a]
    /\ leaseId' = [leaseId EXCEPT ![a] = requestId]
    /\ Goto(a, "working")
    /\ UNCHANGED <<fingerprint, requestId, result, drawn, seen, lease, jobVars, now>>

\* The compare-and-set matched no row: read again and answer.
ClaimReclaimLost(a) ==
    /\ pc[a] = "reclaim"
    /\ ~ReclaimMatches(a)
    /\ Goto(a, IF status = "none" THEN "crashed" ELSE Classify(a))
    /\ UNCHANGED <<rowVars, seen, lease, leaseId, jobVars, now>>

\* A new row under a fresh broker request id.
ClaimInsert(a) ==
    /\ pc[a] = "insert"
    /\ status = "none"
    /\ status' = "in_flight"
    /\ fingerprint' = Fingerprint[a]
    /\ drawn' = drawn + 1
    /\ requestId' = drawn + 1
    /\ leaseId' = [leaseId EXCEPT ![a] = drawn + 1]
    /\ expires' = lease[a]
    /\ result' = {}
    /\ Goto(a, "working")
    /\ UNCHANGED <<seen, lease, jobVars, now>>

\* IntegrityError on the primary key: another insert won.
ClaimInsertLost(a) ==
    /\ pc[a] = "insert"
    /\ status # "none"
    /\ Goto(a, Classify(a))
    /\ UNCHANGED <<rowVars, seen, lease, leaseId, jobVars, now>>

-----------------------------------------------------------------------------
(* The end of an attempt that had the claim. *)

\* complete_create_request and fail_create_request find the row by its key
\* alone and write it whatever its lease; a row that is gone is an error.
StoreResult(a, outcome) ==
    \/ /\ status # "none"
       /\ status' = outcome
       /\ result' = {a}
       /\ expires' = now + Retention
       /\ Goto(a, "done")
       /\ UNCHANGED <<fingerprint, requestId, drawn>>
    \/ /\ status = "none"
       /\ Goto(a, "crashed")
       /\ UNCHANGED rowVars

CompleteCreateRequest(a) ==
    /\ pc[a] = "working"
    /\ StoreResult(a, "completed")
    /\ UNCHANGED <<seen, lease, leaseId, jobVars, now>>

\* The business writes were rolled back; the failure is stored.
FailCreateRequest(a) ==
    /\ pc[a] = "working"
    /\ operation # Prepare
    /\ StoreResult(a, "failed")
    /\ UNCHANGED <<seen, lease, leaseId, jobVars, now>>

\* The WHERE clause of release_session_preparation_claim.
ReleaseMatches(a) ==
    /\ status = "in_flight"
    /\ requestId = leaseId[a]
    /\ expires = lease[a]

\* release_failed_session_preparation: only this attempt's own lease.
ReleasePreparation(a) ==
    /\ pc[a] = "working"
    /\ operation = Prepare
    /\ status' = IF ReleaseMatches(a) THEN "expired" ELSE status
    /\ Goto(a, "done")
    /\ UNCHANGED <<fingerprint, requestId, expires, result, drawn, seen, lease,
                   leaseId, jobVars, now>>

\* DaemonUnavailable, WholesaleFundingUnverified, an unexpected exception or
\* a crash: the claim stays in flight until its lease runs out.
LeaveInFlight(a) ==
    /\ pc[a] = "working"
    /\ \E end \in {"unavailable", "crashed"} : Goto(a, end)
    /\ UNCHANGED <<rowVars, seen, lease, leaseId, jobVars, now>>

-----------------------------------------------------------------------------
(* expire_stale_idempotency_keys, one transaction of two statements *)

JobSelect ==
    /\ job = "idle"
    /\ jobNow' = now
    /\ job' = IF status = "in_flight" /\ expires < now THEN "selected" ELSE "skipped"
    /\ UNCHANGED <<rowVars, attemptVars, now>>

\* Mutant: a result is deleted as soon as it is stored.
RetentionOver == TRUE

\* The replay retention of a stored result has passed.
PastRetention == expires < jobNow

\* The ORM writes a selected row by its primary key; the DELETE looks again.
JobWrite ==
    /\ job # "idle"
    /\ status' = IF job = "selected" THEN "expired"
                 ELSE IF status \in Terminal /\ PastRetention THEN "none"
                 ELSE status
    /\ job' = "idle"
    /\ jobNow' = 0
    /\ UNCHANGED <<fingerprint, requestId, expires, result, drawn, attemptVars, now>>

ClockStep ==
    /\ \E d \in ClockSteps[operation] : now + d \in 0 .. MaxTime /\ now' = now + d
    /\ UNCHANGED <<rowVars, attemptVars, jobVars>>

RequestNext ==
    /\ \/ \E a \in Attempts :
            \/ ClaimRead(a)
            \/ ClaimReclaim(a)
            \/ ClaimReclaimLost(a)
            \/ ClaimInsert(a)
            \/ ClaimInsertLost(a)
            \/ CompleteCreateRequest(a)
            \/ FailCreateRequest(a)
            \/ ReleasePreparation(a)
            \/ LeaveInFlight(a)
       \/ JobSelect
       \/ JobWrite
       \/ ClockStep
    /\ UNCHANGED operation

RequestSpec == RequestInit /\ [][RequestNext]_requestVars

-----------------------------------------------------------------------------
(* Properties *)

\* An attempt that works under a lease that has not run out.
Live(a) == pc[a] = "working" /\ lease[a] > now

(***************************************************************************)
(* For a paid operation, at most one attempt at a time works under an      *)
(* unexpired lease, and the row is still its own: same fingerprint, same   *)
(* broker request id, so a concurrent attempt can neither mint under       *)
(* another identity nor take the claim over ("Concurrent recovery attempts *)
(* therefore still have one winner", docs/RELIABILITY.md), whatever        *)
(* stalled attempts and the expiry job write in between.                   *)
(***************************************************************************)
OneLiveAttempt ==
    operation # Prepare =>
      /\ \A a, b \in Attempts : Live(a) /\ Live(b) => a = b
      /\ \A a \in Attempts : Live(a) =>
           /\ status # "none"
           /\ fingerprint = Fingerprint[a]
           /\ requestId = leaseId[a]

\* A row that a slow compare-and-set may still match was not deleted yet.
PendingReclaimKeepsRow ==
    \A a \in Attempts : pc[a] = "reclaim" /\ lease[a] > now =>
        /\ status # "none"
        /\ fingerprint = Fingerprint[a]
        /\ status \in Terminal => expires >= lease[a]

(***************************************************************************)
(* Why OneLiveAttempt holds for a paid operation: no lease outlives one    *)
(* timeout, an unexpired lease is covered by the row's expiry (so neither  *)
(* a compare-and-set nor the deletion matches the row), and a pending      *)
(* compare-and-set whose lease would be live still sees the row it read.   *)
(***************************************************************************)
LeaseInv ==
    /\ RequestTypeOK
    /\ operation # Prepare
    /\ jobNow <= now
    /\ \A a \in Attempts : lease[a] <= now + InflightTimeout
    /\ \A a \in Attempts : Live(a) => expires >= lease[a]
    /\ PendingReclaimKeepsRow
    /\ OneLiveAttempt

(***************************************************************************)
(* "It never invents a replacement mint identity during recovery": a paid  *)
(* operation's key gets a second broker request id only after a stored     *)
(* result outlived its retention, so never while its first result could    *)
(* still be replayed.                                                      *)
(***************************************************************************)
IdentityIsStable ==
    [][operation # Prepare /\ drawn' = drawn + 1
       => drawn = 0 \/ (result # {} /\ expires < now)]_requestVars

\* Why IdentityIsStable holds: the row is absent only before the first claim
\* or after its result outlived the retention.
AbsentInv ==
    /\ RequestTypeOK
    /\ operation # Prepare
    /\ jobNow <= now
    /\ status \in Terminal => result # {}
    /\ status = "none" => drawn = 0 \/ (result # {} /\ expires < now)

\* An attempt that has the claim: the row carries its lease and its request id.
Holder(a) ==
    pc[a] = "working" /\ status = "in_flight" /\ expires = lease[a] /\ requestId = leaseId[a]

(***************************************************************************)
(* "Keeping the old expiry as a lower bound prevents a late failure from   *)
(* releasing a newer attempt even when retries share a clock tick or the   *)
(* clock moves backwards" (docs/RELIABILITY.md): an attempt that has the   *)
(* claim still has it after another one's release.  The code keeps this    *)
(* under any clock while the row has stored no result: complete_create_    *)
(* request moves the expiry, perhaps back, and the expiry job that read    *)
(* the row before may make it reclaimable again.                           *)
(***************************************************************************)
ReleaseLeavesNewerAttempt ==
    [][\A a, b \in Attempts :
          a # b /\ result = {} /\ Holder(a) /\ ReleasePreparation(b) => Holder(a)']_requestVars

\* An attempt that works under the row's present request id.
Current(a) == pc[a] = "working" /\ leaseId[a] = requestId

(***************************************************************************)
(* Why ReleaseLeavesNewerAttempt holds: request ids are drawn in order, a  *)
(* pending compare-and-set asks for more than the expiry it read, and so   *)
(* the leases taken under one request id are distinct and none exceeds the *)
(* row's expiry.                                                           *)
(***************************************************************************)
FenceInv ==
    /\ RequestTypeOK
    /\ operation = Prepare
    /\ requestId = drawn
    /\ \A a \in Attempts : leaseId[a] <= drawn
    /\ \A a \in Attempts : pc[a] = "reclaim" => seen[a] < lease[a]
    /\ status \in Terminal => result # {}
    /\ result = {} => /\ \A a \in Attempts : Current(a) => lease[a] <= expires
                      /\ \A a, b \in Attempts : Current(a) /\ Current(b) /\ a # b => lease[a] # lease[b]
=============================================================================
