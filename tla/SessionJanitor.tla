--------------------------- MODULE SessionJanitor ---------------------------
(***************************************************************************)
(* The periodic session reconciler: _reconcile_open_sessions in main.py,   *)
(* which runs three functions of domains/sessions/service.py on one        *)
(* database session.  Engagement says what those functions do to one row;  *)
(* this module is about the transaction they share, the row locks it keeps *)
(* and the requests that run between its statements.                       *)
(*                                                                         *)
(* A pass visits the active authorizations, then the open sessions, then   *)
(* the stale claims.  tx holds the rows the pass has locked, as the pass   *)
(* sees them; nothing else sees them before a commit.                      *)
(***************************************************************************)
EXTENDS Integers, FiniteSets, TLC

CONSTANT Sessions

VARIABLES
    db,          \* the committed payment_session rows and their grants
    tx,          \* locked rows, as the open transaction has changed them
    phase,       \* the function the pass is in, or "idle"
    todo,        \* the rows its SELECT returned and it has not visited
    broker       \* the receiver's record of the session

janitorVars == <<db, tx, phase, todo, broker>>

\* A row: state "claimed" is an open row without authorization_id, "released"
\* one closed as NOT_ADMITTED; grant is the current authorization, next its
\* successor, block whether breakdown holds a settlement_block.
NewClaim == [state |-> "claimed", grant |-> "none", next |-> "none", block |-> FALSE]
NewSession == [state |-> "open", grant |-> "issued", next |-> "none", block |-> FALSE]

NoLocks == [s \in {} |-> NewClaim]

\* What the receiver holds for the work: "running", "outcome_unknown",
\* "settled" (a terminal record that verifies) or "invalid" (one that does not).
NoRecord == [work |-> "running", next |-> "running"]

JanitorInit ==
    /\ db \in [Sessions -> {NewClaim, NewSession}]
    /\ tx = NoLocks
    /\ phase = "idle"
    /\ todo = {}
    /\ broker = [s \in Sessions |-> NoRecord]

\* The row as the pass reads it.
View(s) == IF s \in DOMAIN tx THEN tx[s] ELSE db[s]

\* Lock the row and keep what the transaction makes of it.
Write(s, row) == tx' = (s :> row) @@ tx

Locked(s) == s \in DOMAIN tx

-----------------------------------------------------------------------------
(* A pass *)

ActiveGrants(row) == row.grant \in {"issued", "outcome_unknown"} \/ row.next = "issued"

BeginPass ==
    /\ phase = "idle"
    /\ phase' = "authorizations"
    /\ todo' = {s \in Sessions : ActiveGrants(db[s])}
    /\ UNCHANGED <<db, tx, broker>>

\* reconcile_spend_authorization_states applies what the receiver answers;
\* an admitted authorization is not told from an issued one here.
Observe(row, record) ==
    [row EXCEPT
       !.grant = IF @ = "issued" /\ record.work = "outcome_unknown" THEN "outcome_unknown"
                 ELSE IF @ \in {"issued", "outcome_unknown"} /\ record.work = "settled"
                 THEN "settled" ELSE @,
       !.next = IF @ = "issued" /\ record.next = "canceled_unused"
                THEN "canceled_unused" ELSE @]

ReconcileAuthorization(s) ==
    /\ phase = "authorizations"
    /\ s \in todo
    /\ Write(s, Observe(View(s), broker[s]))
    /\ todo' = todo \ {s}
    /\ UNCHANGED <<db, phase, broker>>

\* BrokerWholesaleAccountError: the row is locked and left as it is.
AuthorizationUnanswered(s) ==
    /\ phase = "authorizations"
    /\ s \in todo
    /\ Write(s, View(s))
    /\ todo' = todo \ {s}
    /\ UNCHANGED <<db, phase, broker>>

StartSessions ==
    /\ phase = "authorizations"
    /\ todo = {}
    /\ phase' = "sessions"
    /\ todo' = {s \in Sessions : View(s).state \in {"claimed", "open"}}
    /\ UNCHANGED <<db, tx, broker>>

\* The query failed, or the broker has no record that is news to the row
\* (mark_polled still writes it).
PollSession(s) ==
    /\ phase = "sessions"
    /\ s \in todo
    /\ \/ UNCHANGED tx
       \/ /\ broker[s].work # "settled"
          /\ broker[s].work = "invalid" => View(s).block
          /\ Write(s, View(s))
    /\ todo' = todo \ {s}
    /\ UNCHANGED <<db, phase, broker>>

\* The record fails verification: keep a settlement_block in the row.  (The
\* event that reports it is written through a database session of its own.)
BlockSession(s) ==
    /\ phase = "sessions"
    /\ s \in todo
    /\ broker[s].work = "invalid"
    /\ ~View(s).block
    /\ Write(s, [View(s) EXCEPT !.block = TRUE])
    /\ todo' = todo \ {s}
    /\ UNCHANGED <<db, phase, broker>>

\* Errors of close_session that the pass swallows: the record's successor is
\* not retired yet (successor_authorization_unresolved).
SuccessorUnresolved(row) == row.next = "issued"

\* Mutant: an unresolved successor leaves the pass as well.
ConflictOrUnresolved(row) == row.grant \notin {"issued", "settled"} \/ row.next = "issued"

\* Any other error of close_session leaves the pass: the settled grant is in
\* a state that mark_spend_authorization_settled refuses.
CloseConflict(row) == row.next # "issued" /\ row.grant \notin {"issued", "settled"}

\* A verified terminal record: close_session in the pass's transaction.
FinalizeSession(s) ==
    /\ phase = "sessions"
    /\ s \in todo
    /\ broker[s].work = "settled"
    /\ View(s).state = "open" => ~CloseConflict(View(s))
    /\ Write(s, IF View(s).state # "open" \/ SuccessorUnresolved(View(s)) THEN View(s)
                ELSE [View(s) EXCEPT !.state = "closed", !.grant = "settled",
                                     !.block = FALSE])
    /\ todo' = todo \ {s}
    /\ UNCHANGED <<db, phase, broker>>

\* The exception unwinds session_scope, which rolls back.
AbortPass(s) ==
    /\ phase = "sessions"
    /\ s \in todo
    /\ broker[s].work = "settled"
    /\ View(s).state = "open"
    /\ CloseConflict(View(s))
    /\ phase' = "idle"
    /\ todo' = {}
    /\ tx' = NoLocks
    /\ UNCHANGED <<db, broker>>

\* release_stale_unauthorized_engagements selects its candidates and then
\* calls db.rollback() on the database session it was given.
StartStale ==
    /\ phase = "sessions"
    /\ todo = {}
    /\ phase' = "stale"
    /\ todo' = {s \in Sessions : View(s).state = "claimed"}
    /\ tx' = NoLocks
    /\ UNCHANGED <<db, broker>>

\* Mutant: trusts the candidate list.
StillStale(s) == TRUE

\* release_unauthorized_engagement looks at the row again under its lock.
StillUnauthorized(s) == db[s].state = "claimed"

\* One candidate, committed on its own.
ReleaseCandidate(s) ==
    /\ phase = "stale"
    /\ s \in todo
    /\ db' = IF StillUnauthorized(s) THEN [db EXCEPT ![s].state = "released"] ELSE db
    /\ todo' = todo \ {s}
    /\ UNCHANGED <<tx, phase, broker>>

\* session_scope commits what the transaction still holds.
EndPass ==
    /\ phase = "stale"
    /\ todo = {}
    /\ phase' = "idle"
    /\ db' = [s \in Sessions |-> View(s)]
    /\ tx' = NoLocks
    /\ UNCHANGED <<todo, broker>>

Pass ==
    \/ BeginPass
    \/ StartSessions
    \/ StartStale
    \/ EndPass
    \/ \E s \in Sessions :
         \/ ReconcileAuthorization(s)
         \/ AuthorizationUnanswered(s)
         \/ PollSession(s)
         \/ BlockSession(s)
         \/ FinalizeSession(s)
         \/ AbortPass(s)
         \/ ReleaseCandidate(s)

-----------------------------------------------------------------------------
(* Everybody else; a request waits for the row locks of the pass. *)

\* record_spend_authorization_grant of a slow open request.
GrantClaim(s) ==
    /\ ~Locked(s)
    /\ db[s].state = "claimed"
    /\ db' = [db EXCEPT ![s] = NewSession]
    /\ UNCHANGED <<tx, phase, todo, broker>>

\* refill_session commits a successor authorization.
Refill(s) ==
    /\ ~Locked(s)
    /\ db[s].state = "open"
    /\ db[s].next = "none"
    /\ db' = [db EXCEPT ![s].next = "issued"]
    /\ UNCHANGED <<tx, phase, todo, broker>>

\* close_session called by the SDK with the broker's record.
SdkClose(s) ==
    /\ ~Locked(s)
    /\ db[s].state = "open"
    /\ broker[s].work = "settled"
    /\ ~SuccessorUnresolved(db[s])
    /\ db[s].grant \in {"issued", "settled"}
    /\ db' = [db EXCEPT ![s].state = "closed", ![s].grant = "settled", ![s].block = FALSE]
    /\ UNCHANGED <<tx, phase, todo, broker>>

\* The broker is external: the work ends, perhaps after an unknown outcome,
\* and a successor it never used is cancelled.
BrokerRecords(s) ==
    /\ db[s].state = "open"
    /\ \/ /\ broker[s].work = "running"
          /\ \E record \in {"outcome_unknown", "settled", "invalid"} :
               broker' = [broker EXCEPT ![s].work = record]
       \/ /\ broker[s].work = "outcome_unknown"
          /\ broker' = [broker EXCEPT ![s].work = "settled"]
       \/ /\ broker[s].next = "running"
          /\ db[s].next = "issued"
          /\ broker' = [broker EXCEPT ![s].next = "canceled_unused"]
    /\ UNCHANGED <<db, tx, phase, todo>>

JanitorNext ==
    \/ Pass
    \/ \E s \in Sessions :
         GrantClaim(s) \/ Refill(s) \/ SdkClose(s) \/ BrokerRecords(s)

JanitorSpec == JanitorInit /\ [][JanitorNext]_janitorVars

(***************************************************************************)
(* The scheduler runs the job every interval (register_interval_job), so a *)
(* pass always goes on, and a broker that is asked again and again answers *)
(* again and again.  Nothing obliges the SDK or the broker to act.         *)
(***************************************************************************)
JanitorFairness ==
    /\ WF_janitorVars(Pass)
    /\ \A s \in Sessions :
         SF_janitorVars(ReconcileAuthorization(s)) /\ SF_janitorVars(FinalizeSession(s))

FairJanitorSpec == JanitorSpec /\ JanitorFairness

-----------------------------------------------------------------------------
(* Properties *)

(***************************************************************************)
(* A claim whose request died before it was authorized is released, or     *)
(* authorized after all, whatever happens to the sessions a pass visits    *)
(* first: unresolved successors, invalid records, conflicts and silent     *)
(* brokers do not keep a pass from its last function for ever              *)
(* ("The session reconciler releases the claim", docs/RELIABILITY.md).     *)
(***************************************************************************)
DeadClaimReleased ==
    \A s \in Sessions : db[s].state = "claimed" ~> db[s].state # "claimed"

(***************************************************************************)
(* An authorization that commits after the pass chose its candidates wins: *)
(* an authorized session is never released as NOT_ADMITTED, and a closed   *)
(* or released row never changes again, however the pass, its rollback and *)
(* the requests interleave.                                                *)
(***************************************************************************)
AuthorizedNeverReleased ==
    [][\A s \in Sessions :
          /\ db[s].state = "open" => db'[s].state # "released"
          /\ db[s].state \in {"closed", "released"} => db'[s] = db[s]]_janitorVars

-----------------------------------------------------------------------------
(* Statements of the repository that the code does not keep. *)

(***************************************************************************)
(* reconcile_open_sessions: "Finalize silent sessions from broker-signed   *)
(* terminal settlements."  An open session whose terminal record verifies  *)
(* and whose successors the broker retired does not stay open for ever.    *)
(***************************************************************************)
Finalizable(s) ==
    /\ db[s].state = "open"
    /\ broker[s].work = "settled"
    /\ db[s].next = "issued" => broker[s].next = "canceled_unused"

SilentSessionFinalized ==
    \A s \in Sessions : []<>~Finalizable(s)
=============================================================================
