----------------------------- MODULE SdkClient -----------------------------
(***************************************************************************)
(* The Python SDK against the clearinghouse (LOC) and a broker: the        *)
(* SessionRunner that drives one paid session (open, balance frames,       *)
(* refills, end and close) and submit_job.                                 *)
(*                                                                         *)
(* Every await is a step of its own: a call is sent, the peer handles it,  *)
(* and the reply arrives or is lost (a timeout, a reset connection).  A    *)
(* lost reply raises in the SDK whether or not the peer handled the call.  *)
(* on_balance has one caller at a time: the listener while it lives, the   *)
(* application otherwise.  close() may run at any moment, from the         *)
(* application and from a listener that ended.                             *)
(*                                                                         *)
(* LOC is here what the SDK sees of it: a refill is a create request (its  *)
(* idempotency key, the fingerprint of its body, the stored outcome), a    *)
(* close needs every revision LOC issued to be retired.  A refill commits  *)
(* before it is answered.  A close and a settled job are answered first:   *)
(* the request's session commits after the response is sent, holds the     *)
(* row's lock until then, and may fail.                                    *)
(***************************************************************************)
EXTENDS Naturals

CONSTANTS MaxUnits,          \* bound on cumulative caps and units
          Keys,              \* the idempotency keys the runner can draw, 1..n in order
          AutoClose,         \* auto_close_on_disconnect
          ExchangeAttempts,  \* lookups of a pending exchange in submit_job (8)
          SettleRetries      \* _SETTLE_MAX_RETRIES (3)

ASSUME SdkAssumption ==
    /\ MaxUnits \in Nat \ {0} /\ Keys \in Nat \ {0}
    /\ AutoClose \in BOOLEAN
    /\ ExchangeAttempts \in Nat \ {0} /\ SettleRetries \in Nat \ {0}

VARIABLES runner,    \* the SessionRunner's fields
          caller,    \* the on_balance call under way
          closer,    \* the close() calls under way
          loc,       \* LOC's session row, its idempotency rows and the customer's funds
          broker,    \* the broker's session
          job,       \* the submit_job call
          locJob,    \* LOC's job row
          exchange   \* the broker's record of the job

sessionVars == << runner, caller, closer, loc, broker >>
jobVars == << job, locJob, exchange >>
vars == << sessionVars, jobVars >>

Closers == {"application", "listener"}

NoKey == 0
NoRefill == 0
NoRow == [cap |-> 0, observed |-> 0, outcome |-> "none"]

Quiet == [at |-> "idle", cap |-> 0, observed |-> 0]

SdkInit ==
    /\ runner = [session |-> FALSE, listener |-> "none", closing |-> FALSE, settled |-> FALSE,
                 key |-> NoKey, drawn |-> 0, refill |-> NoRefill, max |-> 1]
    /\ caller = Quiet
    /\ closer = [c \in Closers |-> "idle"]
    /\ loc = [close |-> "none", max |-> 1, funds |-> 1, row |-> [k \in 1..Keys |-> NoRow]]
    /\ broker = [state |-> "none", max |-> 1, claimed |-> 0, retired |-> {}]
    /\ job = [at |-> "new", attempt |-> 0, claim |-> FALSE]
    /\ locJob = "none"
    /\ exchange = "none"

-----------------------------------------------------------------------------
(* Opening.                                                                *)

\* start(): the broker opens the session, or replays the open it recorded.
StartedBroker == [broker EXCEPT !.state = IF @ = "none" THEN "active" ELSE @]

\* The runner keeps the session before it attaches the event socket, and does
\* not attach one again: a failed attach leaves it without a listener.
Start(attached) ==
    /\ ~runner.session
    /\ broker' = StartedBroker
    /\ runner' = [runner EXCEPT !.session = TRUE, !.listener = IF attached THEN "running" ELSE @]
    /\ UNCHANGED << caller, closer, loc, jobVars >>

\* The open reached the broker and its reply was lost, or the response is not
\* one _parse_open accepts.
StartRaises ==
    /\ ~runner.session /\ broker.state = "none"
    /\ broker' = StartedBroker
    /\ UNCHANGED << runner, caller, closer, loc, jobVars >>

-----------------------------------------------------------------------------
(* on_balance.                                                             *)

\* The application approves an extension to `cap`: the frame says the runway is
\* low, the session is extensible, and the authorization, not the account, is
\* what runs out.
Extends(cap, claimed, runway) ==
    /\ runner.max - claimed <= runway
    /\ cap > runner.max

\* close() talks to the broker first.
FirstCall == "ending"

\* The key of the refill: the one an earlier call left, or a new one.
RefillKey == IF runner.key = NoKey THEN runner.drawn + 1 ELSE runner.key

CanCall == /\ runner.session /\ ~runner.settled
           /\ caller = Quiet

\* A low balance frame: replay the refill LOC already granted, or ask LOC for
\* the extension the application approves.
OnBalance(cap, runway) ==
    /\ CanCall /\ broker.state = "active"
    /\ IF runner.refill /= NoRefill
       THEN /\ runner.max - broker.claimed <= runway
            /\ caller' = [at |-> "topping", cap |-> runner.refill, observed |-> broker.claimed]
            /\ UNCHANGED runner
       ELSE /\ Extends(cap, broker.claimed, runway)
            /\ RefillKey <= Keys
            /\ caller' = [at |-> "asking", cap |-> cap, observed |-> broker.claimed]
            /\ runner' = [runner EXCEPT !.key = RefillKey,
                                        !.drawn = IF runner.key = NoKey THEN @ + 1 ELSE @]
    /\ UNCHANGED << closer, loc, broker, jobVars >>

\* POST /v1/sessions/{id}/refill at LOC.  A key that is new, or in flight with
\* the same body, is decided and its outcome kept; any other known key replays
\* its outcome to the same body and is refused to another.
Asked == [cap |-> caller.cap, observed |-> caller.observed]
Body(row) == [cap |-> row.cap, observed |-> row.observed]

\* The session row: a close that is answered and not yet committed locks it.
Locked == loc.close = "answered"
Closed == loc.close = "committed"

Refills == ~Closed /\ caller.cap > loc.max /\ caller.cap <= loc.funds

Stored(outcome) == [cap |-> caller.cap, observed |-> caller.observed, outcome |-> outcome]

Decides(row) == row = NoRow \/ (row.outcome = "in_flight" /\ Body(row) = Asked)

LocRefill ==
    /\ caller.at = "asking" /\ Decides(loc.row[runner.key]) /\ ~Locked
    /\ LET outcome == IF Refills THEN "granted" ELSE "refused"
       IN  /\ loc' = [loc EXCEPT !.max = IF Refills THEN caller.cap ELSE @,
                                 !.row[runner.key] = Stored(outcome)]
           /\ caller' = [caller EXCEPT !.at = outcome]
    /\ UNCHANGED << runner, closer, broker, jobVars >>

\* The payer or the funding gives no proof: the key stays in flight.
LocUnproven ==
    /\ caller.at = "asking" /\ Decides(loc.row[runner.key]) /\ ~Locked /\ Refills
    /\ loc' = [loc EXCEPT !.row[runner.key] = Stored("in_flight")]
    /\ caller' = [caller EXCEPT !.at = "refused"]
    /\ UNCHANGED << runner, closer, broker, jobVars >>

LocReplay ==
    LET row == loc.row[runner.key]
    IN  /\ caller.at = "asking" /\ row /= NoRow
        /\ caller' = [caller EXCEPT !.at =
                         IF row.outcome = "granted" /\ Body(row) = Asked THEN "granted" ELSE "refused"]
        /\ UNCHANGED << runner, closer, loc, broker, jobVars >>

\* Mutant: works with the new cap before the broker has admitted it.
GrantedAtOnce(r) == [r EXCEPT !.refill = caller.cap, !.max = caller.cap]

Granted(r) == [r EXCEPT !.refill = caller.cap]

\* The grant reaches the runner, which keeps it until the broker has it.
RefillGranted ==
    /\ caller.at = "granted"
    /\ runner' = Granted(runner)
    /\ caller' = [caller EXCEPT !.at = "topping"]
    /\ UNCHANGED << closer, loc, broker, jobVars >>

\* Mutant: drops the key after any error.
NewKeyAfterRefusal == NoKey

\* OpenClearinghouseError: the application is told, the call returns.
KeyAfterRefusal == runner.key

RefillRefused ==
    /\ caller.at = "refused"
    /\ runner' = [runner EXCEPT !.key = KeyAfterRefusal]
    /\ caller' = Quiet
    /\ UNCHANGED << closer, loc, broker, jobVars >>

\* _post_topup: the broker admits the successor authorization.
TopUp ==
    /\ caller.at = "topping" /\ broker.state = "active"
    /\ broker' = [broker EXCEPT !.max = IF caller.cap > @ THEN caller.cap ELSE @]
    /\ caller' = [caller EXCEPT !.at = "topped"]
    /\ UNCHANGED << runner, closer, loc, jobVars >>

\* What the runner forgets once a refill is complete.
Forgotten(r) == [r EXCEPT !.key = NoKey, !.refill = NoRefill]

\* The authorization is current: the handle takes it, the pending refill is forgotten.
RefillDone ==
    /\ caller.at = "topped"
    /\ runner' = Forgotten([runner EXCEPT !.max = caller.cap])
    /\ caller' = Quiet
    /\ UNCHANGED << closer, loc, broker, jobVars >>

\* The runner as an interrupted call may leave it: once the broker answered, the
\* handle takes the new cap before the application's callbacks run.
Interrupted == {runner} \union
               (IF caller.at = "topped" THEN {[runner EXCEPT !.max = caller.cap]} ELSE {})

\* The listener's loop ends: its finally clause closes the session when the
\* application asked for that and no close() has begun.
ListenerEnds(r) ==
    LET closes == r.listener = "running" /\ AutoClose /\ ~r.closing
    IN  /\ runner' = [r EXCEPT !.listener = IF @ = "running" THEN "dead" ELSE @,
                                    !.closing = @ \/ closes]
        /\ closer' = [closer EXCEPT !["listener"] = IF closes THEN FirstCall ELSE @]

\* A transport error, a broker refusal or a callback's error raises out of
\* on_balance, into the listener if it is the listener's call.
CallRaises ==
    /\ caller.at \in {"asking", "granted", "refused", "topping", "topped"}
    /\ caller' = Quiet
    /\ \E r \in Interrupted : ListenerEnds(r)
    /\ UNCHANGED << loc, broker, jobVars >>

\* The event socket closes between frames.
SocketCloses ==
    /\ runner.listener = "running" /\ caller = Quiet
    /\ ListenerEnds(runner)
    /\ UNCHANGED << caller, loc, broker, jobVars >>

-----------------------------------------------------------------------------
(* close.                                                                  *)

\* The application calls close(), which starts the session if it has to.
BeginClose ==
    /\ closer["application"] = "idle" /\ ~runner.settled
    /\ closer' = [closer EXCEPT !["application"] = FirstCall]
    /\ runner' = [runner EXCEPT !.closing = TRUE]
    /\ UNCHANGED << caller, loc, broker, jobVars >>

\* POST end: the broker ends the session and signs its settlement, or repeats it.
BrokerEnds(c) ==
    /\ closer[c] = "ending" /\ runner.session
    /\ broker' = [broker EXCEPT !.state = "ended"]
    /\ closer' = [closer EXCEPT ![c] = "ended"]
    /\ UNCHANGED << runner, caller, loc, jobVars >>

\* With the settlement in hand the application's close() cancels the listener,
\* in the middle of a refill or of its own close() if it is in one.  A listener
\* that closes cannot cancel itself.
CancelListener(c) ==
    /\ closer[c] = "ended"
    /\ IF c = "application" /\ runner.listener /= "none"
       THEN /\ closer' = [closer EXCEPT ![c] = "closing", !["listener"] = "idle"]
            /\ IF runner.listener = "running"
               THEN /\ \E r \in Interrupted : runner' = [r EXCEPT !.listener = "dead"]
                    /\ caller' = Quiet
               ELSE UNCHANGED << runner, caller >>
       ELSE /\ closer' = [closer EXCEPT ![c] = "closing"]
            /\ UNCHANGED << runner, caller >>
    /\ UNCHANGED << loc, broker, jobVars >>

\* POST close at LOC: every revision it granted must have been admitted by the
\* broker or retired; an exact repeat gets the recorded result.
Retired == \A k \in 1..Keys : loc.row[k].outcome = "granted" =>
              loc.row[k].cap <= broker.max \/ k \in broker.retired

LocClose(c) ==
    /\ closer[c] = "closing" /\ ~Locked
    /\ LET accepted == broker.state = "ended" /\ Retired
       IN  /\ closer' = [closer EXCEPT ![c] = IF accepted THEN "closed" ELSE "refused"]
           /\ loc' = [loc EXCEPT !.close = IF accepted /\ ~Closed THEN "answered" ELSE @]
    /\ UNCHANGED << runner, caller, broker, jobVars >>

\* The request's session commits after the answer is sent, or fails to and rolls
\* the close back.
CommitClose(ends) ==
    /\ Locked
    /\ loc' = [loc EXCEPT !.close = ends]
    /\ UNCHANGED << runner, caller, closer, broker, jobVars >>

\* Mutant: takes an error body for a settlement.
AnyAnswer == {"closed", "refused"}

\* Only a 2xx answer is a result: _unwrap raises on any other.
ResultAnswer == {"closed"}

CloseDone(c) ==
    /\ closer[c] \in ResultAnswer
    /\ runner' = [runner EXCEPT !.settled = TRUE]
    /\ closer' = [closer EXCEPT ![c] = "idle"]
    /\ UNCHANGED << caller, loc, broker, jobVars >>

\* A lost reply, a missing settlement header or a refusal raises out of close().
CloseRaises(c) ==
    /\ closer[c] /= "idle"
    /\ closer' = [closer EXCEPT ![c] = "idle"]
    /\ UNCHANGED << runner, caller, loc, broker, jobVars >>

-----------------------------------------------------------------------------
(* The customer and the broker.                                            *)

\* The customer adds funds, or a spend window moves on.
AddFunds ==
    /\ loc.funds < MaxUnits
    /\ loc' = [loc EXCEPT !.funds = @ + 1]
    /\ UNCHANGED << runner, caller, closer, broker, jobVars >>

\* The broker meters work inside the authorization it admitted.
Meter ==
    /\ broker.state = "active" /\ broker.claimed < broker.max
    /\ broker' = [broker EXCEPT !.claimed = @ + 1]
    /\ UNCHANGED << runner, caller, closer, loc, jobVars >>

\* The broker reports a revision it never admitted as unused, and LOC's
\* reconciler retires it.
Retire(k) ==
    /\ broker.state = "ended" /\ loc.row[k].outcome = "granted"
    /\ loc.row[k].cap > broker.max /\ k \notin broker.retired
    /\ broker' = [broker EXCEPT !.retired = @ \union {k}]
    /\ UNCHANGED << runner, caller, closer, loc, jobVars >>

-----------------------------------------------------------------------------
(* submit_job.                                                             *)

\* POST /v1/jobs at LOC, under the caller's request id.
OpenJob ==
    /\ job.at = "new"
    /\ locJob' = "open"
    /\ job' = [job EXCEPT !.at = "opened"]
    /\ UNCHANGED << exchange, sessionVars >>

\* POST /v1/job at the broker: the response carries the signed record, or the
\* work is answered before its debit and the record must be looked up.
CallBroker(record) ==
    /\ job.at = "opened"
    /\ exchange' = record
    /\ job' = [job EXCEPT !.at = IF record = "settled" THEN "claimed" ELSE "looking",
                          !.claim = (record = "settled"), !.attempt = 0]
    /\ UNCHANGED << locJob, sessionVars >>

\* A lookup of /v1/exchange: pending ones are repeated, up to the last attempt.
Pending == {"in_flight", "accounting_pending"}

LastAttempt(attempt) == attempt + 1 >= ExchangeAttempts

Lookup ==
    /\ job.at = "looking"
    /\ job' = CASE exchange = "settled" -> [job EXCEPT !.at = "claimed", !.claim = TRUE, !.attempt = 0]
                [] exchange \in Pending /\ ~LastAttempt(job.attempt) -> [job EXCEPT !.attempt = @ + 1]
                [] OTHER -> [job EXCEPT !.at = "raised"]
    /\ UNCHANGED << locJob, exchange, sessionVars >>

\* The settle call reaches LOC, which settles an open job and refuses any other
\* one, the job that an attempt whose answer was lost has settled included.
SettleAtLoc ==
    /\ job.at = "claimed" /\ locJob /= "answered"
    /\ locJob' = IF locJob = "open" THEN "answered" ELSE locJob
    /\ job' = [job EXCEPT !.at = IF locJob = "open" THEN "accepted" ELSE "rejected"]
    /\ UNCHANGED << exchange, sessionVars >>

\* As for a close, the commit comes after the answer and may fail.
CommitSettle ==
    /\ locJob = "answered"
    /\ locJob' \in {"settled", "open"}
    /\ UNCHANGED << job, exchange, sessionVars >>

\* LOC answers 2xx; or 4xx, which surfaces at once.
SettleAnswered ==
    /\ job.at \in {"accepted", "rejected"}
    /\ job' = [job EXCEPT !.at = IF @ = "accepted" THEN "returned" ELSE "raised"]
    /\ UNCHANGED << locJob, exchange, sessionVars >>

\* Mutant: does not count the attempts.
SameAttempt(attempt) == attempt

\* _post_with_retry: a transport error, a 5xx or a 429 before or after LOC acted.
NextAttempt(attempt) == attempt + 1

GivesUp(attempt) == attempt + 1 >= SettleRetries

SettleFails ==
    /\ job.at \in {"claimed", "accepted", "rejected"}
    /\ job' = IF GivesUp(job.attempt) THEN [job EXCEPT !.at = "raised"]
              ELSE [job EXCEPT !.at = "claimed", !.attempt = NextAttempt(@)]
    /\ UNCHANGED << locJob, exchange, sessionVars >>

\* Opening or calling the broker fails; the calls are not retried.
JobRaises ==
    /\ job.at \in {"new", "opened", "looking"}
    /\ job' = [job EXCEPT !.at = "raised"]
    /\ \/ UNCHANGED << locJob, exchange >>
       \/ job.at = "new" /\ locJob' = "open" /\ UNCHANGED exchange
       \/ job.at = "opened" /\ exchange' = "in_flight" /\ UNCHANGED locJob
    /\ UNCHANGED sessionVars

\* The broker finishes the work and signs its record; it may refuse it instead.
BrokerSettles ==
    /\ exchange \in Pending
    /\ exchange' \in {"accounting_pending", "settled", "not_admitted"} \ {exchange}
    /\ UNCHANGED << job, locJob, sessionVars >>

\* LOC's reconciler asks the broker itself and closes the job.
ReconcileJob ==
    /\ locJob = "open" /\ exchange \in {"settled", "not_admitted"}
    /\ locJob' = IF exchange = "settled" THEN "settled" ELSE "released"
    /\ UNCHANGED << job, exchange, sessionVars >>

-----------------------------------------------------------------------------
SessionNext ==
    \/ \E attached \in BOOLEAN : Start(attached)
    \/ StartRaises
    \/ \E cap \in 1..MaxUnits, runway \in 0..MaxUnits : OnBalance(cap, runway)
    \/ LocRefill \/ LocUnproven \/ LocReplay \/ RefillGranted \/ RefillRefused \/ TopUp \/ RefillDone \/ CallRaises
    \/ SocketCloses
    \/ BeginClose
    \/ \E c \in Closers : BrokerEnds(c) \/ CancelListener(c) \/ LocClose(c) \/ CloseDone(c)
                           \/ CloseRaises(c)
    \/ \E ends \in {"committed", "lost"} : CommitClose(ends)
    \/ AddFunds \/ Meter \/ \E k \in 1..Keys : Retire(k)

SubmitStep ==
    \/ OpenJob \/ Lookup \/ SettleAtLoc \/ SettleAnswered \/ SettleFails \/ JobRaises
    \/ \E record \in Pending \union {"settled", "not_admitted"} : CallBroker(record)

JobNext == SubmitStep \/ CommitSettle \/ BrokerSettles \/ ReconcileJob

SdkNext == SessionNext \/ JobNext

\* The event loop runs submit_job on; nothing else is promised.
SdkSpec == SdkInit /\ [][SdkNext]_vars /\ WF_vars(SubmitStep)

-----------------------------------------------------------------------------
(* Properties.                                                             *)

\* The cap the runner works with is one the broker admitted, and the broker
\* never admits more than LOC granted, whatever replies of the refill's two hops
\* are lost: a runner ahead of the broker would not ask in time, a broker ahead
\* of LOC would meter work nobody set money aside for.
CapsAgree == runner.max <= broker.max /\ broker.max <= loc.max

\* At most one revision LOC granted is unknown to the broker and still usable,
\* and it belongs to the refill key the runner holds: a lost reply never leaves
\* a grant behind that the runner has forgotten (_refill keeps the key until the
\* broker has the successor).
NoGrantForgotten ==
    \A k \in 1..Keys :
        loc.row[k].outcome = "granted" /\ loc.row[k].cap > broker.max => k = runner.key

\* A settled runner means that the broker has ended the session, that LOC has
\* handled its close, and that no granted revision can be used any more, unless
\* LOC lost the close after it answered: the runner keeps the answer and never
\* closes again, so only then may LOC refill a session whose runner is settled.
\* Application and listener may close at the same time, and a refill may be
\* under way or cancelled midway.
SettledIsOver ==
    runner.settled => /\ broker.state = "ended"
                      /\ loc.close /= "none"
                      /\ loc.close /= "lost" => Retired

\* Every submit_job call returns a result or raises: the lookups of a pending
\* exchange and the retries of the settle call are bounded.
SubmitEnds == [](job.at = "opened" => <>(job.at \in {"returned", "raised"}))
=============================================================================
