----------------------------- MODULE Reporting -----------------------------
(***************************************************************************)
(* Telemetry and notifications of one customer and one API key: the SDK's  *)
(* emitter, the ingest endpoint with its failure alert, the refusal path   *)
(* of a mint, the fan-out to banner, mail and webhook, and the mail        *)
(* provider's callbacks.                                                   *)
(*                                                                         *)
(* A request is the list of the steps it has still to take.  It holds one  *)
(* database connection from its first step to its last, and a step that    *)
(* writes through an independent session takes a second one: a request     *)
(* that finds the pool empty waits until the pool's timeout.  Every event  *)
(* of a batch is a valid session.error, the type that the alert counts; a  *)
(* callback has a good signature, since any other changes nothing.         *)
(* Validating the key stamps its row, so a batch holds the lock of that    *)
(* row from its first query to its commit, which comes after the answer.   *)
(***************************************************************************)
EXTENDS Integers, Sequences, FiniteSets, Functions

CONSTANTS Requests,        \* slots for requests in flight
          Connections,     \* size of the pool (pool_size + max_overflow)
          Threshold,       \* _SESSION_FAILURE_THRESHOLD (3)
          Window,          \* _SESSION_FAILURE_WINDOW_HOURS (1)
          Retention,       \* telemetry_retention_days
          BufferCap,       \* the emitter's buffer
          MaxBatch,        \* MAX_BATCH_SIZE of an ingest request
          FlushRetries,    \* the emitter's max_retries (3)
          WebhookRetries,  \* webhook_send_max_retries
          Editable,        \* the preferences the customer edits
          MaxMails,        \* bound: mails sent
          MaxArrivals,     \* bound: requests that arrive
          MaxTime,         \* bound on the clock
          MaxRestarts      \* bound on process restarts

ASSUME ReportingAssumption ==
    /\ IsFiniteSet(Requests)
    /\ {Connections, Threshold, Window, Retention, BufferCap, MaxBatch,
        FlushRetries, WebhookRetries} \subseteq Nat \ {0}
    /\ Editable \subseteq {"cap_reached", "session_failed"} \X {"portal", "email", "webhook"}
    /\ {MaxMails, MaxArrivals, MaxTime, MaxRestarts} \subseteq Nat

VARIABLES emitter,   \* the SDK's TelemetryEmitter
          request,   \* the requests in flight
          errors,    \* committed session.error rows by time of receipt
          refusals,  \* server.mint_refused: raised, committed by time, only logged, purged
          lastFired, \* _session_failed_last_fired of the key (in process)
          alerts,    \* the alerts in the order they started, with the process life
          banners,   \* active portal_notification rows
          mails,     \* email_send rows by provider message, and the messages sent
          callbacks, \* committed email_event rows
          prefs,     \* the (trigger, channel) pairs that are enabled
          now, arrivals, life

rowVars == << errors, refusals, banners, mails, callbacks >>
clockVars == << now, arrivals, life >>
reportVars == << emitter, request, lastFired, alerts, prefs, rowVars, clockVars >>

Never == MaxTime + 1
Kinds == {"delivered", "bounced", "opened"}
Callbacks == (1..MaxMails) \X Kinds
NoCallback == <<0, "none">>
Defaults == {<<"cap_reached", "portal">>, <<"cap_reached", "email">>,
             <<"session_failed", "email">>}

Idle == [kind |-> "none", todo |-> <<>>, begun |-> FALSE, extra |-> FALSE, batch |-> 0,
         stamp |-> 0, asked |-> 0, seen |-> 0, aborted |-> FALSE,
         callback |-> NoCallback, message |-> 0, known |-> "none", tries |-> 0]

Resting == [buffer |-> 0, batch |-> 0, attempt |-> 0, at |-> "idle", on |-> "none",
            closed |-> "no"]

ReportingInitWith(enabled) ==
    /\ emitter = Resting
    /\ request = [r \in Requests |-> Idle]
    /\ errors = [t \in 0..MaxTime |-> 0]
    /\ refusals = [raised |-> 0, rows |-> [t \in 0..MaxTime |-> 0], logged |-> 0, purged |-> 0]
    /\ lastFired = Never /\ alerts = <<>>
    /\ banners = 0
    /\ mails = [sent |-> 0, row |-> [i \in 1..MaxMails |-> "none"]]
    /\ callbacks = {}
    /\ prefs = enabled
    /\ now = 0 /\ arrivals = 0 /\ life = 0

ReportingInit == ReportingInitWith(Defaults)

-----------------------------------------------------------------------------
(* Requests and the connection pool.                                       *)

Next1(r) == Head(request[r].todo)
Todo(r, step) == request[r].todo /= <<>> /\ request[r].begun /\ Next1(r) = step
Then(q) == [q EXCEPT !.todo = Tail(@)]

InUse == Cardinality({r \in Requests : request[r].begun})
         + Cardinality({r \in Requests : request[r].extra})
Free == InUse < Connections

\* The plan of each kind of request.
Plan(kind) ==
    CASE kind = "ingest" -> <<"flush", "count", "decide", "commit">>
      [] kind = "refusal" -> <<"event", "notify", "notify", "raise">>
      [] kind = "callback" -> <<"lookup", "apply">>

Arrive(r, kind, batch, callback) ==
    /\ request[r] = Idle /\ arrivals < MaxArrivals
    /\ arrivals' = arrivals + 1
    /\ request' = [request EXCEPT ![r] =
                     [Idle EXCEPT !.kind = kind, !.todo = Plan(kind), !.batch = batch,
                                  !.callback = callback]]
    /\ UNCHANGED << now, life >>

\* The request's own connection, and the one of an independent session.
Begin(r) ==
    /\ request[r].todo /= <<>> /\ ~request[r].begun /\ Free
    /\ request' = [request EXCEPT ![r].begun = TRUE]
    /\ UNCHANGED << emitter, lastFired, alerts, prefs, rowVars, clockVars >>

Independent == {"event", "portal", "record"}

OpenIndependent(r) ==
    /\ \E step \in Independent : Todo(r, step)
    /\ ~request[r].extra /\ Free
    /\ request' = [request EXCEPT ![r].extra = TRUE]
    /\ UNCHANGED << emitter, lastFired, alerts, prefs, rowVars, clockVars >>

\* Mutant: a pool without a timeout.
WaitsForever(r) == FALSE

\* The pool's timeout, which a wait for a connection always ends with.
WaitTimesOut(r) == ~Free

-----------------------------------------------------------------------------
(* The emitter.                                                            *)

Rest(e) == [e EXCEPT !.at = "idle", !.batch = 0, !.attempt = 0, !.on = "none"]

\* A retry of a batch, or the end of it after the last attempt.
Retried(e) == IF e.attempt < FlushRetries
              THEN [e EXCEPT !.at = "sending", !.attempt = @ + 1, !.on = "none"]
              ELSE Rest(e)

\* A full buffer loses its oldest event.
Emit ==
    /\ emitter.closed = "no"
    /\ emitter' = [emitter EXCEPT !.buffer = IF @ = BufferCap THEN @ ELSE @ + 1]
    /\ UNCHANGED << request, lastFired, alerts, prefs, rowVars, clockVars >>

\* _flush_once takes the whole buffer.
FlushOnce ==
    /\ emitter.at = "idle" /\ emitter.buffer > 0
    /\ emitter' = [emitter EXCEPT !.batch = emitter.buffer, !.buffer = 0, !.at = "sending",
                                  !.attempt = 1]
    /\ UNCHANGED << request, lastFired, alerts, prefs, rowVars, clockVars >>

\* aclose lets the flush in flight end, or gives it up after its timeout; what
\* is still buffered is flushed once more.
AClose ==
    /\ \/ emitter.closed = "no" /\ emitter' = [emitter EXCEPT !.closed = "closing"]
       \/ /\ emitter.closed = "closing" /\ emitter.at /= "idle"
          /\ emitter' = [Rest(emitter) EXCEPT !.closed = "final"]
    /\ UNCHANGED << request, lastFired, alerts, prefs, rowVars, clockVars >>

Send(r) ==
    /\ emitter.at = "sending"
    /\ Arrive(r, "ingest", emitter.batch, NoCallback)
    /\ emitter' = [emitter EXCEPT !.at = "waiting", !.on = r]
    /\ UNCHANGED << lastFired, alerts, prefs, rowVars >>

\* The connection fails or times out, before LOC has the batch or after.
SendFails ==
    /\ emitter.at \in {"sending", "waiting"}
    /\ emitter' = Retried(emitter)
    /\ UNCHANGED << request, lastFired, alerts, prefs, rowVars, clockVars >>

\* The answer to r: 5xx and 429 are retried, every other one ends the batch.
Answer(r, retry) ==
    emitter' = IF emitter.at /= "waiting" \/ emitter.on /= r THEN emitter
               ELSE IF retry THEN Retried(emitter)
               ELSE Rest(emitter)

End(r, retry) == request' = [request EXCEPT ![r] = Idle] /\ Answer(r, retry)

-----------------------------------------------------------------------------
(* The ingest endpoint and the failure alert.                              *)

Flushed(r) == request[r].kind = "ingest" /\ request[r].begun /\ ~Todo(r, "flush")

\* Another batch has stamped the key's row and not committed.
KeyLocked(r) == \E o \in Requests \ {r} : Flushed(o)

\* Rate limit, decided before the key's row is stamped, or oversized batch,
\* decided after: nothing is stored.
Refuse(r) ==
    /\ Todo(r, "flush")
    /\ \E limited \in BOOLEAN : /\ limited \/ (request[r].batch > MaxBatch /\ ~KeyLocked(r))
                                /\ End(r, limited)
    /\ UNCHANGED << lastFired, alerts, prefs, rowVars, clockVars >>

\* Mutant: the batch does not wait for the one before it.
FlushBeside(r) ==
    /\ Todo(r, "flush") /\ request[r].batch <= MaxBatch
    /\ request' = [request EXCEPT ![r] = [Then(@) EXCEPT !.stamp = now]]
    /\ UNCHANGED << emitter, lastFired, alerts, prefs, rowVars, clockVars >>

\* The first query stamps the key's row and waits for its lock; then
\* ingest_batch puts the rows in the transaction, stamped with this instant.
Flush(r) ==
    /\ Todo(r, "flush") /\ request[r].batch <= MaxBatch /\ ~KeyLocked(r)
    /\ request' = [request EXCEPT ![r] = [Then(@) EXCEPT !.stamp = now]]
    /\ UNCHANGED << emitter, lastFired, alerts, prefs, rowVars, clockVars >>

\* The window that ends at an instant, and the committed errors of the one that ends now.
InWindow(instant) == {t \in 0..instant : t + Window >= instant}
Recent == SumFunctionOnSet(errors, InWindow(now))

\* The clock is read, then the rows this transaction sees are counted.
Count(r) ==
    /\ Todo(r, "count")
    /\ request' = [request EXCEPT ![r] = [Then(request[r]) EXCEPT
                       !.seen = Recent + IF request[r].stamp + Window >= now
                                         THEN request[r].batch ELSE 0,
                       !.asked = now]]
    /\ UNCHANGED << emitter, lastFired, alerts, prefs, rowVars, clockVars >>

\* Mutant: suppresses one instant too long.
SuppressedAtEdge(r) == lastFired /= Never /\ request[r].asked <= lastFired + Window

Suppressed(r) == lastFired /= Never /\ request[r].asked < lastFired + Window

\* The dedupe mark is set before the notification is awaited.
Mark(r) == request[r].asked

Decide(r) ==
    /\ Todo(r, "decide")
    /\ IF request[r].seen >= Threshold /\ ~Suppressed(r)
       THEN /\ lastFired' = Mark(r)
            /\ alerts' = Append(alerts, [at |-> request[r].asked, life |-> life])
            /\ request' = [request EXCEPT ![r].todo = <<"notify">> \o Tail(@)]
       ELSE /\ request' = [request EXCEPT ![r] = Then(@)]
            /\ UNCHANGED << lastFired, alerts >>
    /\ UNCHANGED << emitter, prefs, rowVars, clockVars >>

\* A query that fails in the evaluation is swallowed, but it has aborted the
\* transaction.
EvaluationFails(r) ==
    /\ request[r].kind = "ingest" /\ (Todo(r, "count") \/ Todo(r, "notify"))
    /\ request' = [request EXCEPT ![r].todo = <<"commit">>, ![r].aborted = TRUE]
    /\ UNCHANGED << emitter, lastFired, alerts, prefs, rowVars, clockVars >>

\* The endpoint's answer is sent before the request's session commits.  An
\* answer that is lost or late is the emitter's SendFails.
Awaited(r) == emitter.at = "waiting" /\ emitter.on = r

Respond(r) ==
    /\ Todo(r, "commit") /\ Awaited(r)
    /\ Answer(r, FALSE)
    /\ UNCHANGED << request, lastFired, alerts, prefs, rowVars, clockVars >>

\* The commit of an aborted transaction stores nothing and raises nothing.
CommitIngest(r) ==
    /\ Todo(r, "commit") /\ ~Awaited(r)
    /\ errors' = IF request[r].aborted THEN errors
                 ELSE [errors EXCEPT ![request[r].stamp] = @ + request[r].batch]
    /\ End(r, FALSE)
    /\ UNCHANGED << lastFired, alerts, prefs, refusals, banners, mails, callbacks, clockVars >>

-----------------------------------------------------------------------------
(* Refusals and the fan-out.                                               *)

\* A mint over the balance or the cap: the request will roll back.
RefuseMint(r) ==
    /\ Arrive(r, "refusal", 0, NoCallback)
    /\ UNCHANGED << emitter, lastFired, alerts, prefs, rowVars >>

\* Mutant: writes the row in the request that is about to roll back.
RowInRequest == 0

\* _safe_emit_independent commits the row in a session of its own.
RowOfRefusal == 1

StoreEvent(r) ==
    /\ Todo(r, "event") /\ request[r].extra
    /\ refusals' = [refusals EXCEPT !.rows[now] = @ + RowOfRefusal]
    /\ request' = [request EXCEPT ![r] = [Then(@) EXCEPT !.extra = FALSE]]
    /\ UNCHANGED << emitter, lastFired, alerts, prefs, errors, banners, mails, callbacks, clockVars >>

\* A step that fails is logged and skipped: no connection, or an error of the
\* database, the provider or the receiver.
StepFails(r) ==
    /\ \/ \E step \in Independent : Todo(r, step) /\ (request[r].extra \/ WaitTimesOut(r))
       \/ Todo(r, "email") \/ (Todo(r, "notify") /\ request[r].kind = "refusal")
       \/ Todo(r, "webhook") /\ request[r].tries = WebhookRetries
    /\ refusals' = [refusals EXCEPT !.logged = IF Todo(r, "event") THEN @ + 1 ELSE @]
    /\ request' = [request EXCEPT ![r] = [Then(@) EXCEPT !.extra = FALSE, !.tries = 0]]
    /\ UNCHANGED << emitter, lastFired, alerts, prefs, errors, banners, mails, callbacks, clockVars >>

Trigger(r) == IF request[r].kind = "ingest" THEN "session_failed" ELSE "cap_reached"

\* The channel, if the customer has it on for the trigger.
Channel(r, channel) == IF <<Trigger(r), channel>> \in prefs THEN <<channel>> ELSE <<>>

\* _notify_trigger reads the preferences once and takes the channels in order.
Notify(r) ==
    /\ Todo(r, "notify")
    /\ request' = [request EXCEPT ![r].todo =
                      Channel(r, "portal") \o Channel(r, "email") \o Channel(r, "webhook") \o Tail(@)]
    /\ UNCHANGED << emitter, lastFired, alerts, prefs, rowVars, clockVars >>

FireInPortal(r) ==
    /\ Todo(r, "portal") /\ request[r].extra
    /\ banners' = banners + 1
    /\ request' = [request EXCEPT ![r] = [Then(@) EXCEPT !.extra = FALSE]]
    /\ UNCHANGED << emitter, lastFired, alerts, prefs, errors, refusals, mails, callbacks, clockVars >>

\* The provider takes the mail; the send is recorded afterwards, unless the
\* provider's answer is lost.
FireEmail(r) ==
    /\ Todo(r, "email") /\ mails.sent < MaxMails
    /\ mails' = [mails EXCEPT !.sent = @ + 1]
    /\ \/ request' = [request EXCEPT ![r].todo = <<"record">> \o Tail(@), ![r].message = mails.sent + 1]
       \/ request' = [request EXCEPT ![r] = Then(@)]
    /\ UNCHANGED << emitter, lastFired, alerts, prefs, errors, refusals, banners, callbacks, clockVars >>

RecordEmailSend(r) ==
    /\ Todo(r, "record") /\ request[r].extra
    /\ mails' = [mails EXCEPT !.row[request[r].message] = "sent"]
    /\ request' = [request EXCEPT ![r] = [Then(@) EXCEPT !.extra = FALSE, !.message = 0]]
    /\ UNCHANGED << emitter, lastFired, alerts, prefs, errors, refusals, banners, callbacks, clockVars >>

\* send_webhook: an answer ends it, an error is tried again.
FireWebhook(r) ==
    /\ Todo(r, "webhook") /\ request[r].tries < WebhookRetries
    /\ \/ request' = [request EXCEPT ![r] = [Then(@) EXCEPT !.tries = 0]]
       \/ request' = [request EXCEPT ![r].tries = @ + 1]
    /\ UNCHANGED << emitter, lastFired, alerts, prefs, rowVars, clockVars >>

\* The webhook's address is read in the request's own session: a failure is
\* logged and skipped as well, and has aborted the request's transaction.
WebhookLookupFails(r) ==
    /\ Todo(r, "webhook") /\ request[r].tries = 0
    /\ request' = [request EXCEPT ![r] = [Then(@) EXCEPT !.aborted = TRUE]]
    /\ UNCHANGED << emitter, lastFired, alerts, prefs, rowVars, clockVars >>

\* The refusal's exception rolls the request back; what independent sessions
\* committed stays.
Raise(r) ==
    /\ Todo(r, "raise")
    /\ refusals' = [refusals EXCEPT !.raised = @ + 1]
    /\ End(r, FALSE)
    /\ UNCHANGED << lastFired, alerts, prefs, errors, banners, mails, callbacks, clockVars >>

\* The database fails under a request, or no connection is to be had.
RequestFails(r) ==
    /\ \/ \E step \in {"flush", "count", "lookup", "apply"} : Todo(r, step)
       \/ Todo(r, "commit") /\ ~Awaited(r)
       \/ request[r].todo /= <<>> /\ ~request[r].begun /\ WaitTimesOut(r)
    /\ End(r, TRUE)
    /\ UNCHANGED << lastFired, alerts, prefs, rowVars, clockVars >>

-----------------------------------------------------------------------------
(* The mail provider's callbacks: at least once, in any order.             *)

\* The status an event gives to the send it belongs to, if it was found.
StatusFor(kind, old) == IF old /= "none" /\ kind \in {"delivered", "bounced"} THEN kind ELSE old

DeliverCallback(r, c) ==
    /\ c[1] <= mails.sent
    /\ Arrive(r, "callback", 0, c)
    /\ UNCHANGED << emitter, lastFired, alerts, prefs, rowVars >>

\* ingest_event looks for the event, then for the send it belongs to.
LookupEvent(r) ==
    LET c == request[r].callback
    IN  /\ Todo(r, "lookup")
        /\ IF c \in callbacks THEN End(r, FALSE)
           ELSE /\ request' = [request EXCEPT ![r] = [Then(@) EXCEPT
                                  !.known = mails.row[c[1]]]]
                /\ UNCHANGED emitter
        /\ UNCHANGED << lastFired, alerts, prefs, rowVars, clockVars >>

\* Mutant: does not look for the event.
Repeatable(c) == TRUE

\* The event's unique id decides between two deliveries in flight.
Unrecorded(c) == c \notin callbacks

Apply(r) ==
    LET c == request[r].callback
    IN  /\ Todo(r, "apply") /\ Unrecorded(c)
        /\ callbacks' = callbacks \union {c}
        /\ mails' = IF StatusFor(c[2], request[r].known) = request[r].known THEN mails
                    ELSE [mails EXCEPT !.row[c[1]] = StatusFor(c[2], @)]
        /\ End(r, FALSE)
        /\ UNCHANGED << lastFired, alerts, prefs, errors, refusals, banners, clockVars >>

-----------------------------------------------------------------------------
(* The customer, the janitor, the clock and the process.                   *)

SetPreference(cell) ==
    /\ cell \in Editable
    /\ prefs' = IF cell \in prefs THEN prefs \ {cell} ELSE prefs \union {cell}
    /\ UNCHANGED << emitter, request, lastFired, alerts, rowVars, clockVars >>

Dismiss ==
    /\ banners > 0 /\ banners' = banners - 1
    /\ UNCHANGED << emitter, request, lastFired, alerts, prefs, errors, refusals, mails, callbacks, clockVars >>

\* What a purge keeps of the rows, and what it deletes.
Kept(rows, cutoff) == [t \in 0..MaxTime |-> IF t < cutoff THEN 0 ELSE rows[t]]
Deleted(rows, cutoff) == [t \in 0..MaxTime |-> IF t < cutoff THEN rows[t] ELSE 0]

\* purge_expired, and purge_for_user on a customer's request.
Purge(cutoff) ==
    /\ errors' = Kept(errors, cutoff)
    /\ refusals' = [refusals EXCEPT
           !.rows = Kept(@, cutoff),
           !.purged = @ + SumFunction(Deleted(refusals.rows, cutoff))]
    /\ << errors, refusals >>' /= << errors, refusals >>
    /\ UNCHANGED << emitter, request, lastFired, alerts, prefs, banners, mails, callbacks, clockVars >>

PurgeExpired == now > Retention /\ Purge(now - Retention)
PurgeForUser == Purge(MaxTime + 1)

Tick ==
    /\ now < MaxTime /\ now' = now + 1
    /\ UNCHANGED << emitter, request, lastFired, alerts, prefs, rowVars, arrivals, life >>

\* A restart loses the requests in flight and the dedupe mark.
Restart ==
    /\ life < MaxRestarts /\ life' = life + 1
    /\ request' = [r \in Requests |-> Idle]
    /\ lastFired' = Never
    /\ emitter' = IF emitter.at = "waiting" THEN Retried(emitter) ELSE emitter
    /\ UNCHANGED << alerts, prefs, rowVars, now, arrivals >>

-----------------------------------------------------------------------------
RequestStep(r) ==
    \/ Begin(r) \/ OpenIndependent(r)
    \/ Refuse(r) \/ Flush(r) \/ Count(r) \/ Decide(r) \/ EvaluationFails(r) \/ Respond(r)
    \/ CommitIngest(r)
    \/ StoreEvent(r) \/ StepFails(r) \/ Notify(r) \/ FireInPortal(r) \/ FireEmail(r)
    \/ RecordEmailSend(r) \/ FireWebhook(r) \/ WebhookLookupFails(r) \/ Raise(r) \/ RequestFails(r)
    \/ LookupEvent(r) \/ Apply(r)

ReportingNext ==
    \/ Emit \/ FlushOnce \/ AClose \/ SendFails
    \/ \E r \in Requests : Send(r) \/ RefuseMint(r) \/ (\E c \in Callbacks : DeliverCallback(r, c))
    \/ \E r \in Requests : RequestStep(r)
    \/ (\E cell \in Editable : SetPreference(cell)) \/ Dismiss
    \/ PurgeExpired \/ PurgeForUser \/ Tick \/ Restart

\* A request that can run runs; a wait for a connection ends with its timeout.
\* One that waits for the key's row is promised nothing until the lock is free.
RunsOn(r) == RequestStep(r) /\ ~(Todo(r, "flush") /\ KeyLocked(r))

ReportingSpec ==
    /\ ReportingInit /\ [][ReportingNext]_reportVars
    /\ \A r \in Requests : WF_reportVars(RunsOn(r))

-----------------------------------------------------------------------------
(* Properties.                                                             *)

\* Every refusal a customer was given (emit_mint_refused, then the exception
\* that rolls the request back) has its committed server.mint_refused row, a
\* log line in its place, or was purged.
RefusalRecorded ==
    refusals.raised <= refusals.logged + refusals.purged
                       + SumFunction(refusals.rows)

\* A batch that leaves Threshold or more errors in the window it was judged by
\* was reported, by itself or by an alert less than a window older, although a
\* batch counts rows it has not committed, its successor waits for it in
\* another request, and the clock, a purge or a restart comes between.
CrossingIsReported ==
    [][\A r \in Requests :
          LET q == request[r]
          IN  /\ Todo(r, "commit") /\ request'[r] = Idle /\ errors' /= errors
              /\ SumFunctionOnSet(errors', InWindow(q.asked)) >= Threshold
              => \E i \in 1..Len(alerts) :
                    alerts[i].life = life /\ q.asked < alerts[i].at + Window]_reportVars

\* A recorded send changes its status only with a callback that was not
\* recorded before: a redelivery, in flight or late, changes nothing.
RedeliveryIsSilent ==
    [][\A i \in 1..MaxMails :
          mails.row[i] /= "none" /\ mails'.row[i] /= mails.row[i]
          => \E c \in callbacks' \ callbacks : c[1] = i]_reportVars

\* Every request ends, also when requests that hold a connection wait for
\* another one.
ReportsEnd == \A r \in Requests : (request[r] /= Idle) ~> (request[r] = Idle)
=============================================================================
