-------------------------- MODULE RouteCacheProofs --------------------------
(***************************************************************************)
(* Proofs about the registry caches and the routes that sessions open on,  *)
(* for any set of callers, customers, listings and rankings, any lifetimes *)
(* and any number of refreshes.                                            *)
(***************************************************************************)
EXTENDS RouteCache, TLAPS

\* How complete the registry says its view is.
Grades == {"UNINITIALIZED", "PARTIAL", "COMPLETE"}
Values == [known : BOOLEAN, offered : SUBSET Entries, completeness : Grades, stale : BOOLEAN,
           validUntil : Nat, readAt : Nat, readGen : Nat]
Answers == [entries : SUBSET Entries, completeness : Grades, validUntil : Nat,
            readAt : Nat, readGen : Nat]
TaskRecords == [at : {"free", "asked", "answered", "done", "finished"}, gen : Nat, started : Nat,
                answer : Answers, result : Values]
RequestRecords == [at : {"idle", "absent", "waiting", "shown", "refused", "gone"}, task : Nat, gen : Nat]

\* The fields of the cache, the tasks and the requests keep their types.
CacheTypeOK ==
    /\ now \in Nat /\ generation \in Nat
    /\ listing \in [entries : SUBSET Entries, completeness : Grades, validUntil : Nat]
    /\ catalog \in [expires : Nat, value : Values]
    /\ tasks \in [1 .. MaxTasks -> TaskRecords]
    /\ running \in Nat
    /\ caller \in [Callers -> RequestRecords]

\* What a refresh returns: read in its generation or later, and since it began
\* or, if it is the stale entry, no longer ago than the entry's life and grace.
ResultOK(v, task) ==
    v.known =>
      /\ v.readGen >= task.gen
      /\ ~v.stale => v.readAt >= task.started
      /\ v.stale => /\ v.completeness = "PARTIAL"
                    /\ v.readAt + CatalogTimeout + Ttl + CatalogStale >= task.started

\* A task belongs to this generation or an earlier one, does not outlive its
\* timeout, and its answer was read after it began.
TaskOK(task, n, g) ==
    /\ task.gen <= g /\ task.started <= n
    /\ task.at \in {"asked", "answered"} => n <= task.started + CatalogTimeout
    /\ task.at = "answered" => /\ task.answer.readGen >= task.gen
                               /\ task.answer.readAt >= task.started
    /\ task.at \in {"done", "finished"} => ResultOK(task.result, task)

\* The entry in the cache is unmarked, of the current generation, and lives no
\* longer than its listing or its configured life.
EntryOK(entry, n, g) ==
    entry.value.known =>
      /\ ~entry.value.stale
      /\ entry.value.readGen >= g
      /\ entry.expires <= entry.value.validUntil \/ entry.expires <= n
      /\ entry.expires <= entry.value.readAt + CatalogTimeout + Ttl

\* The registered task is under way and of the current generation.
RunningOK(run, ts, g) ==
    run # 0 => run \in 1 .. MaxTasks /\ ts[run].at \in {"asked", "answered", "done"} /\ ts[run].gen = g

\* A caller awaits a task that began no earlier than its own generation.
RequestOK(q, ts) ==
    q.at = "waiting" => q.task \in 1 .. MaxTasks /\ ts[q.task].at # "free" /\ q.gen <= ts[q.task].gen

\* The inductive invariant of the catalog cache.
CacheInv ==
    /\ CacheTypeOK
    /\ EntryOK(catalog, now, generation)
    /\ \A t \in 1 .. MaxTasks : TaskOK(tasks[t], now, generation)
    /\ RunningOK(running, tasks, generation)
    /\ \A c \in Callers : RequestOK(caller[c], tasks)

\* Entries of _catalog_cache.
CacheEntries == [expires : Nat, value : Values]

\* The types of the constants.
LEMMA CacheConstants ==
    /\ Ttl \in Nat /\ CatalogStale \in Nat /\ MaxTasks \in Nat
    /\ CatalogTimeout \in Nat
    /\ \A l \in Listings : l \in [entries : SUBSET Entries, life : Nat \ {0}, completeness : Grades]
  BY RouteCacheAssumption DEF Grades

\* The records that stand for nothing are well formed.
LEMMA EmptyRecords ==
    /\ NoCatalog \in Values /\ ~NoCatalog.known
    /\ NoAnswer \in Answers
    /\ NoEntry \in CacheEntries /\ ~NoEntry.value.known
    /\ NoTask \in TaskRecords /\ NoTask.at = "free" /\ NoTask.gen = 0 /\ NoTask.started = 0
  <1>1. NoCatalog \in Values /\ ~NoCatalog.known
    BY DEF NoCatalog, Values, Grades
  <1>2. NoAnswer \in Answers
    BY DEF NoAnswer, Answers, Grades
  <1>3. NoEntry \in CacheEntries /\ NoEntry.value = NoCatalog
    BY <1>1 DEF NoEntry, CacheEntries
  <1>4. NoTask \in TaskRecords /\ NoTask.at = "free" /\ NoTask.gen = 0 /\ NoTask.started = 0
    BY <1>1, <1>2 DEF NoTask, TaskRecords
  <1> QED BY <1>1, <1>2, <1>3, <1>4

\* _parse_catalog gives an unmarked catalog with the age of the answer, or
\* none.
LEMMA Parsed ==
    ASSUME NEW a \in Answers
    PROVE  LET v == ParseCatalog(a)
           IN  /\ v \in Values
               /\ v.known => /\ ~v.stale /\ v.readAt = a.readAt /\ v.readGen = a.readGen
                             /\ v.validUntil = a.validUntil
  <1> DEFINE v == ParseCatalog(a)
  <1>1. Offered(a.entries) \in SUBSET Entries
    BY DEF Answers, Offered
  <1>2. a.validUntil \in Nat /\ a.readAt \in Nat /\ a.readGen \in Nat /\ a.completeness \in Grades
    BY DEF Answers
  <1>3. CASE v = NoCatalog
    BY <1>3, EmptyRecords
  <1>4. CASE v = [known |-> TRUE, offered |-> Offered(a.entries), completeness |-> a.completeness,
                stale |-> FALSE, validUntil |-> a.validUntil,
                readAt |-> a.readAt, readGen |-> a.readGen]
    BY <1>1, <1>2, <1>4 DEF Values
  <1>5. \/ v = NoCatalog
        \/ v = [known |-> TRUE, offered |-> Offered(a.entries), completeness |-> a.completeness,
                stale |-> FALSE, validUntil |-> a.validUntil,
                readAt |-> a.readAt, readGen |-> a.readGen]
    BY DEF ParseCatalog
  <1> QED BY <1>3, <1>4, <1>5

\* The fallback of a failed refresh is a marked, partial copy of an entry
\* within its grace.
LEMMA Fallback ==
    ASSUME NEW e \in CacheEntries
    PROVE  LET v == StaleCatalog(e)
           IN  /\ v \in Values
               /\ v.known => /\ e.value.known /\ now < e.expires + CatalogStale
                             /\ v.stale /\ v.completeness = "PARTIAL"
                             /\ v.readAt = e.value.readAt /\ v.readGen = e.value.readGen
  <1> DEFINE v == StaleCatalog(e)
             flagged == [e.value EXCEPT !.stale = TRUE, !.completeness = "PARTIAL"]
  <1>1. e.value \in Values
    BY DEF CacheEntries
  <1>2. /\ flagged \in Values /\ flagged.stale /\ flagged.completeness = "PARTIAL"
        /\ flagged.readAt = e.value.readAt /\ flagged.readGen = e.value.readGen
    BY <1>1 DEF Values, Grades
  <1>3. CASE e.value.known /\ now < e.expires + CatalogStale
    <2>1. v = flagged
      BY <1>3 DEF StaleCatalog
    <2> HIDE DEF v, flagged
    <2> QED BY <2>1, <1>2, <1>3 DEF v
  <1>4. CASE ~(e.value.known /\ now < e.expires + CatalogStale)
    BY <1>4, EmptyRecords DEF StaleCatalog
  <1> QED BY <1>3, <1>4

\* A refresh ends with a result that is good enough for it.
LEMMA TaskDone ==
    ASSUME NEW k \in TaskRecords, NEW v \in Values, NEW n \in Nat, NEW g \in Nat,
           TaskOK(k, n, g), ResultOK(v, k)
    PROVE  LET d == [k EXCEPT !.at = "done", !.answer = NoAnswer, !.result = v]
           IN  d \in TaskRecords /\ TaskOK(d, n, g) /\ d.at = "done" /\ d.gen = k.gen
  <1> DEFINE d == [k EXCEPT !.at = "done", !.answer = NoAnswer, !.result = v]
  <1>1. /\ d \in TaskRecords /\ d.at = "done" /\ d.gen = k.gen /\ d.started = k.started
        /\ d.result = v
    BY EmptyRecords DEF TaskRecords
  <1> HIDE DEF d
  <1>2. ResultOK(v, d)
    BY <1>1 DEF ResultOK
  <1> QED BY <1>1, <1>2 DEF TaskOK, d

\* The registry's answer to a task under way.
LEMMA TaskAnswered ==
    ASSUME NEW k \in TaskRecords, NEW a \in Answers, NEW n \in Nat, NEW g \in Nat,
           k.at = "asked", TaskOK(k, n, g), a.readGen = g, a.readAt = n
    PROVE  LET d == [k EXCEPT !.at = "answered", !.answer = a]
           IN  d \in TaskRecords /\ TaskOK(d, n, g) /\ d.at = "answered" /\ d.gen = k.gen
  <1> DEFINE d == [k EXCEPT !.at = "answered", !.answer = a]
  <1>1. /\ d \in TaskRecords /\ d.at = "answered" /\ d.gen = k.gen /\ d.started = k.started
        /\ d.answer = a
    BY DEF TaskRecords
  <1> HIDE DEF d
  <1>2. k.gen \in Nat /\ k.started \in Nat /\ a.readGen \in Nat /\ a.readAt \in Nat
    BY DEF TaskRecords, Answers
  <1> QED BY <1>1, <1>2 DEF TaskOK, d

\* The done callback of a task changes only its stage.
LEMMA TaskFinishes ==
    ASSUME NEW k \in TaskRecords, NEW n \in Nat, NEW g \in Nat, k.at = "done", TaskOK(k, n, g)
    PROVE  LET d == [k EXCEPT !.at = "finished"]
           IN  d \in TaskRecords /\ TaskOK(d, n, g) /\ d.at = "finished" /\ d.gen = k.gen
  <1> DEFINE d == [k EXCEPT !.at = "finished"]
  <1>1. /\ d \in TaskRecords /\ d.at = "finished" /\ d.gen = k.gen /\ d.started = k.started
        /\ d.result = k.result
    BY DEF TaskRecords
  <1> HIDE DEF d
  <1>2. ResultOK(k.result, d)
    BY <1>1 DEF ResultOK, TaskOK
  <1> QED BY <1>1, <1>2 DEF TaskOK, d

\* A free slot satisfies every promise.
LEMMA FreeTask ==
    ASSUME NEW n \in Nat, NEW g \in Nat PROVE TaskOK(NoTask, n, g)
  BY EmptyRecords DEF TaskOK

\* A refresh that begins now, in this generation.
LEMMA TaskBegun ==
    ASSUME NEW n \in Nat, NEW g \in Nat
    PROVE  LET d == [NoTask EXCEPT !.at = "asked", !.gen = g, !.started = n]
           IN  d \in TaskRecords /\ TaskOK(d, n, g) /\ d.at = "asked" /\ d.gen = g
  <1> DEFINE d == [NoTask EXCEPT !.at = "asked", !.gen = g, !.started = n]
  <1>1. /\ d \in TaskRecords /\ d.at = "asked" /\ d.gen = g /\ d.started = n
    BY EmptyRecords DEF TaskRecords
  <1> HIDE DEF d
  <1> QED BY <1>1, CacheConstants DEF TaskOK, d

\* Time and generation only loosen what is known of a task that is not overdue.
LEMMA TaskLater ==
    ASSUME NEW k \in TaskRecords, NEW n \in Nat, NEW g \in Nat, TaskOK(k, n, g),
           NEW n2 \in Nat, NEW g2 \in Nat, n <= n2, g <= g2,
           k.at \in {"asked", "answered"} => n2 <= k.started + CatalogTimeout
    PROVE  TaskOK(k, n2, g2)
  <1>1. k.gen \in Nat /\ k.started \in Nat
    BY DEF TaskRecords
  <1> QED BY <1>1 DEF TaskOK

\* Forgetting finished tasks nobody awaits leaves the others alone.
LEMMA Dropped ==
    ASSUME NEW ts \in [1 .. MaxTasks -> TaskRecords], NEW reqs, NEW n \in Nat, NEW g \in Nat,
           \A t \in 1 .. MaxTasks : TaskOK(ts[t], n, g)
    PROVE  LET rm == Remaining(ts, reqs)
           IN  /\ rm \in [1 .. MaxTasks -> TaskRecords]
               /\ \A t \in 1 .. MaxTasks :
                    /\ TaskOK(rm[t], n, g)
                    /\ \/ rm[t] = ts[t]
                       \/ ts[t].at = "finished" /\ \A c \in Callers : ~Awaits(reqs[c], t)
  BY FreeTask, EmptyRecords DEF Remaining

-----------------------------------------------------------------------------

\* The cache starts empty, and no task runs.
LEMMA CacheInitInv == RouteCacheInit => CacheInv
  <1> SUFFICES ASSUME RouteCacheInit PROVE CacheInv
    OBVIOUS
  <1> USE CacheConstants, EmptyRecords DEF RouteCacheInit
  <1>1. listing \in [entries : SUBSET Entries, completeness : Grades, validUntil : Nat]
    BY DEF Listed
  <1>2. caller \in [Callers -> RequestRecords] /\ \A c \in Callers : caller[c].at # "waiting"
    BY DEF NoRequest, RequestRecords
  <1>3. CacheTypeOK
    BY <1>1, <1>2 DEF CacheTypeOK, CacheEntries
  <1>4. EntryOK(catalog, now, generation)
    BY DEF EntryOK
  <1>5. \A t \in 1 .. MaxTasks : TaskOK(tasks[t], now, generation)
    BY FreeTask
  <1> QED BY <1>2, <1>3, <1>4, <1>5 DEF CacheInv, RunningOK, RequestOK

\* What a step may do to the tasks without disturbing those who look at them.
LEMMA RequestsKeepTask ==
    ASSUME NEW q \in RequestRecords, NEW ts, NEW ts2, RequestOK(q, ts),
           \A t \in 1 .. MaxTasks : Awaits(q, t) => ts2[t].gen = ts[t].gen /\ (ts[t].at # "free" => ts2[t].at # "free")
    PROVE  RequestOK(q, ts2)
  BY DEF RequestOK, Awaits

(* Steps of the requests. *)

\* A fresh entry answers at once.
LEMMA HitStep ==
    ASSUME CacheInv, NEW c \in Callers, CatalogHit(c) PROVE CacheInv'
  <1> USE DEF CacheInv, CatalogHit, CacheTypeOK
  <1>1. Answer(c, catalog.value) \in RequestRecords /\ Answer(c, catalog.value).at # "waiting"
    BY DEF Answer, NoRequest, RequestRecords
  <1>2. caller' \in [Callers -> RequestRecords]
    BY <1>1
  <1>3. \A d \in Callers : RequestOK(caller[d], tasks)'
    BY <1>1 DEF RequestOK
  <1>4. \A t \in 1 .. MaxTasks : TaskOK(tasks[t], now, generation)'
    OBVIOUS
  <1> QED BY <1>2, <1>3, <1>4 DEF registryVars

\* A request joins the registered task.
LEMMA JoinStep ==
    ASSUME CacheInv, NEW c \in Callers, JoinRefresh(c) PROVE CacheInv'
  <1> USE DEF CacheInv, JoinRefresh, CacheTypeOK
  <1> DEFINE q == [at |-> "waiting", task |-> running, gen |-> generation]
  <1>1. q \in RequestRecords
    BY DEF RequestRecords
  <1>2. RequestOK(q, tasks)
    BY DEF RequestOK, RunningOK
  <1> HIDE DEF q
  <1>3. caller' = [caller EXCEPT ![c] = q]
    BY DEF Arrive, q
  <1>4. caller' \in [Callers -> RequestRecords]
    BY <1>1, <1>3
  <1>5. \A d \in Callers : RequestOK(caller'[d], tasks)
    BY <1>2, <1>3
  <1>6. \A t \in 1 .. MaxTasks : TaskOK(tasks[t], now, generation)'
    OBVIOUS
  <1> QED BY <1>4, <1>5, <1>6 DEF registryVars

\* A request that finds neither entry nor task starts one.
LEMMA StartStep ==
    ASSUME CacheInv, NEW c \in Callers, StartRefresh(c) PROVE CacheInv'
  <1> USE CacheConstants DEF CacheInv, CacheTypeOK
  <1>1. PICK t \in 1 .. MaxTasks :
         /\ tasks[t].at = "free"
         /\ tasks' = [tasks EXCEPT ![t] = [NoTask EXCEPT !.at = "asked", !.gen = generation,
                                                          !.started = now]]
         /\ running' = t
         /\ Arrive(c, t)
    BY DEF StartRefresh
  <1> DEFINE k == [NoTask EXCEPT !.at = "asked", !.gen = generation, !.started = now]
             q == [at |-> "waiting", task |-> t, gen |-> generation]
  <1>2. k \in TaskRecords /\ TaskOK(k, now, generation) /\ k.at = "asked" /\ k.gen = generation
    BY TaskBegun
  <1>3. q \in RequestRecords /\ q.task = t /\ q.gen = generation
    BY DEF RequestRecords
  <1>4. tasks' = [tasks EXCEPT ![t] = k] /\ caller' = [caller EXCEPT ![c] = q]
    BY <1>1 DEF Arrive
  <1> HIDE DEF k, q
  <1>5. UNCHANGED <<now, registryVars, catalog, generation>>
    BY DEF StartRefresh
  <1>6. tasks' \in [1 .. MaxTasks -> TaskRecords] /\ caller' \in [Callers -> RequestRecords]
    BY <1>2, <1>3, <1>4
  <1>7. \A u \in 1 .. MaxTasks : TaskOK(tasks'[u], now, generation)
    BY <1>2, <1>4
  <1>8. RunningOK(t, tasks', generation)
    BY <1>2, <1>4 DEF RunningOK
  <1>9. ASSUME NEW d \in Callers PROVE RequestOK(caller'[d], tasks')
    <2>1. CASE d = c
      BY <2>1, <1>2, <1>3, <1>4 DEF RequestOK
    <2>2. CASE d # c
      <3>1. caller'[d] = caller[d] /\ caller[d] \in RequestRecords
        BY <2>2, <1>4
      <3> QED BY <3>1, <1>1, <1>4, RequestsKeepTask DEF RequestOK
    <2> QED BY <2>1, <2>2
  <1>10. CacheTypeOK'
    BY <1>1, <1>5, <1>6 DEF registryVars
  <1>11. EntryOK(catalog, now, generation)' /\ RunningOK(running, tasks, generation)'
    BY <1>1, <1>5, <1>8
  <1>12. \A u \in 1 .. MaxTasks : TaskOK(tasks'[u], now', generation')
    BY <1>5, <1>7
  <1> QED BY <1>9, <1>10, <1>11, <1>12

\* A task changes its record, not its generation, and stays.
LEMMA TaskMoves ==
    ASSUME CacheInv, NEW t \in 1 .. MaxTasks, NEW k \in TaskRecords, TaskOK(k, now, generation),
           k.gen = tasks[t].gen, k.at \in {"asked", "answered", "done"},
           tasks' = [tasks EXCEPT ![t] = k], catalog' \in CacheEntries, EntryOK(catalog', now, generation),
           UNCHANGED <<now, listing, running, generation, caller>>
    PROVE  CacheInv'
  <1> USE DEF CacheInv, CacheTypeOK
  <1>1. tasks' \in [1 .. MaxTasks -> TaskRecords]
    OBVIOUS
  <1>2. \A u \in 1 .. MaxTasks : TaskOK(tasks'[u], now, generation)
    OBVIOUS
  <1>3. RunningOK(running, tasks', generation)
    BY DEF RunningOK
  <1>4. ASSUME NEW d \in Callers PROVE RequestOK(caller[d], tasks')
    <2>1. caller[d] \in RequestRecords /\ RequestOK(caller[d], tasks)
      OBVIOUS
    <2>2. \A u \in 1 .. MaxTasks :
            tasks'[u].gen = tasks[u].gen /\ (tasks[u].at # "free" => tasks'[u].at # "free")
      OBVIOUS
    <2> QED BY <2>1, <2>2, RequestsKeepTask
  <1> QED BY <1>1, <1>2, <1>3, <1>4 DEF CacheEntries

\* The registry reads its state for a task.
LEMMA ListStep ==
    ASSUME CacheInv, NEW t \in 1 .. MaxTasks, ListOfferings(t) PROVE CacheInv'
  <1> USE DEF CacheInv, CacheTypeOK
  <1> DEFINE a == [entries |-> listing.entries, completeness |-> listing.completeness,
                   validUntil |-> listing.validUntil, readAt |-> now, readGen |-> generation]
             k == [tasks[t] EXCEPT !.at = "answered", !.answer = a]
  <1>1. a \in Answers /\ a.readGen = generation /\ a.readAt = now
    BY DEF Answers
  <1> HIDE DEF a
  <1>2. tasks[t].at = "asked" /\ tasks' = [tasks EXCEPT ![t] = k]
    BY DEF ListOfferings, a
  <1>3. k \in TaskRecords /\ TaskOK(k, now, generation) /\ k.at = "answered" /\ k.gen = tasks[t].gen
    BY <1>1, <1>2, TaskAnswered
  <1> HIDE DEF k
  <1>4. catalog' \in CacheEntries /\ EntryOK(catalog', now, generation)
        /\ UNCHANGED <<now, listing, running, generation, caller>>
    BY DEF ListOfferings, registryVars, CacheEntries
  <1> QED BY <1>2, <1>3, <1>4, TaskMoves

\* The fallback is good enough for any refresh that ends now.
LEMMA FallbackOK ==
    ASSUME CacheInv, NEW t \in 1 .. MaxTasks PROVE ResultOK(StaleCatalog(catalog), tasks[t])
  <1> USE CacheConstants DEF CacheInv, CacheTypeOK
  <1> DEFINE v == StaleCatalog(catalog)
  <1>1. SUFFICES ASSUME v.known PROVE ResultOK(v, tasks[t])
    BY DEF ResultOK
  <1>2. /\ catalog.value.known /\ now < catalog.expires + CatalogStale
        /\ v.stale /\ v.completeness = "PARTIAL"
        /\ v.readAt = catalog.value.readAt /\ v.readGen = catalog.value.readGen
    BY <1>1, Fallback DEF CacheEntries
  <1> HIDE DEF v
  <1>3. /\ catalog.value.readGen >= generation
        /\ catalog.expires <= catalog.value.readAt + CatalogTimeout + Ttl
        /\ tasks[t].gen <= generation /\ tasks[t].started <= now
    BY <1>2 DEF EntryOK, TaskOK
  <1>4. /\ catalog.value.readGen \in Nat /\ catalog.expires \in Nat /\ catalog.value.readAt \in Nat
        /\ tasks[t].gen \in Nat /\ tasks[t].started \in Nat
    BY DEF TaskRecords, Values
  <1>5. v.readGen >= tasks[t].gen
    BY <1>2, <1>3, <1>4
  <1>6. v.readAt + CatalogTimeout + Ttl + CatalogStale >= tasks[t].started
    BY <1>2, <1>3, <1>4
  <1> QED BY <1>2, <1>5, <1>6 DEF ResultOK

\* A refresh that ends with the fallback.
LEMMA FallbackStep ==
    ASSUME CacheInv, NEW t \in 1 .. MaxTasks, Complete(t, StaleCatalog(catalog)),
           UNCHANGED <<now, listing, catalog, running, generation, caller>>
    PROVE  CacheInv'
  <1> USE DEF CacheInv, CacheTypeOK
  <1> DEFINE v == StaleCatalog(catalog)
             k == [tasks[t] EXCEPT !.at = "done", !.answer = NoAnswer, !.result = v]
  <1>1. v \in Values /\ ResultOK(v, tasks[t])
    BY Fallback, FallbackOK DEF CacheEntries
  <1>2. tasks' = [tasks EXCEPT ![t] = k]
    BY DEF Complete
  <1> HIDE DEF v
  <1>3. k \in TaskRecords /\ TaskOK(k, now, generation) /\ k.at = "done" /\ k.gen = tasks[t].gen
    BY <1>1, TaskDone
  <1> HIDE DEF k
  <1> QED BY <1>2, <1>3, TaskMoves DEF CacheEntries

\* What a refresh stores, under the generation it began in.
LEMMA StoredOK ==
    ASSUME CacheInv, NEW t \in 1 .. MaxTasks, tasks[t].at = "answered",
           ParseCatalog(tasks[t].answer).known, tasks[t].gen = generation
    PROVE  LET v == ParseCatalog(tasks[t].answer)
               e == [expires |-> now + EntryLife(v), value |-> v]
           IN  e \in CacheEntries /\ EntryOK(e, now, generation)
  <1> USE CacheConstants DEF CacheInv, CacheTypeOK
  <1> DEFINE a == tasks[t].answer
             v == ParseCatalog(a)
             e == [expires |-> now + EntryLife(v), value |-> v]
  <1>1. a \in Answers /\ tasks[t].started \in Nat /\ tasks[t].gen \in Nat
    BY DEF TaskRecords
  <1>2. a.readAt \in Nat /\ a.readGen \in Nat /\ a.validUntil \in Nat
    BY <1>1 DEF Answers
  <1>3. /\ v \in Values /\ ~v.stale /\ v.readAt = a.readAt /\ v.readGen = a.readGen
        /\ v.validUntil = a.validUntil
    BY <1>1, Parsed
  <1>4. /\ a.readGen >= generation /\ a.readAt >= tasks[t].started
        /\ now <= tasks[t].started + CatalogTimeout
    BY DEF TaskOK
  <1> HIDE DEF a, v
  <1>5. /\ EntryLife(v) \in Nat /\ EntryLife(v) <= Ttl
        /\ now + EntryLife(v) <= v.validUntil \/ now + EntryLife(v) <= now
    BY <1>2, <1>3 DEF EntryLife
  <1>6. e.expires = now + EntryLife(v) /\ e.value = v /\ e \in CacheEntries
    BY <1>3, <1>5 DEF CacheEntries
  <1> HIDE DEF e
  <1>7. now + EntryLife(v) <= v.readAt + CatalogTimeout + Ttl
    <2>1. now <= v.readAt + CatalogTimeout
      BY <1>1, <1>2, <1>3, <1>4
    <2> QED BY <2>1, <1>2, <1>3, <1>5
  <1>8. EntryOK(e, now, generation)
    BY <1>3, <1>4, <1>5, <1>6, <1>7 DEF EntryOK
  <1> QED BY <1>6, <1>8 DEF e, v, a

\* A refresh that returns stores its catalog if its generation is current.
LEMMA ReturnStep ==
    ASSUME CacheInv, NEW t \in 1 .. MaxTasks, RefreshReturns(t) PROVE CacheInv'
  <1> USE CacheConstants DEF CacheInv, CacheTypeOK
  <1> DEFINE v == ParseCatalog(tasks[t].answer)
             k == [tasks[t] EXCEPT !.at = "done", !.answer = NoAnswer, !.result = v]
  <1>1. tasks[t].at = "answered" /\ UNCHANGED <<now, listing, running, generation, caller>>
    BY DEF RefreshReturns, registryVars
  <1>2. CASE ~v.known
    <2>1. Complete(t, StaleCatalog(catalog)) /\ UNCHANGED catalog
      BY <1>2 DEF RefreshReturns
    <2> QED BY <1>1, <2>1, FallbackStep
  <1>3. CASE v.known
    <2>1. tasks[t].answer \in Answers /\ tasks[t] \in TaskRecords
      BY DEF TaskRecords
    <2>2. /\ v \in Values /\ ~v.stale /\ v.readAt = tasks[t].answer.readAt
          /\ v.readGen = tasks[t].answer.readGen
      BY <1>3, <2>1, Parsed
    <2>3. ResultOK(v, tasks[t])
      BY <1>1, <2>2 DEF TaskOK, ResultOK
    <2>4. tasks' = [tasks EXCEPT ![t] = k]
      BY <1>3 DEF RefreshReturns, Complete
    <2>5. catalog' \in CacheEntries /\ EntryOK(catalog', now, generation)
      <3>1. CASE MayStore(t, v)
        <4>1. catalog' = [expires |-> now + EntryLife(v), value |-> v]
          BY <1>3, <3>1 DEF RefreshReturns
        <4> QED BY <4>1, <1>1, <1>3, <3>1, StoredOK DEF MayStore
      <3>2. CASE ~MayStore(t, v)
        BY <1>3, <3>2 DEF RefreshReturns, CacheEntries
      <3> QED BY <3>1, <3>2
    <2> HIDE DEF v
    <2>6. k \in TaskRecords /\ TaskOK(k, now, generation) /\ k.at = "done" /\ k.gen = tasks[t].gen
      BY <2>1, <2>2, <2>3, TaskDone
    <2> HIDE DEF k
    <2> QED BY <1>1, <2>4, <2>5, <2>6, TaskMoves
  <1> QED BY <1>2, <1>3

\* Tasks nobody awaits are dropped after the step.
LEMMA DropStep ==
    ASSUME CacheInv, NEW ts \in [1 .. MaxTasks -> TaskRecords],
           \A t \in 1 .. MaxTasks : TaskOK(ts[t], now, generation),
           NEW reqs \in [Callers -> RequestRecords], \A d \in Callers : RequestOK(reqs[d], ts),
           NEW run \in Nat, RunningOK(run, ts, generation),
           tasks' = Remaining(ts, reqs), caller' = reqs, running' = run,
           UNCHANGED <<now, listing, catalog, generation>>
    PROVE  CacheInv'
  <1> USE DEF CacheInv, CacheTypeOK
  <1> DEFINE rm == Remaining(ts, reqs)
  <1>1. now \in Nat /\ generation \in Nat
    OBVIOUS
  <1>2. /\ rm \in [1 .. MaxTasks -> TaskRecords]
        /\ \A t \in 1 .. MaxTasks :
             /\ TaskOK(rm[t], now, generation)
             /\ \/ rm[t] = ts[t]
                \/ ts[t].at = "finished" /\ \A c \in Callers : ~Awaits(reqs[c], t)
    BY <1>1, Dropped
  <1> HIDE DEF rm
  <1>3. RunningOK(run, rm, generation)
    BY <1>2 DEF RunningOK
  <1>4. ASSUME NEW d \in Callers PROVE RequestOK(reqs[d], rm)
    <2>1. \A t \in 1 .. MaxTasks : Awaits(reqs[d], t) => rm[t] = ts[t]
      BY <1>2
    <2>2. reqs[d] \in RequestRecords /\ RequestOK(reqs[d], ts)
      OBVIOUS
    <2> QED BY <2>1, <2>2 DEF RequestOK, Awaits
  <1>5. tasks' = rm
    BY DEF rm
  <1>6. CacheTypeOK'
    BY <1>2, <1>5
  <1>7. EntryOK(catalog, now, generation)' /\ RunningOK(running, tasks, generation)'
    BY <1>3, <1>5
  <1>8. \A t \in 1 .. MaxTasks : TaskOK(tasks'[t], now', generation')
    BY <1>2, <1>5
  <1>9. \A d \in Callers : RequestOK(caller'[d], tasks')
    BY <1>4, <1>5
  <1> QED BY <1>6, <1>7, <1>8, <1>9

\* The callback of a finished task forgets only its own registration.
LEMMA FinishStep ==
    ASSUME CacheInv, NEW t \in 1 .. MaxTasks, TaskFinished(t) PROVE CacheInv'
  <1> USE DEF CacheInv, CacheTypeOK
  <1> DEFINE k == [tasks[t] EXCEPT !.at = "finished"]
             ts == [tasks EXCEPT ![t] = k]
  <1>1. k \in TaskRecords /\ TaskOK(k, now, generation) /\ k.at = "finished" /\ k.gen = tasks[t].gen
    BY TaskFinishes DEF TaskFinished
  <1>2. /\ tasks' = Remaining(ts, caller) /\ running' = Forget(t) /\ caller' = caller
        /\ UNCHANGED <<now, listing, catalog, generation>>
    BY DEF TaskFinished, registryVars
  <1> HIDE DEF k
  <1>3. ts \in [1 .. MaxTasks -> TaskRecords]
        /\ \A u \in 1 .. MaxTasks : TaskOK(ts[u], now, generation)
    BY <1>1
  <1>4. Forget(t) \in Nat /\ RunningOK(Forget(t), ts, generation)
    BY <1>1 DEF Forget, RunningOK
  <1>5. ASSUME NEW d \in Callers PROVE RequestOK(caller[d], ts)
    <2>1. caller[d] \in RequestRecords /\ RequestOK(caller[d], tasks)
      OBVIOUS
    <2>2. \A u \in 1 .. MaxTasks :
            ts[u].gen = tasks[u].gen /\ (tasks[u].at # "free" => ts[u].at # "free")
      BY <1>1
    <2> HIDE DEF ts
    <2> QED BY <2>1, <2>2, RequestsKeepTask
  <1> HIDE DEF ts
  <1>6. caller \in [Callers -> RequestRecords]
    OBVIOUS
  <1> QED BY <1>2, <1>3, <1>4, <1>5, <1>6, DropStep

\* A caller is answered or leaves.
LEMMA LeaveStep ==
    ASSUME CacheInv, NEW c \in Callers, Deliver(c) \/ Disconnect(c) PROVE CacheInv'
  <1> USE DEF CacheInv, CacheTypeOK
  <1>1. PICK q \in RequestRecords : q.at # "waiting" /\ caller' = [caller EXCEPT ![c] = q]
    BY DEF Deliver, Disconnect, Answer, NoRequest, RequestRecords
  <1>2. PICK reqs : reqs = [caller EXCEPT ![c] = q]
    OBVIOUS
  <1>3. /\ tasks' = Remaining(tasks, reqs) /\ caller' = reqs /\ running' = running
        /\ UNCHANGED <<now, listing, catalog, generation>>
    BY <1>1, <1>2 DEF Deliver, Disconnect, registryVars
  <1>4. reqs \in [Callers -> RequestRecords] /\ \A d \in Callers : RequestOK(reqs[d], tasks)
    BY <1>1, <1>2 DEF RequestOK
  <1>5. PICK ts : ts = tasks
    OBVIOUS
  <1>6. PICK run : run = running
    OBVIOUS
  <1> QED BY <1>3, <1>4, <1>5, <1>6, DropStep

\* invalidate() drops the entry and the registration and begins a generation.
LEMMA InvalidateStep ==
    ASSUME CacheInv, Invalidate PROVE CacheInv'
  <1> USE DEF CacheInv, CacheTypeOK
  <1>1. /\ catalog' = NoEntry /\ generation' = generation + 1 /\ running' = 0
        /\ UNCHANGED <<now, listing, tasks, caller>>
    BY DEF Invalidate, registryVars
  <1>2. CacheTypeOK' /\ EntryOK(catalog, now, generation)' /\ RunningOK(running, tasks, generation)'
    BY <1>1, EmptyRecords DEF EntryOK, RunningOK, CacheEntries
  <1>3. ASSUME NEW t \in 1 .. MaxTasks PROVE TaskOK(tasks'[t], now', generation')
    <2>1. tasks[t] \in TaskRecords /\ TaskOK(tasks[t], now, generation)
      OBVIOUS
    <2>2. tasks[t].at \in {"asked", "answered"} => now <= tasks[t].started + CatalogTimeout
      BY <2>1 DEF TaskOK
    <2>3. TaskOK(tasks[t], now, generation + 1)
      BY <2>1, <2>2, TaskLater
    <2> QED BY <1>1, <2>3
  <1>4. \A d \in Callers : RequestOK(caller'[d], tasks')
    BY <1>1
  <1> QED BY <1>2, <1>3, <1>4

\* Time passes, as long as no refresh is overdue.
LEMMA TickStep ==
    ASSUME CacheInv, Tick PROVE CacheInv'
  <1> USE CacheConstants DEF CacheInv, CacheTypeOK
  <1>1. now' = now + 1 /\ UNCHANGED <<listing, catalog, tasks, running, caller, generation>>
    BY DEF Tick, registryVars, catalogVars
  <1>2. CacheTypeOK' /\ RunningOK(running, tasks, generation)'
    BY <1>1
  <1>3. ASSUME NEW t \in 1 .. MaxTasks PROVE TaskOK(tasks'[t], now', generation')
    <2>1. tasks[t] \in TaskRecords /\ TaskOK(tasks[t], now, generation) /\ tasks[t].started \in Nat
      BY DEF TaskRecords
    <2>2. tasks[t].at \in {"asked", "answered"} => now + 1 <= tasks[t].started + CatalogTimeout
      BY <2>1 DEF Tick, Overdue
    <2>3. TaskOK(tasks[t], now + 1, generation)
      BY <2>1, <2>2, TaskLater
    <2> QED BY <1>1, <2>3
  <1>4. EntryOK(catalog, now + 1, generation)
    <2>1. catalog.expires \in Nat /\ catalog.value.validUntil \in Nat
      BY DEF Values
    <2> QED BY <2>1 DEF EntryOK
  <1>5. \A d \in Callers : RequestOK(caller'[d], tasks')
    BY <1>1
  <1> QED BY <1>1, <1>2, <1>3, <1>4, <1>5

\* Steps outside the catalog cache.
LEMMA ElsewhereStep ==
    ASSUME CacheInv, UNCHANGED <<now, catalogVars, generation>>,
           listing' \in [entries : SUBSET Entries, completeness : Grades, validUntil : Nat]
    PROVE  CacheInv'
  BY DEF CacheInv, CacheTypeOK, catalogVars

\* The selections of a session touch nothing of the catalog.
LEMMA SessionSteps ==
    ASSUME NEW k \in Clients, SessionStep(k)
    PROVE  UNCHANGED <<now, registryVars, catalogVars, generation>>
  BY DEF SessionStep, Prepare, Open, SelectHit, SelectAsk, SelectReturns, SelectFails

\* Every step of the discovery endpoints, the refreshes and the registry keeps
\* the invariant.
LEMMA CacheStep ==
    CacheInv /\ [RouteCacheNext]_cacheVars => CacheInv'
  <1> SUFFICES ASSUME CacheInv, [RouteCacheNext]_cacheVars PROVE CacheInv'
    OBVIOUS
  <1>t. listing \in [entries : SUBSET Entries, completeness : Grades, validUntil : Nat]
        /\ DOMAIN tasks = 1 .. MaxTasks /\ now \in Nat
    BY DEF CacheInv, CacheTypeOK
  <1>1. ASSUME NEW c \in Callers, DiscoveryStep(c) PROVE CacheInv'
    BY <1>1, HitStep, JoinStep, StartStep, LeaveStep DEF DiscoveryStep
  <1>2. ASSUME NEW t \in 1 .. MaxTasks, ListOfferings(t) \/ RefreshReturns(t) \/ TaskFinished(t)
        PROVE  CacheInv'
    BY <1>2, ListStep, ReturnStep, FinishStep
  <1>3. ASSUME NEW t \in 1 .. MaxTasks, RefreshFails(t) PROVE CacheInv'
    BY <1>3, FallbackStep DEF RefreshFails, registryVars
  <1>4. ASSUME NEW k \in Clients, SessionStep(k) PROVE CacheInv'
    BY <1>4, <1>t, SessionSteps, ElsewhereStep DEF registryVars
  <1>5. ASSUME NEW l \in Listings, PublishListing(l) PROVE CacheInv'
    <2>1. Listed(l) \in [entries : SUBSET Entries, completeness : Grades, validUntil : Nat]
      BY <1>t, CacheConstants DEF Listed
    <2> QED BY <1>5, <2>1, ElsewhereStep DEF PublishListing
  <1>6. ASSUME NEW routes \in Rankings, PublishRanking(routes) PROVE CacheInv'
    BY <1>6, <1>t, ElsewhereStep DEF PublishRanking
  <1>7. CASE UNCHANGED cacheVars
    BY <1>7, <1>t, ElsewhereStep DEF cacheVars, registryVars
  <1> QED BY <1>t, <1>1, <1>2, <1>3, <1>4, <1>5, <1>6, <1>7, InvalidateStep, TickStep
          DEF RouteCacheNext, RefreshEnds

-----------------------------------------------------------------------------
\* A caller is shown something only by the cache or by the task it awaited.
LEMMA ShownBy ==
    ASSUME CacheInv, [RouteCacheNext]_cacheVars, NEW c \in Callers, Shows(c)
    PROVE  /\ Conclusive(AnswerTo(c), Wants[c])
           /\ \/ caller[c].at # "waiting" /\ Fresh
              \/ caller[c].at = "waiting" /\ tasks[caller[c].task].at = "finished"
  <1> USE DEF Shows
  <1>t. caller \in [Callers -> RequestRecords] /\ DOMAIN tasks = 1 .. MaxTasks
    BY DEF CacheInv, CacheTypeOK
  <1>a. ASSUME NEW v PROVE Answer(c, v).at = "shown" <=> Conclusive(v, Wants[c])
    BY DEF Answer, NoRequest
  <1>0. caller' # caller
    OBVIOUS
  <1>1. PICK d \in Callers : DiscoveryStep(d)
    <2>1. ASSUME NEW t \in 1 .. MaxTasks, ListOfferings(t) \/ RefreshEnds(t) \/ TaskFinished(t)
          PROVE  FALSE
      BY <2>1, <1>0 DEF ListOfferings, RefreshEnds, RefreshReturns, RefreshFails, TaskFinished
    <2>2. ASSUME NEW k \in Clients, SessionStep(k) PROVE FALSE
      BY <2>2, <1>0, SessionSteps DEF catalogVars
    <2>3. CASE Invalidate \/ Tick \/ UNCHANGED cacheVars
      BY <2>3, <1>0 DEF Invalidate, Tick, cacheVars, catalogVars
    <2>4. ASSUME NEW l \in Listings, PublishListing(l) PROVE FALSE
      BY <2>4, <1>0 DEF PublishListing, catalogVars
    <2>5. ASSUME NEW routes \in Rankings, PublishRanking(routes) PROVE FALSE
      BY <2>5, <1>0 DEF PublishRanking, catalogVars
    <2> QED BY <1>t, <2>1, <2>2, <2>3, <2>4, <2>5 DEF RouteCacheNext
  <1>2. CASE CatalogHit(d)
    <2>1. d = c /\ caller'[c] = Answer(c, catalog.value)
      BY <1>2, <1>t DEF CatalogHit
    <2> QED BY <1>2, <2>1, <1>a DEF CatalogHit, Calling, AnswerTo
  <1>3. CASE JoinRefresh(d) \/ StartRefresh(d)
    BY <1>3, <1>t DEF JoinRefresh, StartRefresh, Arrive
  <1>4. CASE Deliver(d)
    <2>1. d = c /\ caller'[c] = Answer(c, tasks[caller[c].task].result)
      BY <1>4, <1>t DEF Deliver
    <2> QED BY <1>4, <2>1, <1>a DEF Deliver, Awaited, AnswerTo
  <1>5. CASE Disconnect(d)
    BY <1>5, <1>t DEF Disconnect, NoRequest
  <1> QED BY <1>1, <1>2, <1>3, <1>4, <1>5 DEF DiscoveryStep

\* What it is shown: the entry, or the result of the task it awaited.
LEMMA ShownValue ==
    ASSUME CacheInv, [RouteCacheNext]_cacheVars, NEW c \in Callers, Shows(c)
    PROVE  LET v == AnswerTo(c)
               task == tasks[caller[c].task]
           IN  \/ /\ caller[c].at # "waiting" /\ v.known /\ ~v.stale
                  /\ v.readGen >= generation /\ now < v.validUntil
               \/ /\ caller[c].at = "waiting" /\ v.known
                  /\ v.readGen >= caller[c].gen
                  /\ ~v.stale => v.readAt >= task.started
                  /\ v.stale => /\ v.completeness = "PARTIAL"
                                /\ v.readAt + CatalogTimeout + Ttl + CatalogStale >= task.started
  <1> USE DEF CacheInv, CacheTypeOK
  <1> DEFINE v == AnswerTo(c)
             task == tasks[caller[c].task]
  <1>1. v.known
    BY ShownBy DEF Conclusive
  <1>2. CASE caller[c].at # "waiting" /\ Fresh
    <2>1. v = catalog.value
      BY <1>2 DEF AnswerTo
    <2>2. catalog.expires \in Nat /\ catalog.value.validUntil \in Nat
      BY DEF Values
    <2>3. /\ ~catalog.value.stale /\ catalog.value.readGen >= generation
          /\ catalog.expires <= catalog.value.validUntil
      BY <1>2, <2>2 DEF EntryOK, Fresh
    <2>4. now < catalog.value.validUntil
      BY <1>2, <2>2, <2>3 DEF Fresh
    <2> QED BY <1>1, <1>2, <2>1, <2>3, <2>4
  <1>3. CASE caller[c].at = "waiting" /\ task.at = "finished"
    <2>1. v = task.result
      BY <1>3 DEF AnswerTo
    <2>2. /\ caller[c].task \in 1 .. MaxTasks /\ caller[c].gen <= task.gen
      BY <1>3 DEF RequestOK
    <2>3. task \in TaskRecords /\ TaskOK(task, now, generation)
      BY <2>2
    <2>4. ResultOK(v, task)
      BY <1>3, <2>1, <2>3 DEF TaskOK
    <2>5. task.gen \in Nat /\ caller[c].gen \in Nat /\ v.readGen \in Nat
      BY <2>1, <2>3 DEF TaskRecords, Values, RequestRecords
    <2> HIDE DEF v, task
    <2>6. v.readGen >= caller[c].gen
      BY <1>1, <2>2, <2>4, <2>5 DEF ResultOK
    <2> QED BY <1>1, <1>3, <2>4, <2>6 DEF ResultOK, v, task
  <1> QED BY <1>2, <1>3, ShownBy

\* The invariant of the catalog cache holds always.
LEMMA CacheAlways == RouteCacheSpec => []CacheInv
  BY CacheInitInv, CacheStep, PTL DEF RouteCacheSpec

(***************************************************************************)
(* What a caller of GET /v1/capabilities or /v1/orchestrators is shown was *)
(* read in the generation the caller asked in or a later one: a refresh    *)
(* that was under way when invalidate() ran is neither stored nor joined   *)
(* by a later caller.                                                      *)
(***************************************************************************)
THEOREM CacheHonoursInvalidation == RouteCacheSpec => InvalidationHolds
  <1> DEFINE P == \A c \in Callers : Shows(c) => AnswerTo(c).readGen >= AskedIn(c)
  <1>1. CacheInv /\ [RouteCacheNext]_cacheVars => [P]_cacheVars
    BY ShownValue DEF AskedIn
  <1> QED BY <1>1, CacheAlways, PTL DEF RouteCacheSpec, InvalidationHolds

(***************************************************************************)
(* An answer of CachingRegistryClient that is not marked stale was read    *)
(* after its refresh began, or is an entry within the life of its listing; *)
(* a marked one is no older than timeout, life and grace together.         *)
(***************************************************************************)
THEOREM CacheAnswersAreCurrent == RouteCacheSpec => UnmarkedIsCurrent
  <1> DEFINE P == \A c \in Callers :
                    LET v == AnswerTo(c)
                    IN  Shows(c) =>
              \/ ~v.stale /\ caller[c].at = "waiting" /\ v.readAt >= tasks[caller[c].task].started
              \/ ~v.stale /\ caller[c].at # "waiting" /\ now < v.validUntil
              \/ v.stale /\ v.readAt + CatalogTimeout + Ttl + CatalogStale
                             >= tasks[caller[c].task].started
  <1>1. CacheInv /\ [RouteCacheNext]_cacheVars => [P]_cacheVars
    BY ShownValue
  <1> QED BY <1>1, CacheAlways, PTL DEF RouteCacheSpec, UnmarkedIsCurrent

(***************************************************************************)
(* An empty list is shown only from a complete catalog that is not stale:  *)
(* neither a filter nor the fallback turns an incomplete view into a       *)
(* statement that there is nothing.                                        *)
(***************************************************************************)
THEOREM CacheEmptyIsConclusive == RouteCacheSpec => EmptyIsConclusive
  <1> DEFINE P == \A c \in Callers :
                    Shows(c) /\ Shown(AnswerTo(c), Wants[c]) = {}
                    => AnswerTo(c).completeness = "COMPLETE" /\ ~AnswerTo(c).stale
  <1>1. ASSUME CacheInv, [RouteCacheNext]_cacheVars, NEW c \in Callers, Shows(c),
               Shown(AnswerTo(c), Wants[c]) = {}
        PROVE  AnswerTo(c).completeness = "COMPLETE" /\ ~AnswerTo(c).stale
    <2>1. AnswerTo(c).completeness = "COMPLETE"
      BY <1>1, ShownBy DEF Conclusive
    <2> QED BY <1>1, <2>1, ShownValue
  <1>2. CacheInv /\ [RouteCacheNext]_cacheVars => [P]_cacheVars
    BY <1>1
  <1> QED BY <1>2, CacheAlways, PTL DEF RouteCacheSpec, EmptyIsConclusive

-----------------------------------------------------------------------------
\* The opening of a session on a route of the shared selections.

\* How long an answer may be under way and then be kept.
Memory == SelectionTimeout + Ttl

\* Every route of a list was in the ranking at t or later.
Fits(routes, t, ranked) == \A r \in ToSet(routes) : r \in Routes /\ t <= ranked[r]

\* The request of a customer is the record of its fields.
ClientFields(q) ==
    q = [at |-> q.at, op |-> q.op, binding |-> q.binding, schema |-> q.schema, token |-> q.token,
         reply |-> q.reply, asked |-> q.asked, route |-> q.route, time |-> q.time]

\* A call under way is within its timeout and brings what was ranked when it
\* began; an opened session had a route within reach of the caches.
ClientOK(q, n, ranked) ==
    /\ q.at = "asked" => /\ q.asked \in Nat /\ n <= q.asked + SelectionTimeout
                         /\ Fits(q.reply, q.asked, ranked)
    /\ q.at = "opened" => /\ q.time \in Nat /\ q.route \in Routes
                          /\ q.time <= ranked[q.route] + Memory

\* The history of the ranking up to now.
HistoryOK(n, routes, ranked) ==
    /\ n \in Nat /\ routes \in Rankings
    /\ ranked \in [Routes -> Int]
    /\ \A r \in Routes : ranked[r] <= n
    /\ Fits(routes, n, ranked)

\* An entry expires before its routes are out of reach.
KeptOK(entry, ranked) == entry.expires \in Nat /\ Fits(entry.routes, entry.expires - Memory, ranked)

\* The inductive invariant of the selections.
SelectionInv ==
    /\ HistoryOK(now, ranking, lastRanked)
    /\ \A m \in {"select", "select_many"} : KeptOK(selections[m], lastRanked)
    /\ selections = [m \in {"select", "select_many"} |-> selections[m]]
    /\ client = [k \in Clients |-> client[k]]
    /\ \A k \in Clients : ClientFields(client[k]) /\ ClientOK(client[k], now, lastRanked)

\* The types of the constants.
LEMMA SelectionConstants ==
    /\ SelectionTimeout \in Nat /\ Ttl \in Nat /\ Memory \in Nat
    /\ Rankings \subseteq Seq(Routes)
    /\ \A routes \in Rankings : ToSet(routes) \subseteq Routes
  BY RouteCacheAssumption DEF Memory, Routes

\* An empty list fits anything.
LEMMA EmptyFits ==
    ASSUME NEW t, NEW ranked PROVE Fits(<<>>, t, ranked)
  BY DEF Fits, ToSet

\* What fits keeps fitting as the history grows.
LEMMA FitsLater ==
    ASSUME NEW routes, NEW t \in Int, NEW u \in Int, u <= t,
           NEW ranked \in [Routes -> Int], NEW later \in [Routes -> Int],
           \A r \in Routes : ranked[r] <= later[r],
           Fits(routes, t, ranked)
    PROVE  Fits(routes, u, later)
  BY DEF Fits

\* The daemon answers with routes of its ranking.
LEMMA ReplyFits ==
    ASSUME NEW method, SelectionInv PROVE Fits(Reply(method), now, lastRanked)
  <1>1. Fits(ranking, now, lastRanked) /\ ranking \in Seq(Routes)
    BY SelectionConstants DEF SelectionInv, HistoryOK
  <1>2. CASE ranking # <<>> /\ Reply(method) = <<Head(ranking)>>
    <2>1. Head(ranking) \in ToSet(ranking)
      BY <1>1, <1>2 DEF ToSet
    <2>2. ToSet(<<Head(ranking)>>) = {Head(ranking)}
      BY DEF ToSet
    <2> QED BY <1>1, <1>2, <2>1, <2>2 DEF Fits
  <1>3. CASE Reply(method) = ranking
    BY <1>1, <1>3
  <1> QED BY <1>2, <1>3 DEF Reply

\* select_bound_route returns a route of the list it looked at.
LEMMA CandidateListed ==
    ASSUME NEW routes, NEW binding, NEW r \in Candidate(routes, binding)
    PROVE  r \in ToSet(routes)
  BY DEF Candidate, ToSet

\* open_session takes a route within reach of the caches.
LEMMA OpenedFits ==
    ASSUME NEW k \in Clients, SelectionInv, NEW routes, Fits(routes, now - Memory, lastRanked)
    PROVE  ClientFields(OpenWith(k, routes)) /\ ClientOK(OpenWith(k, routes), now, lastRanked)
  <1> DEFINE q == client[k]
             cands == Candidate(routes, q.binding)
  <1>0. ClientFields(q) /\ now \in Nat /\ lastRanked \in [Routes -> Int] /\ Memory \in Nat
    BY SelectionConstants DEF SelectionInv, HistoryOK
  <1>1. CASE \E r \in cands : Openable(k, r)
    <2>1. PICK r \in cands : r = CHOOSE x \in cands : TRUE
      BY <1>1
    <2>2. r \in Routes /\ now - Memory <= lastRanked[r]
      BY <2>1, CandidateListed DEF Fits
    <2>3. now <= lastRanked[r] + Memory
      BY <1>0, <2>2
    <2>4. OpenWith(k, routes) = [q EXCEPT !.at = "opened", !.time = now, !.route = r]
      BY <1>1, <2>1 DEF OpenWith
    <2>5. PICK o : o = OpenWith(k, routes)
      OBVIOUS
    <2> HIDE DEF q
    <2>6. ClientFields(o) /\ o.at = "opened" /\ o.route = r /\ o.time = now
      BY <1>0, <2>4, <2>5 DEF ClientFields
    <2> QED BY <1>0, <2>2, <2>3, <2>5, <2>6 DEF ClientOK
  <1>2. CASE ~\E r \in cands : Openable(k, r)
    <2>1. OpenWith(k, routes) = [q EXCEPT !.at = "refused"]
      BY <1>2 DEF OpenWith
    <2> HIDE DEF q
    <2>2. ClientFields(OpenWith(k, routes)) /\ OpenWith(k, routes).at = "refused"
      BY <1>0, <2>1 DEF ClientFields
    <2> QED BY <2>2 DEF ClientOK
  <1> QED BY <1>1, <1>2

\* prepare_session opens nothing and asks nothing.
LEMMA PreparedFits ==
    ASSUME NEW k \in Clients, SelectionInv, NEW routes
    PROVE  ClientFields(PrepareWith(k, routes)) /\ ClientOK(PrepareWith(k, routes), now, lastRanked)
  <1> DEFINE q == client[k]
  <1>0. ClientFields(q)
    BY DEF SelectionInv
  <1>1. \/ \E token : PrepareWith(k, routes) = [q EXCEPT !.at = "prepared", !.token = token]
        \/ PrepareWith(k, routes) = [q EXCEPT !.at = "refused"]
    BY Zenon DEF PrepareWith
  <1> HIDE DEF q
  <1>2. ClientFields(PrepareWith(k, routes)) /\ PrepareWith(k, routes).at \in {"prepared", "refused"}
    BY <1>0, <1>1 DEF ClientFields
  <1> QED BY <1>2 DEF ClientOK

\* One customer moves and the caches stay as they are.
LEMMA ClientMoves ==
    ASSUME SelectionInv, NEW k \in Clients, NEW q, ClientFields(q), ClientOK(q, now, lastRanked),
           client' = [client EXCEPT ![k] = q],
           UNCHANGED <<now, ranking, lastRanked>>,
           \A m \in {"select", "select_many"} : KeptOK(selections'[m], lastRanked),
           selections' = [m \in {"select", "select_many"} |-> selections'[m]]
    PROVE  SelectionInv'
  BY DEF SelectionInv

\* What follows a selection, from the cache or from the registry.
LEMMA AfterStep ==
    ASSUME SelectionInv, NEW k \in Clients, NEW routes, After(k, routes),
           Fits(routes, now - Memory, lastRanked),
           UNCHANGED <<now, ranking, lastRanked>>,
           \A m \in {"select", "select_many"} : KeptOK(selections'[m], lastRanked),
           selections' = [m \in {"select", "select_many"} |-> selections'[m]]
    PROVE  SelectionInv'
  <1>1. PICK q : q = IF client[k].op = "prepare" THEN PrepareWith(k, routes) ELSE OpenWith(k, routes)
    OBVIOUS
  <1>2. ClientFields(q) /\ ClientOK(q, now, lastRanked)
    BY <1>1, OpenedFits, PreparedFits
  <1>3. client' = [client EXCEPT ![k] = q]
    BY <1>1 DEF After
  <1> QED BY <1>2, <1>3, ClientMoves

\* A selection found in the cache has not expired.
LEMMA HitFits ==
    ASSUME SelectionInv, NEW k \in Clients, SelectHit(k) PROVE SelectionInv'
  <1> DEFINE entry == selections[Method(client[k].binding)]
  <1>1. KeptOK(entry, lastRanked) /\ now < entry.expires
    BY DEF SelectHit, Method, Cached, SelectionInv
  <1>2. now \in Nat /\ lastRanked \in [Routes -> Int] /\ Memory \in Nat
    BY SelectionConstants DEF SelectionInv, HistoryOK
  <1>3. entry.expires \in Nat /\ Fits(entry.routes, entry.expires - Memory, lastRanked)
    BY <1>1 DEF KeptOK
  <1>4. After(k, entry.routes) /\ UNCHANGED <<now, ranking, lastRanked, selections>>
    BY DEF SelectHit, registryVars
  <1> HIDE DEF entry
  <1>5. Fits(entry.routes, now - Memory, lastRanked)
    <2>1. now - Memory \in Int /\ entry.expires - Memory \in Int /\ now - Memory <= entry.expires - Memory
      BY <1>1, <1>2, <1>3
    <2> QED BY <1>2, <1>3, <2>1, FitsLater
  <1>6. \A m \in {"select", "select_many"} : KeptOK(selections'[m], lastRanked)
    BY <1>4 DEF SelectionInv
  <1>7. selections' = [m \in {"select", "select_many"} |-> selections'[m]]
    BY <1>4 DEF SelectionInv
  <1> QED BY <1>4, <1>5, <1>6, <1>7, AfterStep

\* An answer that arrives in time may be kept for its life.
LEMMA ReturnFits ==
    ASSUME SelectionInv, NEW k \in Clients, SelectReturns(k) PROVE SelectionInv'
  <1> DEFINE reply == client[k].reply
             asked == client[k].asked
             entry == [expires |-> now + Ttl, routes |-> reply]
             method == Method(client[k].binding)
  <1>1. asked \in Nat /\ now <= asked + SelectionTimeout /\ Fits(reply, asked, lastRanked)
    BY DEF SelectReturns, SelectionInv, ClientOK
  <1>2. now \in Nat /\ lastRanked \in [Routes -> Int]
    BY DEF SelectionInv, HistoryOK
  <1>3. /\ After(k, reply) /\ UNCHANGED <<now, ranking, lastRanked>>
        /\ selections' \in {selections, [selections EXCEPT ![method] = entry]}
    BY DEF SelectReturns, registryVars
  <1>4. method \in {"select", "select_many"}
    BY DEF Method
  <1> HIDE DEF reply, asked, method
  <1>5. Fits(reply, now - Memory, lastRanked) /\ Fits(reply, now + Ttl - Memory, lastRanked)
    <2>1. now - Memory \in Int /\ now - Memory <= asked /\ now + Ttl - Memory \in Int
          /\ now + Ttl - Memory <= asked
      BY <1>1, <1>2, SelectionConstants DEF Memory
    <2>2. asked \in Int /\ \A r \in Routes : lastRanked[r] <= lastRanked[r]
      BY <1>1, <1>2
    <2> QED BY <1>1, <1>2, <2>1, <2>2, FitsLater
  <1>6. KeptOK(entry, lastRanked)
    BY <1>2, <1>5, SelectionConstants DEF KeptOK
  <1> HIDE DEF entry
  <1>7. /\ \A m \in {"select", "select_many"} : KeptOK(selections'[m], lastRanked)
        /\ selections' = [m \in {"select", "select_many"} |-> selections'[m]]
    BY <1>3, <1>4, <1>6 DEF SelectionInv
  <1> QED BY <1>3, <1>5, <1>7, AfterStep

\* The steps of a customer that end no selection.
LEMMA RequestFits ==
    ASSUME SelectionInv, NEW k \in Clients, NEW q, ClientFields(q), ClientOK(q, now, lastRanked),
           client' = [client EXCEPT ![k] = q], UNCHANGED <<now, registryVars, selections>>
    PROVE  SelectionInv'
  <1>1. UNCHANGED <<now, ranking, lastRanked, selections>>
    BY DEF registryVars
  <1>2. /\ \A m \in {"select", "select_many"} : KeptOK(selections'[m], lastRanked)
        /\ selections' = [m \in {"select", "select_many"} |-> selections'[m]]
    BY <1>1 DEF SelectionInv
  <1> QED BY <1>1, <1>2, ClientMoves

\* A customer begins a request, asks the daemon or gets no answer.
LEMMA SessionFits ==
    ASSUME SelectionInv, NEW k \in Clients, SessionStep(k) PROVE SelectionInv'
  <1>0. ClientFields(client[k]) /\ now \in Nat /\ SelectionTimeout \in Nat
    BY SelectionConstants DEF SelectionInv, HistoryOK
  <1>1. ASSUME NEW binding, NEW schema, Prepare(k, binding, schema) PROVE SelectionInv'
    <2>1. PICK q : q = [client[k] EXCEPT !.at = "select", !.op = "prepare",
                                         !.binding = binding, !.schema = schema]
      OBVIOUS
    <2>2. ClientFields(q) /\ q.at = "select"
      BY <1>0, <2>1 DEF ClientFields
    <2>3. client' = [client EXCEPT ![k] = q] /\ UNCHANGED <<now, registryVars, selections>>
      BY <1>1, <2>1 DEF Prepare
    <2>4. ClientOK(q, now, lastRanked)
      BY <2>2 DEF ClientOK
    <2> QED BY <2>2, <2>3, <2>4, RequestFits
  <1>2. ASSUME NEW token, NEW binding, NEW schema, Open(k, token, binding, schema)
        PROVE  SelectionInv'
    <2>1. PICK q : q = [client[k] EXCEPT !.at = "select", !.op = "open", !.token = token,
                                         !.binding = binding, !.schema = schema]
      OBVIOUS
    <2>2. ClientFields(q) /\ q.at = "select"
      BY <1>0, <2>1 DEF ClientFields
    <2>3. client' = [client EXCEPT ![k] = q] /\ UNCHANGED <<now, registryVars, selections>>
      BY <1>2, <2>1 DEF Open
    <2>4. ClientOK(q, now, lastRanked)
      BY <2>2 DEF ClientOK
    <2> QED BY <2>2, <2>3, <2>4, RequestFits
  <1>3. CASE SelectAsk(k)
    <2>1. PICK reply : reply = Reply(Method(client[k].binding))
      OBVIOUS
    <2>2. PICK q : q = [client[k] EXCEPT !.at = "asked", !.asked = now, !.reply = reply]
      OBVIOUS
    <2>3. ClientFields(q) /\ q.at = "asked" /\ q.asked = now /\ q.reply = reply
      BY <1>0, <2>2 DEF ClientFields
    <2>4. client' = [client EXCEPT ![k] = q] /\ UNCHANGED <<now, registryVars, selections>>
      BY <1>3, <2>1, <2>2 DEF SelectAsk
    <2>5. Fits(reply, now, lastRanked)
      BY <2>1, ReplyFits
    <2>6. ClientOK(q, now, lastRanked)
      BY <1>0, <2>3, <2>5 DEF ClientOK
    <2> QED BY <2>3, <2>4, <2>6, RequestFits
  <1>4. CASE SelectFails(k)
    <2>1. PICK q : q = [client[k] EXCEPT !.at = "refused"]
      OBVIOUS
    <2>2. ClientFields(q) /\ q.at = "refused"
      BY <1>0, <2>1 DEF ClientFields
    <2>3. client' = [client EXCEPT ![k] = q] /\ UNCHANGED <<now, registryVars, selections>>
      BY <1>4, <2>1 DEF SelectFails
    <2>4. ClientOK(q, now, lastRanked)
      BY <2>2 DEF ClientOK
    <2> QED BY <2>2, <2>3, <2>4, RequestFits
  <1> QED BY <1>1, <1>2, <1>3, <1>4, HitFits, ReturnFits DEF SessionStep

\* The registry and the clock: the history grows, and no call is overdue.
LEMMA HistoryMoves ==
    ASSUME SelectionInv, HistoryOK(now, ranking, lastRanked)',
           \A r \in Routes : lastRanked[r] <= lastRanked'[r],
           \A k \in Clients : client[k].at = "asked" /\ client[k].asked \in Nat
                              /\ now <= client[k].asked + SelectionTimeout
                              => now' <= client[k].asked + SelectionTimeout,
           UNCHANGED <<selections, client>>
    PROVE  SelectionInv'
  <1>t. lastRanked \in [Routes -> Int] /\ lastRanked' \in [Routes -> Int] /\ Memory \in Nat
    BY SelectionConstants DEF SelectionInv, HistoryOK
  <1>1. ASSUME NEW m \in {"select", "select_many"} PROVE KeptOK(selections'[m], lastRanked')
    <2>1. selections[m].expires \in Nat
          /\ Fits(selections[m].routes, selections[m].expires - Memory, lastRanked)
      BY DEF SelectionInv, KeptOK
    <2>2. selections[m].expires - Memory \in Int
      BY <1>t, <2>1
    <2>3. Fits(selections[m].routes, selections[m].expires - Memory, lastRanked')
      BY <1>t, <2>1, <2>2, FitsLater
    <2> QED BY <2>1, <2>3 DEF KeptOK
  <1>2. ASSUME NEW k \in Clients PROVE ClientOK(client'[k], now', lastRanked')
    <2>1. ClientOK(client[k], now, lastRanked)
      BY DEF SelectionInv
    <2>2. CASE client[k].at = "asked"
      <3>1. /\ client[k].asked \in Nat /\ now <= client[k].asked + SelectionTimeout
            /\ Fits(client[k].reply, client[k].asked, lastRanked)
        BY <2>1, <2>2 DEF ClientOK
      <3>2. Fits(client[k].reply, client[k].asked, lastRanked')
        BY <1>t, <3>1, FitsLater
      <3> QED BY <2>2, <3>1, <3>2 DEF ClientOK
    <2>3. CASE client[k].at = "opened"
      <3>1. /\ client[k].time \in Nat /\ client[k].route \in Routes
            /\ client[k].time <= lastRanked[client[k].route] + Memory
        BY <2>1, <2>3 DEF ClientOK
      <3>2. client[k].time <= lastRanked'[client[k].route] + Memory
        BY <1>t, <3>1
      <3> QED BY <2>3, <3>1, <3>2 DEF ClientOK
    <2> QED BY <2>2, <2>3 DEF ClientOK
  <1>3. selections' = selections /\ client' = client
    OBVIOUS
  <1> QED BY <1>1, <1>2, <1>3 DEF SelectionInv

\* What a list ranked at t adds to the history.
LEMMA RankedLater ==
    ASSUME SelectionInv, NEW routes \in Rankings, NEW t \in Nat, now <= t
    PROVE  /\ HistoryOK(t, routes, Ranked(routes, t))
           /\ \A r \in Routes : lastRanked[r] <= Ranked(routes, t)[r]
  <1>1. lastRanked \in [Routes -> Int] /\ now \in Nat /\ \A r \in Routes : lastRanked[r] <= now
    BY DEF SelectionInv, HistoryOK
  <1>2. Ranked(routes, t) \in [Routes -> Int]
    BY <1>1 DEF Ranked
  <1>3. \A r \in Routes : Ranked(routes, t)[r] = IF r \in ToSet(routes) THEN t ELSE lastRanked[r]
    BY DEF Ranked
  <1>4. \A r \in Routes : lastRanked[r] <= Ranked(routes, t)[r] /\ Ranked(routes, t)[r] <= t
    BY <1>1, <1>3
  <1>5. Fits(routes, t, Ranked(routes, t))
    BY <1>3, SelectionConstants DEF Fits
  <1> QED BY <1>2, <1>4, <1>5 DEF HistoryOK

\* Every step keeps the invariant of the selections.
LEMMA SelectionStep ==
    SelectionInv /\ [RouteCacheNext]_cacheVars => SelectionInv'
  <1> SUFFICES ASSUME SelectionInv, [RouteCacheNext]_cacheVars PROVE SelectionInv'
    OBVIOUS
  <1>t. now \in Nat /\ ranking \in Rankings /\ SelectionTimeout \in Nat
    BY SelectionConstants DEF SelectionInv, HistoryOK
  <1>0. ASSUME UNCHANGED <<now, ranking, lastRanked, selectionVars>> PROVE SelectionInv'
    BY <1>0 DEF SelectionInv, selectionVars
  <1>1. ASSUME NEW c \in Callers, DiscoveryStep(c)
        PROVE  UNCHANGED <<now, ranking, lastRanked, selectionVars>>
    BY <1>1 DEF DiscoveryStep, CatalogHit, JoinRefresh, StartRefresh, Deliver, Disconnect,
                registryVars
  <1>2. ASSUME NEW t \in DOMAIN tasks, ListOfferings(t) \/ RefreshEnds(t) \/ TaskFinished(t)
        PROVE  UNCHANGED <<now, ranking, lastRanked, selectionVars>>
    BY <1>2 DEF ListOfferings, RefreshEnds, RefreshReturns, RefreshFails, TaskFinished,
                registryVars
  <1>3. ASSUME NEW l \in Listings, PublishListing(l)
        PROVE  UNCHANGED <<now, ranking, lastRanked, selectionVars>>
    BY <1>3 DEF PublishListing
  <1>4. ASSUME NEW routes \in Rankings, PublishRanking(routes) PROVE SelectionInv'
    <2>1. /\ ranking' = routes /\ lastRanked' = Ranked(routes, now)
          /\ now' = now /\ UNCHANGED <<selections, client>>
      BY <1>4 DEF PublishRanking, selectionVars
    <2>2. /\ HistoryOK(now, routes, Ranked(routes, now))
          /\ \A r \in Routes : lastRanked[r] <= Ranked(routes, now)[r]
      BY <1>t, RankedLater
    <2> QED BY <2>1, <2>2, HistoryMoves
  <1>5. CASE Tick
    <2>1. /\ now' = now + 1 /\ ranking' = ranking /\ lastRanked' = Ranked(ranking, now + 1)
          /\ UNCHANGED <<selections, client>>
          /\ \A k \in Clients : ~SelectionOverdue(k)
      BY <1>5 DEF Tick, selectionVars
    <2>2. /\ HistoryOK(now + 1, ranking, Ranked(ranking, now + 1))
          /\ \A r \in Routes : lastRanked[r] <= Ranked(ranking, now + 1)[r]
      BY <1>t, RankedLater
    <2>3. ASSUME NEW k \in Clients, client[k].at = "asked", client[k].asked \in Nat
          PROVE  now' <= client[k].asked + SelectionTimeout
      BY <1>t, <2>1, <2>3 DEF SelectionOverdue
    <2> QED BY <2>1, <2>2, <2>3, HistoryMoves
  <1>6. CASE Invalidate
    <2>1. /\ selections' = [m \in DOMAIN selections |-> NoRoutes]
          /\ UNCHANGED <<now, ranking, lastRanked, client>>
      BY <1>6 DEF Invalidate, registryVars
    <2>2. KeptOK(NoRoutes, lastRanked)
      BY EmptyFits DEF KeptOK, NoRoutes
    <2>3. DOMAIN selections = {"select", "select_many"}
      BY DEF SelectionInv
    <2> QED BY <2>1, <2>2, <2>3 DEF SelectionInv
  <1>7. CASE UNCHANGED cacheVars
    BY <1>0, <1>7 DEF cacheVars, registryVars
  <1> QED BY <1>0, <1>1, <1>2, <1>3, <1>4, <1>5, <1>6, <1>7, SessionFits DEF RouteCacheNext

\* At the start nothing is asked, kept or opened.
LEMMA SelectionInit == RouteCacheInit => SelectionInv
  <1> SUFFICES ASSUME RouteCacheInit PROVE SelectionInv
    OBVIOUS
  <1>1. now = 0 /\ ranking \in Rankings
        /\ lastRanked = [r \in Routes |-> IF r \in ToSet(ranking) THEN 0 ELSE Never]
    BY DEF RouteCacheInit
  <1>2. Never \in Int /\ Never <= 0
    BY SelectionConstants DEF Never
  <1>3. HistoryOK(now, ranking, lastRanked)
    BY <1>1, <1>2, SelectionConstants DEF HistoryOK, Fits
  <1>4. selections = [m \in {"select", "select_many"} |-> NoRoutes] /\ KeptOK(NoRoutes, lastRanked)
    BY EmptyFits DEF RouteCacheInit, KeptOK, NoRoutes
  <1>5. /\ client = [k \in Clients |-> client[k]]
        /\ \A k \in Clients : ClientFields(client[k]) /\ client[k].at \in {"idle", "absent"}
    BY DEF RouteCacheInit, ClientFields
  <1>6. \A k \in Clients : ClientOK(client[k], now, lastRanked)
    BY <1>5 DEF ClientOK
  <1> QED BY <1>3, <1>4, <1>5, <1>6 DEF SelectionInv

(***************************************************************************)
(* A session opens on no route that the registry daemon withdrew longer    *)
(* ago than the selection timeout and the cache's life together, for any   *)
(* number of customers whose calls to select and select_many overlap,      *)
(* return late and fill each other's entries.                              *)
(***************************************************************************)
THEOREM OpenedRoutesAreRanked == RouteCacheSpec => []OpenedRouteIsRanked
  <1>1. SelectionInv => OpenedRouteIsRanked
    <2> SUFFICES ASSUME SelectionInv, NEW k \in Clients, client[k].at = "opened"
                 PROVE  client[k].time <= lastRanked[client[k].route] + SelectionTimeout + Ttl
      BY DEF OpenedRouteIsRanked
    <2>1. /\ client[k].time \in Nat /\ client[k].route \in Routes
          /\ client[k].time <= lastRanked[client[k].route] + Memory
      BY DEF SelectionInv, ClientOK
    <2>2. lastRanked[client[k].route] \in Int
      BY <2>1 DEF SelectionInv, HistoryOK
    <2> QED BY <2>1, <2>2, SelectionConstants DEF Memory
  <1> QED BY <1>1, SelectionInit, SelectionStep, PTL DEF RouteCacheSpec
=============================================================================
