----------------------------- MODULE RouteCache -----------------------------
(***************************************************************************)
(* What LOC knows of the service registry: CachingRegistryClient over      *)
(* GrpcRegistryClient (providers/registry_daemon/client.py), the discovery *)
(* endpoints that show the catalog (domains/discovery), and the prepared,  *)
(* route-locked opening of a session that selects a route twice            *)
(* (prepare_session and open_session of domains/sessions/service.py).      *)
(*                                                                         *)
(* The client runs on one event loop: a step is what happens between two   *)
(* awaits.  The registry reads its state at one instant and its answer     *)
(* arrives at a later one, so anything may happen in between: the answer   *)
(* of another request, an invalidation, the end of the entry's life.       *)
(* A catalog is a set of offerings; an offering is what its entry says of  *)
(* itself, and a route is its binding with what an opening looks at.       *)
(***************************************************************************)
EXTENDS Integers, Sequences, SequencesExt, FiniteSets

CONSTANTS
    Callers,        \* clients of GET /v1/capabilities and /v1/orchestrators
    Entries,        \* [capability, eligible, protocol, sound]: catalog entries
    Wants,          \* Wants[c]: the capability c filters by, or "any"
    Listings,       \* [entries, completeness, life] the registry may come to publish
    Rankings,       \* sequences of routes SelectMany may come to return
    Clients,        \* customers that prepare and open a session
    Tokens,         \* preparation tokens other customers hold
    PreparationTtl, \* _PREPARATION_TTL
    Ttl,            \* registry_cache_ttl_seconds
    CatalogStale,   \* registry_catalog_stale_seconds
    CatalogTimeout, \* registry_catalog_timeout_seconds
    SelectionTimeout, \* registry_selection_timeout_seconds
    MaxTasks,       \* bound on the refreshes under way or awaited
    MaxInvalidations, MaxPublications, MaxTime

\* The routes the registry may come to rank.
Routes == UNION {ToSet(q) : q \in Rankings}

ASSUME RouteCacheAssumption ==
    /\ Entries \subseteq [capability : STRING, eligible : BOOLEAN, protocol : STRING, sound : BOOLEAN]
    /\ Listings \subseteq [entries : SUBSET Entries, life : Nat \ {0},
                          completeness : {"UNINITIALIZED", "PARTIAL", "COMPLETE"}]
    /\ Rankings \subseteq Seq(Routes)
    /\ {Ttl, CatalogStale, MaxTime, MaxTasks, MaxInvalidations, MaxPublications} \subseteq Nat
    /\ {CatalogTimeout, SelectionTimeout, PreparationTtl} \subseteq Nat \ {0}

VARIABLES
    now,
    listing,      \* what the registry would answer to ListOfferings
    ranking,      \* and to SelectMany; Select returns its head
    lastRanked,   \* history: the last instant at which each route was in the ranking
    published,    \* publications so far
    catalog,      \* _catalog_cache[("catalog",)]
    tasks,        \* the refresh tasks under way or awaited
    running,      \* _catalog_tasks[("catalog",)], 0 when there is none
    generation,   \* _generation
    caller,       \* the discovery request of each caller (absent: there is none)
    selections,   \* _cache: the entries of select and select_many
    client        \* the preparation or opening of each client

registryVars == <<listing, ranking, lastRanked, published>>
catalogVars == <<catalog, tasks, running, caller>>
selectionVars == <<selections, client>>
cacheVars == <<now, registryVars, catalogVars, generation, selectionVars>>

Protocols == {"paid-job/v1", "paid-session/v1"}

-----------------------------------------------------------------------------
(* Catalog answers *)

NoCatalog == [known |-> FALSE, offered |-> {}, completeness |-> "UNINITIALIZED",
              stale |-> FALSE, validUntil |-> 0, readAt |-> 0, readGen |-> 0]

NoAnswer == [entries |-> {}, completeness |-> "UNINITIALIZED", validUntil |-> 0,
             readAt |-> 0, readGen |-> 0]

NoTask == [at |-> "free", gen |-> 0, started |-> 0, answer |-> NoAnswer, result |-> NoCatalog]

NoEntry == [expires |-> 0, value |-> NoCatalog]

\* The entries _parse_catalog turns into capabilities and orchestrators.
Offered(entries) == {e \in entries : e.eligible /\ e.protocol \in Protocols}

\* _parse_catalog: one unsound entry that would be listed spoils the answer, and
\* an empty list says something only when the registry's view is complete.
ParseCatalog(answer) ==
    LET offered == Offered(answer.entries)
    IN  IF (\A e \in offered : e.sound) /\ (offered # {} \/ answer.completeness = "COMPLETE")
          THEN [known |-> TRUE, offered |-> offered, completeness |-> answer.completeness,
                stale |-> FALSE, validUntil |-> answer.validUntil,
                readAt |-> answer.readAt, readGen |-> answer.readGen]
          ELSE NoCatalog

\* Mutant: a fallback that only sets the stale flag.
FlaggedCatalog(entry) ==
    IF entry.value.known /\ now < entry.expires + CatalogStale
      THEN [entry.value EXCEPT !.stale = TRUE]
      ELSE NoCatalog

\* The fallback of a failed refresh: the entry that is in the cache by then.
StaleCatalog(entry) ==
    IF entry.value.known /\ now < entry.expires + CatalogStale
      THEN [entry.value EXCEPT !.stale = TRUE, !.completeness = "PARTIAL"]
      ELSE NoCatalog

\* capability_catalog and orchestrator_catalog: the filter may empty a list, and
\* an empty list of an incomplete catalog is an error.
Shown(value, wanted) ==
    {e \in value.offered : wanted \in {"any", e.capability}}

Conclusive(value, wanted) ==
    value.known /\ (Shown(value, wanted) # {} \/ value.completeness = "COMPLETE")

NoRequest(at) == [at |-> at, task |-> 0, gen |-> 0]

Answer(c, value) == NoRequest(IF Conclusive(value, Wants[c]) THEN "shown" ELSE "refused")

-----------------------------------------------------------------------------
(* _catalog *)

Fresh == catalog.value.known /\ now < catalog.expires

\* A client that lost its connection may call again.
Calling(c) == caller[c].at \in {"idle", "gone"}

Arrive(c, task) ==
    caller' = [caller EXCEPT ![c] = [at |-> "waiting", task |-> task, gen |-> generation]]

CatalogHit(c) ==
    /\ Calling(c) /\ Fresh
    /\ caller' = [caller EXCEPT ![c] = Answer(c, catalog.value)]
    /\ UNCHANGED <<now, registryVars, catalog, tasks, running, generation, selectionVars>>

JoinRefresh(c) ==
    /\ Calling(c) /\ ~Fresh
    /\ running # 0
    /\ Arrive(c, running)
    /\ UNCHANGED <<now, registryVars, catalog, tasks, running, generation, selectionVars>>

StartRefresh(c) ==
    /\ Calling(c) /\ ~Fresh
    /\ running = 0
    /\ \E t \in DOMAIN tasks :
         /\ tasks[t].at = "free"
         /\ \A u \in DOMAIN tasks : u < t => tasks[u].at # "free"
         /\ tasks' = [tasks EXCEPT ![t] = [NoTask EXCEPT !.at = "asked", !.gen = generation,
                                                          !.started = now]]
         /\ running' = t
         /\ Arrive(c, t)
    /\ UNCHANGED <<now, registryVars, catalog, generation, selectionVars>>

\* External: ListOfferings is evaluated.
ListOfferings(t) ==
    /\ tasks[t].at = "asked"
    /\ tasks' = [tasks EXCEPT ![t].at = "answered",
                              ![t].answer = [entries |-> listing.entries,
                                             completeness |-> listing.completeness,
                                             validUntil |-> listing.validUntil,
                                             readAt |-> now, readGen |-> generation]]
    /\ UNCHANGED <<now, registryVars, catalog, running, generation, caller, selectionVars>>

\* Mutant: the life of an entry is the configured one, whatever the listing says.
ConfiguredLife(value) == Ttl

\* An entry lives no longer than the observations behind it.
EntryLife(value) ==
    LET left == IF value.validUntil > now THEN value.validUntil - now ELSE 0
    IN  IF left < Ttl THEN left ELSE Ttl

\* Mutant: an invalidation does not reach a refresh under way.
StoreAlways(t, value) == Ttl > 0

\* A refresh of an earlier generation stores nothing.
MayStore(t, value) == Ttl > 0 /\ tasks[t].gen = generation

Complete(t, value) ==
    tasks' = [tasks EXCEPT ![t].at = "done", ![t].answer = NoAnswer, ![t].result = value]

RefreshReturns(t) ==
    /\ tasks[t].at = "answered"
    /\ LET value == ParseCatalog(tasks[t].answer)
       IN  IF value.known
             THEN /\ Complete(t, value)
                  /\ catalog' = IF MayStore(t, value)
                                  THEN [expires |-> now + EntryLife(value), value |-> value]
                                  ELSE catalog
             ELSE /\ Complete(t, StaleCatalog(catalog))
                  /\ UNCHANGED catalog
    /\ UNCHANGED <<now, registryVars, running, generation, caller, selectionVars>>

\* The call fails, or catalog_timeout_seconds pass.  A lost answer is no answer.
RefreshFails(t) ==
    /\ tasks[t].at = "asked"
    /\ Complete(t, StaleCatalog(catalog))
    /\ UNCHANGED <<now, registryVars, catalog, running, generation, caller, selectionVars>>

\* finished: the callback runs after the task and only forgets its own task.
Forget(t) == IF running = t THEN 0 ELSE running

Awaits(request, t) == request.at = "waiting" /\ request.task = t

\* A finished task is gone when nobody awaits it.
Remaining(done, requests) ==
    [t \in DOMAIN done |->
        IF done[t].at = "finished" /\ \A c \in Callers : ~Awaits(requests[c], t)
          THEN NoTask ELSE done[t]]

TaskFinished(t) ==
    /\ tasks[t].at = "done"
    /\ tasks' = Remaining([tasks EXCEPT ![t].at = "finished"], caller)
    /\ running' = Forget(t)
    /\ UNCHANGED <<now, registryVars, catalog, generation, caller, selectionVars>>

\* Mutant: a caller is not interested in an answer of an earlier generation.
AwaitedIfCurrent(c) ==
    tasks[caller[c].task].at = "finished" /\ tasks[caller[c].task].gen = generation

\* The caller awaits the task it found, registered or not; its callback is
\* later than the one that forgets the task.
Awaited(c) == tasks[caller[c].task].at = "finished"

\* The caller's shielded await returns.
Deliver(c) ==
    /\ caller[c].at = "waiting"
    /\ Awaited(c)
    /\ caller' = [caller EXCEPT ![c] = Answer(c, tasks[@.task].result)]
    /\ tasks' = Remaining(tasks, caller')
    /\ UNCHANGED <<now, registryVars, catalog, running, generation, selectionVars>>

\* The caller's connection ends; the task goes on.
Disconnect(c) ==
    /\ caller[c].at = "waiting"
    /\ caller' = [caller EXCEPT ![c] = NoRequest("gone")]
    /\ tasks' = Remaining(tasks, caller')
    /\ UNCHANGED <<now, registryVars, catalog, running, generation, selectionVars>>

-----------------------------------------------------------------------------
(* select and select_many *)

NoRoutes == [expires |-> 0, routes |-> <<>>]

\* select_bound_route
Method(binding) == IF binding = "none" THEN "select" ELSE "select_many"

\* GrpcRegistryClient: NOT_FOUND is no route.
Reply(method) ==
    IF method = "select_many" \/ ranking = <<>> THEN ranking ELSE <<Head(ranking)>>

\* Mutant: an entry of the cache is found whatever its age.
EverCached(method) == selections[method].routes # <<>>

\* _get: an entry is found until it expires.
Cached(method) == selections[method].routes # <<>> /\ now < selections[method].expires

\* The candidate select_bound_route returns, as a set: the first route, or the
\* first with the binding that was asked for.
Candidate(routes, binding) ==
    LET matching == {i \in DOMAIN routes : binding \in {"none", routes[i].binding}}
    IN  {routes[i] : i \in {j \in matching : \A h \in matching : j <= h}}

NoToken == [owner |-> "nobody", binding |-> "none", schema |-> "none", expires |-> 0]

\* prepare_session after the selection.
Preparable(k, r) == r.protocol = "paid-session/v1" /\ r.schema = client[k].schema

PrepareWith(k, routes) ==
    IF \E r \in Candidate(routes, client[k].binding) : Preparable(k, r)
      THEN [client[k] EXCEPT !.at = "prepared",
              !.token = [owner |-> k, schema |-> client[k].schema, expires |-> now + PreparationTtl,
                         binding |-> (CHOOSE r \in Candidate(routes, client[k].binding) : TRUE).binding]]
      ELSE [client[k] EXCEPT !.at = "refused"]

\* _verify_prepared_session
VerifyPrepared(k, r) ==
    LET token == client[k].token
    IN  /\ token.owner = k
        /\ token.schema = client[k].schema
        /\ token.binding = r.binding
        /\ now < token.expires

\* open_session up to the engagement: the route must still be a session with
\* delegated settlement keys and the schema asked for, and the token must match.
Openable(k, r) == Preparable(k, r) /\ r.delegated /\ VerifyPrepared(k, r)

OpenWith(k, routes) ==
    IF \E r \in Candidate(routes, client[k].binding) : Openable(k, r)
      THEN [client[k] EXCEPT !.at = "opened", !.time = now,
                             !.route = CHOOSE r \in Candidate(routes, client[k].binding) : TRUE]
      ELSE [client[k] EXCEPT !.at = "refused"]

After(k, routes) ==
    client' = [client EXCEPT ![k] = IF @.op = "prepare" THEN PrepareWith(k, routes)
                                    ELSE OpenWith(k, routes)]

NoRoute == [binding |-> "none", protocol |-> "none", schema |-> "none", delegated |-> FALSE]

\* POST /v1/sessions/prepare, with the binding the client saw or without one.
Prepare(k, binding, schema) ==
    /\ client[k].at = "idle"
    /\ client' = [client EXCEPT ![k] = [@ EXCEPT !.at = "select", !.op = "prepare",
                                                 !.binding = binding, !.schema = schema]]
    /\ UNCHANGED <<now, registryVars, catalogVars, generation, selections>>

\* POST /v1/sessions with a token, and with its binding or without one.
Open(k, token, binding, schema) ==
    /\ client[k].at \in {"idle", "prepared"}
    /\ token \in Tokens \cup (IF client[k].at = "prepared" THEN {client[k].token} ELSE {})
    /\ client' = [client EXCEPT ![k] = [@ EXCEPT !.at = "select", !.op = "open", !.token = token,
                                                 !.binding = binding, !.schema = schema]]
    /\ UNCHANGED <<now, registryVars, catalogVars, generation, selections>>

SelectHit(k) ==
    /\ client[k].at = "select"
    /\ Cached(Method(client[k].binding))
    /\ After(k, selections[Method(client[k].binding)].routes)
    /\ UNCHANGED <<now, registryVars, catalogVars, generation, selections>>

SelectAsk(k) ==
    /\ client[k].at = "select"
    /\ ~Cached(Method(client[k].binding))
    /\ client' = [client EXCEPT ![k].at = "asked", ![k].asked = now,
                                ![k].reply = Reply(Method(client[k].binding))]
    /\ UNCHANGED <<now, registryVars, catalogVars, generation, selections>>

\* Only an answer with a route is kept, and no generation is compared.
SelectReturns(k) ==
    /\ client[k].at = "asked"
    /\ selections' = IF client[k].reply = <<>> \/ Ttl = 0 THEN selections
                     ELSE [selections EXCEPT ![Method(client[k].binding)] =
                             [expires |-> now + Ttl, routes |-> client[k].reply]]
    /\ After(k, client[k].reply)
    /\ UNCHANGED <<now, registryVars, catalogVars, generation>>

\* The call fails, or selection_timeout_seconds pass.
SelectFails(k) ==
    /\ client[k].at = "asked"
    /\ client' = [client EXCEPT ![k].at = "refused"]
    /\ UNCHANGED <<now, registryVars, catalogVars, generation, selections>>

-----------------------------------------------------------------------------

Invalidate ==
    /\ generation < MaxInvalidations
    /\ selections' = [m \in DOMAIN selections |-> NoRoutes]
    /\ catalog' = NoEntry
    /\ generation' = generation + 1
    /\ running' = 0
    /\ UNCHANGED <<now, registryVars, tasks, caller, client>>

Listed(l) == [entries |-> l.entries, completeness |-> l.completeness, validUntil |-> now + l.life]

\* External: the registry daemon's view of the network changes.
PublishListing(l) ==
    /\ published < MaxPublications
    /\ published' = published + 1
    /\ l.entries # listing.entries
    /\ listing' = Listed(l)
    /\ UNCHANGED <<now, ranking, lastRanked, catalogVars, generation, selectionVars>>

Ranked(routes, t) ==
    [r \in Routes |-> IF r \in ToSet(routes) THEN t ELSE lastRanked[r]]

\* External: other routes are published, or ranked otherwise.
PublishRanking(routes) ==
    /\ published < MaxPublications
    /\ published' = published + 1
    /\ ranking' = routes
    /\ lastRanked' = Ranked(routes, now)
    /\ UNCHANGED <<now, listing, catalogVars, generation, selectionVars>>

\* A refresh does not outlive its timeout, and neither does a selection.
Overdue(t) == tasks[t].at \in {"asked", "answered"} /\ now >= tasks[t].started + CatalogTimeout
SelectionOverdue(k) == client[k].at = "asked" /\ now >= client[k].asked + SelectionTimeout

Tick ==
    /\ now < MaxTime
    /\ \A t \in DOMAIN tasks : ~Overdue(t)
    /\ \A k \in Clients : ~SelectionOverdue(k)
    /\ now' = now + 1
    /\ lastRanked' = Ranked(ranking, now + 1)
    /\ UNCHANGED <<listing, ranking, published, catalogVars, generation, selectionVars>>

\* Longer ago than any cache remembers.
Never == -(SelectionTimeout + Ttl + 1)

RouteCacheInit ==
    /\ now = 0
    /\ listing \in {Listed(l) : l \in Listings}
    /\ ranking \in Rankings
    /\ lastRanked = [r \in Routes |-> IF r \in ToSet(ranking) THEN 0 ELSE Never]
    /\ published = 0
    /\ catalog = NoEntry
    /\ tasks = [t \in 1 .. MaxTasks |-> NoTask]
    /\ running = 0
    /\ generation = 0
    /\ caller \in [Callers -> {NoRequest("idle"), NoRequest("absent")}]
    /\ selections = [m \in {"select", "select_many"} |-> NoRoutes]
    /\ client \in [Clients -> [at : {"idle", "absent"}, op : {"prepare"}, binding : {"none"},
                               schema : {"none"}, token : {NoToken}, reply : {<<>>},
                               asked : {0}, route : {NoRoute}, time : {0}]]

Bindings == {"none"} \cup {r.binding : r \in Routes}
Schemas == {r.schema : r \in Routes} \ {"none"}

Presentable(k) == Tokens \cup {client[k].token}

DiscoveryStep(c) ==
    \/ CatalogHit(c) \/ JoinRefresh(c) \/ StartRefresh(c)
    \/ Deliver(c)
    \/ Disconnect(c)

RefreshEnds(t) == RefreshReturns(t) \/ RefreshFails(t)

SessionStep(k) ==
    \/ \E schema \in Schemas :
         \/ \E binding \in Bindings : Prepare(k, binding, schema)
         \/ \E token \in Presentable(k) :
              \E binding \in {"none", token.binding} : Open(k, token, binding, schema)
    \/ SelectHit(k) \/ SelectAsk(k) \/ SelectReturns(k) \/ SelectFails(k)

RouteCacheNext ==
    \/ \E c \in Callers : DiscoveryStep(c)
    \/ \E t \in DOMAIN tasks : ListOfferings(t) \/ RefreshEnds(t) \/ TaskFinished(t)
    \/ \E k \in Clients : SessionStep(k)
    \/ Invalidate
    \/ \E l \in Listings : PublishListing(l)
    \/ \E routes \in Rankings : PublishRanking(routes)
    \/ Tick

\* The timeout ends every refresh, and the event loop runs what is ready.
RouteCacheFairness ==
    /\ \A t \in 1 .. MaxTasks : WF_cacheVars(RefreshEnds(t) \/ TaskFinished(t))
    /\ \A c \in Callers : WF_cacheVars(Deliver(c))

RouteCacheSpec == RouteCacheInit /\ [][RouteCacheNext]_cacheVars /\ RouteCacheFairness

-----------------------------------------------------------------------------
(* Properties *)

\* What a step shows c, and the generation in which c asked.
Shows(c) == caller[c].at # "shown" /\ caller'[c].at = "shown"
AnswerTo(c) == IF caller[c].at = "waiting" THEN tasks[caller[c].task].result ELSE catalog.value
AskedIn(c) == IF caller[c].at = "waiting" THEN caller[c].gen ELSE generation

\* A request that arrives after an invalidation is never answered with what the
\* registry said before it (the generation that refresh compares).
InvalidationHolds ==
    [][\A c \in Callers : Shows(c) => AnswerTo(c).readGen >= AskedIn(c)]_cacheVars

\* An answer not marked stale was read by the refresh its caller waited for, or
\* came from the cache while the observations behind it were still valid; a
\* marked one is no older than the configured grace after them (refresh).
UnmarkedIsCurrent ==
    [][\A c \in Callers :
        LET v == AnswerTo(c)
        IN  Shows(c) =>
              \/ ~v.stale /\ caller[c].at = "waiting" /\ v.readAt >= tasks[caller[c].task].started
              \/ ~v.stale /\ caller[c].at # "waiting" /\ now < v.validUntil
              \/ v.stale /\ v.readAt + CatalogTimeout + Ttl + CatalogStale
                             >= tasks[caller[c].task].started]_cacheVars

\* A caller is told that nothing is offered only when the registry said so of a
\* complete view it still vouched for (_parse_catalog, the stale fallback and the
\* discovery endpoints each decide part of this).
EmptyIsConclusive ==
    [][\A c \in Callers :
        Shows(c) /\ Shown(AnswerTo(c), Wants[c]) = {}
        => AnswerTo(c).completeness = "COMPLETE" /\ ~AnswerTo(c).stale]_cacheVars

\* A session never opens on a route that the registry withdrew longer ago than
\* an answer may be under way and then be kept: however selections overlap, a
\* late answer puts an old ranking back into a cache that compares no
\* generation, and a preparation outlives the entry it was made from (select,
\* select_many, _get and _set; the token is no promise of the registry).
OpenedRouteIsRanked ==
    \A k \in Clients :
        client[k].at = "opened" =>
            client[k].time <= lastRanked[client[k].route] + SelectionTimeout + Ttl

\* Every discovery request is answered, even if the registry hangs or the cache
\* is invalidated while it waits.
CallersAnswered == \A c \in Callers : caller[c].at = "waiting" ~> caller[c].at # "waiting"
=============================================================================
