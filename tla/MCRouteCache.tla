---------------------------- MODULE MCRouteCache ----------------------------
(* Two discovery callers, two customers, a registry that offers one or two    *)
(* routes, or none, and publishes once more while LOC looks at it.           *)
EXTENDS RouteCache

CONSTANTS c1, c2, k1, k2, CatalogTime

Chat == [capability |-> "chat", eligible |-> TRUE, protocol |-> "paid-job/v1", sound |-> TRUE]
Odd == [capability |-> "video", eligible |-> TRUE, protocol |-> "paid-session/v1", sound |-> FALSE]
Gone == [capability |-> "video", eligible |-> FALSE, protocol |-> "paid-session/v1", sound |-> FALSE]

Advertised == {Chat, Odd, Gone}
Views ==
    {[entries |-> {Chat}, completeness |-> "COMPLETE", life |-> 1],
     [entries |-> {Gone}, completeness |-> "COMPLETE", life |-> 3],
     [entries |-> {Chat, Odd}, completeness |-> "PARTIAL", life |-> 3]}

Filters == [c \in Callers |-> IF c = c1 THEN "any" ELSE "chat"]

Route(binding, delegated) ==
    [binding |-> binding, protocol |-> "paid-session/v1", schema |-> "rtmp", delegated |-> delegated]

RouteLists == {<<>>, <<Route("r1", TRUE)>>, <<Route("r2", TRUE), Route("r1", TRUE)>>}

OthersToken == {[owner |-> "other", binding |-> "r1", schema |-> "rtmp", expires |-> 9]}

\* The catalog and the selections share nothing but the clock, and an
\* invalidation only makes the selections forget earlier: a behaviour has the
\* one kind of request or the other, and what only the other kind reads does
\* not change.  The second customer only prepares (to the first it is another
\* user of the shared entries), r2 is only found by its rank, and a behaviour
\* is over when the first customer is opened or refused.
Absent(request) == \A r \in DOMAIN request : request[r].at = "absent"
Present(request) == \A r \in DOMAIN request : request[r].at = "idle"

MCInit ==
    /\ RouteCacheInit
    /\ listing.entries = {Chat}
    /\ \/ Present(caller) /\ Absent(client) /\ ranking = <<>>
       \/ Absent(caller) /\ Present(client)

MCSpec ==
    /\ MCInit
    /\ [][RouteCacheNext /\ (Absent(caller) => UNCHANGED <<listing, generation>>)
                        /\ client'[k2].op = "prepare"
                        /\ \A k \in Clients : client'[k].op = "prepare" => client'[k].binding # "r2"
                        /\ client[k1].at \notin {"opened", "refused"}
                        /\ (Absent(client) => UNCHANGED ranking /\ now' <= CatalogTime)]_cacheVars
    /\ RouteCacheFairness
=============================================================================
