--------------------------- MODULE MetricsServer ---------------------------
(***************************************************************************)
(* The Prometheus exporter (class PrometheusMetricsServer of               *)
(* src/telemetry/prometheus-server.ts), with the collect callback that     *)
(* runMonitorDaemon() of cli.ts gives it.  Every scrape asks for a         *)
(* snapshot; scrapes that overlap share one collection.                    *)
(*                                                                         *)
(* A snapshot is told by the version of the body it was made from; 0 is    *)
(* the empty snapshot.  The daemon's polls make newer bodies.              *)
(***************************************************************************)
EXTENDS Naturals, FiniteSets

CONSTANTS
    Scrapes,      \* requests for /metrics
    Collections,  \* calls of collect() that may be under way at once
    MaxVersion,   \* bound on the bodies
    MaxStarts     \* bound on calls of start()

ASSUME MetricsAssumption ==
    /\ IsFiniteSet(Scrapes) /\ IsFiniteSet(Collections)
    /\ MaxVersion \in Nat /\ MaxStarts \in Nat

VARIABLES
    source,    \* latestSource: the newest body the daemon has polled
    latest,    \* the snapshot kept
    inFlight,  \* what the scrapes of now share: {} or {c}, a collection
    running,   \* the collections under way, with the version each has read
    scrape,    \* per request: "new", "waiting", "answered" or "refused"
    shared,    \* per request: the collection it waits for
    server,    \* "off", "starting" or "listening"
    draining,  \* requests that stop() waits for
    stopping,  \* a stop() is pending
    starts,    \* calls of start()
    shown      \* the newest snapshot ever answered (history)

vars == <<source, latest, inFlight, running, scrape, shared, server, draining, stopping,
          starts, shown>>

Versions == 0..MaxVersion
Waiting == {s \in Scrapes : scrape[s] = "waiting"}

Init ==
    /\ source = 0 /\ latest = 0 /\ inFlight = {} /\ running = {}
    /\ scrape = [s \in Scrapes |-> "new"]
    /\ shared = [s \in Scrapes |-> {}]
    /\ server = "off" /\ draining = {} /\ stopping = FALSE
    /\ starts = 0 /\ shown = 0

\* onPoll: a new body.
Poll ==
    /\ source < MaxVersion
    /\ source' = source + 1
    /\ UNCHANGED <<latest, inFlight, running, scrape, shared, server, draining, stopping,
                   starts, shown>>

-----------------------------------------------------------------------------
(* The server.                                                             *)

\* A second start() while the server is there changes nothing.
Start ==
    /\ server = "off" /\ starts < MaxStarts
    /\ server' = "starting" /\ starts' = starts + 1
    /\ UNCHANGED <<source, latest, inFlight, running, scrape, shared, draining, stopping, shown>>

\* The port is bound, or taken by somebody else.
Listening ==
    /\ server = "starting"
    /\ server' \in {"listening", "off"}
    /\ UNCHANGED <<source, latest, inFlight, running, scrape, shared, draining, stopping,
                   starts, shown>>

\* stop(): no new connections; the requests under way are waited for.  (Its
\* caller has awaited start().)
Stop ==
    /\ server = "listening" /\ ~stopping
    /\ server' = "off"
    /\ stopping' = TRUE /\ draining' = Waiting
    /\ UNCHANGED <<source, latest, inFlight, running, scrape, shared, starts, shown>>

Stopped ==
    /\ stopping /\ draining = {}
    /\ stopping' = FALSE
    /\ UNCHANGED <<source, latest, inFlight, running, scrape, shared, server, draining,
                   starts, shown>>

-----------------------------------------------------------------------------
(* The scrapes.                                                            *)

\* collect(): it lints the newest body, and then probes the network for a while.
Collect(s, c) ==
    /\ \A r \in running : r.id # c
    /\ inFlight' = {c} /\ running' = running \cup {[id |-> c, version |-> source]}
    /\ shared' = [shared EXCEPT ![s] = {c}]

\* Mutant: every scrape collects for itself.
ScrapeAlone(s) ==
    /\ server = "listening" /\ scrape[s] = "new"
    /\ scrape' = [scrape EXCEPT ![s] = "waiting"]
    /\ \E c \in Collections : Collect(s, c)
    /\ UNCHANGED <<source, latest, server, draining, stopping, starts, shown>>

\* handle() and snapshot(): collect, unless a collection is under way.
Scrape(s) ==
    /\ server = "listening" /\ scrape[s] = "new"
    /\ scrape' = [scrape EXCEPT ![s] = "waiting"]
    /\ \/ /\ inFlight # {}
          /\ shared' = [shared EXCEPT ![s] = inFlight]
          /\ UNCHANGED <<inFlight, running>>
       \/ inFlight = {} /\ \E c \in Collections : Collect(s, c)
    /\ UNCHANGED <<source, latest, server, draining, stopping, starts, shown>>

\* Nobody listens.
Refuse(s) ==
    /\ server # "listening" /\ scrape[s] = "new"
    /\ scrape' = [scrape EXCEPT ![s] = "refused"]
    /\ UNCHANGED <<source, latest, inFlight, running, shared, server, draining, stopping,
                   starts, shown>>

\* Those who wait for collection c get the snapshot v.
Answer(c, v) ==
    LET due == {s \in Waiting : c \in shared[s]} IN
    /\ scrape' = [s \in Scrapes |-> IF s \in due THEN "answered" ELSE scrape[s]]
    /\ draining' = draining \ due
    /\ shown' = IF due # {} /\ v > shown THEN v ELSE shown

Collected(r) ==
    /\ r \in running
    /\ running' = running \ {r}
    /\ latest' = r.version /\ inFlight' = {}
    /\ Answer(r.id, r.version)
    /\ UNCHANGED <<source, shared, server, stopping, starts>>

\* Mutant: a failed collection is not forgotten.
CollectFailsKept(r) ==
    /\ r \in running
    /\ running' = running \ {r}
    /\ UNCHANGED inFlight
    /\ Answer(r.id, latest)
    /\ UNCHANGED <<source, latest, shared, server, stopping, starts>>

\* collect() rejects: the snapshot kept is served again.
CollectFails(r) ==
    /\ r \in running
    /\ running' = running \ {r}
    /\ inFlight' = {}
    /\ Answer(r.id, latest)
    /\ UNCHANGED <<source, latest, shared, server, stopping, starts>>

Running == [id : Collections, version : Versions]

Next ==
    \/ Poll \/ Start \/ Listening \/ Stop \/ Stopped
    \/ \E s \in Scrapes : Scrape(s) \/ Refuse(s)
    \/ \E r \in Running : Collected(r) \/ CollectFails(r)

\* listen() calls back; every probe of a collection has its timeout.
Fairness ==
    /\ WF_vars(Listening) /\ WF_vars(Stopped)
    /\ WF_vars(\E r \in Running : Collected(r) \/ CollectFails(r))

Spec == Init /\ [][Next]_vars
FairSpec == Spec /\ Fairness

-----------------------------------------------------------------------------
TypeOK ==
    /\ source \in Versions /\ latest \in Versions /\ shown \in Versions
    /\ inFlight \subseteq Collections
    /\ running \subseteq Running
    /\ scrape \in [Scrapes -> {"new", "waiting", "answered", "refused"}]
    /\ shared \in [Scrapes -> SUBSET Collections]
    /\ server \in {"off", "starting", "listening"}
    /\ draining \subseteq Scrapes /\ stopping \in BOOLEAN
    /\ starts \in 0..MaxStarts

\* The exporter "never doubles the load": one collection at a time, and no
\* request is answered with an older body than one before it was, however
\* scrapes, polls, failed collections, stop() and start() fall.
AnswersAdvance ==
    /\ \A r1, r2 \in running : r1 = r2
    /\ \A r \in running : r.version >= shown
    /\ latest >= shown

\* Every accepted scrape is answered and every stop() resolves, also when the
\* collection fails or the server is started again meanwhile.
ScrapesSettle ==
    /\ \A s \in Scrapes : (scrape[s] = "waiting") ~> (scrape[s] = "answered")
    /\ stopping ~> ~stopping
=============================================================================
