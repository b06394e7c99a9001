----------------------------- MODULE PeerCrawl -----------------------------
(***************************************************************************)
(* The overlay crawl (src/overlay/crawler.ts) and the two audits built on  *)
(* it: checkOverlayPeers, which looks for validators without peers, and    *)
(* checkOverlayTopology (topology-analyzer.ts), which looks for nodes far  *)
(* from every Tier-1 validator.  Each visit of a node is one step: the     *)
(* connection (node-connector.ts) settles once, with the peers the node    *)
(* names or with an error.                                                 *)
(***************************************************************************)
EXTENDS Naturals, Sequences, FiniteSets, Functions

CONSTANTS
    Addresses,  \* normalised endpoints
    SeedLists,  \* the HOSTs a file may declare, in the order of [[VALIDATORS]]
    Graphs,     \* who may name whom
    MaxNodes,   \* per audit: nodes a crawl visits
    MaxDepth,   \* per audit: hops from the seeds
    FewPeers,   \* at most so many peers are few (5)
    MaxHops,    \* more hops to a target are too many (3)
    NoAddress

Audits == {"peers", "topology"}

ASSUME CrawlAssumption ==
    /\ IsFiniteSet(Addresses) /\ NoAddress \notin Addresses
    /\ SeedLists \subseteq Seq(Addresses) \ {<<>>}
    /\ Graphs \subseteq [Addresses -> SUBSET Addresses]
    /\ MaxNodes \in [Audits -> Nat \ {0}]
    /\ MaxDepth \in [Audits -> Nat]
    /\ FewPeers \in Nat /\ MaxHops \in Nat

VARIABLES
    audit,      \* the audit under way
    names,      \* the peers every node would name
    seeds,      \* the declared HOSTs
    tier1,      \* those the topology audit measures the distance to
    queue,      \* still to visit: address and depth
    visited,    \* addresses the crawl has dialled
    adjacency,  \* the peers it was told of
    errors,     \* addresses whose connection failed
    finding,    \* of the peers audit: the rule and the address it names
    paths,      \* of the topology audit: the unreachable and the far nodes
    crawled     \* the audit has reported

crawlVars == <<audit, names, seeds, tier1, queue, visited, adjacency, errors, finding, paths, crawled>>

CrawlRules == {"none", "isolated-node-zero-peers", "low-peer-count"}
Entry == [address : Addresses, depth : Nat]

CrawlTypeOK ==
    /\ audit \in Audits
    /\ names \in Graphs /\ seeds \in SeedLists /\ tier1 \subseteq Range(seeds)
    /\ queue \in Seq(Entry)
    /\ visited \subseteq Addresses /\ errors \subseteq visited
    /\ adjacency \in [Addresses -> SUBSET Addresses]
    /\ finding \in [rule : CrawlRules, address : Addresses \cup {NoAddress}]
    /\ paths \in [unreachable : SUBSET Addresses, far : SUBSET Addresses]
    /\ crawled \in BOOLEAN

\* Everything within h steps of the nodes in from, along the edges of g.
Within(g, from, h) ==
    LET ball[n \in Nat] == IF n = 0 THEN from
                           ELSE ball[n - 1] \cup UNION {g[a] : a \in ball[n - 1]}
    IN ball[h]

-----------------------------------------------------------------------------
CrawlInit ==
    /\ audit \in Audits /\ names \in Graphs /\ seeds \in SeedLists
    /\ audit = "topology" => IsInjective(seeds)    \* ... which drops duplicates itself
    /\ tier1 \in SUBSET Range(seeds) \ {{}}
    /\ queue = [i \in DOMAIN seeds |-> [address |-> seeds[i], depth |-> 0]]
    /\ visited = {} /\ errors = {}
    /\ adjacency = [a \in Addresses |-> {}]
    /\ finding = [rule |-> "none", address |-> NoAddress]
    /\ paths = [unreachable |-> {}, far |-> {}]
    /\ crawled = FALSE

\* The condition of the crawl's loop.
Crawling == ~crawled /\ queue # <<>> /\ Cardinality(visited) < MaxNodes[audit]

\* Mutant: an entry queued twice ends the crawl.
SkipEnds ==
    /\ Crawling /\ Head(queue).address \in visited
    /\ queue' = <<>>
    /\ UNCHANGED <<audit, names, seeds, tier1, visited, adjacency, errors, finding, paths, crawled>>

\* An entry queued twice is dropped the second time.
Skip ==
    /\ Crawling /\ Head(queue).address \in visited
    /\ queue' = Tail(queue)
    /\ UNCHANGED <<audit, names, seeds, tier1, visited, adjacency, errors, finding, paths, crawled>>

MayExpand(depth) == depth < MaxDepth[audit]

\* The bound on visited nodes also counts what is queued, twice if queued twice.
Room == IF Len(queue) + Cardinality(visited) < MaxNodes[audit]
        THEN MaxNodes[audit] - (Len(queue) + Cardinality(visited)) ELSE 0

\* What a visit may queue: the unvisited peers, in the order the node names
\* them, as long as there is room.
Discoveries(a, depth) ==
    LET eligible == names[a] \ (visited \cup {a})
        many == IF Cardinality(eligible) < Room THEN Cardinality(eligible) ELSE Room
    IN IF MayExpand(depth) THEN Injection(1..many, eligible) ELSE {<<>>}

Queued(s, depth) == [i \in DOMAIN s |-> [address |-> s[i], depth |-> depth]]

\* Mutant: the last entry is taken first.
AnsweredLast ==
    /\ Crawling
    /\ LET a == queue[Len(queue)].address
           d == queue[Len(queue)].depth IN
        /\ a \notin visited
        /\ visited' = visited \cup {a}
        /\ adjacency' = [adjacency EXCEPT ![a] = names[a]]
        /\ \E s \in Discoveries(a, d) :
              queue' = SubSeq(queue, 1, Len(queue) - 1) \o Queued(s, d + 1)
    /\ UNCHANGED <<audit, names, seeds, tier1, errors, finding, paths, crawled>>

\* The node answers with its peers.
Answered ==
    /\ Crawling
    /\ LET a == Head(queue).address
           d == Head(queue).depth IN
        /\ a \notin visited
        /\ visited' = visited \cup {a}
        /\ adjacency' = [adjacency EXCEPT ![a] = names[a]]
        /\ \E s \in Discoveries(a, d) : queue' = Tail(queue) \o Queued(s, d + 1)
    /\ UNCHANGED <<audit, names, seeds, tier1, errors, finding, paths, crawled>>

\* Mutant: a node that does not answer is not marked as visited.
UnansweredUnmarked ==
    /\ Crawling /\ Head(queue).address \notin visited
    /\ errors' = errors \cup {Head(queue).address}
    /\ queue' = Tail(queue)
    /\ UNCHANGED <<audit, names, seeds, tier1, visited, adjacency, finding, paths, crawled>>

\* Refused, timed out, closed without an answer, or answered with nonsense.
Unanswered ==
    /\ Crawling /\ Head(queue).address \notin visited
    /\ visited' = visited \cup {Head(queue).address}
    /\ errors' = errors \cup {Head(queue).address}
    /\ queue' = Tail(queue)
    /\ UNCHANGED <<audit, names, seeds, tier1, adjacency, finding, paths, crawled>>

\* checkOverlayPeers(): the first seed without peers, else the first with few.
PeersFinding ==
    LET ranked(S) == IF S = {} THEN NoAddress
                     ELSE seeds[CHOOSE i \in DOMAIN seeds : seeds[i] \in S /\
                                    \A j \in 1..(i - 1) : seeds[j] \notin S]
        zero == {a \in Range(seeds) : adjacency[a] = {}}
        low == {a \in Range(seeds) : Cardinality(adjacency[a]) <= FewPeers}
    IN IF zero # {} THEN [rule |-> "isolated-node-zero-peers", address |-> ranked(zero)]
       ELSE IF low # {} THEN [rule |-> "low-peer-count", address |-> ranked(low)]
       ELSE [rule |-> "none", address |-> NoAddress]

\* Mutant: edges are followed backwards, from the target to the nodes.
AnalyzeReversed(targets) ==
    LET graph == visited \cup UNION {adjacency[a] : a \in visited}
        within(a, h) == a \in Within(adjacency, targets, h)
    IN [unreachable |-> {a \in graph : ~within(a, Cardinality(Addresses))},
        far |-> {a \in graph : within(a, Cardinality(Addresses)) /\ ~within(a, MaxHops)}]

\* analyzeOverlayTopology(): shortest paths from every node heard of.
Analyze(targets) ==
    LET graph == visited \cup UNION {adjacency[a] : a \in visited}
        within(a, h) == Within(adjacency, {a}, h) \cap targets # {}
    IN [unreachable |-> {a \in graph : ~within(a, Cardinality(Addresses))},
        far |-> {a \in graph : within(a, Cardinality(Addresses)) /\ ~within(a, MaxHops)}]

ReportPeers ==
    /\ ~crawled /\ ~Crawling /\ audit = "peers"
    /\ finding' = PeersFinding
    /\ crawled' = TRUE
    /\ UNCHANGED <<audit, names, seeds, tier1, queue, visited, adjacency, errors, paths>>

ReportTopology ==
    /\ ~crawled /\ ~Crawling /\ audit = "topology"
    /\ paths' = Analyze(tier1)
    /\ crawled' = TRUE
    /\ UNCHANGED <<audit, names, seeds, tier1, queue, visited, adjacency, errors, finding>>

CrawlNext == Skip \/ Answered \/ Unanswered \/ ReportPeers \/ ReportTopology
CrawlSpec == CrawlInit /\ [][CrawlNext]_crawlVars

-----------------------------------------------------------------------------
Links(g, S) == Cardinality({e \in S \X Addresses : e[2] \in g[e[1]]})

\* A crawl that has room for everything it hears of visits exactly the nodes
\* within maxDepth hops of the seeds through nodes that answer: none is lost
\* because it was heard of twice, too late or from further away first.
CrawlComplete ==
    crawled /\ Len(seeds) + Links(adjacency, visited) <= MaxNodes[audit] =>
        visited = Within(adjacency, Range(seeds), MaxDepth[audit])

\* checkOverlayPeers(): a validator said to have "reported zero reachable peers"
\* was dialled, and failed to answer or named nobody, provided the file declares
\* no more of them than the crawl may visit.
IsolationHonest ==
    finding.rule = "isolated-node-zero-peers" /\ Len(seeds) <= MaxNodes[audit] =>
        \/ finding.address \in errors
        \/ finding.address \in visited /\ names[finding.address] = {}

\* checkOverlayTopology(): when every node answers and the limits leave room for
\* the whole network, the nodes reported as disconnected or as far are exactly
\* those with no path, or no short path, to a target among what nodes name.
TopologyTrue ==
    LET network == Within(names, Range(seeds), Cardinality(Addresses))
        near(a, h) == Within(names, {a}, h) \cap tier1 # {}
    IN crawled /\ audit = "topology" /\ errors = {}
       /\ network = Within(names, Range(seeds), MaxDepth[audit])
       /\ Len(seeds) + Links(names, network) <= MaxNodes[audit] =>
          \A a \in Addresses :
            /\ a \in paths.unreachable <=> a \in network /\ ~near(a, Cardinality(Addresses))
            /\ a \in paths.far <=> /\ a \in network /\ ~near(a, MaxHops)
                                   /\ near(a, Cardinality(Addresses))
=============================================================================
