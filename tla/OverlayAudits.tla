--------------------------- MODULE OverlayAudits ---------------------------
(***************************************************************************)
(* The overlay audits of one lint run, in the order of cli.ts: the crawls  *)
(* the command line asks for, then the handshakes.  Each awaits the one    *)
(* before.                                                                 *)
(***************************************************************************)
EXTENDS PeerCrawl, OverlayHandshake

CONSTANT Requests   \* what command lines ask for: sets of "crawl" and "handshake"

ASSUME RequestsAssumption == Requests \subseteq SUBSET {"crawl", "handshake"}

VARIABLE requested

vars == <<crawlVars, handshakeVars, requested>>

TypeOK == CrawlTypeOK /\ HandshakeTypeOK /\ requested \in Requests

\* The inputs of an audit that was not asked for do not matter.
Init ==
    /\ requested \in Requests
    /\ CrawlInit /\ HandshakeInit
    /\ "crawl" \notin requested =>
           audit = "peers" /\ names = [a \in Addresses |-> {}] /\ Len(seeds) = 1

Crawl ==
    /\ "crawl" \in requested /\ CrawlNext
    /\ UNCHANGED <<handshakeVars, requested>>

Handshake ==
    /\ "handshake" \in requested /\ ("crawl" \in requested => crawled) /\ HandshakeNext
    /\ UNCHANGED <<crawlVars, requested>>

Next == Crawl \/ Handshake

HandshakeDue == "handshake" \in requested /\ ("crawl" \in requested => crawled)

\* A connector settles and the crawl goes on; the operating system settles a
\* dial; an idle connection times out.  Nothing is assumed of the peers.
Fairness ==
    /\ WF_vars(Crawl)
    /\ WF_vars(HandshakeDue /\ (DialFails \/ Connected) /\ UNCHANGED <<crawlVars, requested>>)
    /\ WF_vars(HandshakeDue /\ Timeout /\ UNCHANGED <<crawlVars, requested>>)

Spec == Init /\ [][Next]_vars
FairSpec == Spec /\ Fairness

-----------------------------------------------------------------------------
\* Every audit ends, whatever the nodes answer or leave unanswered.
AuditsEnd ==
    /\ <>("crawl" \in requested => crawled)
    /\ <>("handshake" \in requested => turn > Validators)
=============================================================================
