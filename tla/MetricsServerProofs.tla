------------------------ MODULE MetricsServerProofs ------------------------
(***************************************************************************)
(* What MetricsServer shows of one instance, for any number of scrapes,    *)
(* polls and lives of the server.                                          *)
(***************************************************************************)
EXTENDS MetricsServer, TLAPS

\* What is shown, kept, collected and polled, in this order.
Ordered ==
    /\ source \in Nat /\ latest \in Nat /\ shown \in Nat
    /\ shown <= latest /\ latest <= source
    /\ \A r \in running : r.version \in Nat /\ shown <= r.version /\ r.version <= source

\* The collection that scrapes share is the only one under way.
Single ==
    /\ \A r1, r2 \in running : r1 = r2
    /\ \A r \in running : inFlight = {r.id}

IInv == Ordered /\ Single

\* What runs is what is in flight: with nothing in flight nothing runs.
LEMMA NothingRuns == ASSUME Single, inFlight = {} PROVE running = {}
  BY DEF Single

LEMMA ScrapeKeeps ==
  ASSUME IInv, NEW s \in Scrapes, Scrape(s)
  PROVE  IInv'
<1>1. CASE UNCHANGED <<inFlight, running>>
  BY <1>1 DEF IInv, Ordered, Single, Scrape
<1>2. CASE inFlight = {} /\ \E c \in Collections : Collect(s, c)
  <2>1. PICK c \in Collections : Collect(s, c)
    BY <1>2
  <2>2. running' = {[id |-> c, version |-> source]} /\ inFlight' = {c}
    BY <1>2, <2>1, NothingRuns DEF IInv, Collect
  <2>3. Single'
    BY <2>2 DEF Single
  <2>4. Ordered'
    BY <2>2 DEF IInv, Ordered, Scrape
  <2>. QED
    BY <2>3, <2>4 DEF IInv
<1>. QED
  BY <1>1, <1>2 DEF Scrape

\* Nothing runs once the only collection has ended.
LEMMA LastOne == ASSUME Single, NEW r \in running PROVE running \ {r} = {}
  BY DEF Single

LEMMA AnswerShows ==
  ASSUME NEW c, NEW v \in Nat, shown \in Nat, Answer(c, v)
  PROVE  shown' = shown \/ (shown' = v /\ v > shown)
  BY DEF Answer

LEMMA CollectedKeeps ==
  ASSUME IInv, NEW r \in Running, Collected(r)
  PROVE  IInv'
<1>1. running' = {} /\ latest' = r.version /\ source' = source
  BY LastOne DEF IInv, Collected
<1>2. r.version \in Nat /\ shown <= r.version /\ r.version <= source /\ shown \in Nat /\ source \in Nat
  BY DEF IInv, Ordered, Collected
<1>3. shown' = shown \/ (shown' = r.version /\ r.version > shown)
  BY <1>2, AnswerShows DEF Collected
<1>4. Ordered'
  BY <1>1, <1>2, <1>3 DEF Ordered
<1>. QED
  BY <1>1, <1>4 DEF IInv, Single

LEMMA CollectFailsKeeps ==
  ASSUME IInv, NEW r \in Running, CollectFails(r)
  PROVE  IInv'
<1>1. running' = {} /\ latest' = latest /\ source' = source
  BY LastOne DEF IInv, CollectFails
<1>2. latest \in Nat /\ shown <= latest /\ latest <= source /\ shown \in Nat /\ source \in Nat
  BY DEF IInv, Ordered
<1>3. shown' = shown \/ (shown' = latest /\ latest > shown)
  BY <1>2, AnswerShows DEF CollectFails
<1>4. Ordered'
  BY <1>1, <1>2, <1>3 DEF Ordered
<1>. QED
  BY <1>1, <1>4 DEF IInv, Single

LEMMA StepKeeps == IInv /\ [Next]_vars => IInv'
<1>. SUFFICES ASSUME IInv, [Next]_vars PROVE IInv'
  OBVIOUS
<1>1. CASE Poll
  BY <1>1 DEF IInv, Ordered, Single, Poll
<1>2. CASE Start \/ Listening \/ Stop \/ Stopped
  BY <1>2 DEF IInv, Ordered, Single, Start, Listening, Stop, Stopped
<1>3. CASE \E s \in Scrapes : Scrape(s)
  BY <1>3, ScrapeKeeps
<1>4. CASE \E s \in Scrapes : Refuse(s)
  BY <1>4 DEF IInv, Ordered, Single, Refuse
<1>5. CASE \E r \in Running : Collected(r)
  BY <1>5, CollectedKeeps
<1>6. CASE \E r \in Running : CollectFails(r)
  BY <1>6, CollectFailsKeeps
<1>7. CASE UNCHANGED vars
  BY <1>7 DEF IInv, Ordered, Single, vars
<1>. QED
  BY <1>1, <1>2, <1>3, <1>4, <1>5, <1>6, <1>7 DEF Next

\* One collection at a time, and answers that never go back, for any number of
\* scrapes and polls.
THEOREM AnswersNeverGoBack == Spec => []AnswersAdvance
<1>1. Init => IInv
  BY DEF Init, IInv, Ordered, Single
<1>2. IInv => AnswersAdvance
  BY DEF IInv, Ordered, Single, AnswersAdvance
<1>. QED
  BY <1>1, <1>2, StepKeeps, PTL DEF Spec
=============================================================================
