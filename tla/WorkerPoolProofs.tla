-------------------------- MODULE WorkerPoolProofs --------------------------
(***************************************************************************)
(* What holds of the worker pool for any number of batches, files, workers *)
(* and crashes.  A round of dispatch() and the submissions of lintFiles    *)
(* are folds: the first section says how an invariant of one step of a     *)
(* fold becomes one of the fold, by induction on the steps.                *)
(***************************************************************************)
EXTENDS WorkerPool, SequenceTheorems, FiniteSetTheorems, WellFoundedInduction, TLAPS

-----------------------------------------------------------------------------
(* Folds. *)

\* Induction up to n: the least number outside T would have a predecessor in T.
LEMMA Climb ==
  ASSUME NEW n \in Nat, NEW T, 0 \in T, \A k \in 0..(n - 1) : k \in T => k + 1 \in T
  PROVE  \A k \in 0..n : k \in T
<1>. DEFINE B == {k \in 0..n : k \notin T}
<1>. SUFFICES ASSUME B # {} PROVE FALSE
  OBVIOUS
<1>1. B \subseteq Nat /\ B # {}
  OBVIOUS
<1>2. PICK b \in B : \A j \in B : ~(<<j, b>> \in OpToRel(<, Nat))
  BY <1>1, WFMin, NatLessThanWellFounded
<1>3. b \in 0..n /\ b \notin T
  BY <1>2
<1>4. b - 1 \in 0..(n - 1) /\ b \in Nat /\ b - 1 < b
  BY <1>3
<1>5. <<b - 1, b>> \in OpToRel(<, Nat)
  BY <1>4 DEF OpToRel
<1>6. b - 1 \notin B
  <2>. HIDE DEF B
  <2>. QED
    BY <1>2, <1>5
<1>. QED
  BY <1>3, <1>4, <1>6

LEMMA MaxTop ==
  ASSUME NEW n \in Nat, NEW s \in SUBSET (1..(n + 1)), n + 1 \in s
  PROVE  Max(s) = n + 1
<1>1. \A x \in s : (\A y \in s : x >= y) <=> x = n + 1
  OBVIOUS
<1>. QED
  BY <1>1 DEF Max

\* What the two folds of the model do for one element.
Step(fold, q, x) == IF fold = "round" THEN DispatchStep(q, x) ELSE Submit(q, x)

\* it[s] is p folded with the elements of seq at the places in s.
Folding(fold, p, seq, n, it) ==
    [s \in SUBSET (1..n) |->
        IF s = {} THEN p ELSE Step(fold, it[s \ {Max(s)}], seq[Max(s)])]

\* There is such a function: one more place extends it.
LEMMA FoldExists ==
  ASSUME NEW fold, NEW p, NEW seq, NEW n \in Nat
  PROVE  \E it : it = Folding(fold, p, seq, n, it)
<1>. DEFINE T == {m \in Nat : \E it : it = Folding(fold, p, seq, m, it)}
<1>1. 0 \in T
  <2>. DEFINE e == [s \in SUBSET (1..0) |-> p]
  <2>1. SUBSET (1..0) = {{}}
    OBVIOUS
  <2>2. e = Folding(fold, p, seq, 0, e)
    BY <2>1 DEF Folding
  <2>. QED
    BY <2>2
<1>2. ASSUME NEW m \in Nat, m \in T
      PROVE  m + 1 \in T
  <2>1. PICK it : it = Folding(fold, p, seq, m, it)
    BY <1>2
  <2>. DEFINE more == [s \in SUBSET (1..(m + 1)) |->
             IF m + 1 \in s THEN Step(fold, it[s \ {m + 1}], seq[m + 1]) ELSE it[s]]
  <2>2. ASSUME NEW s \in SUBSET (1..(m + 1))
        PROVE more[s] = IF s = {} THEN p ELSE Step(fold, more[s \ {Max(s)}], seq[Max(s)])
    <3>1. CASE m + 1 \in s
      <4>1. Max(s) = m + 1
        BY <3>1, MaxTop
      <4>2. s \ {m + 1} \in SUBSET (1..(m + 1)) /\ m + 1 \notin s \ {m + 1}
        OBVIOUS
      <4>3. more[s \ {m + 1}] = it[s \ {m + 1}]
        BY <4>2
      <4>4. more[s] = Step(fold, it[s \ {m + 1}], seq[m + 1])
        BY <3>1
      <4>. HIDE DEF more
      <4>. QED
        BY <3>1, <4>1, <4>3, <4>4
    <3>2. CASE m + 1 \notin s
      <4>1. s \in SUBSET (1..m)
        BY <3>2
      <4>2. more[s] = it[s]
        BY <3>2
      <4>3. s \ {Max(s)} \in SUBSET (1..(m + 1)) /\ m + 1 \notin s \ {Max(s)}
        BY <4>1, <3>2
      <4>4. more[s \ {Max(s)}] = it[s \ {Max(s)}]
        BY <4>3
      <4>5. it[s] = IF s = {} THEN p ELSE Step(fold, it[s \ {Max(s)}], seq[Max(s)])
        BY <2>1, <4>1 DEF Folding
      <4>. HIDE DEF more
      <4>. QED
        BY <4>2, <4>4, <4>5
    <3>. QED
      BY <3>1, <3>2
  <2>3. more = [s \in SUBSET (1..(m + 1)) |-> more[s]]
    OBVIOUS
  <2>. HIDE DEF more
  <2>4. more = Folding(fold, p, seq, m + 1, more)
    BY <2>2, <2>3 DEF Folding
  <2>. QED
    BY <2>4
<1>. HIDE DEF T
<1>3. \A k \in 0..n : k \in T
  BY <1>1, <1>2, Climb
<1>4. n \in T
  BY <1>3
<1>. QED
  BY <1>4 DEF T

Folded(fold, p, seq, n) == CHOOSE it : it = Folding(fold, p, seq, n, it)

\* What holds of p before the first step, and is kept from step k to step k + 1,
\* holds of the result after all n.
LEMMA FoldRule ==
  ASSUME NEW fold, NEW p, NEW seq, NEW n \in Nat, NEW J, <<0, p>> \in J,
         \A k \in 0..(n - 1) : \A q : <<k, q>> \in J => <<k + 1, Step(fold, q, seq[k + 1])>> \in J
  PROVE  <<n, Folded(fold, p, seq, n)[1..n]>> \in J
<1>. DEFINE it == Folded(fold, p, seq, n)
            T == {k \in 0..n : <<k, it[1..k]>> \in J}
<1>1. it = Folding(fold, p, seq, n, it)
  BY FoldExists DEF Folded
<1>. HIDE DEF it
<1>2. 0 \in T
  <2>1. 1..0 = {}
    OBVIOUS
  <2>. QED
    BY <1>1, <2>1 DEF Folding
<1>3. ASSUME NEW k \in 0..(n - 1), k \in T PROVE k + 1 \in T
  <2>1. Max(1..(k + 1)) = k + 1
    BY MaxTop
  <2>2. (1..(k + 1)) \ {k + 1} = 1..k /\ 1..(k + 1) # {} /\ 1..(k + 1) \in SUBSET (1..n)
    OBVIOUS
  <2>3. it[1..(k + 1)] = Step(fold, it[1..k], seq[k + 1])
    BY <1>1, <2>1, <2>2 DEF Folding
  <2>. QED
    BY <1>3, <2>3
<1>. HIDE DEF T
<1>4. n \in T
  BY <1>2, <1>3, Climb
<1>. QED
  BY <1>4 DEF T, it

\* dispatch()'s loop, and the loop of lintFiles, are such folds.
LEMMA RoundFolded ==
  ASSUME NEW p, NEW seq, NEW n \in Nat, DOMAIN seq = 1..n
  PROVE  FoldLeft(DispatchStep, p, seq) = Folded("round", p, seq, n)[1..n]
BY DEF FoldLeft, MapThenFoldSet, Folded, Folding, Step

LEMMA SubmitsFolded ==
  ASSUME NEW p, NEW seq, NEW n \in Nat, DOMAIN seq = 1..n
  PROVE  FoldLeft(Submit, p, seq) = Folded("submits", p, seq, n)[1..n]
BY DEF FoldLeft, MapThenFoldSet, Folded, Folding, Step

-----------------------------------------------------------------------------
(* One round of dispatch(). *)

\* A pool of n workers that dispatches.
PoolStates(n) == [slots : [1..n -> Slots], queue : Seq(Files), lastSlot : 0..(n - 1)]

\* The files in P, and no others, wait once or are held by one worker each.
Conserved(p, P) ==
    /\ IsInjective(p.queue)
    /\ \A i \in DOMAIN p.slots :
          /\ p.slots[i].taskId \notin Range(p.queue)
          /\ p.slots[i].job = IF p.slots[i].taskId \in Files THEN p.slots[i].taskId ELSE Null
    /\ \A i, j \in DOMAIN p.slots :
          p.slots[i].taskId = p.slots[j].taskId /\ p.slots[i].taskId \in Files => i = j
    /\ \A f \in Files :
          f \in P <=> f \in Range(p.queue) \/ \E i \in DOMAIN p.slots : p.slots[i].taskId = f

\* After an event a round can serve all there is: one new file, or one freed worker.
Idle(p, i) == p.slots[i].taskId = Null
Busy(p) == p.queue = <<>> \/ \A i \in DOMAIN p.slots : ~Idle(p, i)
Loose(p) == Len(p.queue) <= 1 \/ \A i, j \in DOMAIN p.slots : Idle(p, i) /\ Idle(p, j) => i = j

\* The first file leaves the queue.
LEMMA QueueTail ==
  ASSUME NEW s \in Seq(Files), s # <<>>, IsInjective(s)
  PROVE  /\ Tail(s) \in Seq(Files) /\ IsInjective(Tail(s)) /\ Len(Tail(s)) = Len(s) - 1
         /\ Head(s) \in Files /\ Head(s) \in Range(s)
         /\ Range(Tail(s)) = Range(s) \ {Head(s)}
<1>1. /\ Tail(s) \in Seq(Files) /\ Len(Tail(s)) = Len(s) - 1 /\ Len(s) \in Nat /\ Len(s) >= 1
      /\ \A i \in 1..Len(Tail(s)) : Tail(s)[i] = s[i + 1]
      /\ Head(s) = s[1] /\ Head(s) \in Files
      /\ DOMAIN s = 1..Len(s) /\ DOMAIN Tail(s) = 1..Len(Tail(s))
  BY HeadTailProperties
<1>2. IsInjective(Tail(s))
  BY <1>1 DEF IsInjective
<1>3. ASSUME NEW i \in 1..Len(s), i # 1
      PROVE  i - 1 \in DOMAIN Tail(s) /\ Tail(s)[i - 1] = s[i]
  BY <1>1, <1>3
<1>4. ASSUME NEW i \in DOMAIN Tail(s)
      PROVE  i + 1 \in DOMAIN s /\ Tail(s)[i] = s[i + 1] /\ s[i + 1] # s[1]
  <2>1. i + 1 \in DOMAIN s /\ Tail(s)[i] = s[i + 1] /\ 1 \in DOMAIN s /\ i + 1 # 1
    BY <1>1
  <2>. QED
    BY <2>1 DEF IsInjective
<1>5. 1 \in DOMAIN s
  BY <1>1
<1>6. ASSUME NEW v \in Range(Tail(s))
      PROVE  v \in Range(s) /\ v # Head(s)
  <2>1. PICK i \in DOMAIN Tail(s) : v = Tail(s)[i]
    BY DEF Range
  <2>2. v = s[i + 1] /\ i + 1 \in DOMAIN s /\ v # s[1]
    BY <1>4, <2>1
  <2>. QED
    BY <1>1, <2>2 DEF Range
<1>7. ASSUME NEW v \in Range(s), v # Head(s)
      PROVE  v \in Range(Tail(s))
  <2>1. PICK i \in DOMAIN s : v = s[i]
    BY DEF Range
  <2>2. i - 1 \in DOMAIN Tail(s) /\ Tail(s)[i - 1] = v
    BY <1>1, <1>3, <1>7, <2>1
  <2>. QED
    BY <2>2 DEF Range
<1>. QED
  BY <1>1, <1>2, <1>5, <1>6, <1>7 DEF Range

\* The slot of the round's turn k takes the first file, or nothing changes.
LEMMA TurnParts ==
  ASSUME NEW n \in Nat \ {0}, NEW q \in PoolStates(n), NEW k \in 0..(n - 1)
  PROVE  LET index == (q.lastSlot + k) % n
             r == DispatchStep(q, k) IN
         /\ index \in 0..(n - 1) /\ index + 1 \in 1..n
         /\ ~Idle(q, index + 1) \/ q.queue = <<>> => r = q
         /\ Idle(q, index + 1) /\ q.queue # <<>> =>
              /\ r.slots = [q.slots EXCEPT ![index + 1] = [taskId |-> Head(q.queue), job |-> Head(q.queue)]]
              /\ r.queue = Tail(q.queue)
              /\ r.lastSlot = (index + 1) % n
              /\ r = [slots |-> r.slots, queue |-> r.queue, lastSlot |-> r.lastSlot]
<1>1. q.slots \in [1..n -> Slots] /\ q.lastSlot \in 0..(n - 1)
  BY DEF PoolStates
<1>2. Len(q.slots) = n
  BY <1>1
<1>. DEFINE index == (q.lastSlot + k) % n
            taken == [slots |-> [q.slots EXCEPT ![index + 1] =
                                    [taskId |-> Head(q.queue), job |-> Head(q.queue)]],
                      queue |-> Tail(q.queue), lastSlot |-> (index + 1) % n]
<1>3. index \in 0..(n - 1)
  BY <1>1
<1>4. DispatchStep(q, k) = IF ~Idle(q, index + 1) \/ q.queue = <<>> THEN q ELSE taken
  BY <1>2 DEF DispatchStep, Idle
<1>5. index + 1 \in 1..n
  BY <1>3
<1>6. taken = [slots |-> taken.slots, queue |-> taken.queue, lastSlot |-> taken.lastSlot]
  OBVIOUS
<1>. HIDE DEF index
<1>. QED
  BY <1>3, <1>4, <1>5, <1>6 DEF index

\* A turn of the round loses no file and hands none out twice.
LEMMA TurnKeeps ==
  ASSUME NEW n \in Nat \ {0}, NEW q \in PoolStates(n), NEW k \in 0..(n - 1), NEW P, Conserved(q, P)
  PROVE  DispatchStep(q, k) \in PoolStates(n) /\ Conserved(DispatchStep(q, k), P)
<1>. DEFINE x == ((q.lastSlot + k) % n) + 1
            r == DispatchStep(q, k)
            f == Head(q.queue)
<1>1. SUFFICES ASSUME Idle(q, x), q.queue # <<>>
               PROVE  r \in PoolStates(n) /\ Conserved(r, P)
  BY TurnParts
<1>2. /\ x \in 1..n /\ x % n \in 0..(n - 1)
      /\ r.slots = [q.slots EXCEPT ![x] = [taskId |-> f, job |-> f]]
      /\ r.queue = Tail(q.queue) /\ r.lastSlot = x % n
      /\ r = [slots |-> r.slots, queue |-> r.queue, lastSlot |-> r.lastSlot]
  BY <1>1, TurnParts
<1>. HIDE DEF x, r
<1>3. q.slots \in [1..n -> Slots] /\ q.queue \in Seq(Files)
  BY DEF PoolStates
<1>4. /\ Tail(q.queue) \in Seq(Files) /\ IsInjective(Tail(q.queue))
      /\ f \in Files /\ f \in Range(q.queue)
      /\ Range(Tail(q.queue)) = Range(q.queue) \ {f}
  BY <1>1, <1>3, QueueTail DEF Conserved
<1>. HIDE DEF f
<1>5. [taskId |-> f, job |-> f] \in Slots
  BY <1>4 DEF Slots
<1>6. r \in PoolStates(n)
  BY <1>2, <1>3, <1>4, <1>5 DEF PoolStates
<1>7. /\ DOMAIN r.slots = 1..n /\ DOMAIN q.slots = 1..n
      /\ r.slots[x].taskId = f /\ r.slots[x].job = f
      /\ \A i \in 1..n : i # x => r.slots[i] = q.slots[i]
  BY <1>2, <1>3
<1>8. q.slots[x].taskId = Null /\ Null \notin Files
  BY <1>1, PoolAssumption DEF Idle
<1>9. \A i \in 1..n : q.slots[i].taskId # f
  BY <1>4, <1>7 DEF Conserved
<1>10. IsInjective(r.queue) /\ Range(r.queue) = Range(q.queue) \ {f}
  BY <1>2, <1>4
<1>11. ASSUME NEW i \in 1..n
       PROVE  /\ r.slots[i].taskId \notin Range(r.queue)
              /\ r.slots[i].job = IF r.slots[i].taskId \in Files THEN r.slots[i].taskId ELSE Null
  BY <1>4, <1>7, <1>10 DEF Conserved
<1>12. ASSUME NEW i \in 1..n, NEW j \in 1..n, r.slots[i].taskId = r.slots[j].taskId,
              r.slots[i].taskId \in Files
       PROVE  i = j
  BY <1>7, <1>9, <1>12 DEF Conserved
<1>13. ASSUME NEW g \in Files
       PROVE  g \in P <=> g \in Range(r.queue) \/ \E i \in 1..n : r.slots[i].taskId = g
  <2>1. g \in P <=> g \in Range(q.queue) \/ \E i \in 1..n : q.slots[i].taskId = g
    BY <1>7 DEF Conserved
  <2>2. CASE g = f
    BY <1>2, <1>4, <1>7, <2>1, <2>2
  <2>3. CASE g # f
    BY <1>2, <1>7, <1>8, <1>10, <2>1, <2>3
  <2>. QED
    BY <2>2, <2>3
<1>. QED
  BY <1>6, <1>7, <1>10, <1>11, <1>12, <1>13 DEF Conserved

\* As long as lastSlot stays where it is, n turns visit all n slots.
LEMMA RoundVisitsAll ==
  ASSUME NEW n \in Nat \ {0}, NEW a \in 0..(n - 1), NEW i \in 1..n
  PROVE  \E j \in 0..(n - 1) : ((a + j) % n) + 1 = i
<1>1. CASE i - 1 >= a
  <2>1. i - 1 - a \in 0..(n - 1) /\ ((a + (i - 1 - a)) % n) + 1 = i
    BY <1>1
  <2>. QED
    BY <2>1
<1>2. CASE i - 1 < a
  <2>1. i - 1 - a + n \in 0..(n - 1) /\ ((a + (i - 1 - a + n)) % n) + 1 = i
    BY <1>2
  <2>. QED
    BY <2>1
<1>. QED
  BY <1>1, <1>2

\* Until a worker is served, a turn that serves none has met one that is busy.
LEMMA TurnHelps ==
  ASSUME NEW n \in Nat \ {0}, NEW p \in PoolStates(n), NEW k \in 0..(n - 1), NEW P,
         Conserved(p, P), Loose(p), ~Busy(p)
  PROVE  \/ Busy(DispatchStep(p, k))
         \/ DispatchStep(p, k) = p /\ ~Idle(p, ((p.lastSlot + k) % n) + 1)
<1>. DEFINE x == ((p.lastSlot + k) % n) + 1
            r == DispatchStep(p, k)
            f == Head(p.queue)
<1>1. p.slots \in [1..n -> Slots] /\ p.queue \in Seq(Files) /\ p.queue # <<>>
  BY DEF PoolStates, Busy
<1>2. CASE ~Idle(p, x)
  BY <1>2, TurnParts
<1>3. CASE Idle(p, x)
  <2>1. /\ x \in 1..n
        /\ r.slots = [p.slots EXCEPT ![x] = [taskId |-> f, job |-> f]]
        /\ r.queue = Tail(p.queue)
    BY <1>1, <1>3, TurnParts
  <2>2. f \in Files /\ f # Null /\ r.queue \in Seq(Files) /\ Len(r.queue) = Len(p.queue) - 1
    BY <1>1, <2>1, QueueTail, PoolAssumption DEF Conserved
  <2>. HIDE DEF x, r, f
  <2>3. CASE Len(p.queue) <= 1
    <3>1. r.queue = <<>>
      BY <1>1, <2>2, <2>3, EmptySeq
    <3>. QED
      BY <3>1 DEF Busy, r
  <2>4. CASE \A i, j \in DOMAIN p.slots : Idle(p, i) /\ Idle(p, j) => i = j
    <3>1. \A i \in DOMAIN r.slots : ~Idle(r, i)
      BY <1>1, <1>3, <2>1, <2>2, <2>4 DEF Idle
    <3>. QED
      BY <3>1 DEF Busy, r
  <2>. QED
    BY <2>3, <2>4 DEF Loose
<1>. QED
  BY <1>2, <1>3

\* A round leaves no worker idle while a file waits: either it serves the one
\* file or the one idle worker there is, or it has met every slot, all busy.
LEMMA RoundKeeps ==
  ASSUME NEW n \in Nat \ {0}, NEW p \in PoolStates(n), NEW P, Conserved(p, P), Loose(p),
         ~inline, ~terminated
  PROVE  Dispatch(p) \in PoolStates(n) /\ Conserved(Dispatch(p), P) /\ Busy(Dispatch(p))
<1>. DEFINE seq == [i \in 1..n |-> i - 1]
            OnTurn(k, q) ==
              /\ Conserved(q, P)
              /\ Busy(q) \/ (q = p /\ \A j \in 0..(k - 1) : ~Idle(p, ((p.lastSlot + j) % n) + 1))
            J == {kq \in (0..n) \X PoolStates(n) : OnTurn(kq[1], kq[2])}
<1>1. Len(p.slots) = n /\ p.slots \in [1..n -> Slots] /\ p.lastSlot \in 0..(n - 1)
  BY DEF PoolStates
<1>2. Dispatch(p) = Folded("round", p, seq, n)[1..n]
  BY <1>1, RoundFolded DEF Dispatch
<1>3. <<0, p>> \in J
  BY <1>1
<1>4. ASSUME NEW k \in 0..(n - 1), NEW q, <<k, q>> \in J
      PROVE  <<k + 1, Step("round", q, seq[k + 1])>> \in J
  <2>. DEFINE r == DispatchStep(q, k)
  <2>1. Step("round", q, seq[k + 1]) = r
    BY DEF Step
  <2>2. q \in PoolStates(n) /\ OnTurn(k, q)
    BY <1>4
  <2>3. r \in PoolStates(n) /\ Conserved(r, P)
    BY <2>2, TurnKeeps
  <2>4. CASE Busy(q)
    <3>1. r = q
      <4>1. ((q.lastSlot + k) % n) + 1 \in DOMAIN q.slots
        BY <2>2, TurnParts DEF PoolStates
      <4>. QED
        BY <2>2, <2>4, <4>1, TurnParts DEF Busy
    <3>. QED
      BY <2>1, <2>3, <2>4, <3>1
  <2>5. CASE ~Busy(q)
    <3>1. q = p
      BY <2>2, <2>5
    <3>2. Busy(r) \/ (r = p /\ ~Idle(p, ((p.lastSlot + k) % n) + 1))
      BY <2>2, <2>5, <3>1, TurnHelps
    <3>3. \A j \in 0..k : j \in 0..(k - 1) \/ j = k
      OBVIOUS
    <3>4. OnTurn(k + 1, r)
      BY <2>2, <2>3, <2>5, <3>2, <3>3
    <3>. QED
      BY <2>1, <2>3, <3>4
  <2>. QED
    BY <2>4, <2>5
<1>. HIDE DEF J, seq
<1>5. <<n, Folded("round", p, seq, n)[1..n]>> \in J
  BY <1>3, <1>4, FoldRule
<1>6. Dispatch(p) \in PoolStates(n) /\ OnTurn(n, Dispatch(p))
  BY <1>2, <1>5 DEF J
<1>7. ASSUME \A j \in 0..(n - 1) : ~Idle(p, ((p.lastSlot + j) % n) + 1)
      PROVE  Busy(p)
  <2>1. ASSUME NEW i \in 1..n
        PROVE  ~Idle(p, i)
    <3>1. PICK j \in 0..(n - 1) : ((p.lastSlot + j) % n) + 1 = i
      <4>. DEFINE a == p.lastSlot
      <4>1. a \in 0..(n - 1)
        BY <1>1
      <4>. HIDE DEF a
      <4>2. \E j \in 0..(n - 1) : ((a + j) % n) + 1 = i
        BY <4>1, RoundVisitsAll
      <4>. QED
        BY <4>2 DEF a
    <3>. QED
      BY <1>7, <3>1
  <2>. QED
    BY <1>1, <2>1 DEF Busy
<1>. QED
  BY <1>6, <1>7

-----------------------------------------------------------------------------
(* Submissions. *)

\* A file that does not wait yet is queued.
LEMMA QueueMore ==
  ASSUME NEW s \in Seq(Files), NEW f \in Files, f \notin Range(s), IsInjective(s)
  PROVE  /\ Append(s, f) \in Seq(Files) /\ Len(Append(s, f)) = Len(s) + 1
         /\ IsInjective(Append(s, f)) /\ Range(Append(s, f)) = Range(s) \cup {f}
<1>1. /\ Append(s, f) \in Seq(Files) /\ Len(Append(s, f)) = Len(s) + 1 /\ Len(s) \in Nat
      /\ \A i \in 1..Len(s) : Append(s, f)[i] = s[i]
      /\ Append(s, f)[Len(s) + 1] = f
      /\ DOMAIN s = 1..Len(s) /\ DOMAIN Append(s, f) = 1..(Len(s) + 1)
  BY AppendProperties
<1>2. \A i \in 1..(Len(s) + 1) : i \in 1..Len(s) \/ i = Len(s) + 1
  BY <1>1
<1>3. \A i \in 1..Len(s) : s[i] # f
  BY <1>1 DEF Range
<1>4. IsInjective(Append(s, f))
  BY <1>1, <1>2, <1>3 DEF IsInjective
<1>5. Range(Append(s, f)) = Range(s) \cup {f}
  BY <1>1, <1>2 DEF Range
<1>. QED
  BY <1>1, <1>4, <1>5

\* submit(): one more file.
LEMMA SubmitKeeps ==
  ASSUME NEW n \in Nat \ {0}, NEW p \in PoolStates(n), NEW P \in SUBSET Files, NEW f \in Files \ P,
         Conserved(p, P), Busy(p), ~inline, ~terminated
  PROVE  /\ Submit(p, f) \in PoolStates(n) /\ Conserved(Submit(p, f), P \cup {f})
         /\ Busy(Submit(p, f))
<1>. DEFINE r == [p EXCEPT !.queue = Append(@, f)]
<1>1. p.queue \in Seq(Files) /\ p.slots \in [1..n -> Slots]
  BY DEF PoolStates
<1>2. f \notin Range(p.queue) /\ \A i \in DOMAIN p.slots : p.slots[i].taskId # f
  BY DEF Conserved
<1>3. /\ Append(p.queue, f) \in Seq(Files) /\ Len(Append(p.queue, f)) = Len(p.queue) + 1
      /\ IsInjective(Append(p.queue, f)) /\ Range(Append(p.queue, f)) = Range(p.queue) \cup {f}
  BY <1>1, <1>2, QueueMore DEF Conserved
<1>4. r \in PoolStates(n) /\ r.slots = p.slots /\ r.queue = Append(p.queue, f)
  BY <1>3 DEF PoolStates
<1>. HIDE DEF r
<1>5. Conserved(r, P \cup {f})
  BY <1>2, <1>3, <1>4 DEF Conserved
<1>6. Loose(r)
  <2>1. CASE p.queue = <<>>
    BY <1>3, <1>4, <2>1 DEF Loose
  <2>2. CASE \A i \in DOMAIN p.slots : ~Idle(p, i)
    BY <1>4, <2>2 DEF Loose, Idle
  <2>. QED
    BY <2>1, <2>2 DEF Busy
<1>7. Submit(p, f) = Dispatch(r)
  BY DEF Submit, r
<1>. QED
  BY <1>4, <1>5, <1>6, <1>7, RoundKeeps

\* lintFiles: all files of a batch, one after the other.
LEMMA BatchKeeps ==
  ASSUME NEW n \in Nat \ {0}, NEW p \in PoolStates(n), NEW P \in SUBSET Files, NEW b \in Batches,
         Conserved(p, P), Busy(p), ~inline, ~terminated,
         \A k \in 1..BatchSize : <<b, k>> \notin P
  PROVE  LET r == FoldLeft(Submit, p, FilesOf(b)) IN
         r \in PoolStates(n) /\ Conserved(r, P \cup Range(FilesOf(b))) /\ Busy(r)
<1>. DEFINE seq == FilesOf(b)
            Upto(k) == P \cup {<<b, j>> : j \in 1..k}
            OnFile(k, q) == Conserved(q, Upto(k)) /\ Busy(q)
            J == {kq \in (0..BatchSize) \X PoolStates(n) : OnFile(kq[1], kq[2])}
<1>1. BatchSize \in Nat /\ DOMAIN seq = 1..BatchSize
      /\ \A k \in 1..BatchSize : seq[k] = <<b, k>> /\ seq[k] \in Files
  BY PoolAssumption DEF FilesOf, Files
<1>2. <<0, p>> \in J
  <2>1. Upto(0) = P
    OBVIOUS
  <2>2. OnFile(0, p)
    BY <2>1
  <2>. HIDE DEF OnFile
  <2>. QED
    BY <1>1, <2>2
<1>3. ASSUME NEW k \in 0..(BatchSize - 1), NEW q, <<k, q>> \in J
      PROVE  <<k + 1, Step("submits", q, seq[k + 1])>> \in J
  <2>. DEFINE f == <<b, k + 1>>
              r == Submit(q, f)
  <2>1. q \in PoolStates(n) /\ Conserved(q, Upto(k)) /\ Busy(q)
    BY <1>3
  <2>2. k + 1 \in 1..BatchSize /\ seq[k + 1] = f /\ f \in Files
    BY <1>1
  <2>3. Upto(k) \subseteq Files /\ f \notin Upto(k) /\ Upto(k + 1) = Upto(k) \cup {f}
    <3>1. \A j \in 1..k : <<b, j>> \in Files
      BY <1>1 DEF Files
    <3>2. f \notin Upto(k)
      BY <2>2
    <3>3. 1..(k + 1) = (1..k) \cup {k + 1}
      OBVIOUS
    <3>. QED
      BY <3>1, <3>2, <3>3
  <2>. HIDE DEF Upto, f
  <2>4. r \in PoolStates(n) /\ Conserved(r, Upto(k) \cup {f}) /\ Busy(r)
    BY <2>1, <2>2, <2>3, SubmitKeeps
  <2>5. OnFile(k + 1, r)
    BY <2>3, <2>4
  <2>6. Step("submits", q, seq[k + 1]) = r
    BY <2>2 DEF Step
  <2>. HIDE DEF OnFile, r
  <2>. QED
    BY <1>1, <2>2, <2>4, <2>5, <2>6
<1>. HIDE DEF J, seq
<1>4. <<BatchSize, Folded("submits", p, seq, BatchSize)[1..BatchSize]>> \in J
  BY <1>1, <1>2, <1>3, FoldRule
<1>5. FoldLeft(Submit, p, seq) = Folded("submits", p, seq, BatchSize)[1..BatchSize]
  BY <1>1, SubmitsFolded
<1>6. Range(seq) = {<<b, j>> : j \in 1..BatchSize}
  BY <1>1 DEF Range
<1>. QED
  BY <1>4, <1>5, <1>6 DEF J, seq

-----------------------------------------------------------------------------
(* The inductive invariant. *)

\* Batches that were submitted, and files that are done.
Called == {b \in Batches : call[b] # "none"}
Done == {f \in Files : settled[f] \in {"entry", "failed"}}

\* A terminated pool is empty; one that dispatches has a worker at lastSlot.
Rotation == IF terminated THEN slots = <<>> /\ queue = <<>>
            ELSE ~inline => slots # <<>> /\ lastSlot < Len(slots)

\* Files the pool has not settled are pending; the files of a batch linted on
\* this thread settle in order, those of a batch not submitted are untouched.
Books ==
    /\ pending = {f \in Submitted : settled[f] = "open"}
    /\ \A b \in Batches : \A k \in 1..BatchSize :
          /\ call[b] = "none" => inlineDone[b] = 0 /\ settled[<<b, k>>] = "open"
          /\ call[b] = "inline" =>
                settled[<<b, k>>] = IF k <= inlineDone[b] THEN "entry" ELSE "open"

\* A worker that comes up without taskId is counted as a file when it crashes.
Counted == IsFiniteSet(Called) /\ (FreshTaskId = Null => ProgressHonest)

IInv == TypeOK /\ Rotation /\ Conserved(Pool, pending) /\ NoIdleWhileQueued /\ Books /\ Counted

\* Only files of submitted batches are done.
LEMMA DoneFinite ==
  ASSUME TypeOK, Books, IsFiniteSet(Called)
  PROVE  IsFiniteSet(Done) /\ (Called = {} => Done = {})
<1>1. BatchSize \in Nat
  BY PoolAssumption
<1>2. IsFiniteSet(1..BatchSize)
  BY <1>1, FS_Interval
<1>3. IsFiniteSet(Called \X (1..BatchSize))
  BY <1>2, FS_Product
<1>4. ASSUME NEW f \in Done
      PROVE  f \in Called \X (1..BatchSize)
  <2>1. PICK b \in Batches, k \in 1..BatchSize : f = <<b, k>>
    BY DEF Done, Files
  <2>2. settled[<<b, k>>] # "open"
    BY <2>1 DEF Done
  <2>3. call[b] # "none"
    BY <2>2 DEF Books
  <2>. QED
    BY <2>1, <2>3 DEF Called
<1>. QED
  BY <1>3, <1>4, FS_Subset

\* The count of files that are done: unchanged, one more, or of a new batch.
LEMMA SameCount ==
  ASSUME Counted, UNCHANGED <<call, completed>>, Done' = Done
  PROVE  Counted'
  BY DEF Counted, Called, ProgressHonest, OneBatch, Done

LEMMA CountsOne ==
  ASSUME TypeOK, Books, Counted, NEW f \in Files, settled[f] = "open",
         UNCHANGED call, Done' = Done \cup {f}, completed' = completed + 1
  PROVE  Counted'
<1>1. IsFiniteSet(Done) /\ f \notin Done
  BY DoneFinite DEF Counted, Done
<1>2. Cardinality(Done \cup {f}) = Cardinality(Done) + 1
  BY <1>1, FS_AddElement
<1>. QED
  BY <1>2 DEF Counted, Called, ProgressHonest, OneBatch, Done

LEMMA CountsAnew ==
  ASSUME TypeOK, Books, Counted, NEW b \in Batches, StartBatch(b), NEW c \in {"pool", "inline"},
         call' = [call EXCEPT ![b] = c], Done' = Done
  PROVE  Counted'
<1>1. Called' = Called \cup {b} /\ b \notin Called /\ completed' = 0
  BY DEF Called, StartBatch, TypeOK
<1>2. /\ IsFiniteSet(Called) /\ IsFiniteSet(Called')
      /\ Cardinality(Called') = Cardinality(Called) + 1 /\ Cardinality(Called) \in Nat
  BY <1>1, FS_AddElement, FS_CardinalityType DEF Counted
<1>3. ASSUME Cardinality(Called') = 1
      PROVE  Cardinality(Done') = 0
  <2>1. Called = {}
    BY <1>2, <1>3, FS_EmptySet
  <2>. QED
    BY <1>2, <2>1, DoneFinite, FS_EmptySet
<1>4. ProgressHonest'
  BY <1>1, <1>3 DEF ProgressHonest, OneBatch, Called, Done
<1>. QED
  BY <1>2, <1>4 DEF Counted

\* An event of a worker changes the slots; a round follows.
LEMMA EventKeeps ==
  ASSUME TypeOK, Rotation, NEW ss \in Seq(Slots), Len(ss) = Len(slots), slots # <<>>, NEW P,
         LET p == [slots |-> ss, queue |-> queue, lastSlot |-> lastSlot] IN
           /\ Conserved(p, P)
           /\ ~inline => Loose(p)
           /\ PoolBecomes(Dispatch(p)),
         UNCHANGED <<inline, terminated>>
  PROVE  /\ slots' \in Seq(Slots) /\ Len(slots') = Len(slots)
         /\ queue' \in Seq(Files) /\ lastSlot' \in 0..(Concurrency - 1)
         /\ Rotation' /\ Conserved(Pool', P) /\ NoIdleWhileQueued'
<1>. DEFINE p == [slots |-> ss, queue |-> queue, lastSlot |-> lastSlot]
            n == Len(slots)
<1>1. ~terminated /\ n \in 1..Concurrency /\ queue \in Seq(Files) /\ slots \in Seq(Slots)
      /\ lastSlot \in 0..(Concurrency - 1) /\ Concurrency \in Nat
  BY PoolAssumption, EmptySeq DEF TypeOK, Rotation
<1>2. Pool' = [slots |-> Dispatch(p).slots, queue |-> Dispatch(p).queue,
               lastSlot |-> Dispatch(p).lastSlot]
  BY DEF Pool, PoolBecomes
<1>3. CASE inline
  <2>1. Dispatch(p) = p
    BY <1>3 DEF Dispatch
  <2>. QED
    BY <1>1, <1>2, <1>3, <2>1 DEF Pool, PoolBecomes, Rotation, NoIdleWhileQueued
<1>4. CASE ~inline
  <2>1. p \in PoolStates(n)
    <3>1. ss \in [1..n -> Slots]
      OBVIOUS
    <3>2. lastSlot \in 0..(n - 1)
      BY <1>1, <1>4 DEF Rotation
    <3>. QED
      BY <1>1, <3>1, <3>2 DEF PoolStates
  <2>2. /\ Dispatch(p) \in PoolStates(n) /\ Conserved(Dispatch(p), P) /\ Busy(Dispatch(p))
    BY <1>1, <1>4, <2>1, RoundKeeps
  <2>3. /\ slots' \in [1..n -> Slots] /\ queue' \in Seq(Files) /\ lastSlot' \in 0..(n - 1)
        /\ slots' = Dispatch(p).slots /\ queue' = Dispatch(p).queue
    BY <2>2 DEF PoolStates, PoolBecomes
  <2>4. slots' \in Seq(Slots) /\ Len(slots') = n /\ DOMAIN slots' = 1..n
    <3>1. n \in Nat
      BY <1>1
    <3>. HIDE DEF n
    <3>. QED
      BY <2>3, <3>1
  <2>5. Conserved(Pool', P)
    BY <1>2, <2>2 DEF Conserved
  <2>6. NoIdleWhileQueued'
    BY <2>2, <2>3 DEF NoIdleWhileQueued, Busy, Idle
  <2>7. Rotation'
    BY <1>1, <2>3, <2>4 DEF Rotation
  <2>. QED
    BY <1>1, <2>3, <2>4, <2>5, <2>6, <2>7
<1>. QED
  BY <1>3, <1>4

\* The slots without slot i.
LEMMA SlotRemoved ==
  ASSUME NEW s \in Seq(Slots), NEW i \in DOMAIN s
  PROVE  /\ RemoveAt(s, i) \in Seq(Slots) /\ Len(RemoveAt(s, i)) = Len(s) - 1
         /\ \A j \in 1..(Len(s) - 1) :
               RemoveAt(s, i)[j] = IF j < i THEN s[j] ELSE s[j + 1]
<1>. DEFINE a == SubSeq(s, 1, i - 1)
            z == SubSeq(s, i + 1, Len(s))
<1>1. Len(s) \in Nat /\ i \in 1..Len(s) /\ \A j \in 1..Len(s) : s[j] \in Slots
  OBVIOUS
<1>2. a \in Seq(Slots) /\ Len(a) = i - 1 /\ \A j \in 1..(i - 1) : a[j] = s[j]
  <2>1. \A j \in 1..(i - 1) : s[j] \in Slots
    BY <1>1
  <2>. QED
    BY <1>1, <2>1, SubSeqProperties
<1>3. z \in Seq(Slots) /\ Len(z) = Len(s) - i /\ \A j \in 1..(Len(s) - i) : z[j] = s[i + j]
  <2>1. \A j \in (i + 1)..Len(s) : s[j] \in Slots
    BY <1>1
  <2>2. /\ z \in Seq(Slots)
        /\ Len(z) = IF i + 1 <= Len(s) THEN Len(s) - (i + 1) + 1 ELSE 0
        /\ \A j \in 1..(Len(s) - (i + 1) + 1) : z[j] = s[i + 1 + j - 1]
    BY <1>1, <2>1, SubSeqProperties
  <2>. HIDE DEF z
  <2>3. \A j \in 1..(Len(s) - i) : i + 1 + j - 1 = i + j
    BY <1>1
  <2>. QED
    BY <1>1, <2>2, <2>3
<1>. HIDE DEF a, z
<1>4. /\ a \o z \in Seq(Slots) /\ Len(a \o z) = Len(a) + Len(z)
      /\ \A j \in 1..(Len(a) + Len(z)) :
            (a \o z)[j] = IF j <= Len(a) THEN a[j] ELSE z[j - Len(a)]
  BY <1>2, <1>3, ConcatProperties
<1>5. Len(a \o z) = Len(s) - 1 /\ Len(a) + Len(z) = Len(s) - 1
  BY <1>1, <1>2, <1>3, <1>4
<1>6. ASSUME NEW j \in 1..(Len(s) - 1)
      PROVE  (a \o z)[j] = IF j < i THEN s[j] ELSE s[j + 1]
  <2>1. (a \o z)[j] = IF j <= i - 1 THEN a[j] ELSE z[j - (i - 1)]
    BY <1>2, <1>4, <1>5
  <2>2. CASE j < i
    <3>1. j \in 1..(i - 1) /\ j <= i - 1
      BY <1>1, <2>2
    <3>. QED
      BY <1>2, <2>1, <2>2, <3>1
  <2>3. CASE ~(j < i)
    <3>1. j - (i - 1) \in 1..(Len(s) - i) /\ i + (j - (i - 1)) = j + 1 /\ ~(j <= i - 1)
      BY <1>1, <2>3
    <3>. QED
      BY <1>3, <2>1, <2>3, <3>1
  <2>. QED
    BY <2>2, <2>3
<1>. QED
  BY <1>4, <1>5, <1>6 DEF RemoveAt, a, z

-----------------------------------------------------------------------------
(* The calls of lintFiles. *)

LEMMA FileParts ==
  ASSUME NEW b \in Batches
  PROVE  /\ BatchSize \in Nat \ {0}
         /\ \A k \in 1..BatchSize : <<b, k>> \in Files /\ FilesOf(b)[k] = <<b, k>>
         /\ Range(FilesOf(b)) = {f \in Files : f[1] = b}
<1>1. BatchSize \in Nat \ {0} /\ \A k \in 1..BatchSize : <<b, k>> \in Files
  BY PoolAssumption DEF Files
<1>2. Range(FilesOf(b)) = {<<b, k>> : k \in 1..BatchSize}
  BY DEF Range, FilesOf
<1>3. \A f \in Files : f[1] = b <=> \E k \in 1..BatchSize : f = <<b, k>>
  BY DEF Files
<1>. QED
  BY <1>1, <1>2, <1>3 DEF FilesOf

\* The files of a batch that is submitted are new.
LEMMA BatchUntouched ==
  ASSUME IInv, NEW b \in Batches, StartBatch(b)
  PROVE  /\ \A f \in Files : f[1] = b => settled[f] = "open" /\ f \notin pending
         /\ inlineDone[b] = 0
<1>1. call[b] = "none" /\ Books
  BY DEF IInv, StartBatch
<1>2. \A f \in Files : f[1] = b => \E k \in 1..BatchSize : f = <<b, k>>
  BY DEF Files
<1>3. 1 \in 1..BatchSize
  BY PoolAssumption
<1>. QED
  BY <1>1, <1>2, <1>3 DEF Books, Submitted

LEMMA LintFilesInlineKeeps == ASSUME IInv, NEW b \in Batches, LintFilesInline(b) PROVE IInv'
<1>1. TypeOK' /\ Rotation' /\ NoIdleWhileQueued' /\ Conserved(Pool, pending)'
  BY PoolAssumption DEF IInv, TypeOK, Rotation, NoIdleWhileQueued, Pool, pool, LintFilesInline, StartBatch
<1>2. StartBatch(b) /\ call' = [call EXCEPT ![b] = "inline"] /\ call[b] = "none"
      /\ UNCHANGED <<pending, settled, inlineDone>>
  BY DEF LintFilesInline, StartBatch
<1>3. \A f \in Files : f[1] = b => settled[f] = "open" /\ f \notin pending
  BY <1>2, BatchUntouched
<1>4. call \in [Batches -> {"none", "pool", "inline"}] /\ inlineDone[b] = 0 /\ Books
  BY <1>2, BatchUntouched DEF IInv, TypeOK
<1>5. Submitted' = Submitted
  BY <1>2, <1>4 DEF Submitted, Files
<1>6. Books'
  <2>1. ASSUME NEW c \in Batches, NEW k \in 1..BatchSize
        PROVE  /\ call'[c] = "none" => inlineDone[c] = 0 /\ settled[<<c, k>>] = "open"
               /\ call'[c] = "inline" =>
                     settled[<<c, k>>] = IF k <= inlineDone[c] THEN "entry" ELSE "open"
    <3>1. CASE c = b
      BY <1>2, <1>4, <3>1 DEF Books
    <3>2. CASE c # b
      BY <1>2, <1>4, <3>2 DEF Books
    <3>. QED
      BY <3>1, <3>2
  <2>. QED
    BY <1>2, <1>4, <1>5, <2>1 DEF Books
<1>7. Counted'
  BY <1>2, CountsAnew DEF IInv, Done
<1>. QED
  BY <1>1, <1>6, <1>7 DEF IInv

LEMMA LintFilesPooledKeeps == ASSUME IInv, NEW b \in Batches, LintFilesPooled(b) PROVE IInv'
<1>. DEFINE n == Len(slots)
            r == FoldLeft(Submit, Pool, FilesOf(b))
            P == pending \cup Range(FilesOf(b))
<1>1. /\ StartBatch(b) /\ call' = [call EXCEPT ![b] = "pool"] /\ call[b] = "none"
      /\ ~inline /\ ~terminated /\ pending' = P /\ PoolBecomes(r)
      /\ UNCHANGED <<inline, terminated, settled, inlineDone, crashes>>
      /\ total' = BatchSize /\ completed' = 0
  BY DEF LintFilesPooled, StartBatch
<1>2. \A f \in Files : f[1] = b => settled[f] = "open" /\ f \notin pending
  BY <1>1, BatchUntouched
<1>3. n \in Nat \ {0} /\ Pool \in PoolStates(n) /\ n <= Concurrency
  <2>1. slots \in Seq(Slots) /\ slots # <<>> /\ lastSlot \in Nat /\ lastSlot < n
        /\ queue \in Seq(Files)
    BY <1>1, PoolAssumption DEF IInv, TypeOK, Rotation
  <2>2. n \in Nat \ {0} /\ slots \in [1..n -> Slots] /\ lastSlot \in 0..(n - 1)
    BY <2>1, EmptySeq
  <2>. QED
    BY <2>1, <2>2 DEF PoolStates, Pool, IInv, TypeOK
<1>4. Conserved(Pool, pending) /\ Busy(Pool) /\ pending \in SUBSET Files
  BY <1>1 DEF IInv, NoIdleWhileQueued, Busy, Idle, Pool, TypeOK
<1>5. \A k \in 1..BatchSize : <<b, k>> \notin pending
  BY <1>2, FileParts
<1>6. r \in PoolStates(n) /\ Conserved(r, P) /\ Busy(r)
  BY <1>1, <1>3, <1>4, <1>5, BatchKeeps
<1>. HIDE DEF n, r
<1>7. /\ slots' \in [1..n -> Slots] /\ queue' \in Seq(Files) /\ lastSlot' \in 0..(n - 1)
      /\ slots' = r.slots /\ queue' = r.queue
  BY <1>1, <1>6 DEF PoolStates, PoolBecomes
<1>8. slots' \in Seq(Slots) /\ Len(slots') = n /\ DOMAIN slots' = 1..n /\ slots' # <<>>
  BY <1>3, <1>7
<1>9. Conserved(Pool', P)
  BY <1>6, <1>7 DEF Conserved, Pool
<1>10. NoIdleWhileQueued' /\ Rotation'
  BY <1>1, <1>6, <1>7, <1>8, <1>3 DEF NoIdleWhileQueued, Busy, Idle, Rotation
<1>11. TypeOK'
  <2>1. P \subseteq Files
    BY <1>4, FileParts
  <2>2. lastSlot' \in 0..(Concurrency - 1) /\ BatchSize \in 0..BatchSize
    BY <1>3, <1>7, PoolAssumption
  <2>3. call' \in [Batches -> {"none", "pool", "inline"}]
    BY <1>1 DEF IInv, TypeOK
  <2>. QED
    BY <1>1, <1>3, <1>7, <1>8, <2>1, <2>2, <2>3 DEF IInv, TypeOK
<1>12. Books'
  <2>1. call \in [Batches -> {"none", "pool", "inline"}] /\ Books
    BY DEF IInv, TypeOK
  <2>2. Submitted' = Submitted \cup {f \in Files : f[1] = b}
    <3>1. \A f \in Files : f[1] \in Batches
      BY DEF Files
    <3>. QED
      BY <1>1, <2>1, <3>1 DEF Submitted
  <2>3. P = {f \in Submitted' : settled[f] = "open"}
    BY <1>2, <2>1, <2>2, FileParts DEF Books, Submitted
  <2>4. ASSUME NEW c \in Batches, NEW k \in 1..BatchSize
        PROVE  /\ call'[c] = "none" => inlineDone[c] = 0 /\ settled[<<c, k>>] = "open"
               /\ call'[c] = "inline" =>
                     settled[<<c, k>>] = IF k <= inlineDone[c] THEN "entry" ELSE "open"
    BY <1>1, <2>1 DEF Books
  <2>. QED
    BY <1>1, <2>3, <2>4 DEF Books
<1>13. Counted'
  BY <1>1, CountsAnew DEF IInv, Done
<1>. QED
  BY <1>1, <1>9, <1>10, <1>11, <1>12, <1>13 DEF IInv

LEMMA LintFilesRejectedKeeps == ASSUME IInv, NEW b \in Batches, LintFilesRejected(b) PROVE IInv'
<1>1. /\ StartBatch(b) /\ call' = [call EXCEPT ![b] = "pool"] /\ call[b] = "none"
      /\ settled' = [f \in Files |-> IF f[1] = b THEN "terminated" ELSE settled[f]]
      /\ UNCHANGED <<slots, queue, lastSlot, pending, inline, terminated, inlineDone, crashes>>
      /\ total' = BatchSize /\ completed' = 0
  BY DEF LintFilesRejected, StartBatch, pool
<1>2. \A f \in Files : f[1] = b => settled[f] = "open" /\ f \notin pending
  BY <1>1, BatchUntouched
<1>3. Rotation' /\ NoIdleWhileQueued' /\ Conserved(Pool, pending)'
  BY <1>1 DEF IInv, Rotation, NoIdleWhileQueued, Pool
<1>4. TypeOK'
  <2>1. BatchSize \in 0..BatchSize
    BY PoolAssumption
  <2>. QED
    BY <1>1, <2>1 DEF IInv, TypeOK
<1>5. Books'
  <2>1. call \in [Batches -> {"none", "pool", "inline"}] /\ Books
    BY DEF IInv, TypeOK
  <2>2. pending = {f \in Submitted' : settled'[f] = "open"}
    <3>1. \A f \in Files : f[1] \in Batches
      BY DEF Files
    <3>2. Submitted' = Submitted \cup {f \in Files : f[1] = b}
      BY <1>1, <2>1, <3>1 DEF Submitted
    <3>. QED
      BY <1>1, <1>2, <2>1, <3>2 DEF Books, Submitted
  <2>3. ASSUME NEW c \in Batches, NEW k \in 1..BatchSize
        PROVE  /\ call'[c] = "none" => inlineDone[c] = 0 /\ settled'[<<c, k>>] = "open"
               /\ call'[c] = "inline" =>
                     settled'[<<c, k>>] = IF k <= inlineDone[c] THEN "entry" ELSE "open"
    <3>1. CASE c = b
      BY <1>1, <2>1, <3>1
    <3>2. CASE c # b
      <4>1. settled'[<<c, k>>] = settled[<<c, k>>]
        BY <1>1, <3>2, FileParts
      <4>. QED
        BY <1>1, <2>1, <3>2, <4>1 DEF Books
    <3>. QED
      BY <3>1, <3>2
  <2>. QED
    BY <1>1, <2>2, <2>3 DEF Books
<1>6. Counted'
  <2>1. Done' = Done
    BY <1>1, <1>2 DEF Done
  <2>. QED
    BY <1>1, <2>1, CountsAnew DEF IInv
<1>. QED
  BY <1>3, <1>4, <1>5, <1>6 DEF IInv

LEMMA ProcessInlineKeeps == ASSUME IInv, NEW b \in Batches, ProcessInline(b) PROVE IInv'
<1>. DEFINE d == inlineDone[b] + 1
            f == <<b, d>>
<1>1. /\ call[b] = "inline" /\ inlineDone[b] < BatchSize
      /\ inlineDone' = [inlineDone EXCEPT ![b] = d]
      /\ settled' = [settled EXCEPT ![f] = "entry"]
      /\ completed' = completed + 1
      /\ UNCHANGED <<slots, queue, lastSlot, pending, inline, terminated, total, call, crashes>>
  BY DEF ProcessInline, pool
<1>2. TypeOK /\ Books /\ BatchSize \in Nat \ {0} /\ inlineDone[b] \in 0..BatchSize
      /\ settled \in [Files -> {"open", "entry", "failed", "terminated"}]
      /\ inlineDone \in [Batches -> 0..BatchSize] /\ completed \in Nat
  BY PoolAssumption DEF IInv, TypeOK
<1>3. d \in 1..BatchSize /\ f \in Files /\ settled[f] = "open" /\ d = inlineDone[b] + 1
  <2>1. d \in 1..BatchSize /\ ~(d <= inlineDone[b])
    BY <1>1, <1>2
  <2>. QED
    BY <1>1, <1>2, <2>1, FileParts DEF Books
<1>. HIDE DEF d
<1>4. Rotation' /\ NoIdleWhileQueued' /\ Conserved(Pool, pending)'
  BY <1>1 DEF IInv, Rotation, NoIdleWhileQueued, Pool
<1>5. TypeOK'
  <2>1. d \in 0..BatchSize /\ completed + 1 \in Nat
    BY <1>2, <1>3
  <2>. QED
    BY <1>1, <1>2, <2>1 DEF TypeOK
<1>6. Books'
  <2>1. \A g \in Files : g # f => settled'[g] = settled[g]
    BY <1>1, <1>2
  <2>2. f \notin Submitted /\ Submitted' = Submitted
    BY <1>1 DEF Submitted
  <2>3. pending' = {g \in Submitted' : settled'[g] = "open"}
    BY <1>1, <1>2, <2>1, <2>2 DEF Books, Submitted
  <2>4. ASSUME NEW c \in Batches, NEW k \in 1..BatchSize
        PROVE  /\ call[c] = "none" => inlineDone'[c] = 0 /\ settled'[<<c, k>>] = "open"
               /\ call[c] = "inline" =>
                     settled'[<<c, k>>] = IF k <= inlineDone'[c] THEN "entry" ELSE "open"
    <3>1. CASE c = b
      <4>1. inlineDone'[c] = d
        BY <1>1, <1>2, <3>1
      <4>2. CASE k = d
        BY <1>1, <1>2, <1>3, <3>1, <4>1, <4>2
      <4>3. CASE k # d
        <5>1. settled'[<<c, k>>] = settled[<<c, k>>]
          BY <2>1, <3>1, <4>3, FileParts
        <5>2. k <= d <=> k <= inlineDone[b]
          BY <1>2, <1>3, <4>3
        <5>. QED
          BY <1>1, <1>2, <3>1, <4>1, <5>1, <5>2 DEF Books
      <4>. QED
        BY <4>2, <4>3
    <3>2. CASE c # b
      <4>1. settled'[<<c, k>>] = settled[<<c, k>>] /\ inlineDone'[c] = inlineDone[c]
        BY <1>1, <1>2, <2>1, <3>2, FileParts
      <4>. QED
        BY <1>2, <3>2, <4>1 DEF Books
    <3>. QED
      BY <3>1, <3>2
  <2>. QED
    BY <1>1, <2>3, <2>4 DEF Books
<1>7. Counted'
  <2>1. Done' = Done \cup {f}
    BY <1>1, <1>2, <1>3 DEF Done
  <2>. QED
    BY <1>1, <1>2, <1>3, <2>1, CountsOne DEF IInv
<1>. QED
  BY <1>4, <1>5, <1>6, <1>7 DEF IInv

-----------------------------------------------------------------------------
(* The events of the workers, and terminate(). *)

\* A pending file settles.
LEMMA SettlingKeeps ==
  ASSUME TypeOK, Books, NEW f, f \in pending => settled'[f] # "open",
         \A g \in Files : g # f \/ g \notin pending => settled'[g] = settled[g],
         pending' = pending \ {f}, UNCHANGED <<call, inlineDone>>
  PROVE  Books'
<1>1. pending = {g \in Submitted : settled[g] = "open"} /\ Submitted' = Submitted
  BY DEF Books, Submitted
<1>2. pending' = {g \in Submitted' : settled'[g] = "open"}
  BY <1>1 DEF Submitted
<1>3. ASSUME NEW c \in Batches, NEW k \in 1..BatchSize, call[c] # "pool"
      PROVE  settled'[<<c, k>>] = settled[<<c, k>>]
  <2>1. <<c, k>> \in Files /\ <<c, k>> \notin pending
    BY <1>1, <1>3, FileParts DEF Submitted
  <2>. QED
    BY <2>1
<1>4. call \in [Batches -> {"none", "pool", "inline"}]
  BY DEF TypeOK
<1>. QED
  BY <1>2, <1>3, <1>4 DEF Books

\* A file in a worker's hands is pending.
LEMMA SlotParts ==
  ASSUME IInv, NEW i \in DOMAIN slots
  PROVE  /\ ~terminated /\ slots # <<>> /\ slots \in Seq(Slots)
         /\ slots[i].taskId \in Files \cup {Null, FreshTaskId}
         /\ slots[i].taskId \in Files => slots[i].taskId \in pending
         /\ slots[i].job \in pending => slots[i].taskId = slots[i].job
<1>1. slots \in Seq(Slots) /\ pending \subseteq Files /\ Conserved(Pool, pending) /\ Rotation
  BY DEF IInv, TypeOK
<1>2. slots # <<>> /\ slots[i] \in Slots
  BY <1>1
<1>3. /\ slots[i].job = IF slots[i].taskId \in Files THEN slots[i].taskId ELSE Null
      /\ slots[i].taskId \in Files => slots[i].taskId \in pending
  BY <1>1 DEF Conserved, Pool
<1>. QED
  BY <1>1, <1>2, <1>3, PoolAssumption DEF Slots, Rotation

LEMMA PendingParts ==
  ASSUME IInv
  PROVE  /\ pending \subseteq Files /\ Null \notin Files /\ FreshTaskId \notin Files
         /\ \A f \in pending : settled[f] = "open"
  BY PoolAssumption DEF IInv, TypeOK, Books

\* The file of a dead worker fails, and is counted.
LEMMA FailTaskKeeps ==
  ASSUME IInv, NEW i \in DOMAIN slots, FailTask(slots[i].taskId), UNCHANGED <<call, inlineDone>>
  PROVE  /\ Books' /\ Counted' /\ pending' = pending \ {slots[i].taskId}
         /\ settled' \in [Files -> {"open", "entry", "failed", "terminated"}]
         /\ completed' \in Nat
<1>. DEFINE id == slots[i].taskId
<1>1. /\ pending' = pending \ {id}
      /\ settled' = [f \in Files |-> IF f = id /\ f \in pending THEN "failed" ELSE settled[f]]
      /\ completed' = IF id # Null THEN completed + 1 ELSE completed
  BY DEF FailTask
<1>2. /\ id \in Files \cup {Null, FreshTaskId} /\ (id \in Files => id \in pending)
      /\ pending \subseteq Files /\ Null \notin Files /\ FreshTaskId \notin Files
      /\ \A f \in pending : settled[f] = "open"
  BY SlotParts, PendingParts
<1>3. TypeOK /\ Books /\ Counted /\ completed \in Nat
      /\ settled \in [Files -> {"open", "entry", "failed", "terminated"}]
  BY DEF IInv, TypeOK
<1>. HIDE DEF id
<1>4. Books'
  <2>1. id \in pending => settled'[id] # "open"
    BY <1>1, <1>2
  <2>2. \A g \in Files : g # id \/ g \notin pending => settled'[g] = settled[g]
    BY <1>1
  <2>. QED
    BY <1>1, <1>3, <2>1, <2>2, SettlingKeeps
<1>5. Counted'
  <2>1. CASE id \in Files
    <3>1. Done' = Done \cup {id} /\ completed' = completed + 1 /\ settled[id] = "open"
      BY <1>1, <1>2, <1>3, <2>1 DEF Done
    <3>. QED
      BY <1>3, <2>1, <3>1, CountsOne
  <2>2. CASE id \notin Files
    <3>1. settled' = settled
      BY <1>1, <1>2, <1>3, <2>2
    <3>2. FreshTaskId = Null => completed' = completed
      BY <1>1, <1>2, <2>2
    <3>. QED
      BY <1>3, <3>1, <3>2 DEF Counted, Called, ProgressHonest, OneBatch
  <2>. QED
    BY <2>1, <2>2
<1>6. settled' \in [Files -> {"open", "entry", "failed", "terminated"}] /\ completed' \in Nat
  BY <1>1, <1>3
<1>. QED
  BY <1>1, <1>4, <1>5, <1>6 DEF id

LEMMA HandleResponseKeeps == ASSUME IInv, NEW i \in DOMAIN slots, HandleResponse(i) PROVE IInv'
<1>. DEFINE f == slots[i].job
            ss == [slots EXCEPT ![i] = [taskId |-> Null, job |-> Null]]
            p == [slots |-> ss, queue |-> queue, lastSlot |-> lastSlot]
            P == pending \ {f}
<1>1. /\ f \in pending /\ pending' = P
      /\ settled' = [settled EXCEPT ![f] = "entry"]
      /\ completed' = completed + 1
      /\ UNCHANGED <<inline, terminated, total, call, inlineDone, crashes>>
      /\ PoolBecomes(Dispatch([Pool EXCEPT !.slots[i] = [taskId |-> Null, job |-> Null]]))
  BY DEF HandleResponse
<1>2. [Pool EXCEPT !.slots[i] = [taskId |-> Null, job |-> Null]] = p
  BY DEF Pool
<1>3. /\ slots # <<>> /\ slots \in Seq(Slots) /\ slots[i].taskId = f /\ f \in Files
      /\ settled[f] = "open" /\ Null \notin Files /\ ~terminated
  BY <1>1, SlotParts, PendingParts
<1>4. TypeOK /\ Rotation /\ Books /\ Counted /\ Conserved(Pool, pending) /\ completed \in Nat
      /\ settled \in [Files -> {"open", "entry", "failed", "terminated"}] /\ pending \subseteq Files
      /\ queue \in Seq(Files)
  BY DEF IInv, TypeOK
<1>5. [taskId |-> Null, job |-> Null] \in Slots
  BY DEF Slots
<1>6. ss \in Seq(Slots) /\ Len(ss) = Len(slots) /\ DOMAIN ss = DOMAIN slots
      /\ ss[i] = [taskId |-> Null, job |-> Null] /\ \A j \in DOMAIN slots : j # i => ss[j] = slots[j]
  BY <1>3, <1>5
<1>. HIDE DEF f, ss
<1>7. Conserved(p, P)
  <2>1. \A g \in Range(queue) : g \in Files
    BY <1>4 DEF Range
  <2>2. f \notin Range(queue)
    BY <1>3, <1>4 DEF Conserved, Pool
  <2>3. ASSUME NEW g \in Files
        PROVE  g \in P <=> g \in Range(queue) \/ \E j \in DOMAIN ss : ss[j].taskId = g
    <3>1. g \in pending <=> g \in Range(queue) \/ \E j \in DOMAIN slots : slots[j].taskId = g
      BY <1>4 DEF Conserved, Pool
    <3>2. \A j \in DOMAIN slots : slots[j].taskId = f => j = i
      BY <1>3, <1>4 DEF Conserved, Pool
    <3>. QED
      BY <1>3, <1>6, <2>2, <3>1, <3>2
  <2>4. ASSUME NEW j \in DOMAIN ss
        PROVE  /\ ss[j].taskId \notin Range(queue)
               /\ ss[j].job = IF ss[j].taskId \in Files THEN ss[j].taskId ELSE Null
    BY <1>3, <1>4, <1>6, <2>1 DEF Conserved, Pool
  <2>5. ASSUME NEW j \in DOMAIN ss, NEW k \in DOMAIN ss, ss[j].taskId = ss[k].taskId,
               ss[j].taskId \in Files
        PROVE  j = k
    <3>1. j # i /\ k # i
      BY <1>3, <1>6, <2>5
    <3>2. slots[j].taskId = slots[k].taskId /\ slots[j].taskId \in Files
      BY <1>6, <2>5, <3>1
    <3>. QED
      BY <1>4, <1>6, <3>2 DEF Conserved, Pool
  <2>. QED
    BY <1>4, <2>3, <2>4, <2>5 DEF Conserved, Pool
<1>8. ~inline => Loose(p)
  BY <1>4, <1>6 DEF IInv, NoIdleWhileQueued, Loose, Idle
<1>9. /\ slots' \in Seq(Slots) /\ Len(slots') = Len(slots)
      /\ queue' \in Seq(Files) /\ lastSlot' \in 0..(Concurrency - 1)
      /\ Rotation' /\ Conserved(Pool', P) /\ NoIdleWhileQueued'
  BY <1>1, <1>2, <1>3, <1>4, <1>6, <1>7, <1>8, EventKeeps
<1>10. TypeOK'
  BY <1>1, <1>4, <1>9 DEF TypeOK
<1>11. Books'
  BY <1>1, <1>3, <1>4, SettlingKeeps
<1>12. Counted'
  <2>1. Done' = Done \cup {f}
    BY <1>1, <1>3, <1>4 DEF Done
  <2>. QED
    BY <1>1, <1>3, <1>4, <2>1, CountsOne
<1>. QED
  BY <1>1, <1>9, <1>10, <1>11, <1>12 DEF IInv

LEMMA FreshSlotTyped == FreshSlot \in Slots /\ FreshSlot.taskId \notin Files /\ FreshSlot.job = Null
  BY PoolAssumption DEF FreshSlot, Slots

\* Without the slot of the dead worker its file, if it had one, is nobody's.
LEMMA RemovalKeeps ==
  ASSUME IInv, NEW i \in DOMAIN slots,
         NEW ss \in {RemoveAt(slots, i), Append(RemoveAt(slots, i), FreshSlot)}
  PROVE  Conserved([slots |-> ss, queue |-> queue, lastSlot |-> lastSlot], pending \ {slots[i].taskId})
<1>. DEFINE rest == RemoveAt(slots, i)
            id == slots[i].taskId
            at == [j \in 1..Len(slots) |-> IF j < i THEN j ELSE j + 1]
            p == [slots |-> ss, queue |-> queue, lastSlot |-> lastSlot]
            P == pending \ {id}
            n == Len(slots)
<1>1. /\ slots \in Seq(Slots) /\ Conserved(Pool, pending) /\ queue \in Seq(Files)
      /\ Null \notin Files /\ pending \subseteq Files /\ n \in Nat /\ i \in 1..n /\ DOMAIN slots = 1..n
  BY PoolAssumption DEF IInv, TypeOK
<1>. HIDE DEF n
<1>0. at = [j \in 1..n |-> IF j < i THEN j ELSE j + 1]
  BY DEF n
<1>. HIDE DEF at
<1>2. /\ \A j \in 1..(n - 1) : at[j] \in 1..n /\ at[j] # i
      /\ \A j \in 1..n : j # i => (IF j < i THEN j ELSE j - 1) \in 1..(n - 1)
                               /\ at[IF j < i THEN j ELSE j - 1] = j
      /\ \A j, k \in 1..(n - 1) : at[j] = at[k] => j = k
  BY <1>1, <1>0
<1>3. /\ rest \in Seq(Slots) /\ Len(rest) = n - 1
      /\ \A j \in 1..(n - 1) : rest[j] = slots[at[j]]
  <2>1. /\ rest \in Seq(Slots) /\ Len(rest) = n - 1
        /\ \A j \in 1..(n - 1) : rest[j] = IF j < i THEN slots[j] ELSE slots[j + 1]
    BY <1>1, SlotRemoved DEF n
  <2>2. \A j \in 1..(n - 1) : at[j] = IF j < i THEN j ELSE j + 1
    BY <1>1, <1>0
  <2>. HIDE DEF rest
  <2>. QED
    BY <2>1, <2>2
<1>. HIDE DEF rest
<1>4. DOMAIN rest = 1..(n - 1)
  BY <1>3
<1>5. /\ \A j \in DOMAIN ss : \/ j \in 1..(n - 1) /\ ss[j] = slots[at[j]]
                              \/ j = n /\ ss[j] = FreshSlot
      /\ 1..(n - 1) \subseteq DOMAIN ss
  <2>1. CASE ss = rest
    <3>1. \A j \in 1..(n - 1) : rest[j] = slots[at[j]]
      BY <1>3
    <3>. QED
      BY <1>4, <2>1, <3>1
  <2>2. CASE ss = Append(rest, FreshSlot)
    <3>1. /\ ss \in Seq(Slots) /\ Len(ss) = Len(rest) + 1 /\ ss[Len(rest) + 1] = FreshSlot
          /\ \A j \in 1..Len(rest) : ss[j] = rest[j]
      BY <1>3, <2>2, FreshSlotTyped, AppendProperties
    <3>2. Len(rest) + 1 = n /\ \A j \in 1..n : j \in 1..(n - 1) \/ j = n
      BY <1>1, <1>3
    <3>3. DOMAIN ss = 1..n
      BY <3>1, <3>2
    <3>. QED
      <4>1. ASSUME NEW j \in DOMAIN ss
            PROVE  \/ j \in 1..(n - 1) /\ ss[j] = slots[at[j]]
                   \/ j = n /\ ss[j] = FreshSlot
        BY <1>3, <3>1, <3>2, <3>3
      <4>2. 1..(n - 1) \subseteq DOMAIN ss
        BY <1>1, <3>3
      <4>. QED
        BY <4>1, <4>2
  <2>. QED
    BY <2>1, <2>2 DEF rest
<1>6. \A f \in Range(queue) : f \in Files
  BY <1>1 DEF Range
<1>7. /\ \A j \in 1..n : slots[j].taskId \notin Range(queue)
      /\ \A j \in 1..n : slots[j].job = IF slots[j].taskId \in Files THEN slots[j].taskId ELSE Null
      /\ \A j, k \in 1..n : slots[j].taskId = slots[k].taskId /\ slots[j].taskId \in Files => j = k
      /\ \A f \in Files : f \in pending <=> f \in Range(queue) \/ \E j \in 1..n : slots[j].taskId = f
      /\ IsInjective(queue)
  <2>1. Pool.slots = slots /\ Pool.queue = queue
    BY DEF Pool
  <2>. QED
    BY <1>1, <2>1 DEF Conserved
<1>8. ASSUME NEW j \in DOMAIN ss
      PROVE  /\ ss[j].taskId \notin Range(queue)
             /\ ss[j].job = IF ss[j].taskId \in Files THEN ss[j].taskId ELSE Null
  BY <1>2, <1>5, <1>6, <1>7, FreshSlotTyped
<1>9. ASSUME NEW j \in DOMAIN ss, NEW k \in DOMAIN ss, ss[j].taskId = ss[k].taskId,
             ss[j].taskId \in Files
      PROVE  j = k
  BY <1>2, <1>5, <1>7, <1>9, FreshSlotTyped
<1>10. ASSUME NEW f \in Files
       PROVE  f \in P <=> f \in Range(queue) \/ \E j \in DOMAIN ss : ss[j].taskId = f
  <2>1. CASE f = id
    <3>1. f \notin Range(queue) /\ \A j \in 1..n : j # i => slots[j].taskId # f
      BY <1>1, <1>7, <2>1
    <3>. QED
      BY <1>2, <1>5, <2>1, <3>1, FreshSlotTyped
  <2>2. CASE f # id
    <3>1. ASSUME NEW j \in 1..n, slots[j].taskId = f
          PROVE  \E k \in DOMAIN ss : ss[k].taskId = f
      <4>. DEFINE k == IF j < i THEN j ELSE j - 1
      <4>1. k \in 1..(n - 1) /\ at[k] = j
        BY <1>2, <2>2, <3>1
      <4>. HIDE DEF k
      <4>2. k \in DOMAIN ss /\ k # n
        BY <1>1, <1>5, <4>1
      <4>. QED
        BY <1>5, <3>1, <4>1, <4>2
    <3>2. ASSUME NEW j \in DOMAIN ss, ss[j].taskId = f
          PROVE  \E k \in 1..n : slots[k].taskId = f
      BY <1>2, <1>5, <3>2, FreshSlotTyped
    <3>. QED
      BY <1>7, <2>2, <3>1, <3>2
  <2>. QED
    BY <2>1, <2>2
<1>. QED
  BY <1>7, <1>8, <1>9, <1>10 DEF Conserved

\* The pool with a new worker in the place of worker i.
LEMMA ReplacedPool ==
  ASSUME NEW i
  PROVE  [Pool EXCEPT !.slots = Append(RemoveAt(@, i), FreshSlot)] =
            [slots |-> Append(RemoveAt(slots, i), FreshSlot), queue |-> queue, lastSlot |-> lastSlot]
  BY DEF Pool

LEMMA WorkerReplacedKeeps == ASSUME IInv, NEW i \in DOMAIN slots, WorkerReplaced(i) PROVE IInv'
<1>. DEFINE ss == Append(RemoveAt(slots, i), FreshSlot)
            p == [slots |-> ss, queue |-> queue, lastSlot |-> lastSlot]
            P == pending \ {slots[i].taskId}
            n == Len(slots)
<1>1. /\ crashes < MaxCrashes /\ crashes' = crashes + 1 /\ FailTask(slots[i].taskId)
      /\ PoolBecomes(Dispatch([Pool EXCEPT !.slots = Append(RemoveAt(@, i), FreshSlot)]))
      /\ UNCHANGED <<inline, terminated, total, call, inlineDone>>
  BY DEF WorkerReplaced
<1>2. [Pool EXCEPT !.slots = Append(RemoveAt(@, i), FreshSlot)] = p
  BY ReplacedPool
<1>3. slots # <<>> /\ slots \in Seq(Slots) /\ TypeOK /\ Rotation /\ ~terminated
      /\ crashes \in 0..MaxCrashes /\ MaxCrashes \in Nat /\ Len(slots) <= Concurrency
  BY SlotParts, PoolAssumption DEF IInv, TypeOK
<1>4. /\ Books' /\ Counted' /\ pending' = P
      /\ settled' \in [Files -> {"open", "entry", "failed", "terminated"}] /\ completed' \in Nat
  BY <1>1, FailTaskKeeps
<1>5. n \in Nat /\ n >= 1 /\ DOMAIN slots = 1..n /\ i \in 1..n
  BY <1>3
<1>. HIDE DEF n
<1>6. /\ ss \in Seq(Slots) /\ Len(ss) = n /\ DOMAIN ss = 1..n
      /\ \A j \in 1..(n - 1) : ss[j] = IF j < i THEN slots[j] ELSE slots[j + 1]
  <2>. DEFINE rest == RemoveAt(slots, i)
  <2>1. /\ rest \in Seq(Slots) /\ Len(rest) = n - 1
        /\ \A j \in 1..(n - 1) : rest[j] = IF j < i THEN slots[j] ELSE slots[j + 1]
    BY <1>3, SlotRemoved DEF n
  <2>. HIDE DEF rest
  <2>2. /\ Append(rest, FreshSlot) \in Seq(Slots)
        /\ Len(Append(rest, FreshSlot)) = Len(rest) + 1
        /\ \A j \in 1..Len(rest) : Append(rest, FreshSlot)[j] = rest[j]
    BY <2>1, FreshSlotTyped, AppendProperties
  <2>3. Len(rest) + 1 = n
    BY <1>5, <2>1
  <2>. QED
    BY <1>5, <2>1, <2>2, <2>3 DEF rest
<1>7. Conserved(p, P)
  BY RemovalKeeps
<1>. HIDE DEF ss
<1>8. ~inline => Loose(p)
  <2>1. ASSUME ~inline, queue # <<>>, NEW j \in 1..n, Idle(p, j)
        PROVE  j = n
    <3>1. \A k \in 1..n : slots[k].taskId # Null
      BY <1>5, <2>1 DEF IInv, NoIdleWhileQueued
    <3>2. j \in 1..(n - 1) => ss[j].taskId # Null
      BY <1>5, <1>6, <3>1
    <3>3. ss[j].taskId = Null
      BY <2>1 DEF Idle
    <3>4. j \notin 1..(n - 1)
      BY <3>2, <3>3
    <3>. QED
      BY <1>5, <3>4
  <2>2. ASSUME queue = <<>> PROVE Len(queue) <= 1
    BY <2>2
  <2>. QED
    BY <1>6, <2>1, <2>2 DEF Loose
<1>9. /\ slots' \in Seq(Slots) /\ Len(slots') = Len(slots)
      /\ queue' \in Seq(Files) /\ lastSlot' \in 0..(Concurrency - 1)
      /\ Rotation' /\ Conserved(Pool', P) /\ NoIdleWhileQueued'
  BY <1>1, <1>2, <1>3, <1>6, <1>7, <1>8, EventKeeps DEF n
<1>10. TypeOK'
  <2>1. pending' \subseteq Files /\ crashes' \in 0..MaxCrashes
    BY <1>1, <1>3, <1>4 DEF TypeOK
  <2>. QED
    BY <1>1, <1>3, <1>4, <1>9, <2>1 DEF TypeOK
<1>. QED
  BY <1>4, <1>9, <1>10 DEF IInv

LEMMA WorkerLostKeeps == ASSUME IInv, NEW i \in DOMAIN slots, WorkerLost(i) PROVE IInv'
<1>. DEFINE ss == RemoveAt(slots, i)
            p == [slots |-> ss, queue |-> queue, lastSlot |-> lastSlot]
            P == pending \ {slots[i].taskId}
<1>1. /\ crashes < MaxCrashes /\ crashes' = crashes + 1 /\ FailTask(slots[i].taskId)
      /\ slots' = ss /\ inline' = TRUE
      /\ UNCHANGED <<queue, lastSlot, terminated, total, call, inlineDone>>
  BY DEF WorkerLost
<1>2. slots # <<>> /\ slots \in Seq(Slots) /\ TypeOK /\ Rotation /\ ~terminated
      /\ crashes \in 0..MaxCrashes /\ MaxCrashes \in Nat /\ Len(slots) <= Concurrency
      /\ Concurrency \in Nat
  BY SlotParts, PoolAssumption DEF IInv, TypeOK
<1>3. /\ Books' /\ Counted' /\ pending' = P
      /\ settled' \in [Files -> {"open", "entry", "failed", "terminated"}] /\ completed' \in Nat
  BY <1>1, FailTaskKeeps
<1>4. ss \in Seq(Slots) /\ Len(ss) <= Concurrency
  BY <1>2, SlotRemoved
<1>5. Conserved(Pool, pending)'
  <2>1. Conserved(p, P)
    BY RemovalKeeps
  <2>2. Pool' = p
    BY <1>1 DEF Pool
  <2>. QED
    BY <1>3, <2>1, <2>2
<1>6. TypeOK'
  <2>1. pending' \subseteq Files /\ crashes' \in 0..MaxCrashes
    BY <1>1, <1>2, <1>3 DEF TypeOK
  <2>. QED
    BY <1>1, <1>2, <1>3, <1>4, <2>1 DEF TypeOK
<1>7. Rotation' /\ NoIdleWhileQueued'
  BY <1>1, <1>2 DEF Rotation, NoIdleWhileQueued
<1>. QED
  BY <1>3, <1>5, <1>6, <1>7 DEF IInv

LEMMA TerminateKeeps == ASSUME IInv, Terminate PROVE IInv'
<1>1. /\ terminated' = TRUE /\ slots' = <<>> /\ queue' = <<>> /\ pending' = {}
      /\ settled' = [f \in Files |-> IF f \in pending THEN "terminated" ELSE settled[f]]
      /\ UNCHANGED <<lastSlot, inline, total, completed, call, inlineDone, crashes>>
  BY DEF Terminate
<1>2. TypeOK /\ Books /\ Counted
      /\ pending = {f \in Submitted : settled[f] = "open"}
      /\ call \in [Batches -> {"none", "pool", "inline"}]
      /\ settled \in [Files -> {"open", "entry", "failed", "terminated"}]
  BY DEF IInv, TypeOK, Books
<1>3. TypeOK'
  <2>1. <<>> \in Seq(Slots) /\ <<>> \in Seq(Files) /\ Len(<<>>) = 0 /\ 0 <= Concurrency
    BY PoolAssumption
  <2>. QED
    BY <1>1, <1>2, <2>1 DEF TypeOK
<1>4. Rotation' /\ NoIdleWhileQueued'
  BY <1>1 DEF Rotation, NoIdleWhileQueued
<1>5. Conserved(Pool, pending)'
  BY <1>1 DEF Conserved, Pool, IsInjective, Range
<1>6. Books'
  <2>1. pending' = {f \in Submitted' : settled'[f] = "open"}
    BY <1>1, <1>2 DEF Submitted
  <2>2. ASSUME NEW c \in Batches, NEW k \in 1..BatchSize, call[c] # "pool"
        PROVE  settled'[<<c, k>>] = settled[<<c, k>>]
    <3>1. <<c, k>> \in Files /\ <<c, k>> \notin pending
      BY <1>2, <2>2, FileParts DEF Submitted
    <3>. QED
      BY <1>1, <3>1
  <2>3. ASSUME NEW c \in Batches, NEW k \in 1..BatchSize
        PROVE  /\ call[c] = "none" => inlineDone[c] = 0 /\ settled'[<<c, k>>] = "open"
               /\ call[c] = "inline" =>
                     settled'[<<c, k>>] = IF k <= inlineDone[c] THEN "entry" ELSE "open"
    <3>1. CASE call[c] = "pool"
      BY <3>1
    <3>2. CASE call[c] # "pool"
      BY <1>2, <2>2, <3>2 DEF Books
    <3>. QED
      BY <3>1, <3>2
  <2>4. call' = call /\ inlineDone' = inlineDone
    BY <1>1
  <2>. QED
    BY <2>1, <2>3, <2>4 DEF Books
<1>7. Counted'
  <2>1. Done' = Done
    BY <1>1, <1>2 DEF Done
  <2>. QED
    BY <1>1, <1>2, <2>1, SameCount
<1>. QED
  BY <1>3, <1>4, <1>5, <1>6, <1>7 DEF IInv

-----------------------------------------------------------------------------
(* The theorems. *)

LEMMA InitHolds == Init => IInv
<1>. SUFFICES ASSUME Init PROVE IInv
  OBVIOUS
<1>1. PICK n \in 0..Concurrency : slots = [i \in 1..n |-> FreshSlot] /\ inline = (n = 0)
  BY DEF Init
<1>2. n \in Nat /\ Concurrency \in 1..16 /\ BatchSize \in Nat /\ MaxCrashes \in Nat
  BY PoolAssumption
<1>3. slots \in [1..n -> Slots]
  BY <1>1, FreshSlotTyped
<1>4. slots \in Seq(Slots) /\ Len(slots) = n /\ DOMAIN slots = 1..n
  BY <1>2, <1>3
<1>5. inline \in BOOLEAN
  BY <1>1, Zenon
<1>6. TypeOK
  <2>1. queue \in Seq(Files) /\ 0 \in 0..(Concurrency - 1) /\ 0 \in 0..BatchSize /\ 0 \in 0..MaxCrashes
        /\ Len(slots) <= Concurrency /\ lastSlot = 0 /\ total = 0 /\ crashes = 0 /\ completed = 0
        /\ terminated = FALSE /\ pending = {}
    BY <1>2, <1>4 DEF Init
  <2>2. /\ call \in [Batches -> {"none", "pool", "inline"}]
        /\ settled \in [Files -> {"open", "entry", "failed", "terminated"}]
        /\ inlineDone \in [Batches -> 0..BatchSize]
    BY <2>1 DEF Init
  <2>. QED
    BY <1>4, <1>5, <2>1, <2>2, Zenon DEF TypeOK
<1>7. Rotation /\ NoIdleWhileQueued
  <2>1. ASSUME ~inline PROVE n # 0
    BY <1>1, <2>1, Zenon
  <2>2. ~inline => slots # <<>> /\ 0 < Len(slots)
    BY <1>2, <1>4, <2>1
  <2>3. terminated = FALSE /\ queue = <<>> /\ lastSlot = 0
    BY DEF Init
  <2>. QED
    BY <2>2, <2>3 DEF Rotation, NoIdleWhileQueued
<1>8. Conserved(Pool, pending)
  <2>1. \A i \in DOMAIN slots : slots[i] = FreshSlot
    BY <1>1
  <2>2. IsInjective(queue) /\ Range(queue) = {} /\ pending = {}
    BY DEF Init, IsInjective, Range
  <2>. QED
    BY <2>1, <2>2, FreshSlotTyped DEF Conserved, Pool
<1>9. Books
  <2>1. Submitted = {}
    <3>1. \A f \in Files : f[1] \in Batches
      BY DEF Files
    <3>. QED
      BY <3>1 DEF Init, Submitted
  <2>. QED
    BY <2>1, FileParts DEF Init, Books
<1>10. Counted
  <2>1. Called = {}
    BY DEF Init, Called
  <2>2. ~OneBatch
    BY <2>1, FS_EmptySet DEF OneBatch, Called
  <2>. QED
    BY <2>1, <2>2, FS_EmptySet DEF Counted, ProgressHonest
<1>. QED
  BY <1>6, <1>7, <1>8, <1>9, <1>10 DEF IInv

LEMMA StepKeeps == IInv /\ [Next]_vars => IInv'
<1>. SUFFICES ASSUME IInv, [Next]_vars PROVE IInv'
  OBVIOUS
<1>1. CASE \E b \in Batches : \/ LintFilesInline(b) \/ LintFilesPooled(b) \/ LintFilesRejected(b)
                              \/ ProcessInline(b)
  BY <1>1, LintFilesInlineKeeps, LintFilesPooledKeeps, LintFilesRejectedKeeps, ProcessInlineKeeps
<1>2. CASE \E i \in DOMAIN slots : HandleResponse(i) \/ WorkerReplaced(i) \/ WorkerLost(i)
  BY <1>2, HandleResponseKeeps, WorkerReplacedKeeps, WorkerLostKeeps
<1>3. CASE Terminate
  BY <1>3, TerminateKeeps
<1>4. CASE UNCHANGED vars
  BY <1>4 DEF vars, IInv, TypeOK, Rotation, Conserved, Pool, NoIdleWhileQueued, Books, Submitted,
     Counted, Called, ProgressHonest, OneBatch
<1>. QED
  BY <1>1, <1>2, <1>3, <1>4 DEF Next

LEMMA IInvHolds == Spec => []IInv
  BY InitHolds, StepKeeps, PTL DEF Spec

\* The pool's state is well formed; there are never more workers in rotation than
\* the constructor was asked for, whatever crashes and is replaced.
THEOREM PoolTyped == Spec => []TypeOK
<1>1. IInv => TypeOK
  BY DEF IInv
<1>. QED
  BY <1>1, IInvHolds, PTL

\* At most one worker holds a file, so counting those that do gives 0 or 1.
LEMMA ConservedMeans == IInv => FilesConserved
<1>. SUFFICES ASSUME IInv PROVE FilesConserved
  OBVIOUS
<1>1. Conserved(Pool, pending) /\ Books /\ slots \in Seq(Slots)
  BY DEF IInv, TypeOK
<1>2. ASSUME NEW f \in Files
      PROVE  /\ Cardinality(Held(f)) + (IF f \in Range(queue) THEN 1 ELSE 0)
                    = (IF f \in pending THEN 1 ELSE 0)
             /\ \A i \in Held(f) : slots[i].job = f
  <2>1. /\ f \in pending <=> f \in Range(queue) \/ Held(f) # {}
        /\ f \in Range(queue) => Held(f) = {}
        /\ \A i, j \in Held(f) : i = j
        /\ \A i \in Held(f) : slots[i].job = f
    BY <1>1 DEF Conserved, Pool, Held
  <2>2. CASE Held(f) = {}
    BY <2>1, <2>2, FS_EmptySet
  <2>3. CASE Held(f) # {}
    <3>1. PICK i : Held(f) = {i}
      BY <2>1, <2>3
    <3>2. Cardinality(Held(f)) = 1
      BY <3>1, FS_Singleton
    <3>. QED
      BY <2>1, <2>3, <3>2
  <2>. QED
    BY <2>2, <2>3
<1>. QED
  BY <1>1, <1>2 DEF FilesConserved, Conserved, Pool, Books

\* Every file given to a pool waits once, or is held by one worker that was posted
\* it, or has settled: for any number of batches, files, workers and crashes.
THEOREM NoFileLost == Spec => []FilesConserved
  BY ConservedMeans, IInvHolds, PTL

\* No round of dispatch() leaves a worker idle while files wait, although it moves
\* lastSlot under its own index and may skip slots.
THEOREM NoWorkerForgotten == Spec => []NoIdleWhileQueued
<1>1. IInv => NoIdleWhileQueued
  BY DEF IInv
<1>. QED
  BY <1>1, IInvHolds, PTL

\* The progress shown for one batch at a time is the number of its files that are
\* done, provided new workers come up idle (taskId null): a worker without taskId
\* that crashes is counted as a file, and the claim fails.
THEOREM CountIsHonest ==
  ASSUME FreshTaskId = Null
  PROVE  Spec => []ProgressHonest
<1>1. IInv => ProgressHonest
  BY DEF IInv, Counted
<1>. QED
  BY <1>1, IInvHolds, PTL
-----------------------------------------------------------------------------
(* Workers that come up without taskId. *)

\* Every worker is as the constructor made it, and no file the pool was given was linted.
Untouched(ss) == \A i \in DOMAIN ss : ss[i] = FreshSlot
Starved ==
    /\ Untouched(slots)
    /\ \A f \in Submitted : settled[f] \in {"open", "terminated"}

\* A round serves no worker whose taskId is not null.
LEMMA RoundIdle ==
  ASSUME FreshTaskId # Null, NEW n \in Nat \ {0}, NEW p \in PoolStates(n), Untouched(p.slots)
  PROVE  Dispatch(p) = p
<1>. DEFINE seq == [i \in 1..n |-> i - 1]
            J == {<<k, p>> : k \in 0..n}
<1>1. Len(p.slots) = n /\ DOMAIN p.slots = 1..n
  BY DEF PoolStates
<1>2. \A i \in 1..n : ~Idle(p, i)
  BY <1>1 DEF Untouched, FreshSlot, Idle
<1>3. ASSUME NEW k \in 0..(n - 1), NEW q, <<k, q>> \in J
      PROVE  <<k + 1, Step("round", q, seq[k + 1])>> \in J
  <2>1. q = p
    BY <1>3
  <2>2. DispatchStep(p, k) = p
    BY <1>2, TurnParts
  <2>. QED
    BY <2>1, <2>2 DEF Step
<1>4. <<0, p>> \in J
  OBVIOUS
<1>. HIDE DEF J, seq
<1>5. <<n, Folded("round", p, seq, n)[1..n]>> \in J
  BY <1>3, <1>4, FoldRule
<1>6. Folded("round", p, seq, n)[1..n] = p
  BY <1>5 DEF J
<1>7. FoldLeft(DispatchStep, p, seq) = p
  BY <1>6, RoundFolded DEF seq
<1>. QED
  BY <1>1, <1>7 DEF Dispatch, seq

\* Submitting a batch to such a pool only makes its queue longer.
LEMMA BatchIdle ==
  ASSUME FreshTaskId # Null, NEW n \in Nat \ {0}, NEW p \in PoolStates(n), NEW b \in Batches,
         Untouched(p.slots)
  PROVE  FoldLeft(Submit, p, FilesOf(b)).slots = p.slots
<1>. DEFINE seq == FilesOf(b)
            J == {kq \in (0..BatchSize) \X PoolStates(n) : kq[2].slots = p.slots}
<1>1. BatchSize \in Nat /\ DOMAIN seq = 1..BatchSize /\ \A k \in 1..BatchSize : seq[k] \in Files
  BY FileParts DEF FilesOf
<1>2. <<0, p>> \in J
  BY <1>1
<1>3. ASSUME NEW k \in 0..(BatchSize - 1), NEW q, <<k, q>> \in J
      PROVE  <<k + 1, Step("submits", q, seq[k + 1])>> \in J
  <2>. DEFINE f == seq[k + 1]
              r == [q EXCEPT !.queue = Append(@, f)]
  <2>1. q \in PoolStates(n) /\ q.slots = p.slots /\ f \in Files
    BY <1>1, <1>3
  <2>. HIDE DEF f
  <2>2. Append(q.queue, f) \in Seq(Files)
    BY <2>1 DEF PoolStates
  <2>3. r \in PoolStates(n) /\ r.slots = p.slots
    BY <2>1, <2>2 DEF PoolStates
  <2>4. Submit(q, f) = r
    BY <2>3, RoundIdle DEF Submit
  <2>5. Step("submits", q, seq[k + 1]) = r /\ k + 1 \in 0..BatchSize
    BY <1>1, <2>4 DEF Step, f
  <2>. HIDE DEF r
  <2>. QED
    BY <2>3, <2>5
<1>. HIDE DEF J, seq
<1>4. <<BatchSize, Folded("submits", p, seq, BatchSize)[1..BatchSize]>> \in J
  BY <1>1, <1>2, <1>3, FoldRule
<1>. QED
  BY <1>1, <1>4, SubmitsFolded DEF J, seq

\* Whatever happens to such a pool, no worker is given a file.
LEMMA StarvedKeeps ==
  ASSUME FreshTaskId # Null, IInv, Starved, [Next]_vars
  PROVE  Starved'
<1>1. /\ Books /\ TypeOK /\ slots \in Seq(Slots) /\ call \in [Batches -> {"none", "pool", "inline"}]
      /\ settled \in [Files -> {"open", "entry", "failed", "terminated"}]
      /\ \A f \in Files : f[1] \in Batches
  BY DEF IInv, TypeOK, Files
<1>2. ASSUME NEW b \in Batches, LintFilesInline(b) PROVE Starved'
  BY <1>1, <1>2 DEF LintFilesInline, StartBatch, Starved, Submitted, Untouched, pool
<1>3. ASSUME NEW b \in Batches, LintFilesPooled(b) PROVE Starved'
  <2>1. /\ StartBatch(b) /\ ~inline /\ ~terminated /\ call' = [call EXCEPT ![b] = "pool"]
        /\ slots' = FoldLeft(Submit, Pool, FilesOf(b)).slots /\ settled' = settled
    BY <1>3 DEF LintFilesPooled, PoolBecomes
  <2>2. Len(slots) \in Nat \ {0} /\ Pool \in PoolStates(Len(slots)) /\ Pool.slots = slots
    <3>1. slots # <<>> /\ lastSlot \in Nat /\ lastSlot < Len(slots) /\ queue \in Seq(Files)
      BY <2>1, PoolAssumption DEF IInv, TypeOK, Rotation
    <3>2. Len(slots) \in Nat \ {0} /\ slots \in [1..Len(slots) -> Slots]
      BY <1>1, <3>1, EmptySeq
    <3>3. lastSlot \in 0..(Len(slots) - 1)
      BY <3>1, <3>2
    <3>. QED
      BY <3>1, <3>2, <3>3 DEF PoolStates, Pool
  <2>3. slots' = slots
    BY <2>1, <2>2, BatchIdle DEF Starved
  <2>4. \A f \in Submitted' : f \in Submitted \/ f[1] = b
    BY <1>1, <2>1 DEF Submitted
  <2>5. \A f \in Files : f[1] = b => settled[f] = "open"
    BY <2>1, BatchUntouched
  <2>. QED
    BY <2>1, <2>3, <2>4, <2>5 DEF Starved, Submitted, Untouched
<1>4. ASSUME NEW b \in Batches, LintFilesRejected(b) PROVE Starved'
  BY <1>1, <1>4 DEF LintFilesRejected, StartBatch, Starved, Submitted, Untouched, pool
<1>5. ASSUME NEW b \in Batches, ProcessInline(b) PROVE Starved'
  <2>1. /\ call[b] = "inline" /\ UNCHANGED <<slots, call>>
        /\ settled' = [settled EXCEPT ![<<b, inlineDone[b] + 1>>] = "entry"]
    BY <1>5 DEF ProcessInline, pool
  <2>2. \A f \in Submitted : f # <<b, inlineDone[b] + 1>>
    BY <2>1 DEF Submitted
  <2>. QED
    BY <1>1, <2>1, <2>2 DEF Starved, Submitted, Untouched
<1>6. ASSUME NEW i \in DOMAIN slots, HandleResponse(i) PROVE Starved'
  <2>1. slots[i].job = Null /\ slots[i].job \in pending
    BY <1>6 DEF Starved, Untouched, FreshSlot, HandleResponse
  <2>. QED
    BY <2>1, PendingParts
<1>7. ASSUME NEW i \in DOMAIN slots, FailTask(slots[i].taskId), call' = call, Untouched(slots')
      PROVE  Starved'
  <2>1. slots[i].taskId = FreshTaskId /\ FreshTaskId \notin Files
    BY PendingParts DEF Starved, Untouched, FreshSlot
  <2>2. settled' = settled
    BY <1>1, <1>7, <2>1 DEF FailTask
  <2>. QED
    BY <1>7, <2>2 DEF Starved, Submitted
<1>8. ASSUME NEW i \in DOMAIN slots
      PROVE  /\ slots # <<>> /\ ~terminated /\ Untouched(RemoveAt(slots, i))
             /\ RemoveAt(slots, i) \in Seq(Slots)
             /\ Len(RemoveAt(slots, i)) = Len(slots) - 1
  <2>. DEFINE rest == RemoveAt(slots, i)
  <2>1. /\ rest \in Seq(Slots) /\ Len(rest) = Len(slots) - 1
        /\ \A j \in 1..(Len(slots) - 1) : rest[j] = IF j < i THEN slots[j] ELSE slots[j + 1]
    BY <1>1, SlotRemoved
  <2>2. Len(slots) \in Nat /\ DOMAIN rest = 1..(Len(slots) - 1) /\ DOMAIN slots = 1..Len(slots)
    BY <1>1, <2>1
  <2>. HIDE DEF rest
  <2>3. \A j \in 1..(Len(slots) - 1) : j \in DOMAIN slots /\ j + 1 \in DOMAIN slots
    BY <2>2
  <2>4. Untouched(rest)
    BY <2>1, <2>2, <2>3 DEF Untouched, Starved
  <2>. QED
    BY <2>1, <2>4, SlotParts DEF rest
<1>9. ASSUME NEW i \in DOMAIN slots, WorkerReplaced(i) PROVE Starved'
  <2>. DEFINE rest == RemoveAt(slots, i)
              ss == Append(RemoveAt(slots, i), FreshSlot)
              p == [slots |-> ss, queue |-> queue, lastSlot |-> lastSlot]
  <2>1. /\ FailTask(slots[i].taskId) /\ call' = call
        /\ PoolBecomes(Dispatch([Pool EXCEPT !.slots = Append(RemoveAt(@, i), FreshSlot)]))
    BY <1>9 DEF WorkerReplaced
  <2>2. [Pool EXCEPT !.slots = Append(RemoveAt(@, i), FreshSlot)] = p
    BY ReplacedPool
  <2>3. rest \in Seq(Slots) /\ Untouched(rest) /\ Len(rest) = Len(slots) - 1
        /\ slots # <<>> /\ ~terminated /\ ss = Append(rest, FreshSlot)
    BY <1>8
  <2>. HIDE DEF rest, ss
  <2>4. Len(slots) \in Nat \ {0}
    BY <1>1, <2>3, EmptySeq
  <2>5. /\ ss \in Seq(Slots) /\ Len(ss) = Len(slots) /\ DOMAIN ss = 1..Len(slots)
        /\ \A j \in 1..Len(rest) : ss[j] = rest[j]
        /\ ss[Len(rest) + 1] = FreshSlot
    BY <2>3, <2>4, FreshSlotTyped, AppendProperties
  <2>6. Untouched(ss)
    <3>1. \A j \in DOMAIN ss : j \in DOMAIN rest \/ j = Len(rest) + 1
      BY <2>3, <2>4, <2>5
    <3>. QED
      BY <2>3, <2>5, <3>1 DEF Untouched
  <2>7. Dispatch(p) = p
    <3>1. CASE inline
      BY <3>1 DEF Dispatch
    <3>2. CASE ~inline
      <4>1. lastSlot \in 0..(Len(slots) - 1) /\ queue \in Seq(Files)
        BY <2>3, <2>4, <3>2, PoolAssumption DEF IInv, TypeOK, Rotation
      <4>2. p \in PoolStates(Len(slots)) /\ p.slots = ss
        BY <2>5, <4>1 DEF PoolStates
      <4>. QED
        BY <2>4, <2>6, <4>2, RoundIdle
    <3>. QED
      BY <3>1, <3>2
  <2>8. slots' = ss
    BY <2>1, <2>2, <2>7 DEF PoolBecomes
  <2>. QED
    BY <1>7, <2>1, <2>6, <2>8
<1>10. ASSUME NEW i \in DOMAIN slots, WorkerLost(i) PROVE Starved'
  <2>1. FailTask(slots[i].taskId) /\ call' = call /\ slots' = RemoveAt(slots, i)
    BY <1>10 DEF WorkerLost
  <2>. QED
    BY <1>7, <1>8, <2>1
<1>11. CASE Terminate
  BY <1>1, <1>11 DEF Terminate, Starved, Submitted, Untouched
<1>12. CASE UNCHANGED vars
  BY <1>12 DEF vars, Starved, Submitted, Untouched
<1>. QED
  BY <1>2, <1>3, <1>4, <1>5, <1>6, <1>9, <1>10, <1>11, <1>12 DEF Next

\* A native Worker object has no taskId, which dispatch() takes for a busy worker:
\* no file is ever posted to a worker, and what the pool is given stays open for
\* ever or is rejected by terminate(), for any number of workers and crashes.
THEOREM NativeWorkersStarve ==
  ASSUME FreshTaskId # Null
  PROVE  Spec => []Starved
<1>1. Init => Starved
  <2>. SUFFICES ASSUME Init PROVE Starved
    OBVIOUS
  <2>1. PICK n \in 0..Concurrency : slots = [i \in 1..n |-> FreshSlot]
    BY DEF Init
  <2>2. settled = [f \in Files |-> "open"]
    BY DEF Init
  <2>. QED
    BY <2>1, <2>2 DEF Starved, Untouched, Submitted
<1>2. IInv /\ Starved /\ [Next]_vars => Starved'
  BY StarvedKeeps
<1>. QED
  BY <1>1, <1>2, IInvHolds, PTL DEF Spec
=============================================================================
