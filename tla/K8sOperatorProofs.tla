------------------------- MODULE K8sOperatorProofs -------------------------
(***************************************************************************)
(* Type correctness of the operator, that its statuses are honest and that *)
(* the last good publication stays, for any number of resources, watches,  *)
(* revisions, concurrent passes and failures.                              *)
(***************************************************************************)
EXTENDS K8sOperator, TLAPS

\* Every object that revision v of r asks for has been published.
Complete(r, v, w) ==
    /\ <<r, "configMap", v>> \in w
    /\ v.ingress => <<r, "ingress", v>> \in w

\* How far a pass has come is what it has published.
PassKnown(p, w) ==
    /\ p.at # "patch" => p.rev.valid
    /\ p.at # "patch" /\ p.kind = "ingress" => <<p.of, "configMap", p.rev>> \in w
    /\ p.at = "patch" /\ p.rev.valid /\ ~p.failed => Complete(p.of, p.rev, w)

PassesKnown == \A s \in PassSlots : pass[s] # None => PassKnown(pass[s], written)

IInv == TypeOK /\ PassesKnown /\ StatusHonest

Slotted == [PassSlots -> Passes \cup {None}]

\* The parts of a pass that other writers leave alone.
Alike(p, q) ==
    /\ q.of = p.of /\ q.rev = p.rev /\ q.at = p.at
    /\ q.kind = p.kind /\ q.failed = p.failed

-----------------------------------------------------------------------------
(* The operators on passes.                                                *)

LEMMA Nones == None \notin Revisions /\ None \notin Passes /\ None \notin Statuses
  BY NoneAssumption

LEMMA PassParts ==
  ASSUME NEW p \in Passes
  PROVE  /\ p.of \in Resources /\ p.rev \in Revisions /\ p.at \in {"get", "put", "patch"}
         /\ p.kind \in Kinds /\ p.seen \in {"absent", "fresh", "stale"} /\ p.failed \in BOOLEAN
  BY DEF Passes

LEMMA RevParts ==
  ASSUME NEW v \in Revisions
  PROVE  v.gen \in 1..MaxGeneration /\ v.valid \in BOOLEAN /\ v.ingress \in BOOLEAN
  BY DEF Revisions

LEMMA StartPassType ==
  ASSUME NEW r \in Resources, NEW v \in Revisions, NEW w
  PROVE  StartPass(r, v) \in Passes /\ PassKnown(StartPass(r, v), w)
<1>1. v.valid \in BOOLEAN
  BY RevParts
<1>2. StartPass(r, v) \in Passes
  BY <1>1 DEF StartPass, Passes, Kinds
<1>3. PassKnown(StartPass(r, v), w)
  BY <1>1 DEF StartPass, PassKnown
<1>. QED
  BY <1>2, <1>3

LEMMA FailedType ==
  ASSUME NEW p \in Passes, NEW w
  PROVE  Failed(p) \in Passes /\ PassKnown(Failed(p), w)
<1>1. Failed(p) \in Passes
  BY DEF Failed, Passes
<1>2. Failed(p).at = "patch" /\ Failed(p).failed = TRUE
  BY DEF Failed, Passes
<1>. QED
  BY <1>1, <1>2 DEF PassKnown

\* A pass that has just written its object knows what it has written.
LEMMA AppliedType ==
  ASSUME NEW p \in Passes, NEW w, PassKnown(p, w), p.at = "put"
  PROVE  /\ Applied(p) \in Passes
         /\ PassKnown(Applied(p), w \cup {<<p.of, p.kind, p.rev>>})
<1>1. Applied(p) \in Passes
  BY PassParts DEF Applied, Passes, Kinds
<1>. DEFINE w2 == w \cup {<<p.of, p.kind, p.rev>>}
<1>2. p.rev.valid /\ (p.kind = "ingress" => <<p.of, "configMap", p.rev>> \in w)
  BY DEF PassKnown
<1>3. CASE p.kind = "configMap" /\ p.rev.ingress
  <2>1. /\ Applied(p).at = "get" /\ Applied(p).kind = "ingress"
        /\ Applied(p).of = p.of /\ Applied(p).rev = p.rev
    BY <1>3 DEF Applied, Passes
  <2>. QED
    BY <1>1, <1>2, <1>3, <2>1 DEF PassKnown
<1>4. CASE ~(p.kind = "configMap" /\ p.rev.ingress)
  <2>1. /\ Applied(p).at = "patch" /\ Applied(p).kind = p.kind
        /\ Applied(p).of = p.of /\ Applied(p).rev = p.rev
    BY <1>4 DEF Applied, Passes
  <2>2. Complete(p.of, p.rev, w2)
    BY <1>2, <1>4, PassParts DEF Complete, Kinds
  <2>. QED
    BY <1>1, <2>1, <2>2 DEF PassKnown
<1>. QED
  BY <1>3, <1>4

\* What is known stays known while more is published.
LEMMA KnownKept ==
  ASSUME NEW p, NEW q, NEW w, NEW w2, Alike(p, q), w \subseteq w2, PassKnown(p, w)
  PROVE  PassKnown(q, w2)
  BY DEF Alike, PassKnown, Complete

LEMMA InvalidateKeeps ==
  ASSUME NEW f \in Slotted, NEW r, NEW k
  PROVE  /\ Invalidate(f, r, k) \in Slotted
         /\ \A s \in PassSlots :
               Invalidate(f, r, k)[s] # None =>
                  f[s] # None /\ Alike(f[s], Invalidate(f, r, k)[s])
<1>. DEFINE g == Invalidate(f, r, k)
<1>1. ASSUME NEW s \in PassSlots
      PROVE  /\ g[s] \in Passes \cup {None}
             /\ g[s] # None => f[s] # None /\ Alike(f[s], g[s])
  <2>1. f[s] \in Passes \cup {None}
    BY DEF Slotted
  <2>2. CASE f[s] = None \/ g[s] = f[s]
    BY <2>1, <2>2 DEF Invalidate, Alike
  <2>3. CASE f[s] # None /\ g[s] # f[s]
    <3>1. f[s] \in Passes /\ g[s] = [f[s] EXCEPT !.seen = "stale"]
      BY <2>1, <2>3 DEF Invalidate
    <3>. QED
      BY <2>3, <3>1 DEF Passes, Alike
  <2>. QED
    BY <2>2, <2>3
<1>2. g \in Slotted
  BY <1>1 DEF Invalidate, Slotted
<1>. QED
  BY <1>1, <1>2

LEMMA WrittenKeeps ==
  ASSUME NEW f \in Slotted, NEW r, NEW k, NEW v
  PROVE  /\ Written(f, r, k, v) \in Slotted
         /\ \A s \in PassSlots :
               Written(f, r, k, v)[s] # None =>
                  f[s] # None /\ Alike(f[s], Written(f, r, k, v)[s])
  BY InvalidateKeeps DEF Written, Alike

LEMMA ListingType ==
  ASSUME TypeOK PROVE Listing \subseteq Resources \X Revisions
  BY DEF TypeOK, Listing

LEMMA AnnounceType ==
  ASSUME TypeOK, NEW r \in Resources, NEW v \in Revisions
  PROVE  Announce(r, v) \in [Watches -> SUBSET (Resources \X Revisions)]
  BY DEF TypeOK, Announce

LEMMA TroubleType == ASSUME TypeOK, Trouble PROVE troubles' \in 0..MaxTroubles
  BY OperatorAssumption DEF TypeOK, Trouble

-----------------------------------------------------------------------------
(* Each step keeps the invariant.                                          *)

\* Of a step that changes neither passes, what is published nor statuses only
\* the types are to be shown.
LEMMA Elsewhere ==
  ASSUME IInv, TypeOK', UNCHANGED <<pass, written, status>>
  PROVE  IInv'
  BY DEF IInv, PassesKnown, StatusHonest

\* Honest statuses stay honest when statuses stay or vanish.
LEMMA HonestKept ==
  ASSUME StatusHonest, written \subseteq written',
         \A r \in Resources : status'[r] # None => status'[r] = status[r]
  PROVE  StatusHonest'
  BY DEF StatusHonest

\* Passes that go on as they were, or vanished, know what they knew.
LEMMA AllKnownKept ==
  ASSUME PassesKnown, written \subseteq written',
         \A s \in PassSlots : pass'[s] # None => pass[s] # None /\ Alike(pass[s], pass'[s])
  PROVE  PassesKnown'
<1>. SUFFICES ASSUME NEW s \in PassSlots, pass'[s] # None
              PROVE PassKnown(pass'[s], written')
  BY DEF PassesKnown
<1>. QED
  BY KnownKept DEF PassesKnown

LEMMA EditKeeps ==
  ASSUME IInv, NEW r \in Resources, Edit(r)
  PROVE  IInv'
<1>1. TypeOK
  BY DEF IInv
<1>2. PICK v \in Revisions : spec' = [spec EXCEPT ![r] = v] /\ pending' = Announce(r, v)
  BY DEF Edit
<1>3. pending' \in [Watches -> SUBSET (Resources \X Revisions)]
  BY <1>1, <1>2, AnnounceType
<1>4. TypeOK'
  BY <1>1, <1>2, <1>3 DEF Edit, TypeOK
<1>. QED
  BY <1>4, Elsewhere DEF Edit

LEMMA DeleteKeeps ==
  ASSUME IInv, NEW r \in Resources, Delete(r)
  PROVE  IInv'
<1>1. TypeOK
  BY DEF IInv
<1>2. TypeOK'
  BY <1>1, TroubleType DEF Delete, TypeOK, process
<1>3. PassesKnown'
  BY DEF IInv, PassesKnown, Delete, process
<1>4. StatusHonest'
  BY <1>1, HonestKept DEF IInv, Delete, TypeOK
<1>. QED
  BY <1>2, <1>3, <1>4 DEF IInv

\* An object is gone.
LEMMA DropKeeps ==
  ASSUME IInv, NEW r \in Resources, NEW k \in Kinds, Drop(r, k), troubles' \in 0..MaxTroubles,
         UNCHANGED <<spec, status, written, phase, open, lastWatch, pending, todo>>
  PROVE  IInv'
<1>1. TypeOK /\ pass \in Slotted
  BY DEF IInv, TypeOK, Slotted
<1>2. pass' \in Slotted
  BY <1>1, InvalidateKeeps DEF Drop
<1>3. store' \in [Resources -> [Kinds -> Revisions \cup {None}]]
  BY <1>1 DEF Drop, TypeOK
<1>4. TypeOK'
  BY <1>1, <1>2, <1>3 DEF TypeOK, Slotted
<1>5. PassesKnown'
  BY <1>1, InvalidateKeeps, AllKnownKept DEF IInv, Drop
<1>6. StatusHonest'
  BY HonestKept DEF IInv
<1>. QED
  BY <1>4, <1>5, <1>6 DEF IInv

LEMMA GetKeeps ==
  ASSUME IInv, NEW s \in PassSlots, Get(s)
  PROVE  IInv'
<1>. DEFINE p == pass[s]
<1>1. TypeOK /\ p \in Passes /\ p # None /\ p.at = "get" /\ PassKnown(p, written)
  BY DEF IInv, TypeOK, PassesKnown, Get
<1>2. \E q \in Passes : pass' = [pass EXCEPT ![s] = q] /\ PassKnown(q, written)
  <2>1. CASE pass' = [pass EXCEPT ![s] = Failed(p)]
    BY <1>1, <2>1, FailedType
  <2>2. ASSUME NEW x \in {"absent", "fresh"},
               pass' = [pass EXCEPT ![s].at = "put", ![s].seen = x]
        PROVE  \E q \in Passes : pass' = [pass EXCEPT ![s] = q] /\ PassKnown(q, written)
    <3>. DEFINE q == [p EXCEPT !.at = "put", !.seen = x]
    <3>1. q \in Passes
      BY <1>1 DEF Passes
    <3>2. q.at = "put" /\ q.of = p.of /\ q.rev = p.rev /\ q.kind = p.kind
      BY <1>1 DEF Passes
    <3>3. pass' = [pass EXCEPT ![s] = q]
      BY <1>1, <2>2 DEF TypeOK
    <3>. QED
      BY <1>1, <3>1, <3>2, <3>3 DEF PassKnown
  <2>. QED
    BY <2>1, <2>2 DEF Get
<1>3. TypeOK'
  BY <1>1, <1>2, TroubleType DEF Get, TypeOK, cluster
<1>4. PassesKnown'
  BY <1>1, <1>2 DEF IInv, PassesKnown, Get, cluster, TypeOK
<1>5. StatusHonest'
  BY HonestKept DEF IInv, Get, cluster
<1>. QED
  BY <1>3, <1>4, <1>5 DEF IInv

\* The object was written, and the pass goes on as next.
LEMMA WriteKeeps ==
  ASSUME IInv, NEW s \in PassSlots, pass[s] # None, NEW next \in Passes,
         PassKnown(next, written \cup {<<pass[s].of, pass[s].kind, pass[s].rev>>}),
         Write(s, next), troubles' \in 0..MaxTroubles,
         UNCHANGED <<spec, status, phase, open, lastWatch, pending, todo>>
  PROVE  IInv'
<1>. DEFINE p == pass[s]
            f == Written(pass, p.of, p.kind, p.rev)
<1>1. TypeOK /\ pass \in Slotted /\ p \in Passes
  BY DEF IInv, TypeOK, Slotted
<1>2. p.of \in Resources /\ p.kind \in Kinds /\ p.rev \in Revisions
  BY <1>1, PassParts
<1>3. /\ f \in Slotted
      /\ \A t \in PassSlots : f[t] # None => pass[t] # None /\ Alike(pass[t], f[t])
  BY <1>1, WrittenKeeps
<1>4. /\ pass' = [f EXCEPT ![s] = next]
      /\ store' = [store EXCEPT ![p.of][p.kind] = p.rev]
      /\ written' = written \cup {<<p.of, p.kind, p.rev>>}
  BY DEF Write
<1>5. TypeOK'
  <2>1. pass' \in [PassSlots -> Passes \cup {None}]
    BY <1>3, <1>4 DEF Slotted
  <2>2. store' \in [Resources -> [Kinds -> Revisions \cup {None}]]
    BY <1>1, <1>2, <1>4 DEF TypeOK
  <2>3. written' \subseteq Resources \X Kinds \X Revisions
    BY <1>1, <1>2, <1>4 DEF TypeOK
  <2>. QED
    BY <1>1, <2>1, <2>2, <2>3 DEF TypeOK
<1>6. PassesKnown'
  <2>1. SUFFICES ASSUME NEW t \in PassSlots, pass'[t] # None
                 PROVE  PassKnown(pass'[t], written')
    BY DEF PassesKnown
  <2>2. CASE t = s
    BY <1>3, <1>4, <2>2 DEF Slotted
  <2>3. CASE t # s
    <3>1. pass'[t] = f[t]
      BY <1>3, <1>4, <2>3 DEF Slotted
    <3>2. pass[t] # None /\ Alike(pass[t], f[t]) /\ PassKnown(pass[t], written)
      BY <1>3, <2>1, <3>1 DEF IInv, PassesKnown
    <3>. QED
      BY <1>4, <3>1, <3>2, KnownKept
  <2>. QED
    BY <2>2, <2>3
<1>7. StatusHonest'
  BY <1>4, HonestKept DEF IInv
<1>. QED
  BY <1>5, <1>6, <1>7 DEF IInv

LEMMA NoWriteKeeps ==
  ASSUME IInv, NEW s \in PassSlots, pass[s] # None,
         NoWrite(s), troubles' \in 0..MaxTroubles,
         UNCHANGED <<spec, status, phase, open, lastWatch, pending, todo>>
  PROVE  IInv'
<1>1. TypeOK /\ pass[s] \in Passes
  BY DEF IInv, TypeOK
<1>2. Failed(pass[s]) \in Passes /\ PassKnown(Failed(pass[s]), written)
  BY <1>1, FailedType
<1>3. TypeOK'
  BY <1>1, <1>2 DEF NoWrite, TypeOK
<1>4. PassesKnown'
  BY <1>1, <1>2 DEF IInv, PassesKnown, NoWrite, TypeOK
<1>5. StatusHonest'
  BY HonestKept DEF IInv, NoWrite
<1>. QED
  BY <1>3, <1>4, <1>5 DEF IInv

LEMMA PutKeeps ==
  ASSUME IInv, NEW s \in PassSlots, Put(s)
  PROVE  IInv'
<1>1. TypeOK /\ pass[s] # None /\ pass[s] \in Passes /\ pass[s].at = "put"
      /\ PassKnown(pass[s], written) /\ troubles \in 0..MaxTroubles
  BY DEF IInv, TypeOK, PassesKnown, Put
<1>2. troubles' \in 0..MaxTroubles
  BY <1>1, TroubleType DEF Put
<1>3. CASE Write(s, Applied(pass[s])) \/ Write(s, Failed(pass[s]))
  BY <1>1, <1>2, <1>3, AppliedType, FailedType, WriteKeeps DEF Put
<1>4. CASE NoWrite(s)
  BY <1>1, <1>2, <1>4, NoWriteKeeps DEF Put
<1>. QED
  BY <1>3, <1>4 DEF Put

\* What a pass reports is a status, and an honest one.
LEMMA StatusOfType ==
  ASSUME TypeOK, NEW p \in Passes
  PROVE  StatusOf(p) \in Statuses
<1>1. p.of \in Resources /\ p.rev.gen \in 1..MaxGeneration /\ p.rev.valid \in BOOLEAN
      /\ p.failed \in BOOLEAN
  BY PassParts, RevParts
<1>2. status[p.of] # None => status[p.of].synced \in BOOLEAN
  BY <1>1 DEF TypeOK, Statuses
<1>. QED
  BY <1>1, <1>2 DEF StatusOf, Statuses

LEMMA ReportKeeps ==
  ASSUME IInv, NEW p \in Passes, p.at = "patch", PassKnown(p, written), Report(p),
         written' = written
  PROVE  /\ status' \in [Resources -> Statuses \cup {None}]
         /\ pending' \in [Watches -> SUBSET (Resources \X Revisions)]
         /\ StatusHonest'
<1>1. TypeOK /\ p.of \in Resources /\ p.rev \in Revisions
  BY PassParts DEF IInv
<1>2. StatusOf(p) \in Statuses
  BY <1>1, StatusOfType
<1>3. spec[p.of] \in Revisions
  BY <1>1 DEF TypeOK, Report
<1>4. pending' \in [Watches -> SUBSET (Resources \X Revisions)]
  BY <1>1, <1>3, AnnounceType DEF Report, TypeOK
<1>5. StatusHonest'
  <2>1. SUFFICES ASSUME NEW r \in Resources, status'[r] # None,
                        status'[r].outcome = "Published"
                 PROVE  \E v \in Revisions : v.gen = status'[r].gen /\ Complete(r, v, written)
    BY DEF StatusHonest, Complete
  <2>2. CASE r = p.of
    <3>1. status'[r] = StatusOf(p)
      BY <1>1, <2>2 DEF Report, TypeOK
    <3>2. p.rev.valid /\ ~p.failed /\ status'[r].gen = p.rev.gen
      BY <2>1, <3>1 DEF StatusOf
    <3>3. Complete(r, p.rev, written)
      BY <2>2, <3>2 DEF PassKnown
    <3>. QED
      BY <1>1, <3>2, <3>3
  <2>3. CASE r # p.of
    BY <1>1, <2>1, <2>3 DEF Report, TypeOK, IInv, StatusHonest, Complete
  <2>. QED
    BY <2>2, <2>3
<1>. QED
  BY <1>1, <1>2, <1>4, <1>5 DEF Report, TypeOK

LEMMA PatchKeeps ==
  ASSUME IInv, NEW s \in PassSlots, Patch(s)
  PROVE  IInv'
<1>1. TypeOK /\ pass[s] \in Passes /\ pass[s].at = "patch" /\ PassKnown(pass[s], written)
  BY DEF IInv, TypeOK, PassesKnown, Patch
<1>2. pass' = [pass EXCEPT ![s] = None] /\ written' = written
  BY DEF Patch
<1>3. /\ status' \in [Resources -> Statuses \cup {None}]
      /\ pending' \in [Watches -> SUBSET (Resources \X Revisions)]
      /\ StatusHonest'
  <2>1. CASE Report(pass[s])
    BY <1>1, <1>2, <2>1, ReportKeeps
  <2>2. CASE UNCHANGED <<status, pending>>
    BY <1>1, <1>2, <2>2, HonestKept DEF IInv, TypeOK
  <2>. QED
    BY <2>1, <2>2 DEF Patch
<1>4. troubles' \in 0..MaxTroubles
  BY <1>1, TroubleType DEF Patch, TypeOK
<1>5. TypeOK'
  BY <1>1, <1>2, <1>3, <1>4 DEF Patch, TypeOK
<1>6. PassesKnown'
  BY <1>1, <1>2 DEF IInv, PassesKnown, TypeOK
<1>. QED
  BY <1>3, <1>5, <1>6 DEF IInv

\* Slot s is given a new pass.
LEMMA NewPassKeeps ==
  ASSUME IInv, NEW s \in PassSlots, NEW r \in Resources, NEW v \in Revisions,
         pass' = [pass EXCEPT ![s] = StartPass(r, v)], UNCHANGED cluster
  PROVE  pass' \in [PassSlots -> Passes \cup {None}] /\ PassesKnown' /\ StatusHonest'
<1>1. pass \in [PassSlots -> Passes \cup {None}]
  BY DEF IInv, TypeOK
<1>2. StartPass(r, v) \in Passes /\ PassKnown(StartPass(r, v), written)
  BY StartPassType
<1>3. PassesKnown'
  BY <1>1, <1>2 DEF IInv, PassesKnown, cluster
<1>4. StatusHonest'
  BY HonestKept DEF IInv, cluster
<1>. QED
  BY <1>1, <1>2, <1>3, <1>4

LEMMA ResyncNextKeeps ==
  ASSUME IInv, NEW r \in Resources, NEW v \in Revisions, ResyncNext(r, v)
  PROVE  IInv'
<1>1. TypeOK /\ Resync \in PassSlots
  BY DEF IInv, PassSlots
<1>2. CASE pass' = [pass EXCEPT ![Resync] = StartPass(r, v)] /\ todo' = todo \ {<<r, v>>}
  <2>1. pass' \in [PassSlots -> Passes \cup {None}] /\ PassesKnown' /\ StatusHonest'
    BY <1>1, <1>2, NewPassKeeps DEF ResyncNext
  <2>2. TypeOK'
    BY <1>1, <1>2, <2>1 DEF ResyncNext, TypeOK, cluster
  <2>. QED
    BY <2>1, <2>2 DEF IInv
<1>3. CASE todo' = {} /\ UNCHANGED pass
  <2>1. TypeOK'
    BY <1>1, <1>3 DEF ResyncNext, TypeOK, cluster
  <2>. QED
    BY <1>3, <2>1, Elsewhere DEF ResyncNext, cluster
<1>. QED
  BY <1>2, <1>3 DEF ResyncNext

LEMMA DeliverKeeps ==
  ASSUME IInv, NEW w \in Watches, NEW s \in Slots, NEW r \in Resources, NEW v \in Revisions,
         Deliver(w, s, r, v)
  PROVE  IInv'
<1>1. TypeOK /\ s \in PassSlots
  BY DEF IInv, PassSlots
<1>2. pass' \in [PassSlots -> Passes \cup {None}] /\ PassesKnown' /\ StatusHonest'
  BY <1>1, NewPassKeeps DEF Deliver
<1>3. pending' \in [Watches -> SUBSET (Resources \X Revisions)]
  BY <1>1 DEF Deliver, TypeOK
<1>4. TypeOK'
  BY <1>1, <1>2, <1>3 DEF Deliver, TypeOK, cluster
<1>. QED
  BY <1>2, <1>4 DEF IInv

\* The loops of main.ts outside the passes.
LEMMA LoopKeeps ==
  ASSUME IInv, Start \/ Booted \/ ResyncTick \/ Stop
               \/ \E w \in Watches : OpenWatch(w) \/ WatchEnds(w)
  PROVE  IInv'
<1>1. TypeOK /\ Listing \subseteq Resources \X Revisions
  BY ListingType DEF IInv
<1>2. CASE Start \/ Booted \/ ResyncTick
  <2>1. TypeOK'
    BY <1>1, <1>2, TroubleType DEF Start, Booted, ResyncTick, TypeOK, cluster
  <2>. QED
    BY <1>2, <2>1, Elsewhere DEF Start, Booted, ResyncTick, cluster
<1>3. CASE Stop
  <2>1. TypeOK'
    BY <1>1, <1>3, TroubleType DEF Stop, TypeOK, cluster
  <2>. QED
    BY <1>3, <2>1, Elsewhere DEF Stop, cluster
<1>4. CASE \E w \in Watches : OpenWatch(w) \/ WatchEnds(w)
  <2>1. TypeOK'
    BY <1>1, <1>4, TroubleType DEF OpenWatch, WatchEnds, TypeOK, cluster
  <2>. QED
    BY <1>4, <2>1, Elsewhere DEF OpenWatch, WatchEnds, cluster
<1>. QED
  BY <1>2, <1>3, <1>4

LEMMA GoneKeeps ==
  ASSUME IInv, Gone, troubles' \in 0..MaxTroubles, phase # "down"
  PROVE  IInv'
<1>1. TypeOK'
  BY DEF IInv, Gone, TypeOK, cluster
<1>2. PassesKnown'
  BY DEF Gone, PassesKnown
<1>3. StatusHonest'
  BY HonestKept DEF IInv, Gone, cluster
<1>. QED
  BY <1>1, <1>2, <1>3 DEF IInv

LEMMA InitHolds == Init => IInv
<1>. SUFFICES ASSUME Init PROVE IInv
  OBVIOUS
<1>1. TypeOK
  BY OperatorAssumption DEF Init, TypeOK
<1>. QED
  BY <1>1 DEF Init, IInv, PassesKnown, StatusHonest

LEMMA StepKeeps == IInv /\ [Next]_vars => IInv'
<1>. SUFFICES ASSUME IInv, [Next]_vars PROVE IInv'
  OBVIOUS
<1>1. CASE \E r \in Resources : Edit(r) \/ Delete(r)
  BY <1>1, EditKeeps, DeleteKeeps
<1>2. CASE \E r \in Resources, k \in Kinds : Meddle(r, k) \/ Collect(r, k)
  BY <1>2, DropKeeps, TroubleType DEF Meddle, Collect, IInv, TypeOK
<1>3. CASE Start \/ Booted \/ ResyncTick \/ Stop
           \/ \E w \in Watches : OpenWatch(w) \/ WatchEnds(w)
  BY <1>3, LoopKeeps
<1>4. CASE Exit \/ Crash
  BY <1>4, GoneKeeps, TroubleType DEF Exit, Crash, IInv, TypeOK
<1>5. CASE \E r \in Resources, v \in Revisions : ResyncNext(r, v)
  BY <1>5, ResyncNextKeeps
<1>6. CASE \E w \in Watches, s \in Slots, r \in Resources, v \in Revisions : Deliver(w, s, r, v)
  BY <1>6, DeliverKeeps
<1>7. CASE \E s \in PassSlots : PassStep(s)
  BY <1>7, GetKeeps, PutKeeps, PatchKeeps DEF PassStep
<1>8. CASE UNCHANGED vars
  <2>1. TypeOK'
    BY <1>8 DEF IInv, TypeOK, vars, cluster, process
  <2>. QED
    BY <1>8, <2>1, Elsewhere DEF vars, cluster, process
<1>. QED
  BY <1>1, <1>2, <1>3, <1>4, <1>5, <1>6, <1>7, <1>8 DEF Next, Environment, Loops

LEMMA Invariant == Spec => []IInv
  BY InitHolds, StepKeeps, PTL DEF Spec

-----------------------------------------------------------------------------
\* Every variable keeps its type.
THEOREM TypesHold == Spec => []TypeOK
<1>1. IInv => TypeOK
  BY DEF IInv
<1>. QED
  BY <1>1, Invariant, PTL

\* No status says Published before everything its revision asks for has been
\* written, however passes overlap and whatever fails or crashes in between.
THEOREM StatusesHonest == Spec => []StatusHonest
<1>1. IInv => StatusHonest
  BY DEF IInv
<1>. QED
  BY <1>1, Invariant, PTL

\* One step changes a published object only as controller.ts promises.
LastGoodStaysStep ==
    \A r \in Resources, k \in Kinds : store'[r][k] # store[r][k] =>
        IF store'[r][k] = None THEN spec[r] = None \/ troubles' > troubles
        ELSE store'[r][k].valid

LEMMA DropStays ==
  ASSUME TypeOK, NEW r \in Resources, NEW k \in Kinds, Drop(r, k),
         spec[r] = None \/ troubles' > troubles
  PROVE  LastGoodStaysStep
<1>. SUFFICES ASSUME NEW q \in Resources, NEW j \in Kinds, store'[q][j] # store[q][j]
              PROVE  store'[q][j] = None /\ q = r
  BY DEF LastGoodStaysStep
<1>. QED
  BY DEF Drop, TypeOK

LEMMA WriteStays ==
  ASSUME IInv, NEW s \in PassSlots, pass[s] # None, pass[s].at = "put", NEW next, Write(s, next)
  PROVE  LastGoodStaysStep
<1>. DEFINE p == pass[s]
<1>1. TypeOK /\ p \in Passes /\ p.rev.valid
  BY DEF IInv, TypeOK, PassesKnown, PassKnown
<1>2. p.of \in Resources /\ p.kind \in Kinds /\ p.rev \in Revisions /\ p.rev # None
  BY <1>1, PassParts, Nones
<1>. SUFFICES ASSUME NEW q \in Resources, NEW j \in Kinds, store'[q][j] # store[q][j]
              PROVE  store'[q][j] = p.rev
  BY <1>1, <1>2 DEF LastGoodStaysStep
<1>. QED
  BY <1>1, <1>2 DEF Write, TypeOK

LEMMA StepStays == IInv /\ [Next]_vars => LastGoodStaysStep
<1>. SUFFICES ASSUME IInv, [Next]_vars PROVE LastGoodStaysStep
  OBVIOUS
<1>1. CASE UNCHANGED store
  BY <1>1 DEF LastGoodStaysStep
<1>2. CASE \E r \in Resources, k \in Kinds : Meddle(r, k) \/ Collect(r, k)
  <2>1. TypeOK /\ troubles \in Nat
    BY OperatorAssumption DEF IInv, TypeOK
  <2>. QED
    BY <1>2, <2>1, DropStays DEF Meddle, Collect, Trouble
<1>3. CASE \E s \in PassSlots : Put(s)
  BY <1>3, WriteStays, <1>1 DEF Put, NoWrite
<1>. QED
  BY <1>1, <1>2, <1>3 DEF Next, Environment, Loops, PassStep, vars, cluster, process,
     Edit, Delete, Get, Patch, Start, Booted, ResyncTick, Stop, Exit, Crash, Gone,
     ResyncNext, OpenWatch, WatchEnds, Deliver

\* A revision that fails the lint is never published, and takes nothing down,
\* for any number of overlapping passes, failures and restarts.
THEOREM LastGoodKept == Spec => LastGoodStays
<1>1. IInv /\ [Next]_vars => [LastGoodStaysStep]_vars
  BY StepStays
<1>. QED
  BY <1>1, Invariant, PTL DEF Spec, LastGoodStays, LastGoodStaysStep

=============================================================================
