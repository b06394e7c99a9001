---------------------------- MODULE K8sOperator ----------------------------
(***************************************************************************)
(* The StellarInfoFile operator (src/integrations/k8s): the reconcile pass *)
(* of controller.ts, its calls of the API server (client.ts) and the watch *)
(* and resync loops of main.ts that start passes.                          *)
(*                                                                         *)
(* Passes are not serialised: the resync awaits its own, one after the     *)
(* other, but every watch event starts one that nobody waits for.  Each    *)
(* call of the API server is one step, so passes, edits of the resource    *)
(* and a crash of the operator may come between any two of them.           *)
(*                                                                         *)
(* A revision stands for a spec: its generation, whether it passes the     *)
(* lint and whether it asks for an Ingress.  Object versions are told by   *)
(* what a pass that read the object still knows of it: "fresh" while the   *)
(* resourceVersion it read is the current one, "stale" afterwards.         *)
(***************************************************************************)
EXTENDS Naturals, FiniteSets

CONSTANTS
    Resources,       \* StellarInfoFiles of the cluster
    Watches,         \* watch connections that may be open at once
    Slots,           \* passes started by watch events that may run at once
    Resync,          \* the slot of the pass the resync awaits
    MaxGeneration,   \* bound on the revisions of a resource
    MaxTroubles,     \* bound on failed calls, ended watches, deletions by others,
                     \* stops and crashes, taken together
    None

ASSUME OperatorAssumption ==
    /\ IsFiniteSet(Resources) /\ IsFiniteSet(Watches) /\ IsFiniteSet(Slots)
    /\ Resync \notin Slots
    /\ MaxGeneration \in Nat \ {0}
    /\ MaxTroubles \in Nat
    /\ None \notin Watches

VARIABLES
    spec,      \* the revision of each resource, None once it is deleted
    store,     \* per resource and kind: the revision the published object carries
    status,    \* per resource: what /status says
    written,   \* every object ever published (history)
    phase,     \* of the process: "down", "booting", "running" or "stopped"
    open,      \* watch connections not yet closed
    lastWatch, \* the connection stopWatch would close
    pending,   \* per connection: events under way to the operator
    todo,      \* what the resync listed and has still to reconcile
    pass,      \* per slot: the pass it runs
    troubles   \* how many there were

cluster == <<spec, store, status, written>>
process == <<phase, open, lastWatch, pending, todo, pass>>
vars == <<cluster, process, troubles>>

Kinds == {"configMap", "ingress"}
\* (Of a revision that fails the lint nobody reads whether it wants an Ingress.)
Revisions == {v \in [gen : 1..MaxGeneration, valid : BOOLEAN, ingress : BOOLEAN] :
                v.ingress => v.valid}
PassSlots == Slots \cup {Resync}
Passes == [of : Resources, rev : Revisions, at : {"get", "put", "patch"},
           kind : Kinds, seen : {"absent", "fresh", "stale"}, failed : BOOLEAN]
Statuses == [gen : 1..MaxGeneration, outcome : {"Published", "PublishFailed", "Skipped"},
             synced : BOOLEAN]

ASSUME NoneAssumption == None \notin Revisions \cup Passes \cup Statuses

TypeOK ==
    /\ spec \in [Resources -> Revisions \cup {None}]
    /\ store \in [Resources -> [Kinds -> Revisions \cup {None}]]
    /\ status \in [Resources -> Statuses \cup {None}]
    /\ written \subseteq Resources \X Kinds \X Revisions
    /\ phase \in {"down", "booting", "running", "stopped"}
    /\ open \subseteq Watches
    /\ lastWatch \in Watches \cup {None}
    /\ pending \in [Watches -> SUBSET (Resources \X Revisions)]
    /\ todo \subseteq Resources \X Revisions
    /\ pass \in [PassSlots -> Passes \cup {None}]
    /\ troubles \in 0..MaxTroubles

-----------------------------------------------------------------------------
\* Something goes wrong once more.
Trouble == troubles < MaxTroubles /\ troubles' = troubles + 1

\* Mutant: what has a status already is not reconciled again.
ListingNew == {<<r, spec[r]>> : r \in {q \in Resources : spec[q] # None /\ status[q] = None}}

\* listStellarInfoFiles()
Listing == {<<r, spec[r]>> : r \in {q \in Resources : spec[q] # None}}

\* What the API server sends on the open watches after a change of r.
Announce(r, rev) ==
    [w \in Watches |-> IF w \in open THEN pending[w] \cup {<<r, rev>>} ELSE pending[w]]

\* Mutant: published objects name no owner.
Ownerless == FALSE

\* Every published object names the resource as its owner: it has a uid once the
\* API server has stored it.
Owned == TRUE

\* Mutant: a spec that failed the lint is published like any other.
StartPassUnchecked(r, rev) ==
    [of |-> r, rev |-> rev, at |-> "get", kind |-> "configMap",
     seen |-> "absent", failed |-> FALSE]

\* reconcile() up to its first call: the lint decides whether to publish.
StartPass(r, rev) ==
    [of |-> r, rev |-> rev, at |-> IF rev.valid THEN "get" ELSE "patch",
     kind |-> "configMap", seen |-> "absent", failed |-> FALSE]

\* The pass after its object was written: the Ingress, then the status.
Applied(p) ==
    IF p.kind = "configMap" /\ p.rev.ingress
    THEN [p EXCEPT !.at = "get", !.kind = "ingress", !.seen = "absent"]
    ELSE [p EXCEPT !.at = "patch"]

\* Mutant: the error of a call is not remembered.
FailedSilently(p) == [p EXCEPT !.at = "patch"]

\* Any error of the publishing calls ends the publishing, not the pass.
Failed(p) == [p EXCEPT !.at = "patch", !.failed = TRUE]

\* Object (r, k) has a new version: a pass that read the former one is stale.
Invalidate(passes, r, k) ==
    [s \in PassSlots |->
        IF passes[s] # None /\ passes[s].of = r /\ passes[s].kind = k
           /\ passes[s].at = "put" /\ passes[s].seen = "fresh"
        THEN [passes[s] EXCEPT !.seen = "stale"] ELSE passes[s]]

\* A write that leaves the object as it is gives it no new version.
Written(passes, r, k, rev) ==
    IF store[r][k] = rev THEN passes ELSE Invalidate(passes, r, k)

-----------------------------------------------------------------------------
(* The cluster: edits, deletions, other writers and garbage collection.   *)

Init ==
    /\ spec \in [Resources -> {v \in Revisions : v.gen = 1}]
    /\ store = [r \in Resources |-> [k \in Kinds |-> None]]
    /\ status = [r \in Resources |-> None]
    /\ written = {}
    /\ phase = "down" /\ open = {} /\ lastWatch = None
    /\ pending = [w \in Watches |-> {}]
    /\ todo = {}
    /\ pass = [s \in PassSlots |-> None]
    /\ troubles = 0

Edit(r) ==
    /\ spec[r] # None /\ spec[r].gen < MaxGeneration
    /\ \E v \in Revisions :
        /\ v.gen = spec[r].gen + 1
        /\ spec' = [spec EXCEPT ![r] = v]
        /\ pending' = Announce(r, v)
    /\ UNCHANGED <<store, status, written, phase, open, lastWatch, todo, pass, troubles>>

\* Mutant: DELETED events start passes like the others.
DeleteDelivered(r) ==
    /\ spec[r] # None /\ Trouble
    /\ spec' = [spec EXCEPT ![r] = None]
    /\ status' = [status EXCEPT ![r] = None]
    /\ pending' = Announce(r, None)
    /\ UNCHANGED <<store, written, phase, open, lastWatch, todo, pass>>

\* kubectl delete: the DELETED event starts no pass.
Delete(r) ==
    /\ spec[r] # None /\ Trouble
    /\ spec' = [spec EXCEPT ![r] = None]
    /\ status' = [status EXCEPT ![r] = None]
    /\ UNCHANGED <<store, written, process>>

Drop(r, k) ==
    /\ store' = [store EXCEPT ![r][k] = None]
    /\ pass' = Invalidate(pass, r, k)

\* Somebody deletes a published object.
Meddle(r, k) ==
    /\ store[r][k] # None /\ spec[r] # None /\ Trouble
    /\ Drop(r, k)
    /\ UNCHANGED <<spec, status, written, phase, open, lastWatch, pending, todo>>

\* The API server collects objects whose owner is gone.
Collect(r, k) ==
    /\ store[r][k] # None /\ spec[r] = None /\ Owned
    /\ Drop(r, k)
    /\ UNCHANGED <<spec, status, written, phase, open, lastWatch, pending, todo, troubles>>

-----------------------------------------------------------------------------
(* The reconcile pass.                                                     *)

\* getConfigMap, getIngress: 404 is an answer, anything else an error.
Get(s) ==
    /\ pass[s] # None /\ pass[s].at = "get"
    /\ LET p == pass[s] IN
        \/ /\ pass' = [pass EXCEPT ![s].at = "put",
                  ![s].seen = IF store[p.of][p.kind] = None THEN "absent" ELSE "fresh"]
           /\ UNCHANGED troubles
        \/ /\ pass' = [pass EXCEPT ![s] = Failed(p)]
           /\ Trouble
    /\ UNCHANGED <<cluster, phase, open, lastWatch, pending, todo>>

\* The API server refuses to create what exists and to replace what has
\* another version than the one the pass read.
Accepted(p) ==
    \/ p.seen = "absent" /\ store[p.of][p.kind] = None
    \/ p.seen = "fresh"

Write(s, next) ==
    LET p == pass[s] IN
    /\ Accepted(p)
    /\ store' = [store EXCEPT ![p.of][p.kind] = p.rev]
    /\ written' = written \cup {<<p.of, p.kind, p.rev>>}
    /\ pass' = [Written(pass, p.of, p.kind, p.rev) EXCEPT ![s] = next]

NoWrite(s) ==
    /\ pass' = [pass EXCEPT ![s] = Failed(pass[s])]
    /\ UNCHANGED <<store, written>>

\* create..., update...: carried out; refused; lost after or before the write.
Put(s) ==
    /\ pass[s] # None /\ pass[s].at = "put"
    /\ \/ Write(s, Applied(pass[s])) /\ UNCHANGED troubles
       \/ ~Accepted(pass[s]) /\ NoWrite(s) /\ UNCHANGED troubles
       \/ Write(s, Failed(pass[s])) /\ Trouble
       \/ NoWrite(s) /\ Trouble
    /\ UNCHANGED <<spec, status, phase, open, lastWatch, pending, todo>>

\* The status a pass reports.  The time of the last sync is told apart only
\* from the one before it.
StatusOf(p) ==
    [gen |-> p.rev.gen,
     outcome |-> IF ~p.rev.valid THEN "Skipped"
                 ELSE IF p.failed THEN "PublishFailed" ELSE "Published",
     synced |-> IF p.rev.valid /\ ~p.failed /\ status[p.of] # None
                THEN ~status[p.of].synced ELSE FALSE]

\* A change of the status is announced like any other change of the resource.
Report(p) ==
    /\ spec[p.of] # None
    /\ status' = [status EXCEPT ![p.of] = StatusOf(p)]
    /\ pending' = IF status[p.of] = StatusOf(p) THEN pending ELSE Announce(p.of, spec[p.of])

\* patchStatus: carried out; the resource is gone; lost after or before.  An
\* error ends the pass all the same.
Patch(s) ==
    /\ pass[s] # None /\ pass[s].at = "patch"
    /\ pass' = [pass EXCEPT ![s] = None]
    /\ \/ Report(pass[s]) /\ UNCHANGED troubles
       \/ spec[pass[s].of] = None /\ UNCHANGED <<status, pending, troubles>>
       \/ Report(pass[s]) /\ Trouble
       \/ Trouble /\ UNCHANGED <<status, pending>>
    /\ UNCHANGED <<spec, store, written, phase, open, lastWatch, todo>>

-----------------------------------------------------------------------------
(* The loops that start passes.                                            *)

\* startOperator(): the first list is awaited; a list that fails is logged.
Start ==
    /\ phase = "down"
    /\ phase' = "booting"
    /\ \/ todo' = Listing /\ UNCHANGED troubles
       \/ todo' = {} /\ Trouble
    /\ UNCHANGED <<cluster, open, lastWatch, pending, pass>>

ResyncIdle == todo = {} /\ pass[Resync] = None

\* ... and then runWatch() begins.
Booted ==
    /\ phase = "booting" /\ ResyncIdle
    /\ phase' = "running"
    /\ UNCHANGED <<cluster, open, lastWatch, pending, todo, pass, troubles>>

\* The interval fires.  A resync that overtakes the one before is left out.
ResyncTick ==
    /\ phase = "running" /\ ResyncIdle
    /\ todo' = Listing
    /\ UNCHANGED <<cluster, phase, open, lastWatch, pending, pass, troubles>>

\* The next item of the resync, unless the operator was stopped meanwhile.
ResyncNext(r, rev) ==
    /\ <<r, rev>> \in todo /\ pass[Resync] = None
    /\ IF phase = "stopped"
       THEN todo' = {} /\ UNCHANGED pass
       ELSE /\ todo' = todo \ {<<r, rev>>}
            /\ pass' = [pass EXCEPT ![Resync] = StartPass(r, rev)]
    /\ UNCHANGED <<cluster, phase, open, lastWatch, pending, troubles>>

\* runWatch(): watchStellarInfoFiles() resolves as soon as the connection is
\* made, so the loop comes back after its delay and opens the next one.  A new
\* watch announces every resource there is.
OpenWatch(w) ==
    /\ phase = "running" /\ w \notin open
    /\ open' = open \cup {w}
    /\ lastWatch' = w
    /\ pending' = [pending EXCEPT ![w] = Listing]
    /\ UNCHANGED <<cluster, phase, todo, pass, troubles>>

\* The API server ends a watch; events under way are lost.
WatchEnds(w) ==
    /\ w \in open /\ Trouble
    /\ open' = open \ {w}
    /\ pending' = [pending EXCEPT ![w] = {}]
    /\ UNCHANGED <<cluster, phase, lastWatch, todo, pass>>

\* onEvent: a pass that nobody awaits.
Deliver(w, s, r, rev) ==
    /\ <<r, rev>> \in pending[w] /\ pass[s] = None
    /\ pending' = [pending EXCEPT ![w] = @ \ {<<r, rev>>}]
    /\ pass' = [pass EXCEPT ![s] = StartPass(r, rev)]
    /\ UNCHANGED <<cluster, phase, open, lastWatch, todo, troubles>>

\* The function startOperator() returned: it closes the last watch.
Stop ==
    /\ phase = "running" /\ Trouble
    /\ phase' = "stopped"
    /\ open' = open \ {lastWatch}
    /\ pending' = IF lastWatch = None THEN pending ELSE [pending EXCEPT ![lastWatch] = {}]
    /\ UNCHANGED <<cluster, lastWatch, todo, pass>>

\* The process is gone, with everything it held in memory.
Gone ==
    /\ phase' = "down"
    /\ open' = {} /\ lastWatch' = None
    /\ pending' = [w \in Watches |-> {}]
    /\ todo' = {}
    /\ pass' = [s \in PassSlots |-> None]
    /\ UNCHANGED cluster

\* process.exit(0) after the stop, or a crash at any moment.
Exit == phase = "stopped" /\ Gone /\ UNCHANGED troubles
Crash ==
    /\ phase # "down" /\ Trouble
    /\ Gone

-----------------------------------------------------------------------------
Environment ==
    \/ \E r \in Resources : Edit(r) \/ Delete(r)
    \/ \E r \in Resources, k \in Kinds : Meddle(r, k) \/ Collect(r, k)

PassStep(s) == Get(s) \/ Put(s) \/ Patch(s)

Loops ==
    \/ Start \/ Booted \/ ResyncTick \/ Stop \/ Exit \/ Crash
    \/ \E r \in Resources, v \in Revisions : ResyncNext(r, v)
    \/ \E w \in Watches : OpenWatch(w) \/ WatchEnds(w)
    \/ \E w \in Watches, s \in Slots, r \in Resources, v \in Revisions : Deliver(w, s, r, v)

Next == Environment \/ Loops \/ \E s \in PassSlots : PassStep(s)

\* The API server answers, the event loop runs what is due, the interval
\* fires, a Deployment starts the operator again, and garbage is collected.
Fairness ==
    /\ \A s \in PassSlots : WF_vars(PassStep(s))
    /\ WF_vars(Start) /\ WF_vars(Booted) /\ WF_vars(ResyncTick) /\ WF_vars(Exit)
    /\ WF_vars(\E r \in Resources, v \in Revisions : ResyncNext(r, v))
    /\ \A r \in Resources, k \in Kinds : WF_vars(Collect(r, k))

Spec == Init /\ [][Next]_vars
FairSpec == Spec /\ Fairness

-----------------------------------------------------------------------------
\* What controller.ts:363 promises of the published objects: a revision that
\* fails the lint is never published and does not take down the one that was.
\* An object changes only into a revision that passes the lint, and vanishes
\* only when its resource is gone or somebody else deletes it.
LastGoodStays ==
    [][\A r \in Resources, k \in Kinds : store'[r][k] # store[r][k] =>
        IF store'[r][k] = None THEN spec[r] = None \/ troubles' > troubles
        ELSE store'[r][k].valid]_vars

\* A status that says Published is the status of a pass that has written every
\* object its revision asks for, however its calls failed, answers were lost,
\* passes overlapped or the operator was restarted in between.
StatusHonest ==
    \A r \in Resources : status[r] # None /\ status[r].outcome = "Published" =>
        \E v \in Revisions :
            /\ v.gen = status[r].gen
            /\ <<r, "configMap", v>> \in written
            /\ v.ingress => <<r, "ingress", v>> \in written

UpToDate(r) ==
    /\ status[r] # None
    /\ status[r].gen = spec[r].gen
    /\ spec[r].valid => /\ status[r].outcome = "Published"
                        /\ store[r]["configMap"] = spec[r]
                        /\ spec[r].ingress => store[r]["ingress"] = spec[r]

\* main.ts:5: the resync heals what a dropped watch, a lost answer, a stale
\* pass, a foreign deletion or a restart left behind: in the end every resource
\* is published as its last revision says and its status says so.
Converges == \A r \in Resources : <>[](spec[r] # None => UpToDate(r))

\* commonMetadata(): what a late pass publishes for a deleted resource does not
\* stay in the cluster.
OrphansVanish ==
    \A r \in Resources : <>[](spec[r] = None => \A k \in Kinds : store[r][k] = None)

\* client.ts:153: the watch resolves when it ends, so that the loop that opens
\* the next one never has two.
OneWatch == Cardinality(open) <= 1
=============================================================================
