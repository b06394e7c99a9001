----------------------------- MODULE WorkerPool -----------------------------
(***************************************************************************)
(* The browser worker pool (src/src/browser/worker-pool.ts): batches of    *)
(* files handed round-robin to Web Workers that may crash at any moment,   *)
(* with a fallback that lints on the page's own thread.                    *)
(*                                                                         *)
(* The page is one thread: a call of lintFiles, a message of a worker, an  *)
(* error event and terminate() are one step each.  A file stands for the   *)
(* id it is given, and an entry for its result: a clean report, a lint     *)
(* error and an unreadable response all settle the file's promise alike.   *)
(***************************************************************************)
EXTENDS Naturals, Sequences, FiniteSets, SequencesExt

CONSTANTS
    Batches,      \* calls of lintFiles
    BatchSize,    \* files per call
    Concurrency,  \* workers the constructor tries to create, after clamping
    FreshTaskId,  \* the taskId a newly constructed Worker object carries
    Null,         \* null: the slot is idle
    MaxCrashes    \* bound on the error events of the workers

Files == Batches \X (1..BatchSize)

ASSUME PoolAssumption ==
    /\ BatchSize \in Nat \ {0}
    /\ Concurrency \in 1..16
    /\ MaxCrashes \in Nat
    /\ Null \notin Files
    /\ FreshTaskId \notin Files

VARIABLES
    slots,       \* workers in rotation: taskId, and the job posted to the worker
    queue,       \* files waiting for a worker
    pending,     \* files whose promise has not settled
    lastSlot,    \* where the next round starts, counted from 0
    inline,      \* no worker can be created: lint on this thread
    terminated,
    total,       \* progress of the last call of lintFiles
    completed,
    call,        \* per batch: none, or the path its lintFiles took
    inlineDone,  \* per batch: files its inline loop has linted
    settled,     \* per file: open, or how its promise settled
    crashes      \* error events so far

pool == <<slots, queue, lastSlot>>
vars == <<slots, queue, pending, lastSlot, inline, terminated, total, completed,
          call, inlineDone, settled, crashes>>

Slots == [taskId : Files \cup {Null, FreshTaskId}, job : Files \cup {Null}]
FilesOf(b) == [k \in 1..BatchSize |-> <<b, k>>]

TypeOK ==
    /\ slots \in Seq(Slots) /\ Len(slots) <= Concurrency
    /\ queue \in Seq(Files)
    /\ pending \subseteq Files
    /\ lastSlot \in 0..(Concurrency - 1)
    /\ inline \in BOOLEAN /\ terminated \in BOOLEAN
    /\ total \in 0..BatchSize
    /\ completed \in Nat
    /\ call \in [Batches -> {"none", "pool", "inline"}]
    /\ inlineDone \in [Batches -> 0..BatchSize]
    /\ settled \in [Files -> {"open", "entry", "failed", "terminated"}]
    /\ crashes \in 0..MaxCrashes

\* new Worker(url): an object whose taskId nobody has assigned yet.
FreshSlot == [taskId |-> FreshTaskId, job |-> Null]

\* spawnWorkers: some, all or none of the constructions may throw.
Init ==
    /\ \E n \in 0..Concurrency :
          /\ slots = [i \in 1..n |-> FreshSlot]
          /\ inline = (n = 0)
    /\ queue = <<>>
    /\ pending = {}
    /\ lastSlot = 0
    /\ terminated = FALSE
    /\ total = 0
    /\ completed = 0
    /\ call = [b \in Batches |-> "none"]
    /\ inlineDone = [b \in Batches |-> 0]
    /\ settled = [f \in Files |-> "open"]
    /\ crashes = 0

-----------------------------------------------------------------------------
(* dispatch(): one round over the slots.  The loop adds its index to a      *)
(* lastSlot that it moves itself, so a round need not visit every slot.     *)

DispatchStep(p, i) ==
    LET n == Len(p.slots)
        index == (p.lastSlot + i) % n
    IN  IF p.slots[index + 1].taskId # Null \/ p.queue = <<>> THEN p
        ELSE [slots |-> [p.slots EXCEPT ![index + 1] =
                            [taskId |-> Head(p.queue), job |-> Head(p.queue)]],
              queue |-> Tail(p.queue),
              lastSlot |-> (index + 1) % n]

Dispatch(p) ==
    IF inline \/ terminated THEN p
    ELSE FoldLeft(DispatchStep, p, [i \in 1..Len(p.slots) |-> i - 1])

Submit(p, f) == Dispatch([p EXCEPT !.queue = Append(@, f)])

Pool == [slots |-> slots, queue |-> queue, lastSlot |-> lastSlot]

PoolBecomes(p) ==
    /\ slots' = p.slots
    /\ queue' = p.queue
    /\ lastSlot' = p.lastSlot

-----------------------------------------------------------------------------
(* lintFiles *)

StartBatch(b) ==
    /\ call[b] = "none"
    /\ total' = BatchSize
    /\ completed' = 0

LintFilesInline(b) ==
    /\ StartBatch(b)
    /\ inline
    /\ call' = [call EXCEPT ![b] = "inline"]
    /\ UNCHANGED <<pool, pending, inline, terminated, inlineDone, settled, crashes>>

LintFilesPooled(b) ==
    /\ StartBatch(b)
    /\ ~inline /\ ~terminated
    /\ call' = [call EXCEPT ![b] = "pool"]
    /\ pending' = pending \cup Range(FilesOf(b))
    /\ PoolBecomes(FoldLeft(Submit, Pool, FilesOf(b)))
    /\ UNCHANGED <<inline, terminated, inlineDone, settled, crashes>>

\* submit() on a terminated pool rejects at once.
LintFilesRejected(b) ==
    /\ StartBatch(b)
    /\ ~inline /\ terminated
    /\ call' = [call EXCEPT ![b] = "pool"]
    /\ settled' = [f \in Files |-> IF f[1] = b THEN "terminated" ELSE settled[f]]
    /\ UNCHANGED <<pool, pending, inline, terminated, inlineDone, crashes>>

\* One turn of the inline loop; it never looks at terminated.
ProcessInline(b) ==
    /\ call[b] = "inline"
    /\ inlineDone[b] < BatchSize
    /\ inlineDone' = [inlineDone EXCEPT ![b] = @ + 1]
    /\ settled' = [settled EXCEPT ![<<b, inlineDone[b] + 1>>] = "entry"]
    /\ completed' = completed + 1
    /\ UNCHANGED <<pool, pending, inline, terminated, total, call, crashes>>

-----------------------------------------------------------------------------
(* Events of the workers, and terminate(). *)

\* Mutant: the freed worker is not given the next file.
HandleResponseIdle(i) ==
    LET f == slots[i].job IN
    /\ f \in pending
    /\ pending' = pending \ {f}
    /\ settled' = [settled EXCEPT ![f] = "entry"]
    /\ completed' = completed + 1
    /\ slots' = [slots EXCEPT ![i] = [taskId |-> Null, job |-> Null]]
    /\ UNCHANGED <<queue, lastSlot, inline, terminated, total, call, inlineDone, crashes>>

HandleResponse(i) ==
    LET f == slots[i].job IN
    /\ f \in pending
    /\ pending' = pending \ {f}
    /\ settled' = [settled EXCEPT ![f] = "entry"]
    /\ completed' = completed + 1
    /\ PoolBecomes(Dispatch([Pool EXCEPT !.slots[i] = [taskId |-> Null, job |-> Null]]))
    /\ UNCHANGED <<inline, terminated, total, call, inlineDone, crashes>>

\* Mutant: every error event counts as a finished file.
FailTaskCounting(id) ==
    /\ pending' = pending \ {id}
    /\ settled' = [f \in Files |-> IF f = id /\ f \in pending THEN "failed" ELSE settled[f]]
    /\ completed' = completed + 1

\* Mutant: the file of a dead worker is forgotten.
FailTaskForgotten(id) ==
    /\ UNCHANGED <<pending, settled>>
    /\ completed' = IF id # Null THEN completed + 1 ELSE completed

\* The worker's file fails; an idle worker that errors fails none.
FailTask(id) ==
    /\ pending' = pending \ {id}
    /\ settled' = [f \in Files |-> IF f = id /\ f \in pending THEN "failed" ELSE settled[f]]
    /\ completed' = IF id # Null THEN completed + 1 ELSE completed

\* Mutant: the dead worker stays in rotation beside its replacement.
WorkerReplacedKept(i) ==
    /\ crashes < MaxCrashes
    /\ crashes' = crashes + 1
    /\ FailTask(slots[i].taskId)
    /\ PoolBecomes(Dispatch([Pool EXCEPT !.slots = Append(@, FreshSlot)]))
    /\ UNCHANGED <<inline, terminated, total, call, inlineDone>>

\* Mutant: the replacement is not given a file.
WorkerReplacedIdle(i) ==
    /\ crashes < MaxCrashes
    /\ crashes' = crashes + 1
    /\ FailTask(slots[i].taskId)
    /\ slots' = Append(RemoveAt(slots, i), FreshSlot)
    /\ UNCHANGED <<queue, lastSlot, inline, terminated, total, call, inlineDone>>

\* handleWorkerError, when the constructor of the replacement succeeds ...
WorkerReplaced(i) ==
    /\ crashes < MaxCrashes
    /\ crashes' = crashes + 1
    /\ FailTask(slots[i].taskId)
    /\ PoolBecomes(Dispatch([Pool EXCEPT !.slots = Append(RemoveAt(@, i), FreshSlot)]))
    /\ UNCHANGED <<inline, terminated, total, call, inlineDone>>

\* ... and when it throws: the pool turns inline and dispatches no more.
WorkerLost(i) ==
    /\ crashes < MaxCrashes
    /\ crashes' = crashes + 1
    /\ FailTask(slots[i].taskId)
    /\ slots' = RemoveAt(slots, i)
    /\ inline' = TRUE
    /\ UNCHANGED <<queue, lastSlot, terminated, total, call, inlineDone>>

Terminate ==
    /\ ~terminated
    /\ terminated' = TRUE
    /\ slots' = <<>>
    /\ settled' = [f \in Files |-> IF f \in pending THEN "terminated" ELSE settled[f]]
    /\ pending' = {}
    /\ queue' = <<>>
    /\ UNCHANGED <<lastSlot, inline, total, completed, call, inlineDone, crashes>>

Next ==
    \/ \E b \in Batches :
          \/ LintFilesInline(b) \/ LintFilesPooled(b) \/ LintFilesRejected(b)
          \/ ProcessInline(b)
    \/ \E i \in DOMAIN slots : HandleResponse(i) \/ WorkerReplaced(i) \/ WorkerLost(i)
    \/ Terminate

\* A worker answers what it was posted, or errs; the inline loop goes on.
Fairness ==
    /\ \A i \in 1..Concurrency : WF_vars(i \in DOMAIN slots /\ HandleResponse(i))
    /\ \A b \in Batches : WF_vars(ProcessInline(b))

Spec == Init /\ [][Next]_vars

FairSpec == Spec /\ Fairness

-----------------------------------------------------------------------------
(* Properties. *)

Submitted == {f \in Files : call[f[1]] = "pool"}
Held(f) == {i \in DOMAIN slots : slots[i].taskId = f}

\* No file is lost or handed out twice: a file given to the pool waits in the
\* queue once, or is held by one worker that was posted it, or has settled,
\* whatever crashes, replacements and terminations happen around it.
FilesConserved ==
    /\ pending = {f \in Submitted : settled[f] = "open"}
    /\ IsInjective(queue)
    /\ \A f \in Files :
          /\ Cardinality(Held(f)) + (IF f \in Range(queue) THEN 1 ELSE 0)
                = (IF f \in pending THEN 1 ELSE 0)
          /\ \A i \in Held(f) : slots[i].job = f

\* No worker of a pool that dispatches is idle while files wait, although a
\* round of dispatch() may skip slots: each event frees at most one of them.
NoIdleWhileQueued ==
    ~inline /\ queue # <<>> => \A i \in DOMAIN slots : slots[i].taskId # Null

\* While one batch runs at a time, the count shown to the user is the number
\* of files of that batch that are done: a crash after an answer, or of an
\* idle worker, is not counted as a file.
OneBatch == Cardinality({b \in Batches : call[b] # "none"}) = 1
ProgressHonest ==
    OneBatch => completed = Cardinality({f \in Files : settled[f] \in {"entry", "failed"}})

\* Every file handed to a pool that still dispatches settles, as an entry, a
\* failed entry or a rejection by terminate().
FilesSettle ==
    \A f \in Files : call[f[1]] # "none" ~> settled[f] # "open" \/ (inline /\ f \in pending)

\* lintFiles resolves with one entry per file: no file stays open for ever.
EveryFileSettles ==
    \A f \in Files : call[f[1]] # "none" ~> settled[f] # "open"
=============================================================================
