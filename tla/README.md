# stellar-toml-lint: a TLA+ verification project

`stellar-toml-lint` lints `stellar.toml` files. Around a pure linter it has a
number of long-lived, concurrent parts: an HTTP client with a circuit breaker
that all network rules share, a pool of Web Workers, a monitor daemon, a watch
mode, a tray application, servers and controllers. The linter itself is covered
well by unit tests; the concurrent parts are where orders of events matter that
no test was written for. This project models those parts, checks them with TLC
on small instances, and proves the safety properties that matter most with
TLAPS for every size.

Paths below are relative to the repository (`src/src/...` is its `src`
directory as mapped in `PROJECT.json`; here it is written `src/...`).

## 1. Inventory

| component | state it keeps | operations | who it talks to | what is hard |
|---|---|---|---|---|
| adaptive HTTP client, `src/network/adaptive-client.ts` | `circuits`: per origin `consecutiveFailures`, `openedAt`; per call the attempt index, deadline timer, last response and error | `fetch`, `resetCircuits`, `circuitState` | `fetch` of the platform; every network rule, the auditors and the crawlers call it | overlapping calls share one record per origin; deadline, abort and answer race; retries must be bounded |
| browser worker pool, `src/browser/worker-pool.ts` | `workers` with `taskId`, `queue`, `pending`, `lastSlot`, `inline`, `terminated`, progress | `lintFiles`, `terminate`, message and error events | Web Workers, the page | crashes with a file in hand, replacement that fails, round-robin that moves its own start |
| monitor daemon, `src/monitor/daemon.ts`, `sla-calculator.ts` | `running`, `timer`, `lastBody`, `backoff`; the SLA history in memory and on disk | `start`, `stop`, `poll`, `recordAndPersist`, `load` | target URL, webhook, file system | stop/start between awaits, webhook retries, crash while the history is written |
| smart watch, `src/watcher/smart-watch.ts` | fingerprints, two sets of changed paths, two timers, a promise chain | `notifyChange`, `close`, event handlers | `fs.watch`, the linter of the command line | overlapping reads, duplicate events, ordering of two phases |
| desktop tray application, `apps/desktop/src` | `directory`, `snapshot`, the watcher's batch and timer, tray, notices | choose, rescan, stop, scan, merge, notify | file system, operating system's notifications | the folder changes while it is scanned; a folder is left with a batch waiting |
| metrics exporter, `src/telemetry/prometheus-server.ts` | last snapshot, the collection in flight, the server | `handle` (a scrape), `setSnapshot`, `start`, `stop` | HTTP scrapers, the linter | one collection shared by many scrapes, a collection that fails, a stop while scrapes wait |
| overlay handshake, `src/overlay/handshake.ts`, `handshake-socket.ts`, `node-connector.ts` | the frame reader's buffer and its one kept step, sequence numbers, keys | connect, hello, auth, teardown | the declared validators, over TCP | frames that share a packet, closes and idle timers while nobody waits |
| peer crawler, `src/overlay/crawler.ts`, `topology-analyzer.ts`, `node-connector.ts` | queue, visited set, adjacency, errors | bounded breadth-first walk, the isolation and the distance audit | many nodes | limits of nodes and depth together, nodes heard of twice, nodes that fail |
| Kubernetes operator, `integrations/k8s` | the watch, the abort function of the last one, the passes under way | list, watch, resync, reconcile, patch status | API server | passes of one resource overlap, writes on stale reads, answers lost, crashes between two calls |
| language server, `src/lsp.ts`, `src/lsp/server.ts` | open documents, cached diagnostics | notifications and requests | editors | what a client announced long before |
| fix engine, `src/fix.ts` | none (pure) | edit selection and application | linter | overlaps and touching offsets |
| lint orchestration and rules, `src/lint.ts`, `src/rules`, `src/comments.ts` | none (pure) | collect, override, suppress | everything | precedence of overrides |
| SEP-8 coordinator, protocol auditors, quorum and signature solvers, history auditors, Soroban decoders, policy engine, CST, formatter, reporters, mock servers, web apps | mostly none between calls | see `PROJECT.json` | | single-shot or pure |

How they interact: the rules and auditors call the adaptive client, in
parallel, which is where requests of different callers meet. `watchFiles` of
`src/cli.ts` puts the smart watch in front of the linter; `runMonitorDaemon`
puts the SLA history under the daemon. The pool, the tray application and the
language server each call the pure linter from their own event loop. None of
the modelled components shares mutable state with another one, so they are
modelled apart; where one is put together with its surroundings (the daemon
with the history, the smart watch with `watchFiles`, the desktop watcher with
scanner and notification policy, the overlay audits in the order the command line
runs them, the operator with the API server it talks to) the module holds the
composition.

What makes each component correct, in a sentence each:

* adaptive client: refusals only while the circuit is open, failures counted
  per logical request and per origin, bounded retries, a verdict that agrees
  with what the attempts saw.
* worker pool: each file handed out once and settled once; no worker idle
  while files wait.
* monitor daemon: while it runs there is exactly one loop; a change of the
  target is reported before it is forgotten; saved history is not lost, unless
  the process could not read it when it started.
* smart watch: no change reported is lost, local run first, quiet after close,
  the last lint sees the last content as long as the watch reports.
* desktop: the status converges to the part of the disk that the walk and the
  watch can name, never mixes folders, and where the platform has notifications
  the user is told of everything the tray is red for.
* Kubernetes operator: nothing invalid is published, a status never claims more
  than was written, and the cluster ends up as the last revision says.
* overlay audits: a crawl loses nothing it has room for, a finding says what the
  peer did, a validator without one answered with a HELLO that the declared key
  signed, and every audit ends.
* metrics exporter: one collection at a time, answers that never go back, and
  every scrape answered.

`PROJECT.json` lists every component of the repository with its status and
every hazard at its line, with the property that would catch it.

## 2. Plan

Done, in this order:

1. `CircuitBreaker` (abstract) and `AdaptiveClient` (refines it), with
   `AdaptiveClientProofs`;
2. `WorkerPool` with `WorkerPoolProofs`;
3. `MonitorDaemon` (daemon composed with the save protocol of the history),
   with `MonitorDaemonProofs`;
4. `SmartWatch` with `SmartWatchProofs`;
5. `DesktopWatch` (watcher, scanner, notification policy and commands), with
   `DesktopWatchProofs`.

6. `K8sOperator` with `K8sOperatorProofs`;
7. `PeerCrawl` and `OverlayHandshake`, composed by `OverlayAudits`, with
   `OverlayAuditsProofs`;
8. `MetricsServer` with `MetricsServerProofs`.

Next, most important first:

9. `FixEngine` (`src/fix.ts`) and `LintPipeline` (`src/lint.ts`,
   `src/comments.ts`): pure operators, checked against a reference definition
   over all small inputs;
10. `Sep8Coordinator`: retries with one idempotency key against an approval
    server; abstract specification: at most one approval per key;
11. `QuorumSolver` (`quorum-solver.ts`, `split-brain-solver.ts`): quorum
    intersection against its definition on small quorum sets.

Proofs: every safety property of the runs, invariant or action property, is a
theorem (section 5). What is left to TLC is liveness.

## 3. The modules and the code

Every definition's source lines are in `PROJECT.json` under `map`. Definitions
whose comment says "mutant" are variants of the next one with a plausible bug;
they take part in no specification and show that a property depends on the
code it is about.

### CircuitBreaker, AdaptiveClient

`CircuitBreaker` is what the client promises per origin: a circuit is closed,
open or half-open. A request is admitted unless its circuit is open and refused
only while it is (`Admit`, `Refuse`). An admitted request may be answered, which
closes the circuit of its origin, or fail, which re-opens a half-open one and may
open a closed one (`Answer`, `Fail`): both need that very request, so a circuit
that is not closed becomes closed by an answer to a request of its own origin, or
when somebody forgets all circuits (`Forget`, which flips `era`, so that no other
step can pass for it). Time makes an open circuit half-open, and nothing else
(`Cool`). A request may go on retrying into a circuit that opened meanwhile:
the code asks `rejectIfOpen` once per logical request, and so does the promise.

`AdaptiveClient` is the code. `failures[o]` and `age[o]` are
`consecutiveFailures` and `now() - openedAt` of the record of origin `o`. Each
request `r` has the local state of one call of `fetch()`: `pc` says at which
await it is suspended, `attempt` is the loop index, `timer` what is left of the
attempt's deadline or of the backoff sleep, `answered` whether `lastResponse`
is set. Actions follow the code between two awaits: `FetchAdmitted` and
`FetchRefused` run from the call through `rejectIfOpen` to the first attempt;
`Definitive`, `Permanent`, `RetryStatus`, `TransportError`, `DeadlineExpires`
and `AbortSurfaces` are the ways an attempt ends, each with its record in the
breaker, its backoff or its verdict; `Wake` is the end of a sleep;
`CallerAborts` and `ResetCircuits` are the callers'; `Tick` is time.

Abstractions: URLs are origins, status codes are classes (definitive, retried,
permanent error), random jitter is any value below its ceiling, time is
relative and counted in units.

### WorkerPool

A slot is `[taskId, job]`: what the pool thinks the worker does and what was
posted to it. `Dispatch` is the loop of `dispatch()` as a fold, moving
`lastSlot` as it goes; `Submit` appends one file and dispatches, and
`lintFiles` is a fold of `Submit`, because the code calls `submit` for each file
in one synchronous turn. `HandleResponse`, `WorkerReplaced` and `WorkerLost` are
the message event, and the error event with a constructor that works or throws.
`FreshTaskId` is what a newly constructed worker object carries as `taskId`:
`Null` for the mock of the tests, an undefined value for a browser's `Worker`.

### MonitorDaemon

A loop is a chain of polls, each arming the timer for the next one; the daemon
remembers one timer, and `Loops` allows two chains, because `start()` does not
wait for a poll that `stop()` left behind. `pc[l]` names the await a poll is
suspended at: fetch, webhook, open, write and rename of the temporary file,
`onPoll`. The database on disk is told by the number of its newest sample, or is
`Torn`. `Crash` loses memory and keeps the files. `Boot` and `BootUnread` are
`load()`: the one reads what is there, the other finds `readFile` failing, for
whatever reason, and goes on as if there were no database yet, as `readDatabase`
does. `unread` remembers it until the next rename has put a file of this process in
the place of the old one.

### SmartWatch

`events`, `reads`, `fingerprint` are the watch (`startSmartWatch`, the change
detector); `offline`, `network`, `debounce`, `idle` the scheduler; `chain`,
`started` the promise chain; `linted[p][f]` what the last run of phase `p` has
read of `f`. An event starts a read and does not wait for it, so reads overlap
and complete in any order. Of the two durations the model keeps one fact: they
are restarted together and the debounce is shorter, so `IdleFires` waits for
`~debounce`.

A watched file may become `deaf`. `fs.watch` is given one file and follows its
inode, so a save that renames another file over it (`SaveByRename`, what many
editors do) is the last one reported; and a watcher that emits `'error'`
(`WatchFails`) is reported to the user and not replaced. A `Save` in place after
that goes to `missed`.

### DesktopWatch

One scan is three steps (list, read, publish) on the main thread; the disk may
change between them, but no event is delivered and no timer fires while a scan
runs. `MergeScan`, `NotificationsFor` and `TrayStateFor` are the code's pure
functions over snapshots. `told` is what the user was last told is broken.

A walk of the folder (`List`) always passes by the files below its depth limit
(`Deep`) and may pass by any other, in a folder or at a file it cannot read. The
watch has no depth limit, so such a file enters the status by an event of its own.
An event may have no file name, or the name of a folder only, in which case `Push`
drops it; the watcher may fail and is then silent (`WatchFails`). `unseen` keeps
the files whose last change went by in one of these ways. `Announced` is
`notify()`, which does nothing where the platform has no notifications
(`Supported`).

### K8sOperator

`spec`, `store`, `status` are the cluster: what the user wants, the published
objects and `/status`. `pass[s]` is one `reconcile()` suspended at a call of the
API server: `Get`, `Put` and `Patch` are the three kinds of call, each of which may
succeed, be refused, or fail before or after it took effect. The resync awaits
its passes (`Resync`, `todo`); a watch event starts one in a slot of its own that
nobody awaits (`Deliver`). An object's version is told by what a pass knows of it:
what it read is `"fresh"` until somebody writes the object, then `"stale"`, and
the API server refuses a write on a stale read. `Start` to `Booted` is the first
list, which `startOperator` awaits before it watches; `OpenWatch` is one round of
`runWatch`; `Crash` loses everything but the cluster. Edits, deletions, foreign
writers and garbage collection are the environment.

A revision is its generation, whether it passes the lint and whether it wants an
Ingress; the time of the last sync is kept only as different from the former one,
because a patch that changes nothing announces nothing.

### PeerCrawl, OverlayHandshake, OverlayAudits

`PeerCrawl` is the loop of `crawlOverlayPeers` turn by turn, with the exchange of
one visit (`node-connector.ts`) taken as one step: `Skip`, `Answered`
and `Unanswered` are the three things that can happen to the head of the queue,
`Discoveries` what a visit may append (the order in which a node names its peers
is free, the room is what the code computes). `ReportPeers` and `ReportTopology`
are the two audits that end a crawl, each with its own limits.

`OverlayHandshake` dials the declared validators in turn. `wire` holds the frames
under way, `Data(n)` delivers a packet of `n` of them: the first goes to the code
that awaits it, and of the others the reader keeps the last. `Continue` is the code
from there to the next frame it has to wait for. `stopped` and `armed` are the idle
timer, whose listener runs once and may run before the connection is made. A peer
is its defects (what is wrong with it, whether the audit looks for it or not) and
its manner (how it talks); the cryptography is reduced to whether a signature or
MAC verifies. Two of the defects are ones the handshake does not look for: a
certificate that is `"expired"`, and a HELLO `"replayed"` by somebody who holds
none of its keys. `Sealed` says whose AUTH verifies under the keys both sides
derive; `lost` remembers that the frame reader dropped an AUTH that does.

`OverlayAudits` puts them in the order of the command line: the crawl that was
asked for ends before the first validator is dialled.

### MetricsServer

`source` counts the polls of the daemon, so a snapshot is a number and a later one
is larger. `inFlight` is the collection that scrapes share, `running` what is
really under way, `latest` the last snapshot collected, `shown` the newest answer
given. A scrape starts a collection or joins the one in flight; when it fails,
those who wait are answered with the last snapshot, the empty one if there is
none; a scrape is refused only when nobody listens.
`Stop` lets the scrapes under way finish, as `server.close()` does.

## 4. What is checked

Deadlock checking is off wherever the system may stop: every request settled,
every bound used up, a watch closed, the audits over, the metrics server stopped
with every scrape answered. The operator never stops for good, so its run checks
for deadlocks.

| run | states | shows |
|---|---|---|
| `adaptive_client` | 527 thousand | breaker records consistent, failures counted per request and origin, verdicts match evidence, refines `CircuitBreaker`, requests settle |
| `adaptive_client_probe` | violation | a half-open circuit admits several requests |
| `worker_pool` | 25 thousand | no file lost or handed out twice, no idle worker while files wait, honest progress, files settle |
| `worker_pool_native` | violation | with native workers no file is dispatched |
| `monitor_daemon` | 838 thousand | one loop, never dead while running, no silent change, history that was read never shrinks, quiet when stopped |
| `smart_watch` | 507 thousand | no change stranded, local first, nothing queued after close, the last lint sees the last content the watch reported |
| `desktop_watch` | 1.6 million | folders never mix, every broken file announced, status converges to what the walk and the watch can name |
| `desktop_watch_burst` | violation | a summary loses the recoveries |
| `k8s_operator` | 702 thousand | nothing invalid published, statuses honest, the cluster converges and orphans vanish |
| `k8s_operator_watch` | violation | the watch loop opens a second watch beside the first |
| `overlay_audits` | 920 thousand | crawls complete, isolation and distance findings true, what no finding and what a finding of the handshake means, every audit ends |
| `metrics_server` | 126 thousand | answers never go back, every scrape and stop settles |

Bounds, and why they are enough:

* adaptive client: three requests, so that a stale success, a late failure and
  a probe can overlap on one origin; two origins, so that one can harm the
  other; threshold 2 and two attempts, so that counting attempts differs from
  counting requests; a reset time of 2, so that open, about to half-open and
  half-open differ. Time is relative and needs no bound.
* worker pool: three files on two workers leave a queue behind; three crashes
  reach a crash of a worker in hand, of an idle one and of a replacement; two
  batches overlap. The number of workers the constructor obtains is any of 0,
  1, 2.
* monitor daemon: two loops is what stop and start can make overlap with
  `MaxStarts` 2; two samples and two crashes reach a crash at each step of a save
  with older history on disk, and a crash of the process that could not read it;
  two contents suffice to see a change.
* smart watch: two files and two saves reach two overlapping reads of one file
  and files that change independently, and a save after the watch fell silent;
  one call of the file system that fails (any of them, the watcher's own included)
  and one event that repeats another.
* desktop: two folders, one nested file and one below the depth limit, two changes
  and two commands reach a change between any two steps of a scan and a folder
  left at each of them; a file has no error, one, or cannot be read; one notice is
  the limit, so that two files make a burst.
* operator: one resource, because passes of different resources share nothing
  but the resync's order; two revisions, each valid or not and with an Ingress
  or not; the resync's pass beside one event pass, which is what it takes to
  overwrite a newer object with an older one; two troubles, so that a call can
  fail and the operator crash, or a write be lost and the watch end. A second
  watch would only deliver the same events again, so the passing run has one
  connection; the violation run has two.
* overlay: three nodes in all 512 graphs and four lists of seeds, one with a
  duplicate; four nodes at most and one hop for the one audit, six and two for
  the other, so that the limit on nodes bites in one and the limit on depth in
  both; five peers and three hops are scaled down to one. Two validators, so that
  the state of one dial could leak into the next; one defect per peer at most,
  of seven, in all nine manners. The crawl and the handshakes are asked for one at a time,
  since they share no state; the order of the two is in the model.
* metrics: four scrapes reach a collection, one that joins it, one after it and
  one that is refused; three polls and two lives of the server.

Fairness, and why the code justifies it:

* adaptive client: time passes, an expired deadline aborts the attempt, a sleep
  that is over resumes (`setTimeout`). Nobody has to answer, call or abort, and
  a transport is not assumed to answer: that requests settle rests on the
  deadline alone, so it needs `timeoutMs > 0`. The backoff timer is `unref`ed
  (`adaptive-client.ts:268`), so in a process that has nothing else to wait for it
  would not fire and the process would end; that something keeps the process
  alive is an assumption.
* worker pool: a worker that has a file answers or errs; the inline loop goes
  on. Without it the promise of a file depends on a worker that computes for
  ever, which the code has no deadline for.
* monitor daemon: awaits settle and timers fire. The fetch of the target has no
  deadline of its own, so that it settles is an assumption about the transport.
* smart watch, desktop: events that the watch raised are delivered, reads and runs
  settle, timers fire and the main thread goes on. Nothing is assumed of a watch
  that has fallen silent.
* operator: the API server answers, the interval fires, a Deployment starts the
  process again, garbage is collected. Watch events need not arrive: the resync
  alone heals.
* overlay: a connector settles (`PeerCrawl` has its exchange as one step, so this is
  an assumption about a peer that drips bytes), the operating system settles a dial, an idle
  connection times out. Nothing is assumed of the peers. One that sends a byte
  now and then for ever keeps the idle timer from firing; the fairness of
  `Timeout` excludes it.
* metrics: a collection ends, because each probe in it has a deadline of its own,
  and the server closes once the scrapes under way are answered.

### Disagreements between the code and its documentation

* **Half-open probe** (`adaptive_client_probe`). `rejectIfOpen` says "let
  exactly this request through as a probe" and records nothing about it: every
  request that comes before the probe's verdict is let through as well.
  `CircuitBreaker` therefore promises no single probe.
* **Native workers** (`worker_pool_native`). `createWorker` never sets `taskId`;
  `dispatch` compares it with `null`, and a browser's `Worker` has it
  undefined. No file is posted. The tests' mock declares the field. The passing
  run of the pool uses workers as the tests have them.
* **Summary of a burst** (`desktop_watch_burst`). Above `MAX_NOTIFICATIONS` the
  policy says how many files broke, and nothing about those that recovered,
  though `status.ts` promises a notice for each recovery.
* **Watches pile up** (`k8s_operator_watch`). `watchStellarInfoFiles` resolves as
  soon as the watch is established, so `runWatch`, which takes that for its end,
  opens another one after its delay, again and again; `stop()` closes the last
  one only.

Seen while modelling, each shown by a trace of one actor or stated by the code
itself, and left without a run of their own:

* *Retries into an open circuit.* `rejectIfOpen` is asked once per call of
  `fetch()`. The retries of a request admitted earlier go on reaching an origin
  whose circuit other requests have opened meanwhile, and the answer to one of them
  closes it before its time. No comment promises otherwise.
* *History taken for absent.* `sla-calculator.ts:218` takes whatever makes `readFile`
  fail for "no database yet" (its comment names a first run only). A process that
  starts while the file cannot be read begins with an empty history, and its
  first save renames that over the old one. `HistoryNeverShrinks` excepts exactly
  this rename (`unread`).
* *An observer that throws.* When `onPoll` throws in the catch block of a poll, the
  loop ends and `running` stays set (`observerThrew`).
* *A watch that falls silent.* `smart-watch.ts:98` watches each file by its path,
  which follows the inode: after an editor has saved by renaming a new file over
  the old one, no later save is reported (that one still is, and read by path). A
  watcher that emits `'error'` is not opened again. `Converges` excepts the files
  with a save after that (`missed`).
* *What the tray application cannot name.* Files below the depth limit, or in folders
  that cannot be read, enter the status only by an event of their own and stay
  out of every full scan; an event without a file name, or with a folder's name,
  starts no scan. `Converges` excepts these files (`unseen`) until they are named.
* *Stalled queue of the pool.* When the replacement of a dead worker cannot be
  created, `handleWorkerError` sets `inline`, and `dispatch()` returns at once from
  then on: neither the workers left nor this thread drain the queue, though
  `worker-pool.ts:317` says "if we cannot, finish the rest of the queue on this
  thread". `FilesSettle` excepts exactly those files.
* *Content that returns.* The change detector of the smart watch compares with the
  last content it has *read*, not the last one linted. Save B, let it be linted as
  B, save A again while an earlier event is still read as A: the change is dropped
  and the report stays that of B (`smart-watch.ts:19` promises that duplicates of
  *source changes* are ignored). The passing run has saves with new contents only
  (`Returns = FALSE`).
* *Pull diagnostics of the language server.* `lsp/server.ts:72` stops publishing
  once a client has announced `textDocument.diagnostic`, but no handler answers
  `textDocument/diagnostic` and no provider is announced. The repository's own VS
  Code extension uses `vscode-languageclient` 9, which announces it, so an editor
  shows no diagnostics; `README.md:636` says that editors "can show live
  diagnostics". `didClose` does not clear what was published either.
* *Status churn of the operator.* A valid pass writes a new `lastSyncedTime`, so
  its own patch is an event that starts another pass; `controller.ts:25` says that
  reconciling again does not churn the object. A stale pass may put back an older
  object or status until the next resync, a `lastTransitionTime` may go back, and
  an Ingress that is no longer asked for is never deleted.
* *Overlay.* Seeds beyond the limit on nodes (32) are reported to have "reported
  zero reachable peers" without having been dialled. The room for discoveries
  counts queued duplicates, so nodes may be left out with room to spare. Nodes
  heard of and never dialled are reported as disconnected by the distance audit.
  Three or more frames in one packet lose the AUTH in the middle. The handshake
  audit checks the signature of the certificate and not how long it is valid
  (`cipher-verifier.ts:368`, another audit, does), and `authenticated`, which alone
  tells the node from somebody who repeats its HELLO, is read by no finding: an
  expired and a replayed certificate are accepted in silence.
* *Status patch.* `statusPatchBody` (`client.ts:49`) replaces `/status` also where
  the resource has none yet. The comment beside it says that this works and the
  model lets it succeed; RFC 6902 asks a server to refuse it.
* *Metrics.* `prometheus-server.ts:274` says that concurrent requests are served
  the previous snapshot, so that a slow probe never blocks Prometheus; a scrape
  that comes during a collection waits for it. A collection under way overwrites
  what `setSnapshot()` stored meanwhile (only a test calls it).

## 5. What is proved

`tlapm` checks the proof modules; the theorems hold for every value of the
constants that satisfies the named assumption of the module.

`AdaptiveClientProofs` (assumption `ClientAssumption`: attempts at least 1,
natural numbers for thresholds and times, `ResetAfter` at least 1, since with 0
a tripped circuit is half-open at once and never open):

* `TypeCorrect`: `TypeOK`, which bounds every sleep by the cap whatever
  `Retry-After` a server states.
* `BreakerIsConsistent`: `BreakerConsistent` is inductive together with the
  types: `recordSuccess` clears both fields, `recordFailure` writes both, and
  nothing else but time touches either.
* `VerdictsMatch`: `VerdictMatchesEvidence` is not inductive: a request about to
  exhaust its attempts must be known to have made them all. The strengthening
  `CallsMatch` ties `calls` to `attempt` and `pc` (one call more than the index
  while an attempt is under way or a sleep follows it).
* `FailuresCounted`: a failure is only recorded by a step that settles a
  request of the same origin, so the count never exceeds the cardinality of the
  failed requests; the proof shows that set grows by the settling request.
* `ClientImplementsBreaker`: the initial state maps to the initial state of
  `CircuitBreaker`, and each action to one of its actions or a stutter, with
  consistency and types as hypotheses. Since `Answer` and `Fail` are steps of a
  request, each step has to show the verdict it gives beside what it does to the
  circuit: a request under way, or one its caller aborted, is "admitted", one that
  got a definitive response is "answered", and one that met a permanent error or
  gave up after its last attempt is "failed". That no other step closes a circuit
  is then what the refinement says.

`WorkerPoolProofs` (assumption `PoolAssumption`: one to sixteen workers, batches of
at least one file, and neither null nor the `taskId` of a new worker is a file):

* The model's `dispatch()` and `lintFiles` are folds of the community modules, over
  any number of slots and files. A fold there is a recursive function on sets of
  places; `FoldExists` builds it one place at a time, and `FoldRule` says that what
  one step keeps, the fold keeps. Both rest on `Climb`, induction as the absence of
  a least counterexample (the library's induction theorems take an operator as
  parameter, which the installed provers cannot instantiate).
* `PoolTyped`, `NoFileLost`, `NoWorkerForgotten` and `CountIsHonest`: from one
  inductive invariant, `IInv`. `FilesConserved` is not inductive: to hand out a file
  once more, a round would need a slot that holds what the queue holds too.
  `Conserved` says it of each slot and each place of the queue, including that a slot
  without a file was posted none; `Books` ties the pending files to the calls and the
  inline loop's count to what it settled; `Rotation` says that a terminated pool is
  empty and that `lastSlot` is a slot of one that dispatches.
* `NoWorkerForgotten` is the delicate one, because the loop of `dispatch()` adds its
  index to a `lastSlot` it moves itself, and so may skip slots. `RoundKeeps` shows why
  no file waits beside an idle worker all the same: every event leaves at most one
  idle worker or one waiting file (`Loose`), the first turn that serves it ends the
  work there is (`TurnHelps`), and until then `lastSlot` stays where it is and the
  turns visit every slot (`RoundVisitsAll`).
* `CountIsHonest` assumes that new workers come up idle (`FreshTaskId = Null`), as the
  mock of the tests and the runs have it. Without it the claim is false: a worker
  that crashes before it was given anything is counted as a file.
* `NativeWorkersStarve` is what happens instead when `FreshTaskId` is not null, as in a
  browser, for any number of workers: no worker is ever given a file, and each file
  handed to the pool stays open or is rejected by `terminate()`. It generalises the
  counterexample of `worker_pool_native`.

`SmartWatchProofs` (assumption `WatchAssumption`):

* `TypeCorrect`: `TypeOK`, in four groups of variables. That a queued network
  run implies that network runs were asked for needs the fact that the idle
  timer is armed only then.
* `NoChangeStranded`, `LocalRunsFirst`, `ClosedIsQuiet`: from one inductive
  invariant `SchedulerInv`. `LocalFirst` alone is not inductive: a network run
  may catch up with the local one if a change waits for the network but not
  locally. The invariant counts a waiting change as a run to come
  (`LocalAhead`), says that what waits locally waits for the network too
  (`WaitsForBoth`), that a closed watch has no timer (`NoTimerWhenClosed`) and
  that waiting changes have their timers (`NothingStranded`). With these, when
  the idle timer fires nothing waits locally, so the network count reaches at
  most the local one. No assumption is made about the order in which reads
  complete.

`MonitorDaemonProofs` (assumption `DaemonAssumption`):

* `TypeCorrect`: `TypeOK`, which bounds the backoff and the webhook attempts.
* `RunningLoops` and `AtMostOneLoop`: from `LoopInv`. `OneLoop` alone is not
  inductive: a stopped daemon could hold a loop whose timer it forgot, and
  `start()` would add a second one. `Alone` says that a loop that waits is the
  one of the timer and that the daemon runs, so `stop()` leaves no loop waiting,
  and a `start()` that finds no poll under way finds no loop at all. One lemma
  (`PollMoves`) says what any step of a poll does to the places of the loops.
* `ChangesAreReported`: with `Tried` (a poll that waits for the webhook has
  tried it), for any number of loops, overlapping ones included.
* `HistoryKept`: from `HistoryInv`: unless the database is `unread`, what a save
  holds lies between the database and the history in memory; the file about to be
  renamed is complete, and a process that is down has no poll. It needs `Alone`,
  because two saves share one temporary file. What it does not promise is the
  history of a process that could not read it: its first save may be shorter.

`DesktopWatchProofs` (assumption `DesktopAssumption`):

* `TypeCorrect`: `TypeOK`. Its hard part is the limit on notices: the notices of
  a scan are the image of the files that broke or recovered, two disjoint sets,
  so there are no more of them than of those files.
* `FoldersNeverMix`: `StaysInFolder` strengthened by `ScanClean`: a scan that is
  not under way, or has not listed yet, holds nothing that a new folder could
  inherit.
* `EveryBreakIsTold`: `BrokenIsTold` with the statuses typed. A file that is red
  after a scan was red before, and told, or its weight has risen, and then it is
  in a notice of its own or in a summary; and it is not announced as resolved. It
  speaks of platforms with notifications (`Supported`).

`K8sOperatorProofs` (assumptions `OperatorAssumption`, and `NoneAssumption`: no
revision, pass or status is `None`), for any number of resources, watches, slots,
revisions and troubles:

* `TypesHold`: `TypeOK`.
* `StatusesHonest` and `LastGoodKept`: from one invariant. `StatusHonest` is not
  inductive: a pass about to report must be known to have written what it reports.
  `PassesKnown` says how far each pass has come: outside `"patch"` its revision
  passes the lint; at the Ingress it has written its ConfigMap; at `"patch"`,
  valid and not failed, it has written all its revision asks for. Other writers
  make a pass stale and change nothing else of it (`InvalidateKeeps`), and what
  was written stays written, so passes cannot spoil each other's knowledge.

`OverlayAuditsProofs` (assumptions `CrawlAssumption`, `HandshakeAssumption`,
`NoneAssumption`, `RequestsAssumption`):

* `TypesHold`: `TypeOK`, whose hard part is that the seed a finding names exists:
  a sequence with an element in a set has a first one.
* `CleanIsVouched` and `AlarmsAreReal`: from `HInv`. `Exchange` says what is known
  of the peer while it talks: until the first answer is read, the frames under
  way are all it has sent, an AUTH sent ahead second among them; an AUTH that does
  not verify comes from a tampering or a replaying peer only; after the first
  answer an AUTH that was sent is first in line; and once we await the AUTH, the
  certificate has been verified.
  `CleanIsVouched` says what an entry without a finding means, and no more: the
  peer sent a HELLO with the declared key, signed by it, for the stated network.
  It does not say who is at the other end; `authenticated = "true"` does, as far
  as a peer that replays a HELLO never earns it, and nothing reads that field.
* `IsolatedIsIsolated`: from `CInv`. Every seed was dialled or waits, and when the
  seeds are no more than the crawl may visit, the queue and the visited nodes
  together never are either; so the loop ends with an empty queue, and every
  seed was dialled.
* `NoNodeLost` and `ReportIsTrue`: `Within`, the nodes some hops away, is a recursive
  function on the number of hops; `BallExists` glues its approximations, and
  `WithinFixed` shows by counting that as many hops as there are nodes reach all
  there is to reach. The invariant is `Search`, which says of the loop what makes it a
  breadth-first search, for any graph and any answers: what is known of a node is
  what it answered (`Heard`); the queue is in the order of the depths and spans two
  layers (`Sorted`); an entry is no deeper than a path to it and no shallower than
  what was visited (`Layered`); queue and visited nodes together are no more than
  what the crawl was told (`Sparse`), which is why the limit, which counts duplicates
  in the queue too, cuts nothing off under the hypothesis of `CrawlComplete`; and
  nothing heard of is forgotten (`Thorough`). An answer adds edges, and so could bring
  nodes nearer; `LayersStay` shows that it changes no layer down to the one of the
  node that answered, because that node is no nearer than its entry says.
  `ReportIsTrue` then compares the distances over what was heard with those over what
  the nodes name: the visited nodes are all of the network and closed under it.

`MetricsServerProofs` (no assumption but those of the module):

* `AnswersNeverGoBack`: `AnswersAdvance` strengthened by the order of what is
  shown, kept, collected and polled, and by there being one collection at most,
  the one that scrapes share.

TLC checked `IInv` and `Search` as invariants of the runs' instances before they were
proved.

Only model-checked: the nine liveness properties (`RequestsSettle`, `FilesSettle`,
`StopQuiesces`, `Converges` of `SmartWatch`, `DesktopWatch` and `K8sOperator`,
`OrphansVanish`, `AuditsEnd`, `ScrapesSettle`): fairness and ENABLED are out of the
prover's reach.

## 6. What is not modelled

* Exceptions stated in properties, because the code is known to behave
  otherwise: an `onPoll` that throws from the catch block ends the daemon's loop
  with `running` set (`observerThrew`); a `start()` that overtakes a poll makes
  two loops and two writers of one temporary file (`restartedMidPoll`;
  `runMonitorDaemon` never does it); the first save of a process that could not
  read its database (`unread`); a save before the watch is set up, after it fell
  silent, or whose read fails, is never seen (`missed`, `skipped`); a file that no
  walk and no event names (`unseen`); an AUTH the frame reader drops (`lost`).
* Of the operator: a resync that overtakes the one before, names and labels of the
  published objects. Of the overlay: the exchange of
  one visit of the crawl (the connector answers or fails in one step), XDR, endpoints (addresses are opaque, so a
  HOST never equals the address a peer names for it unless they are written
  alike), the cap of 100 peers per answer, overrides of severities. Of the metrics
  exporter: the probes, the text format, `setSnapshot()`, a `collect()` that throws
  before it returns a promise, a `stop()` during `start()`.
* Durations, apart from the relative order named above; the SLA arithmetic;
  warnings in the tray application; the wording of notices, logs and reports.
* The linter's rules, the parser and the concrete syntax tree, formatters,
  reporters, decoders, mock servers and user interfaces: pure functions of one
  input or presentation, where unit tests reach what a model could say.
* The components of the rest of the plan, which `PROJECT.json` lists as not
  modelled yet. Most of the source text is rules, parsers, decoders and
  formatters, so the share of lines the modules stand for stays small; the parts
  with state that lives across events are the ones modelled.
