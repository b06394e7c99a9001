--------------------------- MODULE MonitorDaemon ---------------------------
(***************************************************************************)
(* The monitor daemon (src/src/monitor/daemon.ts) with the SLA history it  *)
(* writes (src/src/monitor/sla-calculator.ts), as runMonitorDaemon of      *)
(* src/src/cli.ts puts them together.                                      *)
(*                                                                         *)
(* A loop is a chain of polls: each poll, when it is over, arms the timer  *)
(* that starts the next one.  The daemon remembers one timer.  Every await *)
(* of a poll is a place where stop(), start(), the other loop, the target  *)
(* or a crash of the process may come in between.                          *)
(*                                                                         *)
(* Delays are not modelled: a timer fires at any moment after it is armed. *)
(* A history is told by the number of its newest sample, and a database    *)
(* that is a half-written file is Torn.  Numbers start over when a process *)
(* starts with an empty history.                                           *)
(***************************************************************************)
EXTENDS Naturals, FiniteSets

CONSTANTS
    Loops,            \* chains of polls that may exist at once
    Bodies,           \* contents the target may serve
    WebhookAttempts,  \* DEFAULT_WEBHOOK_RETRIES + 1
    BaseBackoff,      \* BASE_BACKOFF_MS
    MaxBackoff,       \* MAX_BACKOFF_MS
    MaxSamples,       \* bound on the SLA samples taken
    MaxStarts,        \* bound on the calls of start() that take effect
    MaxCrashes,       \* bound on the crashes of the process
    None,             \* undefined, null
    Torn              \* a file that was not written to its end

ASSUME DaemonAssumption ==
    /\ IsFiniteSet(Loops)
    /\ WebhookAttempts \in Nat \ {0}
    /\ BaseBackoff \in Nat \ {0} /\ MaxBackoff \in Nat /\ BaseBackoff <= MaxBackoff
    /\ MaxSamples \in Nat /\ MaxStarts \in Nat /\ MaxCrashes \in Nat
    /\ None \notin Bodies \cup Loops
    /\ Torn \notin Nat

VARIABLES
    target,     \* what the monitored URL serves now
    pc,         \* per loop: where its poll is suspended, or "none"
    body,       \* per loop: the response its poll reports to the webhook
    failing,    \* per loop: its poll is in the catch block
    try,        \* per loop: the webhook attempt under way
    running, timer, lastBody, backoff,  \* the daemon's fields
    due,        \* slaSampleIntervalMs has passed since the last sample
    samples,    \* newest sample of the history in memory
    payload,    \* per loop: what its save is writing
    tmp, db,    \* the temporary file and the database
    up,         \* the process has loaded the history and runs
    unread,     \* load() failed to read the database, which is still there (history)
    starts, crashes,
    restartedMidPoll,  \* start() was called while a poll was under way (history)
    observerThrew      \* onPoll threw in the catch block of a poll (history)

daemon == <<running, timer, lastBody, backoff>>
sla == <<due, samples, payload, tmp, db>>
process == <<up, unread, starts, crashes, restartedMidPoll>>
vars == <<target, pc, body, failing, try, daemon, sla, process, observerThrew>>

InPoll == {"fetching", "notifying", "saving", "writing", "renaming", "observing"}

Smaller(a, b) == IF a <= b THEN a ELSE b

TypeOK ==
    /\ target \in Bodies
    /\ pc \in [Loops -> InPoll \cup {"none", "waiting"}]
    /\ body \in [Loops -> Bodies \cup {None}]
    /\ failing \in [Loops -> BOOLEAN]
    /\ try \in [Loops -> 0..WebhookAttempts]
    /\ running \in BOOLEAN
    /\ timer \in Loops \cup {None}
    /\ lastBody \in Bodies \cup {None}
    /\ backoff \in BaseBackoff..MaxBackoff
    /\ due \in BOOLEAN
    /\ samples \in 0..MaxSamples
    /\ payload \in [Loops -> 0..MaxSamples]
    /\ tmp \in (0..MaxSamples) \cup {None, Torn}
    /\ db \in (0..MaxSamples) \cup {Torn}
    /\ up \in BOOLEAN
    /\ unread \in BOOLEAN
    /\ starts \in 0..MaxStarts
    /\ crashes \in 0..MaxCrashes
    /\ restartedMidPoll \in BOOLEAN
    /\ observerThrew \in BOOLEAN

Init ==
    /\ target \in Bodies
    /\ pc = [l \in Loops |-> "none"]
    /\ body = [l \in Loops |-> None]
    /\ failing = [l \in Loops |-> FALSE]
    /\ try = [l \in Loops |-> 0]
    /\ running = FALSE
    /\ timer = None
    /\ lastBody = None
    /\ backoff = BaseBackoff
    /\ due = TRUE
    /\ samples = 0
    /\ payload = [l \in Loops |-> 0]
    /\ tmp = None
    /\ db = 0
    /\ up = TRUE
    /\ unread = FALSE
    /\ starts = 0
    /\ crashes = 0
    /\ restartedMidPoll = FALSE
    /\ observerThrew = FALSE

-----------------------------------------------------------------------------
(* start() and stop() *)

Start(l) ==
    /\ up
    /\ ~running
    /\ starts < MaxStarts
    /\ pc[l] = "none"
    /\ running' = TRUE
    /\ backoff' = BaseBackoff
    /\ pc' = [pc EXCEPT ![l] = "fetching"]
    /\ starts' = starts + 1
    /\ restartedMidPoll' = (restartedMidPoll \/ \E k \in Loops : pc[k] \in InPoll)
    /\ UNCHANGED <<target, body, failing, try, timer, lastBody, sla, up, unread, crashes,
                   observerThrew>>

\* Mutant: the armed timer is forgotten, not cleared.
StopLeavingTimer ==
    /\ up
    /\ running
    /\ running' = FALSE
    /\ timer' = None
    /\ UNCHANGED <<target, pc, body, failing, try, lastBody, backoff, sla, process, observerThrew>>

\* The timer the daemon remembers is cleared; one that fired is not there to clear.
Stop ==
    /\ up
    /\ running
    /\ running' = FALSE
    /\ timer' = None
    /\ pc' = [l \in Loops |-> IF l = timer /\ pc[l] = "waiting" THEN "none" ELSE pc[l]]
    /\ UNCHANGED <<target, body, failing, try, lastBody, backoff, sla, process, observerThrew>>

-----------------------------------------------------------------------------
(* One poll. *)

\* sample(): at most one per interval is recorded, and the history persisted.
Sample(l) ==
    IF due /\ samples < MaxSamples
    THEN /\ due' = FALSE
         /\ samples' = samples + 1
         /\ pc' = [pc EXCEPT ![l] = "saving"]
    ELSE /\ pc' = [pc EXCEPT ![l] = "observing"]
         /\ UNCHANGED <<due, samples>>

\* The response is remembered, whether or not the webhook took the news.
Remember(l, b) ==
    /\ lastBody' = b
    /\ backoff' = BaseBackoff
    /\ Sample(l)

\* Mutant: the new content is remembered before anyone is told.
ResponseSilent(l) ==
    /\ pc[l] = "fetching"
    /\ Remember(l, target)
    /\ UNCHANGED <<target, body, failing, try, running, timer, payload, tmp, db, process, observerThrew>>

Response(l) ==
    /\ pc[l] = "fetching"
    /\ IF lastBody \notin {None, target}
       THEN /\ pc' = [pc EXCEPT ![l] = "notifying"]
            /\ body' = [body EXCEPT ![l] = target]
            /\ try' = [try EXCEPT ![l] = 1]
            /\ UNCHANGED <<lastBody, backoff, due, samples>>
       ELSE /\ Remember(l, target)
            /\ UNCHANGED <<body, try>>
    /\ UNCHANGED <<target, failing, running, timer, payload, tmp, db, process, observerThrew>>

\* sendWebhook: a 2xx, a status that is not retried, or the last attempt ...
WebhookDone(l) ==
    /\ pc[l] = "notifying"
    /\ Remember(l, body[l])
    /\ body' = [body EXCEPT ![l] = None]
    /\ try' = [try EXCEPT ![l] = 0]
    /\ UNCHANGED <<target, failing, running, timer, payload, tmp, db, process, observerThrew>>

\* ... or a timeout, a network error or a retryable status before that.
WebhookRetry(l) ==
    /\ pc[l] = "notifying"
    /\ try[l] < WebhookAttempts
    /\ try' = [try EXCEPT ![l] = @ + 1]
    /\ UNCHANGED <<target, pc, body, failing, daemon, sla, process, observerThrew>>

FetchFails(l) ==
    /\ pc[l] = "fetching"
    /\ failing' = [failing EXCEPT ![l] = TRUE]
    /\ Sample(l)
    /\ UNCHANGED <<target, body, try, daemon, payload, tmp, db, process, observerThrew>>

\* Mutant: the database itself is opened for writing.
OpenInPlace(l) ==
    /\ pc[l] = "saving"
    /\ db' = Torn
    /\ tmp' = Torn
    /\ payload' = [payload EXCEPT ![l] = samples]
    /\ pc' = [pc EXCEPT ![l] = "writing"]
    /\ UNCHANGED <<target, body, failing, try, daemon, due, samples, process, observerThrew>>

\* persist(): the temporary file is opened, filled, and renamed to the database.
OpenTemporary(l) ==
    /\ pc[l] = "saving"
    /\ tmp' = Torn
    /\ payload' = [payload EXCEPT ![l] = samples]
    /\ pc' = [pc EXCEPT ![l] = "writing"]
    /\ UNCHANGED <<target, body, failing, try, daemon, due, samples, db, process, observerThrew>>

WriteTemporary(l) ==
    /\ pc[l] = "writing"
    /\ tmp' = payload[l]
    /\ pc' = [pc EXCEPT ![l] = "renaming"]
    /\ UNCHANGED <<target, body, failing, try, daemon, due, samples, payload, db, process, observerThrew>>

RenameTemporary(l) ==
    /\ pc[l] = "renaming"
    /\ tmp # None
    /\ db' = tmp
    /\ unread' = FALSE
    /\ tmp' = None
    /\ payload' = [payload EXCEPT ![l] = 0]
    /\ pc' = [pc EXCEPT ![l] = "observing"]
    /\ UNCHANGED <<target, body, failing, try, daemon, due, samples, up, starts, crashes,
                   restartedMidPoll, observerThrew>>

\* Any of the three may fail: best effort, the poll goes on.
SaveFails(l) ==
    /\ pc[l] \in {"saving", "writing", "renaming"}
    /\ pc' = [pc EXCEPT ![l] = "observing"]
    /\ payload' = [payload EXCEPT ![l] = 0]
    /\ UNCHANGED <<target, body, failing, try, daemon, due, samples, tmp, db, process, observerThrew>>

\* Mutant: the backoff doubles without a cap.
RearmUncapped(l) ==
    IF running
    THEN /\ pc' = [pc EXCEPT ![l] = "waiting"]
         /\ timer' = l
         /\ backoff' = IF failing[l] THEN 2 * backoff ELSE backoff
    ELSE /\ pc' = [pc EXCEPT ![l] = "none"]
         /\ UNCHANGED <<timer, backoff>>

\* Mutant: a failed poll arms nothing.
RearmOnSuccess(l) ==
    IF running /\ ~failing[l]
    THEN /\ pc' = [pc EXCEPT ![l] = "waiting"]
         /\ timer' = l
         /\ UNCHANGED backoff
    ELSE /\ pc' = [pc EXCEPT ![l] = "none"]
         /\ UNCHANGED <<timer, backoff>>

\* Mutant: a poll that outlives stop() arms the next one all the same.
RearmAlways(l) ==
    /\ pc' = [pc EXCEPT ![l] = "waiting"]
    /\ timer' = l
    /\ backoff' = IF failing[l] THEN Smaller(2 * backoff, MaxBackoff) ELSE backoff

\* The end of a poll: the next one is armed if the daemon still runs.
Rearm(l) ==
    IF running
    THEN /\ pc' = [pc EXCEPT ![l] = "waiting"]
         /\ timer' = l
         /\ backoff' = IF failing[l] THEN Smaller(2 * backoff, MaxBackoff) ELSE backoff
    ELSE /\ pc' = [pc EXCEPT ![l] = "none"]
         /\ UNCHANGED <<timer, backoff>>

Observed(l) ==
    /\ pc[l] = "observing"
    /\ Rearm(l)
    /\ failing' = [failing EXCEPT ![l] = FALSE]
    /\ UNCHANGED <<target, body, try, running, lastBody, sla, process, observerThrew>>

\* onPoll throws: the catch block samples and observes the poll again ...
ObserverThrows(l) ==
    /\ pc[l] = "observing"
    /\ ~failing[l]
    /\ failing' = [failing EXCEPT ![l] = TRUE]
    /\ Sample(l)
    /\ UNCHANGED <<target, body, try, daemon, payload, tmp, db, process, observerThrew>>

\* ... and nothing catches what is thrown from there: the chain ends.
ObserverThrowsAgain(l) ==
    /\ pc[l] = "observing"
    /\ failing[l]
    /\ pc' = [pc EXCEPT ![l] = "none"]
    /\ failing' = [failing EXCEPT ![l] = FALSE]
    /\ observerThrew' = TRUE
    /\ UNCHANGED <<target, body, try, daemon, sla, process>>

\* The timer calls poll(), which does not ask whether the daemon still runs.
TimerFires(l) ==
    /\ pc[l] = "waiting"
    /\ pc' = [pc EXCEPT ![l] = "fetching"]
    /\ UNCHANGED <<target, body, failing, try, daemon, sla, process, observerThrew>>

-----------------------------------------------------------------------------
(* The world around it. *)

TargetChanges ==
    /\ target' \in Bodies \ {target}
    /\ UNCHANGED <<pc, body, failing, try, daemon, sla, process, observerThrew>>

SampleDue ==
    /\ ~due
    /\ due' = TRUE
    /\ UNCHANGED <<target, pc, body, failing, try, daemon, samples, payload, tmp, db, process, observerThrew>>

Crash ==
    /\ up
    /\ crashes < MaxCrashes
    /\ crashes' = crashes + 1
    /\ up' = FALSE
    /\ pc' = [l \in Loops |-> "none"]
    /\ running' = FALSE
    /\ timer' = None
    /\ lastBody' = None
    /\ backoff' = BaseBackoff
    /\ body' = [l \in Loops |-> None]
    /\ failing' = [l \in Loops |-> FALSE]
    /\ payload' = [l \in Loops |-> 0]
    /\ try' = [l \in Loops |-> 0]
    /\ UNCHANGED <<target, due, samples, tmp, db, unread, starts, restartedMidPoll, observerThrew>>

\* runMonitorDaemon starts the process over with the history load() came up with.
Load(history) ==
    /\ ~up
    /\ up' = TRUE
    /\ samples' = history
    /\ due' = TRUE
    /\ UNCHANGED <<target, pc, body, failing, try, daemon, payload, tmp, db, starts, crashes,
                   restartedMidPoll, observerThrew>>

\* readDatabase(): a corrupt history starts over.
Boot ==
    /\ Load(IF db = Torn THEN 0 ELSE db)
    /\ unread' = FALSE

\* Whatever makes readFile fail is taken for "no database yet".
BootUnread ==
    /\ Load(0)
    /\ unread' = TRUE

Poll(l) ==
    \/ Response(l) \/ FetchFails(l) \/ WebhookDone(l) \/ WebhookRetry(l)
    \/ OpenTemporary(l) \/ WriteTemporary(l) \/ RenameTemporary(l) \/ SaveFails(l)
    \/ Observed(l) \/ ObserverThrows(l) \/ ObserverThrowsAgain(l) \/ TimerFires(l)

Next ==
    \/ \E l \in Loops : Start(l) \/ Poll(l)
    \/ Stop \/ TargetChanges \/ SampleDue \/ Crash \/ Boot \/ BootUnread

Spec == Init /\ [][Next]_vars

\* Awaits settle and timers fire.  The fetch of the target has no deadline of
\* its own: that it settles is a promise of the transport.
FairSpec == Spec /\ \A l \in Loops : WF_vars(Poll(l))

-----------------------------------------------------------------------------
(* Properties. *)

Active == {l \in Loops : pc[l] # "none"}

\* A daemon that believes it runs has a loop: whatever fails, and however
\* stop() and start() fall between the awaits of a poll, some poll is under
\* way or armed.  (An onPoll that throws from the catch block is the
\* exception: it ends the loop and leaves `running` set.)
RunningMeansLooping == running /\ ~observerThrew => Active # {}

\* As long as no start() overtakes a poll that is still under way, there is
\* one loop: stop() really ends the armed one.
OneLoop == ~restartedMidPoll => Cardinality(Active) <= 1

\* The remembered content changes only through a poll that has tried to send
\* the difference between the two to the webhook, even when two loops run.
NoSilentChange ==
    [][ lastBody # None /\ lastBody' \notin {lastBody, None} =>
          \E l \in Loops :
             pc[l] = "notifying" /\ try[l] >= 1 /\ body[l] = lastBody' ]_vars

\* With one loop, no crash and no failed write at any point of a save leaves
\* half a file in place of the database, and no save makes it an older or
\* shorter history, but one: the first save of a process that could not read
\* the database, which replaces a history that load() took to be absent.
HistoryNeverShrinks ==
    [][ ~restartedMidPoll' => db' # Torn /\ (unread \/ db' >= db) ]_vars

\* Once stopped, the daemon falls silent unless it is started again, loops
\* whose timer it forgot included.
StopQuiesces == ~running ~> (running \/ Active = {})
=============================================================================
