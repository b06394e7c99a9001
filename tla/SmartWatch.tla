----------------------------- MODULE SmartWatch -----------------------------
(***************************************************************************)
(* Watch mode of the command line (src/src/watcher/smart-watch.ts, started *)
(* by watchFiles of src/src/cli.ts): file system events, asynchronous      *)
(* reads compared by fingerprint, a debounced local run, an idle network   *)
(* run, and the promise chain that runs them one after the other.          *)
(*                                                                         *)
(* The two timers are restarted together by every change, and the debounce *)
(* is the shorter one (300 ms against 3 s), so it always fires first: that *)
(* is all of their durations the model keeps.                              *)
(***************************************************************************)
EXTENDS Naturals, Sequences, FiniteSets, SequencesExt

CONSTANTS
    Files,
    Contents,
    HasNetwork,    \* runNetwork is given (--check-network)
    Returns,       \* a save may bring an earlier content of the file back
    MaxSaves,      \* bound on the saves of the user
    MaxDuplicates, \* bound on the events that repeat another one
    MaxErrors,     \* bound on the calls of the file system that fail
    None

ASSUME WatchAssumption ==
    /\ Contents \subseteq Nat /\ None \notin Contents
    /\ HasNetwork \in BOOLEAN /\ Returns \in BOOLEAN
    /\ MaxSaves \in Nat /\ MaxDuplicates \in Nat /\ MaxErrors \in Nat

VARIABLES
    disk,        \* per file: what the file holds
    watched,     \* files fs.watch reports on
    deaf,        \* files whose watcher is there and reports nothing any more
    skipped,     \* files that could not be watched
    events,      \* per file: events not yet delivered
    reads,       \* readFile calls in flight, with what each has read
    fingerprint, \* per file: what the change detector remembers
    offline,     \* offlineChanged
    network,     \* networkChanged
    debounce, idle,  \* the two timers are armed
    chain,       \* runs on the promise chain, the first one first
    started,     \* the first run of the chain has begun
    closed,
    linted,      \* per phase and file: the content its last run has read
    runs,        \* per phase and file: runs queued so far (history)
    saves, duplicates, errors,
    missed       \* files with a save no one read: it came before the watch or after
                 \* it fell silent, or the read failed (history)

watch == <<disk, watched, deaf, skipped, events, reads, fingerprint, missed>>
scheduler == <<offline, network, debounce, idle, closed>>
running == <<chain, started, linted>>
bounded == <<saves, duplicates, errors>>
vars == <<watch, scheduler, running, runs, bounded>>

Phases == {"offline", "network"}
Jobs == [phase : Phases, paths : SUBSET Files]

TypeOK ==
    /\ disk \in [Files -> Contents]
    /\ watched \subseteq Files /\ deaf \subseteq Files /\ skipped \subseteq Files
    /\ events \in [Files -> Nat]
    /\ reads \in Seq([file : Files, source : Contents])
    /\ fingerprint \in [Files -> Contents \cup {None}]
    /\ offline \subseteq Files /\ network \subseteq Files
    /\ debounce \in BOOLEAN /\ idle \in BOOLEAN /\ closed \in BOOLEAN
    /\ chain \in Seq(Jobs)
    /\ \A i \in DOMAIN chain : chain[i].paths # {} /\ (chain[i].phase = "network" => HasNetwork)
    /\ started \in BOOLEAN /\ (started => chain # <<>>)
    /\ linted \in [Phases -> [Files -> Contents]]
    /\ runs \in [Phases -> [Files -> Nat]]
    /\ saves \in 0..MaxSaves /\ duplicates \in 0..MaxDuplicates /\ errors \in 0..MaxErrors
    /\ missed \subseteq Files

\* watchFiles has run the linter once, and the watch is being set up.
Init ==
    /\ disk \in [Files -> Contents]
    /\ watched = {} /\ deaf = {} /\ skipped = {}
    /\ events = [f \in Files |-> 0]
    /\ reads = <<>>
    /\ fingerprint = [f \in Files |-> None]
    /\ offline = {} /\ network = {}
    /\ debounce = FALSE /\ idle = FALSE /\ closed = FALSE
    /\ chain = <<>>
    /\ started = FALSE
    /\ linted = [p \in Phases |-> disk]
    /\ runs = [p \in Phases |-> [f \in Files |-> 0]]
    /\ saves = 0 /\ duplicates = 0 /\ errors = 0
    /\ missed = {}

-----------------------------------------------------------------------------
(* The file system (external). *)

\* A save changes the content; the watch may fold its event into one that is
\* still to be delivered, and reports nothing before it is set up or once it is
\* silent.
Saved(f) ==
    /\ saves < MaxSaves
    /\ saves' = saves + 1
    /\ \E c \in Contents :
        /\ IF Returns THEN c # disk[f] ELSE c > disk[f]
        /\ disk' = [disk EXCEPT ![f] = c]
    /\ IF f \in watched
       THEN /\ events' = [events EXCEPT ![f] = IF @ > 0 THEN @ ELSE 1]
            /\ UNCHANGED missed
       ELSE /\ missed' = missed \cup {f}
            /\ UNCHANGED events
    /\ UNCHANGED <<skipped, reads, fingerprint, scheduler, running, runs, duplicates, errors>>

\* The watcher of f stays, and watches what is no longer there.
FallSilent(f) ==
    /\ watched' = watched \ {f}
    /\ deaf' = deaf \cup {f}

\* The file is written in place.
Save(f) ==
    /\ Saved(f)
    /\ UNCHANGED <<watched, deaf>>

\* Another file is renamed over it.  fs.watch of one file follows the inode: it
\* reports that the old one went, and nothing of the new one.
SaveByRename(f) ==
    /\ f \in watched
    /\ Saved(f)
    /\ FallSilent(f)

DuplicateEvent(f) ==
    /\ f \in watched
    /\ duplicates < MaxDuplicates
    /\ duplicates' = duplicates + 1
    /\ events' = [events EXCEPT ![f] = @ + 1]
    /\ UNCHANGED <<disk, watched, deaf, skipped, reads, fingerprint, missed, scheduler, running, runs, saves, errors>>

FileSystemError ==
    /\ errors < MaxErrors
    /\ errors' = errors + 1

-----------------------------------------------------------------------------
(* startSmartWatch: one file after the other. *)

SetUp(f) == f \in watched \cup deaf \cup skipped

\* The first fingerprint, by a read that is awaited ...
Fingerprint(f) ==
    /\ fingerprint[f] = None /\ ~SetUp(f)
    /\ \A g \in Files : fingerprint[g] # None => SetUp(g)
    /\ fingerprint' = [fingerprint EXCEPT ![f] = disk[f]]
    /\ UNCHANGED <<disk, watched, deaf, skipped, events, reads, missed, scheduler, running, runs, bounded>>

\* ... and then the watch.
Watch(f) ==
    /\ fingerprint[f] # None /\ ~SetUp(f)
    /\ ~closed
    /\ watched' = watched \cup {f}
    /\ UNCHANGED <<disk, deaf, skipped, events, reads, fingerprint, missed, scheduler, running, runs, bounded>>

\* The watcher emits an error, which is reported, and no event from then on.
WatchFails(f) ==
    /\ f \in watched
    /\ FileSystemError
    /\ FallSilent(f)
    /\ UNCHANGED <<disk, skipped, events, reads, fingerprint, missed, scheduler, running, runs, saves, duplicates>>

\* Either may throw: the error is reported and the next file is tried.
Skip(f) ==
    /\ ~SetUp(f) /\ ~closed
    /\ FileSystemError
    /\ \A g \in Files \ {f} : fingerprint[g] # None => SetUp(g)
    /\ skipped' = skipped \cup {f}
    /\ UNCHANGED <<disk, watched, deaf, events, reads, fingerprint, missed, scheduler, running, runs, saves, duplicates>>

\* An event starts a read and does not wait for it.
Event(f) ==
    /\ events[f] > 0
    /\ events' = [events EXCEPT ![f] = @ - 1]
    /\ reads' = Append(reads, [file |-> f, source |-> disk[f]])
    /\ UNCHANGED <<disk, watched, deaf, skipped, fingerprint, missed, scheduler, running, runs, bounded>>

\* (mutant: an armed idle timer is cleared and not set again)
NotifyChangeOnce(f) ==
    IF closed THEN UNCHANGED <<offline, network, debounce, idle>>
    ELSE /\ offline' = offline \cup {f}
         /\ network' = network \cup {f}
         /\ debounce' = TRUE
         /\ idle' = (HasNetwork /\ ~idle)

NotifyChange(f) ==
    IF closed THEN UNCHANGED <<offline, network, debounce, idle>>
    ELSE /\ offline' = offline \cup {f}
         /\ network' = network \cup {f}
         /\ debounce' = TRUE
         /\ idle' = HasNetwork

\* Reads that overlap complete in any order.
ReadDone(i) ==
    LET f == reads[i].file
        source == reads[i].source
    IN  /\ reads' = RemoveAt(reads, i)
        /\ fingerprint' = [fingerprint EXCEPT ![f] = source]
        /\ IF fingerprint[f] # source
           THEN NotifyChange(f)
           ELSE UNCHANGED <<offline, network, debounce, idle>>
        /\ UNCHANGED <<disk, watched, deaf, skipped, events, missed, closed, running, runs, bounded>>

\* A read that fails is reported and gives up the change it was to notice.
ReadFails(i) ==
    /\ FileSystemError
    /\ reads' = RemoveAt(reads, i)
    /\ missed' = missed \cup {reads[i].file}
    /\ UNCHANGED <<disk, watched, deaf, skipped, events, fingerprint, scheduler, running, runs, saves, duplicates>>

-----------------------------------------------------------------------------
(* createSmartWatchScheduler *)

\* run(): nothing for no paths, else one more link of the promise chain.
Run(phase, paths) ==
    IF paths = {} THEN UNCHANGED <<chain, runs>>
    ELSE /\ chain' = Append(chain, [phase |-> phase, paths |-> paths])
         /\ runs' = [runs EXCEPT ![phase] =
                        [f \in Files |-> IF f \in paths THEN @[f] + 1 ELSE @[f]]]

\* (mutant: the set is cleared before its paths are copied)
DebounceFiresCleared ==
    /\ debounce
    /\ debounce' = FALSE
    /\ offline' = {}
    /\ Run("offline", {})
    /\ UNCHANGED <<watch, network, idle, closed, started, linted, bounded>>

DebounceFires ==
    /\ debounce
    /\ debounce' = FALSE
    /\ offline' = {}
    /\ Run("offline", offline)
    /\ UNCHANGED <<watch, network, idle, closed, started, linted, bounded>>

\* (mutant: the idle window may be shorter than the debounce)
IdleFiresEarly ==
    /\ idle
    /\ idle' = FALSE
    /\ network' = {}
    /\ Run("network", network)
    /\ UNCHANGED <<watch, offline, debounce, closed, started, linted, bounded>>

IdleFires ==
    /\ idle
    /\ ~debounce  \* the shorter timer, restarted with this one, has fired
    /\ idle' = FALSE
    /\ network' = {}
    /\ Run("network", network)
    /\ UNCHANGED <<watch, offline, debounce, closed, started, linted, bounded>>

\* The callback reads the files it lints ...
RunStarts ==
    /\ chain # <<>> /\ ~started
    /\ started' = TRUE
    /\ linted' = [linted EXCEPT ![Head(chain).phase] =
                     [f \in Files |-> IF f \in Head(chain).paths THEN disk[f] ELSE @[f]]]
    /\ UNCHANGED <<watch, scheduler, chain, runs, bounded>>

\* ... and settles; a rejection goes to onError and the chain carries on.
RunEnds ==
    /\ started
    /\ started' = FALSE
    /\ chain' = Tail(chain)
    /\ UNCHANGED <<watch, scheduler, linted, runs, bounded>>

\* (mutants: the timers survive; the queued runs are dropped, the one under way too)
CloseLeavingTimers ==
    /\ ~closed
    /\ \A f \in Files : SetUp(f)
    /\ closed' = TRUE
    /\ watched' = {} /\ deaf' = {}
    /\ events' = [f \in Files |-> 0]
    /\ UNCHANGED <<disk, skipped, reads, fingerprint, missed, offline, network, debounce, idle, running, runs, bounded>>
CloseDroppingRuns ==
    /\ ~closed
    /\ \A f \in Files : SetUp(f)
    /\ closed' = TRUE
    /\ debounce' = FALSE
    /\ idle' = FALSE
    /\ watched' = {} /\ deaf' = {}
    /\ events' = [f \in Files |-> 0]
    /\ chain' = <<>>
    /\ UNCHANGED <<disk, skipped, reads, fingerprint, missed, offline, network, started, linted, runs, bounded>>

\* close() clears the timers and the watchers; queued runs and reads go on.
Close ==
    /\ ~closed
    /\ \A f \in Files : SetUp(f)  \* startSmartWatch has returned
    /\ closed' = TRUE
    /\ debounce' = FALSE
    /\ idle' = FALSE
    /\ watched' = {} /\ deaf' = {}
    /\ events' = [f \in Files |-> 0]
    /\ UNCHANGED <<disk, skipped, reads, fingerprint, missed, offline, network, running, runs, bounded>>

Next ==
    \/ \E f \in Files :
          \/ Save(f) \/ SaveByRename(f) \/ DuplicateEvent(f) \/ WatchFails(f)
          \/ Fingerprint(f) \/ Watch(f) \/ Skip(f) \/ Event(f)
    \/ \E i \in DOMAIN reads : ReadDone(i) \/ ReadFails(i)
    \/ DebounceFires \/ IdleFires \/ RunStarts \/ RunEnds \/ Close

Spec == Init /\ [][Next]_vars

\* Events are delivered, reads and runs settle, timers fire.
Fairness ==
    /\ \A f \in Files : WF_vars(Fingerprint(f)) /\ WF_vars(Watch(f)) /\ WF_vars(Event(f))
    /\ WF_vars(\E i \in DOMAIN reads : ReadDone(i))
    /\ WF_vars(DebounceFires) /\ WF_vars(IdleFires)
    /\ WF_vars(RunStarts) /\ WF_vars(RunEnds)

FairSpec == Spec /\ Fairness

-----------------------------------------------------------------------------
(* Properties. *)

\* A change that was noticed is never stranded: whatever restarts, firings
\* and runs come in between, a changed file has its timer until its run is
\* queued.
NothingStranded ==
    ~closed => /\ offline # {} => debounce
               /\ network # {} /\ HasNetwork => idle

\* "Runs local checks first": no file has had more network runs queued than
\* local ones, so each network run follows a local run of the same change.
LocalFirst == \A f \in Files : runs["network"][f] <= runs["offline"][f]

\* A watch that is closed queues no run, not even for a read that was in
\* flight or a timer that was armed when it was closed.
ClosedQueuesNothing == [][closed => runs' = runs]_runs

\* When the user stops saving, every file has in the end been linted, locally
\* and over the network, as its last reported save left it: overlapping reads,
\* duplicates, debouncing and runs that start late lose no change, and the save
\* by rename that silences a watch is itself linted.  Excepted are files with a
\* save nobody read: one before the watch was set up, one after it fell silent
\* (an earlier save by rename, an error of the watcher), one whose read failed.
\* It holds as long as no save brings an earlier content back: see the README.
Converges ==
    \A f \in Files :
        <>[]( closed \/ f \in skipped \cup missed
              \/ /\ linted["offline"][f] = disk[f]
                 /\ HasNetwork => linted["network"][f] = disk[f] )
=============================================================================
