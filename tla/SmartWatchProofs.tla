-------------------------- MODULE SmartWatchProofs --------------------------
(***************************************************************************)
(* The scheduler of SmartWatch keeps its promises for any number of files, *)
(* saves, events and failing reads, read in any order: no change is        *)
(* stranded, local runs come first, and a closed watch queues nothing.     *)
(***************************************************************************)
EXTENDS SmartWatch, TLAPS

RunsTyped == runs \in [Phases -> [Files -> Nat]]

\* close() has cleared both timers for good.
NoTimerWhenClosed == closed => ~debounce /\ ~idle

\* The idle timer is only ever armed to run the network checks.
IdleForNetwork == idle => HasNetwork

\* A change that waits for its local run waits for its network run too.
WaitsForBoth == offline \subseteq network

Waits(f, set) == IF f \in set THEN 1 ELSE 0

\* Counting a change that waits as a run still to be queued, the network phase
\* of a file is never ahead of its local phase.
LocalAhead ==
    \A f \in Files :
        runs["network"][f] + Waits(f, network) <= runs["offline"][f] + Waits(f, offline)

SchedulerInv ==
    /\ RunsTyped
    /\ IdleForNetwork
    /\ NothingStranded
    /\ NoTimerWhenClosed
    /\ WaitsForBoth
    /\ LocalAhead

\* Queuing a set of paths counts one run for each of its files, and none for
\* the other phase.
LEMMA RunCounts ==
    ASSUME RunsTyped, NEW phase \in Phases, NEW paths, Run(phase, paths)
    PROVE  /\ RunsTyped'
           /\ \A f \in Files : runs'[phase][f] = runs[phase][f] + Waits(f, paths)
           /\ \A p \in Phases \ {phase} : runs'[p] = runs[p]
<1>1. CASE paths = {}
  BY <1>1 DEF Run, Waits, RunsTyped
<1>2. CASE paths # {}
  <2> DEFINE counts == [f \in Files |-> IF f \in paths THEN runs[phase][f] + 1 ELSE runs[phase][f]]
  <2>1. runs' = [runs EXCEPT ![phase] = counts]
    BY <1>2 DEF Run
  <2>2. runs[phase] \in [Files -> Nat]
    BY DEF RunsTyped
  <2>3. counts \in [Files -> Nat]
    BY <2>2
  <2>4. \A f \in Files : counts[f] = runs[phase][f] + Waits(f, paths)
    BY <2>2 DEF Waits
  <2> HIDE DEF counts
  <2> QED
    BY <2>1, <2>3, <2>4 DEF RunsTyped
<1> QED
  BY <1>1, <1>2

\* Initially nothing waits and nothing has been queued.
LEMMA SchedulerStarts == Init => SchedulerInv
BY DEF Init, SchedulerInv, RunsTyped, IdleForNetwork, NothingStranded,
       NoTimerWhenClosed, WaitsForBoth, LocalAhead, Waits, Phases

\* A step that leaves the timers, the sets and the counts alone keeps the
\* invariant, and so does one that clears the timers for good.
LEMMA SchedulerAlone ==
    SchedulerInv /\ UNCHANGED <<scheduler, runs>> => SchedulerInv'
BY DEF SchedulerInv, RunsTyped, IdleForNetwork, NothingStranded,
       NoTimerWhenClosed, WaitsForBoth, LocalAhead, Waits, scheduler

\* A change that is noticed waits for both phases, with its timers restarted.
LEMMA NotifyKeeps ==
    ASSUME SchedulerInv, NEW f, NotifyChange(f), UNCHANGED <<closed, runs>>
    PROVE  SchedulerInv'
<1>1. CASE closed
  <2>1. UNCHANGED <<scheduler, runs>>
    BY <1>1 DEF NotifyChange, scheduler
  <2> QED
    BY <2>1, SchedulerAlone
<1>2. CASE ~closed
  <2>1. /\ offline' = offline \cup {f} /\ network' = network \cup {f}
        /\ debounce' = TRUE /\ idle' = HasNetwork
        /\ closed' = closed /\ runs' = runs
    BY <1>2 DEF NotifyChange
  <2>2. RunsTyped' /\ WaitsForBoth'
    BY <2>1 DEF SchedulerInv, RunsTyped, WaitsForBoth
  <2>3. IdleForNetwork' /\ NothingStranded' /\ NoTimerWhenClosed'
    BY <1>2, <2>1 DEF IdleForNetwork, NothingStranded, NoTimerWhenClosed
  <2>4. ASSUME NEW g \in Files
        PROVE  runs'["network"][g] + Waits(g, network') <= runs'["offline"][g] + Waits(g, offline')
    <3>1. /\ runs["network"][g] \in Nat /\ runs["offline"][g] \in Nat
          /\ runs["network"][g] + Waits(g, network) <= runs["offline"][g] + Waits(g, offline)
          /\ g \in offline => g \in network
      BY DEF SchedulerInv, RunsTyped, LocalAhead, WaitsForBoth, Phases
    <3>2. CASE g = f
      BY <2>1, <3>1, <3>2 DEF Waits
    <3>3. CASE g # f
      BY <2>1, <3>1, <3>3 DEF Waits
    <3> QED
      BY <3>2, <3>3
  <2> QED
    BY <2>2, <2>3, <2>4 DEF SchedulerInv, LocalAhead
<1> QED
  BY <1>1, <1>2

\* The debounce timer turns each change that waits for its local run into one.
LEMMA DebounceKeeps == SchedulerInv /\ DebounceFires => SchedulerInv'
<1> SUFFICES ASSUME SchedulerInv, DebounceFires
             PROVE  SchedulerInv'
  OBVIOUS
<1>1. /\ RunsTyped'
      /\ \A f \in Files : runs'["offline"][f] = runs["offline"][f] + Waits(f, offline)
      /\ runs'["network"] = runs["network"]
  BY RunCounts DEF SchedulerInv, DebounceFires, Phases
<1>2. debounce' = FALSE /\ offline' = {} /\ UNCHANGED <<network, idle, closed>>
  BY DEF DebounceFires
<1>3. IdleForNetwork' /\ NothingStranded' /\ NoTimerWhenClosed' /\ WaitsForBoth'
  BY <1>2 DEF SchedulerInv, IdleForNetwork, NothingStranded, NoTimerWhenClosed, WaitsForBoth
<1>4. ASSUME NEW f \in Files
      PROVE  runs'["network"][f] + Waits(f, network') <= runs'["offline"][f] + Waits(f, offline')
  <2>1. /\ runs["network"][f] \in Nat /\ runs["offline"][f] \in Nat
        /\ runs["network"][f] + Waits(f, network) <= runs["offline"][f] + Waits(f, offline)
    BY DEF SchedulerInv, RunsTyped, LocalAhead, Phases
  <2> QED
    BY <1>1, <1>2, <2>1 DEF Waits
<1> QED
  BY <1>1, <1>3, <1>4 DEF SchedulerInv, LocalAhead

\* The idle timer finds the debounce timer fired, so every change it queues a
\* network run for has had its local run queued.
LEMMA IdleKeeps == SchedulerInv /\ IdleFires => SchedulerInv'
<1> SUFFICES ASSUME SchedulerInv, IdleFires
             PROVE  SchedulerInv'
  OBVIOUS
<1>1. /\ RunsTyped'
      /\ \A f \in Files : runs'["network"][f] = runs["network"][f] + Waits(f, network)
      /\ runs'["offline"] = runs["offline"]
  BY RunCounts DEF SchedulerInv, IdleFires, Phases
<1>2. idle' = FALSE /\ network' = {} /\ UNCHANGED <<offline, debounce, closed>>
  BY DEF IdleFires
<1>3. offline = {}
  BY DEF SchedulerInv, IdleFires, NothingStranded, NoTimerWhenClosed
<1>4. IdleForNetwork' /\ NothingStranded' /\ NoTimerWhenClosed' /\ WaitsForBoth'
  BY <1>2, <1>3 DEF SchedulerInv, IdleForNetwork, NothingStranded, NoTimerWhenClosed, WaitsForBoth
<1>5. ASSUME NEW f \in Files
      PROVE  runs'["network"][f] + Waits(f, network') <= runs'["offline"][f] + Waits(f, offline')
  <2>1. /\ runs["network"][f] \in Nat /\ runs["offline"][f] \in Nat
        /\ runs["network"][f] + Waits(f, network) <= runs["offline"][f] + Waits(f, offline)
    BY DEF SchedulerInv, RunsTyped, LocalAhead, Phases
  <2> QED
    BY <1>1, <1>2, <1>3, <2>1 DEF Waits
<1> QED
  BY <1>1, <1>4, <1>5 DEF SchedulerInv, LocalAhead

\* close() leaves what waits, and the counts, alone.
LEMMA CloseKeeps == SchedulerInv /\ Close => SchedulerInv'
BY DEF Close, SchedulerInv, RunsTyped, IdleForNetwork, NothingStranded,
       NoTimerWhenClosed, WaitsForBoth, LocalAhead, Waits

\* Every step keeps the invariant.
LEMMA SchedulerStep == SchedulerInv /\ [Next]_vars => SchedulerInv'
<1> SUFFICES ASSUME SchedulerInv, [Next]_vars
             PROVE  SchedulerInv'
  OBVIOUS
<1>1. CASE UNCHANGED vars
  BY <1>1, SchedulerAlone DEF vars
<1>2. ASSUME NEW f \in Files,
             \/ Save(f) \/ SaveByRename(f) \/ DuplicateEvent(f) \/ WatchFails(f)
             \/ Fingerprint(f) \/ Watch(f) \/ Skip(f) \/ Event(f)
      PROVE  SchedulerInv'
  <2>1. UNCHANGED <<scheduler, runs>>
    BY <1>2 DEF Saved, Save, SaveByRename, DuplicateEvent, WatchFails, Fingerprint,
    Watch, Skip, Event
  <2> QED
    BY <2>1, SchedulerAlone
<1>3. ASSUME NEW i \in DOMAIN reads, ReadDone(i)
      PROVE  SchedulerInv'
  <2>1. UNCHANGED <<closed, runs>>
    BY <1>3 DEF ReadDone
  <2>2. CASE fingerprint[reads[i].file] # reads[i].source
    BY <1>3, <2>1, <2>2, NotifyKeeps DEF ReadDone
  <2>3. CASE fingerprint[reads[i].file] = reads[i].source
    BY <1>3, <2>1, <2>3, SchedulerAlone DEF ReadDone, scheduler
  <2> QED
    BY <2>2, <2>3
<1>4. ASSUME NEW i \in DOMAIN reads, ReadFails(i)
      PROVE  SchedulerInv'
  BY <1>4, SchedulerAlone DEF ReadFails
<1>5. CASE RunStarts \/ RunEnds
  BY <1>5, SchedulerAlone DEF RunStarts, RunEnds
<1> QED
  BY <1>1, <1>2, <1>3, <1>4, <1>5, DebounceKeeps, IdleKeeps, CloseKeeps DEF Next

\* The invariant holds in every state of every behaviour.
LEMMA SchedulerAlways == Spec => []SchedulerInv
<1> QED
  BY SchedulerStarts, SchedulerStep, PTL DEF Spec

-----------------------------------------------------------------------------
(* The promises of createSmartWatchScheduler. *)

\* A noticed change keeps its timer armed until its run is queued, whatever
\* restarts, firings and overlapping reads come in between.
THEOREM NoChangeStranded == Spec => []NothingStranded
<1>1. SchedulerInv => NothingStranded
  BY DEF SchedulerInv
<1> QED
  BY <1>1, SchedulerAlways, PTL

\* No file has had more network runs queued than local ones.
THEOREM LocalRunsFirst == Spec => []LocalFirst
<1>1. SchedulerInv => LocalFirst
  <2> SUFFICES ASSUME SchedulerInv, NEW f \in Files
               PROVE  runs["network"][f] <= runs["offline"][f]
    BY DEF LocalFirst
  <2>1. /\ runs["network"][f] \in Nat /\ runs["offline"][f] \in Nat
        /\ runs["network"][f] + Waits(f, network) <= runs["offline"][f] + Waits(f, offline)
        /\ f \in offline => f \in network
    BY DEF SchedulerInv, RunsTyped, LocalAhead, WaitsForBoth, Phases
  <2> QED
    BY <2>1 DEF Waits
<1> QED
  BY <1>1, SchedulerAlways, PTL

\* Once close() has run, no timer is left and no read in flight can arm one,
\* so nothing is queued any more.
THEOREM ClosedIsQuiet == Spec => ClosedQueuesNothing
<1>1. SchedulerInv /\ [Next]_vars => [closed => runs' = runs]_runs
  <2> SUFFICES ASSUME SchedulerInv, Next, closed
               PROVE  runs' = runs
    BY DEF vars
  <2>1. ~debounce /\ ~idle
    BY DEF SchedulerInv, NoTimerWhenClosed
  <2>2. ~DebounceFires /\ ~IdleFires
    BY <2>1 DEF DebounceFires, IdleFires
  <2> QED
    BY <2>2 DEF Next, Saved, Save, SaveByRename, DuplicateEvent, WatchFails, Fingerprint,
                Watch, Skip, Event, ReadDone, ReadFails, RunStarts, RunEnds, Close
<1> QED
  BY <1>1, SchedulerAlways, PTL DEF Spec, ClosedQueuesNothing
-----------------------------------------------------------------------------
(* Types, in four groups of variables that change together. *)

Reads == [file : Files, source : Contents]

WatchTypes ==
    /\ disk \in [Files -> Contents]
    /\ fingerprint \in [Files -> Contents \cup {None}]
    /\ reads \in Seq(Reads)
    /\ events \in [Files -> Nat]
    /\ watched \subseteq Files /\ deaf \subseteq Files
    /\ skipped \subseteq Files /\ missed \subseteq Files

SchedulerTypes ==
    /\ offline \subseteq Files /\ network \subseteq Files
    /\ debounce \in BOOLEAN /\ idle \in BOOLEAN /\ closed \in BOOLEAN

WellFormed(jobs) ==
    /\ jobs \in Seq(Jobs)
    /\ \A i \in DOMAIN jobs : jobs[i].paths # {} /\ (jobs[i].phase = "network" => HasNetwork)

RunTypes ==
    /\ WellFormed(chain)
    /\ started \in BOOLEAN /\ (started => chain # <<>>)
    /\ linted \in [Phases -> [Files -> Contents]]

BoundTypes ==
    saves \in 0..MaxSaves /\ duplicates \in 0..MaxDuplicates /\ errors \in 0..MaxErrors

Types == WatchTypes /\ SchedulerTypes /\ RunTypes /\ BoundTypes /\ RunsTyped

\* The groups are the type invariant.
LEMMA TypesAreTypeOK == Types <=> TypeOK
BY DEF Types, WatchTypes, SchedulerTypes, WellFormed, RunTypes, BoundTypes, RunsTyped, Reads, TypeOK

\* Taking an element out of a sequence leaves a sequence of the same kind.
LEMMA RemoveAtType ==
    ASSUME NEW S, NEW s \in Seq(S), NEW i \in DOMAIN s
    PROVE  RemoveAt(s, i) \in Seq(S)
<1>1. i \in 1..Len(s)
  OBVIOUS
<1>2. SubSeq(s, 1, i - 1) \in Seq(S) /\ SubSeq(s, i + 1, Len(s)) \in Seq(S)
  BY <1>1
<1> QED
  BY <1>2 DEF RemoveAt

\* A read in flight is of a file and has read a content.
LEMMA ReadFields ==
    ASSUME NEW s \in Seq(Reads), NEW i \in DOMAIN s
    PROVE  s[i].file \in Files /\ s[i].source \in Contents
<1>1. s[i] \in Reads
  OBVIOUS
<1> QED
  BY <1>1 DEF Reads

\* Queuing one more job, or taking the first away, keeps the chain well formed.
LEMMA ChainKeeps ==
    ASSUME NEW jobs, WellFormed(jobs)
    PROVE  /\ \A job \in Jobs :
                 job.paths # {} /\ (job.phase = "network" => HasNetwork)
                 => WellFormed(Append(jobs, job)) /\ Append(jobs, job) # <<>>
           /\ jobs # <<>> => WellFormed(Tail(jobs)) /\ Head(jobs) \in Jobs
<1>1. ASSUME NEW job \in Jobs, job.paths # {}, job.phase = "network" => HasNetwork
      PROVE  WellFormed(Append(jobs, job)) /\ Append(jobs, job) # <<>>
  <2>1. Append(jobs, job) \in Seq(Jobs) /\ Append(jobs, job) # <<>>
    BY DEF WellFormed
  <2>2. \A i \in DOMAIN Append(jobs, job) :
           IF i \in DOMAIN jobs THEN Append(jobs, job)[i] = jobs[i]
                                ELSE Append(jobs, job)[i] = job
    BY DEF WellFormed
  <2> QED
    BY <1>1, <2>1, <2>2 DEF WellFormed
<1>2. ASSUME jobs # <<>>
      PROVE  WellFormed(Tail(jobs)) /\ Head(jobs) \in Jobs
  <2>1. Tail(jobs) \in Seq(Jobs) /\ Head(jobs) \in Jobs
    BY <1>2 DEF WellFormed
  <2>2. \A i \in DOMAIN Tail(jobs) : i + 1 \in DOMAIN jobs /\ Tail(jobs)[i] = jobs[i + 1]
    BY <1>2 DEF WellFormed
  <2> QED
    BY <2>1, <2>2 DEF WellFormed
<1> QED
  BY <1>1, <1>2

\* Initially every variable has its type.
LEMMA TypesStart == Init => Types
<1> SUFFICES ASSUME Init
             PROVE  Types
  OBVIOUS
<1>1. WatchTypes
  BY DEF Init, WatchTypes
<1>2. SchedulerTypes
  BY DEF Init, SchedulerTypes
<1>3. WellFormed(chain)
  BY DEF Init, WellFormed
<1>4. RunTypes
  BY <1>3 DEF Init, RunTypes
<1>5. BoundTypes
  BY WatchAssumption DEF WatchAssumption, Init, BoundTypes
<1>6. RunsTyped
  BY DEF Init, RunsTyped
<1> QED
  BY <1>1, <1>2, <1>4, <1>5, <1>6 DEF Types

\* The file system and the reads keep the types of the watch.
LEMMA WatchTypesStep == Types /\ [Next]_vars => WatchTypes'
<1> SUFFICES ASSUME WatchTypes, [Next]_vars
             PROVE  WatchTypes'
  BY DEF Types
<1> USE DEF watch
<1>1. CASE UNCHANGED watch
  BY <1>1 DEF WatchTypes
<1>2. ASSUME NEW f \in Files, Save(f) \/ SaveByRename(f)
      PROVE  WatchTypes'
  BY <1>2 DEF Saved, Save, SaveByRename, FallSilent, WatchTypes
<1>3. ASSUME NEW f \in Files, DuplicateEvent(f) \/ WatchFails(f)
      PROVE  WatchTypes'
  BY <1>3 DEF DuplicateEvent, WatchFails, FallSilent, WatchTypes
<1>4. ASSUME NEW f \in Files, Fingerprint(f)
      PROVE  WatchTypes'
  BY <1>4 DEF Fingerprint, WatchTypes
<1>5. ASSUME NEW f \in Files, Watch(f) \/ Skip(f)
      PROVE  WatchTypes'
  BY <1>5 DEF Watch, Skip, WatchTypes
<1>6. ASSUME NEW f \in Files, Event(f)
      PROVE  WatchTypes'
  <2>1. [file |-> f, source |-> disk[f]] \in Reads
    BY DEF WatchTypes, Reads
  <2>2. reads' \in Seq(Reads)
    BY <1>6, <2>1 DEF Event, WatchTypes
  <2>3. events' \in [Files -> Nat]
    BY <1>6 DEF Event, WatchTypes
  <2> QED
    BY <1>6, <2>2, <2>3 DEF Event, WatchTypes
<1>7. ASSUME NEW i \in DOMAIN reads, ReadDone(i)
      PROVE  WatchTypes'
  <2>1. reads' \in Seq(Reads)
    BY <1>7, RemoveAtType DEF ReadDone, WatchTypes
  <2>2. reads[i].file \in Files /\ reads[i].source \in Contents
    BY ReadFields DEF WatchTypes
  <2>3. fingerprint' \in [Files -> Contents \cup {None}]
    BY <1>7, <2>2 DEF ReadDone, WatchTypes
  <2> QED
    BY <1>7, <2>1, <2>3 DEF ReadDone, WatchTypes
<1>8. ASSUME NEW i \in DOMAIN reads, ReadFails(i)
      PROVE  WatchTypes'
  <2>1. reads' \in Seq(Reads)
    BY <1>8, RemoveAtType DEF ReadFails, WatchTypes
  <2>2. reads[i].file \in Files
    BY ReadFields DEF WatchTypes
  <2> QED
    BY <1>8, <2>1, <2>2 DEF ReadFails, WatchTypes
<1>9. CASE Close
  BY <1>9 DEF Close, WatchTypes
<1>10. CASE DebounceFires \/ IdleFires \/ RunStarts \/ RunEnds
  BY <1>1, <1>10 DEF DebounceFires, IdleFires, RunStarts, RunEnds
<1> QED
  BY <1>1, <1>2, <1>3, <1>4, <1>5, <1>6, <1>7, <1>8, <1>9, <1>10 DEF Next, vars

\* Every step keeps the types of the scheduler.
LEMMA SchedulerTypesStep == Types /\ [Next]_vars => SchedulerTypes'
<1> SUFFICES ASSUME WatchTypes, SchedulerTypes, [Next]_vars
             PROVE  SchedulerTypes'
  BY DEF Types
<1> USE DEF scheduler
<1>1. CASE UNCHANGED scheduler
  BY <1>1 DEF SchedulerTypes
<1>2. ASSUME NEW i \in DOMAIN reads, ReadDone(i)
      PROVE  SchedulerTypes'
  <2>1. reads[i].file \in Files
    BY ReadFields DEF WatchTypes
  <2> QED
    BY <1>2, <2>1, WatchAssumption DEF WatchAssumption, ReadDone, NotifyChange, SchedulerTypes
<1>3. CASE DebounceFires \/ IdleFires \/ Close
  BY <1>3 DEF DebounceFires, IdleFires, Close, SchedulerTypes
<1>4. ASSUME NEW f \in Files,
             \/ Save(f) \/ SaveByRename(f) \/ DuplicateEvent(f) \/ WatchFails(f)
             \/ Fingerprint(f) \/ Watch(f) \/ Skip(f) \/ Event(f)
      PROVE  SchedulerTypes'
  BY <1>1, <1>4 DEF Saved, Save, SaveByRename, DuplicateEvent, WatchFails, Fingerprint,
    Watch, Skip, Event
<1>5. ASSUME NEW i \in DOMAIN reads, ReadFails(i)
      PROVE  SchedulerTypes'
  BY <1>1, <1>5 DEF ReadFails
<1>6. CASE RunStarts \/ RunEnds
  BY <1>1, <1>6 DEF RunStarts, RunEnds
<1> QED
  BY <1>1, <1>2, <1>3, <1>4, <1>5, <1>6 DEF Next, vars

\* Only well-formed jobs are queued, and a run reads contents.
LEMMA RunTypesStep == Types /\ IdleForNetwork /\ [Next]_vars => RunTypes'
<1> SUFFICES ASSUME WatchTypes, SchedulerTypes, RunTypes, IdleForNetwork, [Next]_vars
             PROVE  RunTypes'
  BY DEF Types
<1> USE DEF running
<1>1. CASE UNCHANGED running
  BY <1>1 DEF RunTypes, WellFormed
<1>2. ASSUME NEW phase \in Phases, NEW paths \in SUBSET Files, Run(phase, paths),
             phase = "network" => HasNetwork, UNCHANGED <<started, linted>>
      PROVE  RunTypes'
  <2>1. CASE paths = {}
    BY <1>1, <1>2, <2>1 DEF Run
  <2>2. CASE paths # {}
    <3> DEFINE job == [phase |-> phase, paths |-> paths]
    <3>1. job \in Jobs /\ job.paths # {} /\ (job.phase = "network" => HasNetwork)
      BY <1>2, <2>2 DEF Jobs
    <3>2. chain' = Append(chain, job)
      BY <1>2, <2>2 DEF Run
    <3>3. WellFormed(chain') /\ chain' # <<>>
      BY <3>1, <3>2, ChainKeeps DEF RunTypes
    <3> QED
      BY <1>2, <3>3 DEF RunTypes, WellFormed
  <2> QED
    BY <2>1, <2>2
<1>3. CASE DebounceFires
  BY <1>2, <1>3 DEF DebounceFires, SchedulerTypes, Phases
<1>4. CASE IdleFires
  BY <1>2, <1>4 DEF IdleFires, IdleForNetwork, SchedulerTypes, Phases
<1>5. CASE RunStarts
  <2>1. Head(chain) \in Jobs
    BY <1>5, ChainKeeps DEF RunStarts, RunTypes
  <2>2. Head(chain).phase \in Phases
    BY <2>1 DEF Jobs
  <2>3. linted' \in [Phases -> [Files -> Contents]]
    BY <1>5, <2>2 DEF RunStarts, RunTypes, WatchTypes
  <2> QED
    BY <1>5, <2>3 DEF RunStarts, RunTypes, WellFormed
<1>6. CASE RunEnds
  <2>1. WellFormed(chain')
    BY <1>6, ChainKeeps DEF RunEnds, RunTypes
  <2> QED
    BY <1>6, <2>1 DEF RunEnds, RunTypes, WellFormed
<1>7. ASSUME NEW f \in Files,
             \/ Save(f) \/ SaveByRename(f) \/ DuplicateEvent(f) \/ WatchFails(f)
             \/ Fingerprint(f) \/ Watch(f) \/ Skip(f) \/ Event(f)
      PROVE  RunTypes'
  BY <1>1, <1>7 DEF Saved, Save, SaveByRename, DuplicateEvent, WatchFails, Fingerprint,
    Watch, Skip, Event
<1>8. ASSUME NEW i \in DOMAIN reads, ReadDone(i) \/ ReadFails(i)
      PROVE  RunTypes'
  BY <1>1, <1>8 DEF ReadDone, ReadFails
<1>9. CASE Close
  BY <1>1, <1>9 DEF Close
<1> QED
  BY <1>1, <1>3, <1>4, <1>5, <1>6, <1>7, <1>8, <1>9 DEF Next, vars

\* No bound is exceeded.
LEMMA BoundTypesStep == Types /\ [Next]_vars => BoundTypes'
<1> SUFFICES ASSUME BoundTypes, [Next]_vars
             PROVE  BoundTypes'
  BY DEF Types
<1> USE WatchAssumption DEF WatchAssumption, bounded, BoundTypes
<1>1. CASE UNCHANGED bounded
  BY <1>1
<1>2. ASSUME NEW f \in Files,
             \/ Save(f) \/ SaveByRename(f) \/ DuplicateEvent(f)
             \/ WatchFails(f) \/ Skip(f)
      PROVE  BoundTypes'
  BY <1>2 DEF Saved, Save, SaveByRename, DuplicateEvent, WatchFails, Skip, FileSystemError
<1>3. ASSUME NEW i \in DOMAIN reads, ReadFails(i)
      PROVE  BoundTypes'
  BY <1>3 DEF ReadFails, FileSystemError
<1>4. ASSUME NEW f \in Files, Fingerprint(f) \/ Watch(f) \/ Event(f)
      PROVE  BoundTypes'
  BY <1>1, <1>4 DEF Fingerprint, Watch, Event
<1>5. ASSUME NEW i \in DOMAIN reads, ReadDone(i)
      PROVE  BoundTypes'
  BY <1>1, <1>5 DEF ReadDone
<1>6. CASE DebounceFires \/ IdleFires \/ RunStarts \/ RunEnds \/ Close
  BY <1>1, <1>6 DEF DebounceFires, IdleFires, RunStarts, RunEnds, Close
<1> QED
  BY <1>1, <1>2, <1>3, <1>4, <1>5, <1>6 DEF Next, vars

\* Every variable keeps its type: only changed files are queued, no empty run
\* is, and network runs only when they were asked for.
THEOREM TypeCorrect == Spec => []TypeOK
<1>1. Init => Types
  BY TypesStart
<1>2. Types /\ SchedulerInv /\ SchedulerInv' /\ [Next]_vars => Types'
  BY WatchTypesStep, SchedulerTypesStep, RunTypesStep, BoundTypesStep DEF Types, SchedulerInv
<1>3. Types => TypeOK
  BY TypesAreTypeOK
<1> QED
  BY <1>1, <1>2, <1>3, SchedulerAlways, PTL DEF Spec
=============================================================================
