------------------------ MODULE MonitorDaemonProofs ------------------------
(***************************************************************************)
(* The safety of MonitorDaemon for any number of loops, contents, samples, *)
(* restarts and crashes.                                                   *)
(***************************************************************************)
EXTENDS MonitorDaemon, FiniteSetTheorems, TLAPS

\* Initially every variable has its type.
LEMMA TypesStart == Init => TypeOK
<1> SUFFICES ASSUME Init
             PROVE  TypeOK
  OBVIOUS
<1>1. /\ 0 \in 0..WebhookAttempts /\ 0 \in 0..MaxSamples
      /\ 0 \in 0..MaxStarts /\ 0 \in 0..MaxCrashes
      /\ BaseBackoff \in BaseBackoff..MaxBackoff
  BY DaemonAssumption DEF DaemonAssumption
<1> QED
  BY <1>1 DEF Init, TypeOK

\* Taking a sample, or not, keeps the types it can disturb.
LEMMA SampleTypes ==
    ASSUME TypeOK, NEW l \in Loops, Sample(l)
    PROVE  /\ pc' \in [Loops -> InPoll \cup {"none", "waiting"}]
           /\ due' \in BOOLEAN
           /\ samples' \in 0..MaxSamples
<1>1. CASE due /\ samples < MaxSamples
  <2>1. pc' = [pc EXCEPT ![l] = "saving"] /\ due' = FALSE /\ samples' = samples + 1
    BY <1>1 DEF Sample
  <2>2. pc' \in [Loops -> InPoll \cup {"none", "waiting"}]
    BY <2>1 DEF TypeOK, InPoll
  <2>3. samples' \in 0..MaxSamples
    BY <1>1, <2>1, DaemonAssumption DEF DaemonAssumption, TypeOK
  <2> QED
    BY <2>1, <2>2, <2>3
<1>2. CASE ~(due /\ samples < MaxSamples)
  <2>1. pc' = [pc EXCEPT ![l] = "observing"] /\ due' = due /\ samples' = samples
    BY <1>2 DEF Sample
  <2>2. pc' \in [Loops -> InPoll \cup {"none", "waiting"}]
    BY <2>1 DEF TypeOK, InPoll
  <2> QED
    BY <2>1, <2>2 DEF TypeOK
<1> QED
  BY <1>1, <1>2

\* Arming the next poll, or not, keeps the types it can disturb: the backoff
\* stays between its base and its cap.
LEMMA RearmTypes ==
    ASSUME TypeOK, NEW l \in Loops, Rearm(l)
    PROVE  /\ pc' \in [Loops -> InPoll \cup {"none", "waiting"}]
           /\ timer' \in Loops \cup {None}
           /\ backoff' \in BaseBackoff..MaxBackoff
BY DaemonAssumption DEF DaemonAssumption, Rearm, Smaller, TypeOK, InPoll

\* Every step keeps the types.
LEMMA TypesStep == TypeOK /\ [Next]_vars => TypeOK'
<1> SUFFICES ASSUME TypeOK, [Next]_vars
             PROVE  TypeOK'
  OBVIOUS
<1> USE DaemonAssumption DEF DaemonAssumption, daemon, sla, process
<1>1. CASE UNCHANGED vars
  BY <1>1 DEF vars, TypeOK
<1>2. ASSUME NEW l \in Loops, Start(l)
      PROVE  TypeOK'
  BY <1>2 DEF Start, TypeOK, InPoll
<1>3. CASE Stop
  BY <1>3 DEF Stop, TypeOK, InPoll
<1>4. ASSUME NEW l \in Loops, Response(l)
      PROVE  TypeOK'
  <2>1. CASE lastBody \notin {None, target}
    BY <1>4, <2>1 DEF Response, TypeOK, InPoll
  <2>2. CASE lastBody \in {None, target}
    BY <1>4, <2>2, SampleTypes DEF Response, Remember, TypeOK
  <2> QED
    BY <2>1, <2>2
<1>5. ASSUME NEW l \in Loops, WebhookDone(l)
      PROVE  TypeOK'
  BY <1>5, SampleTypes DEF WebhookDone, Remember, TypeOK
<1>6. ASSUME NEW l \in Loops, WebhookRetry(l)
      PROVE  TypeOK'
  BY <1>6 DEF WebhookRetry, TypeOK
<1>7. ASSUME NEW l \in Loops, FetchFails(l) \/ ObserverThrows(l)
      PROVE  TypeOK'
  BY <1>7, SampleTypes DEF FetchFails, ObserverThrows, TypeOK
<1>8. ASSUME NEW l \in Loops, OpenTemporary(l) \/ WriteTemporary(l)
      PROVE  TypeOK'
  BY <1>8 DEF OpenTemporary, WriteTemporary, TypeOK, InPoll
<1>9. ASSUME NEW l \in Loops, RenameTemporary(l) \/ SaveFails(l)
      PROVE  TypeOK'
  <2>1. unread' \in BOOLEAN
    BY <1>9 DEF RenameTemporary, SaveFails, process, TypeOK
  <2> QED
    BY <1>9, <2>1 DEF RenameTemporary, SaveFails, process, TypeOK, InPoll
<1>10. ASSUME NEW l \in Loops, Observed(l)
       PROVE  TypeOK'
  BY <1>10, RearmTypes DEF Observed, TypeOK
<1>11. ASSUME NEW l \in Loops, ObserverThrowsAgain(l) \/ TimerFires(l)
       PROVE  TypeOK'
  BY <1>11 DEF ObserverThrowsAgain, TimerFires, TypeOK, InPoll
<1>12. CASE TargetChanges \/ SampleDue
  BY <1>12 DEF TargetChanges, SampleDue, TypeOK
<1>13. CASE Crash
  <2>1. /\ 0 \in 0..WebhookAttempts /\ 0 \in 0..MaxSamples
        /\ BaseBackoff \in BaseBackoff..MaxBackoff
        /\ crashes' \in 0..MaxCrashes
    BY <1>13 DEF Crash, TypeOK
  <2> QED
    BY <1>13, <2>1 DEF Crash, TypeOK
<1>14. CASE Boot \/ BootUnread
  <2>1. samples' \in 0..MaxSamples
    BY <1>14, DaemonAssumption DEF DaemonAssumption, Boot, BootUnread, Load, TypeOK
  <2>2. unread' \in BOOLEAN
    BY <1>14 DEF Boot, BootUnread
  <2> QED
    BY <1>14, <2>1, <2>2 DEF Load, Boot, BootUnread, TypeOK
<1> QED
  BY <1>1, <1>2, <1>3, <1>4, <1>5, <1>6, <1>7, <1>8, <1>9, <1>10, <1>11, <1>12, <1>13, <1>14
  DEF Next, Poll

\* Every variable keeps its type: the backoff never leaves its bounds, and no
\* webhook is tried more often than it may.
THEOREM TypeCorrect == Spec => []TypeOK
<1> QED
  BY TypesStart, TypesStep, PTL DEF Spec

-----------------------------------------------------------------------------
(* The loops. *)

\* What an action of a poll does to the places of the loops.
Moves(l, to) == pc' = [pc EXCEPT ![l] = to]

\* A step of a poll moves its own loop only, from where it was active, and
\* never to "none" unless the daemon was stopped or the observer threw.
LEMMA PollMoves ==
    ASSUME TypeOK, NEW l \in Loops, Poll(l)
    PROVE  /\ pc[l] # "none"
           /\ \E to \in InPoll \cup {"none", "waiting"} :
                 /\ Moves(l, to)
                 /\ to = "waiting" => running /\ timer' = l
                 /\ to = "none" => ~running \/ observerThrew'
           /\ \A k \in Loops : pc'[k] = "waiting" => pc[k] = "waiting" \/ k = l
           /\ UNCHANGED running
           /\ restartedMidPoll' = restartedMidPoll
           /\ observerThrew => observerThrew'
           /\ timer' \in {timer, l}
<1> USE DEF Moves, InPoll, TypeOK, daemon, sla, process
<1>1. CASE Response(l)
  BY <1>1 DEF Response, Remember, Sample
<1>2. CASE FetchFails(l) \/ ObserverThrows(l)
  BY <1>2 DEF FetchFails, ObserverThrows, Sample
<1>3. CASE WebhookDone(l)
  BY <1>3 DEF WebhookDone, Remember, Sample
<1>4. CASE WebhookRetry(l)
  <2>1. pc' = [pc EXCEPT ![l] = "notifying"]
    BY <1>4 DEF WebhookRetry
  <2> QED
    BY <1>4, <2>1 DEF WebhookRetry
<1>5. CASE OpenTemporary(l) \/ WriteTemporary(l) \/ RenameTemporary(l) \/ SaveFails(l)
  BY <1>5 DEF OpenTemporary, WriteTemporary, RenameTemporary, SaveFails
<1>6. CASE Observed(l)
  BY <1>6 DEF Observed, Rearm
<1>7. CASE ObserverThrowsAgain(l) \/ TimerFires(l)
  BY <1>7 DEF ObserverThrowsAgain, TimerFires
<1> QED
  BY <1>1, <1>2, <1>3, <1>4, <1>5, <1>6, <1>7 DEF Poll

\* At most one loop is active, and if it waits, its timer is the one stop()
\* clears and the daemon has not been stopped.
Alone ==
    /\ \A k, l \in Loops : pc[k] # "none" /\ pc[l] # "none" => k = l
    /\ \A l \in Loops : pc[l] = "waiting" => timer = l /\ running

LoopInv ==
    /\ TypeOK
    /\ RunningMeansLooping
    /\ ~restartedMidPoll => Alone

\* Every step keeps the loops as they must be.
LEMMA LoopStep == LoopInv /\ [Next]_vars => LoopInv'
<1> SUFFICES ASSUME LoopInv, [Next]_vars
             PROVE  RunningMeansLooping' /\ (~restartedMidPoll' => Alone')
  BY TypesStep DEF LoopInv
<1> USE DEF LoopInv, RunningMeansLooping, Active, Alone
<1>1. CASE UNCHANGED vars
  BY <1>1 DEF vars, daemon, process
<1>2. ASSUME NEW l \in Loops, Start(l)
      PROVE  RunningMeansLooping' /\ (~restartedMidPoll' => Alone')
  <2>1. pc' = [pc EXCEPT ![l] = "fetching"] /\ ~running
    BY <1>2 DEF Start
  <2>2. pc'[l] = "fetching" /\ \A k \in Loops \ {l} : pc'[k] = pc[k]
    BY <2>1 DEF TypeOK
  <2>3. ASSUME ~restartedMidPoll'
        PROVE  ~restartedMidPoll /\ \A k \in Loops : pc[k] = "none"
    <3>1. ~restartedMidPoll /\ \A k \in Loops : pc[k] \notin InPoll
      BY <1>2, <2>3 DEF Start
    <3>2. \A k \in Loops : pc[k] # "waiting"
      BY <2>1, <3>1
    <3> QED
      BY <3>1, <3>2 DEF TypeOK
  <2> QED
    BY <2>2, <2>3
<1>3. CASE Stop
  <2>1. /\ running' = FALSE /\ restartedMidPoll' = restartedMidPoll
        /\ pc' = [l \in Loops |-> IF l = timer /\ pc[l] = "waiting" THEN "none" ELSE pc[l]]
    BY <1>3 DEF Stop, process
  <2>2. \A l \in Loops : pc'[l] \in {pc[l], "none"} /\ (pc'[l] = "waiting" => l # timer)
    BY <2>1
  <2> QED
    BY <2>1, <2>2
<1>4. ASSUME NEW l \in Loops, Poll(l)
      PROVE  RunningMeansLooping' /\ (~restartedMidPoll' => Alone')
  <2>1. PICK to \in InPoll \cup {"none", "waiting"} :
            /\ Moves(l, to)
            /\ to = "waiting" => running /\ timer' = l
            /\ to = "none" => ~running \/ observerThrew'
    BY <1>4, PollMoves
  <2>2. /\ pc[l] # "none"
        /\ UNCHANGED running /\ restartedMidPoll' = restartedMidPoll
        /\ observerThrew => observerThrew'
    BY <1>4, PollMoves
  <2>3. pc'[l] = to /\ \A k \in Loops \ {l} : pc'[k] = pc[k]
    BY <2>1 DEF Moves, TypeOK
  <2>4. RunningMeansLooping'
    BY <2>1, <2>2, <2>3
  <2>5. ASSUME ~restartedMidPoll
        PROVE  Alone'
    <3>1. \A k \in Loops \ {l} : pc'[k] = "none"
      BY <2>2, <2>3, <2>5
    <3> QED
      BY <2>1, <2>2, <2>3, <3>1
  <2> QED
    BY <2>2, <2>4, <2>5
<1>5. CASE Crash
  BY <1>5 DEF Crash
<1>6. CASE TargetChanges \/ SampleDue \/ Boot \/ BootUnread
  BY <1>6 DEF TargetChanges, SampleDue, Boot, BootUnread, Load, daemon, process
<1> QED
  BY <1>1, <1>2, <1>3, <1>4, <1>5, <1>6 DEF Next

\* The loops are as they must be in every state.
LEMMA LoopAlways == Spec => []LoopInv
<1>1. Init => LoopInv
  <2> SUFFICES ASSUME Init
               PROVE  LoopInv
    OBVIOUS
  <2>1. ~running /\ \A l \in Loops : pc[l] = "none"
    BY DEF Init
  <2> QED
    BY <2>1, TypesStart DEF LoopInv, RunningMeansLooping, Alone
<1> QED
  BY <1>1, LoopStep, PTL DEF Spec

\* A daemon that believes it runs has a poll under way or armed, whatever
\* fails and however stop() and start() fall between the awaits of its polls.
THEOREM RunningLoops == Spec => []RunningMeansLooping
<1>1. LoopInv => RunningMeansLooping
  BY DEF LoopInv
<1> QED
  BY <1>1, LoopAlways, PTL

\* Unless a start() overtakes a poll, there is at most one loop.
THEOREM AtMostOneLoop == Spec => []OneLoop
<1>1. LoopInv => OneLoop
  <2> SUFFICES ASSUME LoopInv, ~restartedMidPoll
               PROVE  Cardinality(Active) <= 1
    BY DEF OneLoop
  <2>1. \A k, l \in Active : k = l
    BY DEF LoopInv, Alone, Active
  <2>2. CASE Active = {}
    BY <2>2, FS_EmptySet
  <2>3. CASE Active # {}
    <3>1. PICK l \in Active : TRUE
      BY <2>3
    <3>2. Active = {l}
      BY <2>1, <3>1
    <3> QED
      BY <3>2, FS_Singleton
  <2> QED
    BY <2>2, <2>3
<1> QED
  BY <1>1, LoopAlways, PTL

-----------------------------------------------------------------------------
(* The webhook, and the history. *)

\* A poll that waits for the webhook has tried it.
Tried == \A l \in Loops : pc[l] = "notifying" => try[l] >= 1

\* Every step keeps it.
LEMMA TriedStep == TypeOK /\ Tried /\ [Next]_vars => Tried'
<1> SUFFICES ASSUME TypeOK, Tried, [Next]_vars, NEW k \in Loops, pc'[k] = "notifying"
             PROVE  try'[k] >= 1
  BY DEF Tried
<1> USE DEF Tried, TypeOK, daemon, sla, process
<1>1. CASE UNCHANGED vars
  BY <1>1 DEF vars
<1>2. ASSUME NEW l \in Loops, Start(l)
      PROVE  try'[k] >= 1
  BY <1>2 DEF Start
<1>3. CASE Stop
  BY <1>3 DEF Stop
<1>4. ASSUME NEW l \in Loops, Response(l)
      PROVE  try'[k] >= 1
  BY <1>4 DEF Response, Remember, Sample
<1>5. ASSUME NEW l \in Loops, WebhookDone(l)
      PROVE  try'[k] >= 1
  BY <1>5 DEF WebhookDone, Remember, Sample
<1>6. ASSUME NEW l \in Loops, WebhookRetry(l)
      PROVE  try'[k] >= 1
  BY <1>6 DEF WebhookRetry
<1>7. ASSUME NEW l \in Loops, FetchFails(l) \/ ObserverThrows(l)
      PROVE  try'[k] >= 1
  BY <1>7 DEF FetchFails, ObserverThrows, Sample
<1>8. ASSUME NEW l \in Loops,
             OpenTemporary(l) \/ WriteTemporary(l) \/ RenameTemporary(l) \/ SaveFails(l)
      PROVE  try'[k] >= 1
  BY <1>8 DEF OpenTemporary, WriteTemporary, RenameTemporary, SaveFails
<1>9. ASSUME NEW l \in Loops, Observed(l) \/ ObserverThrowsAgain(l) \/ TimerFires(l)
      PROVE  try'[k] >= 1
  BY <1>9 DEF Observed, Rearm, ObserverThrowsAgain, TimerFires
<1>10. CASE TargetChanges \/ SampleDue \/ Boot \/ BootUnread
  BY <1>10 DEF TargetChanges, SampleDue, Boot, BootUnread, Load
<1>11. CASE Crash
  BY <1>11 DEF Crash
<1> QED
  BY <1>1, <1>2, <1>3, <1>4, <1>5, <1>6, <1>7, <1>8, <1>9, <1>10, <1>11 DEF Next, Poll

\* The remembered content changes only after its webhook was tried.
THEOREM ChangesAreReported == Spec => NoSilentChange
<1>1. Init => Tried
  BY DEF Init, Tried
<1>2. TypeOK /\ Tried /\ [Next]_vars =>
        [ lastBody # None /\ lastBody' \notin {lastBody, None} =>
            \E l \in Loops :
               pc[l] = "notifying" /\ try[l] >= 1 /\ body[l] = lastBody' ]_vars
  <2> SUFFICES ASSUME TypeOK, Tried, Next, lastBody # None, lastBody' \notin {lastBody, None}
               PROVE  \E l \in Loops :
                         pc[l] = "notifying" /\ try[l] >= 1 /\ body[l] = lastBody'
    OBVIOUS
  <2>1. \E l \in Loops : WebhookDone(l)
    BY DEF Next, Poll, daemon, Start, Stop, Response, Remember, FetchFails, WebhookRetry,
           OpenTemporary, WriteTemporary, RenameTemporary, SaveFails, Observed,
           ObserverThrows, ObserverThrowsAgain, TimerFires, TargetChanges, SampleDue,
           Crash, Boot, BootUnread, Load
  <2> QED
    BY <2>1 DEF WebhookDone, Remember, Tried
<1> QED
  BY <1>1, <1>2, TriedStep, TypeCorrect, PTL DEF Spec, NoSilentChange

\* What a save under way holds is no older than the database and no newer than
\* the history in memory; the file it renames is complete; and a process that
\* is down has no poll.
HistoryInv ==
    /\ db \in Nat /\ (~unread => db <= samples)
    /\ \A l \in Loops :
          /\ pc[l] \in {"writing", "renaming"} =>
                payload[l] <= samples /\ (~unread => db <= payload[l])
          /\ pc[l] = "renaming" => tmp = payload[l]
          /\ pc[l] # "none" => up

\* Every step of a daemon with one loop keeps it, and keeps the database.
LEMMA HistoryStep ==
    LoopInv /\ ~restartedMidPoll /\ HistoryInv /\ [Next]_vars => HistoryInv' /\ (unread \/ db' >= db)
<1> SUFFICES ASSUME LoopInv, ~restartedMidPoll, HistoryInv, [Next]_vars
             PROVE  HistoryInv' /\ (unread \/ db' >= db)
  OBVIOUS
<1>0. /\ TypeOK /\ samples \in Nat /\ db \in Nat /\ Torn \notin Nat
      /\ \A l \in Loops : payload[l] \in Nat
      /\ \A k, l \in Loops : pc[k] # "none" /\ pc[l] # "none" => k = l
  BY DaemonAssumption DEF DaemonAssumption, LoopInv, Alone, HistoryInv, TypeOK
<1>1. CASE UNCHANGED vars
  BY <1>0, <1>1 DEF vars, sla, process, HistoryInv
<1>2. ASSUME NEW l \in Loops, Start(l)
      PROVE  HistoryInv' /\ (unread \/ db' >= db)
  BY <1>0, <1>2 DEF Start, sla, HistoryInv, TypeOK
<1>3. CASE Stop
  BY <1>0, <1>3 DEF Stop, sla, process, HistoryInv, TypeOK
<1>4. ASSUME NEW l \in Loops, pc[l] \notin {"none", "writing", "renaming"}, Sample(l),
             UNCHANGED <<payload, tmp, db, process>>
      PROVE  HistoryInv' /\ (unread \/ db' >= db)
  <2>1. /\ samples' \in Nat /\ samples <= samples'
        /\ pc'[l] \in {"saving", "observing"}
        /\ \A k \in Loops \ {l} : pc[k] = "none" /\ pc'[k] = "none"
    BY <1>0, <1>4 DEF Sample, TypeOK
  <2> QED
    BY <1>0, <1>4, <2>1 DEF HistoryInv, process
<1>5. ASSUME NEW l \in Loops, Response(l)
      PROVE  HistoryInv' /\ (unread \/ db' >= db)
  <2>1. CASE lastBody \notin {None, target}
    BY <1>0, <1>5, <2>1 DEF Response, process, HistoryInv, TypeOK
  <2>2. CASE lastBody \in {None, target}
    BY <1>4, <1>5, <2>2 DEF Response, Remember
  <2> QED
    BY <2>1, <2>2
<1>6. ASSUME NEW l \in Loops, WebhookDone(l) \/ FetchFails(l) \/ ObserverThrows(l)
      PROVE  HistoryInv' /\ (unread \/ db' >= db)
  BY <1>4, <1>6 DEF WebhookDone, Remember, FetchFails, ObserverThrows
<1>7. ASSUME NEW l \in Loops, OpenTemporary(l)
      PROVE  HistoryInv' /\ (unread \/ db' >= db)
  BY <1>0, <1>7 DEF OpenTemporary, process, HistoryInv, TypeOK
<1>8. ASSUME NEW l \in Loops, WriteTemporary(l)
      PROVE  HistoryInv' /\ (unread \/ db' >= db)
  BY <1>0, <1>8 DEF WriteTemporary, process, HistoryInv, TypeOK
<1>9. ASSUME NEW l \in Loops, RenameTemporary(l)
      PROVE  HistoryInv' /\ (unread \/ db' >= db)
  BY <1>0, <1>9 DEF RenameTemporary, process, HistoryInv, TypeOK
<1>10. ASSUME NEW l \in Loops, SaveFails(l)
       PROVE  HistoryInv' /\ (unread \/ db' >= db)
  BY <1>0, <1>10 DEF SaveFails, process, HistoryInv, TypeOK
<1>11. ASSUME NEW l \in Loops,
              WebhookRetry(l) \/ Observed(l) \/ ObserverThrowsAgain(l) \/ TimerFires(l)
       PROVE  HistoryInv' /\ (unread \/ db' >= db)
  <2>1. /\ UNCHANGED <<sla, up, unread>> /\ pc[l] # "none"
        /\ \A k \in Loops : pc'[k] = pc[k] \/ (k = l /\ pc'[k] \in {"none", "waiting", "fetching"})
    <3>1. DOMAIN pc = Loops
      BY DEF LoopInv, TypeOK
    <3>2. CASE WebhookRetry(l)
      BY <3>1, <3>2 DEF WebhookRetry, sla, process
    <3>3. CASE Observed(l)
      BY <3>1, <3>3 DEF Observed, Rearm, sla, process
    <3>4. CASE ObserverThrowsAgain(l) \/ TimerFires(l)
      BY <3>1, <3>4 DEF ObserverThrowsAgain, TimerFires, sla, process
    <3> QED
      BY <1>11, <3>2, <3>3, <3>4
  <2>2. \A k \in Loops : pc'[k] # "none" => up'
    BY <2>1 DEF HistoryInv
  <2>3. UNCHANGED <<db, samples, payload, tmp, unread>>
    BY <2>1 DEF sla
  <2>4. \A k \in Loops : pc'[k] \in {"writing", "renaming"} => pc'[k] = pc[k]
    BY <2>1
  <2> QED
    BY <1>0, <2>2, <2>3, <2>4 DEF HistoryInv
<1>12. CASE TargetChanges \/ SampleDue
  BY <1>0, <1>12 DEF TargetChanges, SampleDue, sla, process, HistoryInv
<1>13. CASE Crash
  BY <1>0, <1>13 DEF Crash, HistoryInv
<1>14. CASE Boot \/ BootUnread
  BY <1>0, <1>14 DEF Boot, BootUnread, Load, HistoryInv
<1> QED
  BY <1>1, <1>2, <1>3, <1>5, <1>6, <1>7, <1>8, <1>9, <1>10, <1>11, <1>12, <1>13, <1>14
  DEF Next, Poll

\* A restart that overtook a poll is never forgotten.
LEMMA RestartRemembered == TypeOK /\ [Next]_vars => (restartedMidPoll => restartedMidPoll')
<1> SUFFICES ASSUME TypeOK, [Next]_vars, restartedMidPoll
             PROVE  restartedMidPoll'
  OBVIOUS
<1>1. ASSUME NEW l \in Loops, Poll(l)
      PROVE  restartedMidPoll'
  BY <1>1, PollMoves
<1> QED
  BY <1>1 DEF Next, vars, process, Start, Stop, TargetChanges, SampleDue, Crash, Boot, BootUnread, Load

\* With one loop no crash and no failed write, at any point of a save, loses
\* history that was on disk or leaves half a file in its place.
THEOREM HistoryKept == Spec => HistoryNeverShrinks
<1> DEFINE Kept == ~restartedMidPoll => HistoryInv
<1>1. Init => Kept
  BY DEF Init, HistoryInv
<1>2. LoopInv /\ Kept /\ [Next]_vars => Kept'
  BY HistoryStep, RestartRemembered DEF LoopInv
<1>3. LoopInv /\ Kept /\ [Next]_vars =>
        [ ~restartedMidPoll' => db' # Torn /\ (unread \/ db' >= db) ]_vars
  <2> SUFFICES ASSUME LoopInv, Kept, Next, ~restartedMidPoll'
               PROVE  db' # Torn /\ (unread \/ db' >= db)
    OBVIOUS
  <2>1. ~restartedMidPoll
    BY RestartRemembered DEF LoopInv
  <2>2. HistoryInv' /\ (unread \/ db' >= db)
    BY <2>1, HistoryStep
  <2> QED
    BY <2>2, DaemonAssumption DEF DaemonAssumption, HistoryInv
<1> QED
  BY <1>1, <1>2, <1>3, LoopAlways, PTL DEF Spec, HistoryNeverShrinks
=============================================================================
