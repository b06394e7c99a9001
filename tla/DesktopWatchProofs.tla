------------------------- MODULE DesktopWatchProofs -------------------------
(***************************************************************************)
(* The safety of DesktopWatch for any folders, files, changes of the disk  *)
(* and commands: nothing of a folder that was left leaks into the status,  *)
(* and the user is told of everything the tray is red for.                 *)
(***************************************************************************)
EXTENDS DesktopWatch, FiniteSetTheorems, TLAPS

Known(s) == IF s = None THEN {} ELSE DOMAIN s

\* A scan that is not under way, or has not listed yet, holds nothing.
ScanClean ==
    /\ phase \in {"idle", "listing"} => paths = {} /\ DOMAIN read = {}
    /\ phase = "reading" => DOMAIN read = {}

FolderInv ==
    /\ events \ {None} \subseteq FilesOf(directory)
    /\ waiting \subseteq FilesOf(directory)
    /\ paths \subseteq FilesOf(directory)
    /\ DOMAIN read \subseteq FilesOf(directory)
    /\ Known(snapshot) \subseteq FilesOf(directory)
    /\ ScanClean

\* Publishing keeps the files it publishes among those it knew or has read.
LEMMA PublishedFiles ==
    ASSUME Publish
    PROVE  Known(snapshot') \subseteq Known(snapshot) \cup DOMAIN read
<1>1. CASE partial /\ snapshot # None
  <2>1. DOMAIN MergeScan(snapshot, read) \subseteq DOMAIN snapshot \cup DOMAIN read
    BY DEF MergeScan
  <2> QED
    BY <1>1, <2>1 DEF Publish, Known
<1>2. CASE ~(partial /\ snapshot # None)
  BY <1>2 DEF Publish, Known
<1> QED
  BY <1>1, <1>2

\* Every step keeps what is known, waits and is scanned inside the folder.
LEMMA FolderStep == FolderInv /\ [Next]_vars => FolderInv'
<1> SUFFICES ASSUME FolderInv, [Next]_vars
             PROVE  FolderInv'
  OBVIOUS
<1> USE DEF FolderInv, ScanClean, watcher, scan, world, user
<1>1. CASE UNCHANGED vars
  BY <1>1 DEF vars, FilesOf, Known
<1>2. ASSUME NEW f \in Files, Change(f)
      PROVE  FolderInv'
  <2>1. events' \ {None} \subseteq FilesOf(directory')
    BY <1>2 DEF Change, Watched, FilesOf
  <2> QED
    BY <1>2, <2>1 DEF Change, FilesOf, Known
<1>3. ASSUME NEW e \in Files \cup {None}, Push(e)
      PROVE  FolderInv'
  <2>1. waiting' \subseteq FilesOf(directory)
    BY <1>3, DesktopAssumption DEF Push, DesktopAssumption, FilesOf
  <2>2. events' \ {None} \subseteq FilesOf(directory) /\ UNCHANGED <<scan, directory, snapshot>>
    BY <1>3 DEF Push
  <2> QED
    BY <2>1, <2>2 DEF FilesOf, Known
<1>4. CASE Flush
  BY <1>4 DEF Flush, FilesOf, Known
<1>5. CASE List
  <2>1. paths' \subseteq FilesOf(directory) /\ phase' = "reading"
    BY <1>5 DEF List
  <2>2. DOMAIN read' = {} /\ UNCHANGED <<events, waiting, directory, snapshot>>
    BY <1>5 DEF List
  <2> QED
    BY <2>1, <2>2 DEF FilesOf, Known
<1>6. CASE ReadFiles
  BY <1>6 DEF ReadFiles, FilesOf, Known
<1>7. CASE Publish
  <2>1. Known(snapshot') \subseteq FilesOf(directory)
    BY <1>7, PublishedFiles
  <2>2. paths' = {} /\ DOMAIN read' = {} /\ UNCHANGED <<events, waiting, directory>> /\ phase' = "idle"
    BY <1>7 DEF Publish, Nothing
  <2> QED
    BY <2>1, <2>2 DEF FilesOf, Known
<1>8. ASSUME NEW d \in Folders, ChooseFolder(d)
      PROVE  FolderInv'
  BY <1>8 DEF ChooseFolder, Command, StopWatcher, Known
<1>9. CASE Rescan
  BY <1>9 DEF Rescan, Command, FilesOf, Known
<1>10. CASE StopWatching
  BY <1>10 DEF StopWatching, Command, StopWatcher, Known
<1>11. CASE WatchFails
  BY <1>11 DEF WatchFails, FilesOf, Known
<1> QED
  BY <1>1, <1>2, <1>3, <1>4, <1>5, <1>6, <1>7, <1>8, <1>9, <1>10, <1>11 DEF Next

\* No event, batch, scan or status of a folder outlives the choice of another.
THEOREM FoldersNeverMix == Spec => []StaysInFolder
<1>1. Init => FolderInv
  BY DEF Init, FolderInv, ScanClean, Known, Nothing
<1>2. FolderInv => StaysInFolder
  BY DEF FolderInv, StaysInFolder, Known
<1> QED
  BY <1>1, <1>2, FolderStep, PTL DEF Spec

-----------------------------------------------------------------------------
(* The notification policy. *)

IsStatuses(s) == \A f \in DOMAIN s : s[f] \in Statuses

StatusInv ==
    /\ disk \in [Files -> Statuses \cup {Absent}]
    /\ paths \subseteq Files
    /\ IsStatuses(read)
    /\ snapshot # None => IsStatuses(snapshot)
    /\ BrokenIsTold

\* The weight of a status is a number, and zero only for a clean file.
LEMMA WeightPositive ==
    ASSUME NEW s \in Statuses
    PROVE  ErrorWeight(s) \in Nat /\ (ErrorWeight(s) = 0 <=> s = 0)
BY DesktopAssumption DEF DesktopAssumption, Statuses, ErrorWeight

\* What a scan has read of a file is a status.
LEMMA ScannedStatus ==
    ASSUME disk \in [Files -> Statuses \cup {Absent}], NEW f \in Files
    PROVE  Scanned(f) \in Statuses
BY DEF Scanned, Statuses

\* A file the new status is red for is raised, or was red before; and it is
\* not announced as resolved.
LEMMA RedIsRaised ==
    ASSUME NEW previous, previous # None => IsStatuses(previous),
           NEW current, current # None, IsStatuses(current),
           NEW f \in DOMAIN current, current[f] # 0
    PROVE  /\ f \in Raised(previous, current)
              \/ (previous # None /\ f \in DOMAIN previous /\ previous[f] # 0)
           /\ f \notin Resolved(previous, current)
<1>1. WeightIn(current, f) \in Nat /\ WeightIn(current, f) # 0
  BY WeightPositive DEF WeightIn, IsStatuses
<1>2. f \notin Resolved(previous, current)
  BY <1>1 DEF Resolved
<1>3. CASE previous # None /\ f \in DOMAIN previous
  <2>1. previous[f] \in Statuses
    BY <1>3 DEF IsStatuses
  <2>2. CASE previous[f] = 0
    <3>1. WeightIn(previous, f) = 0
      BY <1>3, <2>1, <2>2, WeightPositive DEF WeightIn
    <3> QED
      BY <1>1, <1>2, <3>1 DEF Raised
  <2> QED
    BY <1>2, <1>3, <2>2
<1>4. CASE ~(previous # None /\ f \in DOMAIN previous)
  <2>1. WeightIn(previous, f) = 0
    BY <1>4 DEF WeightIn
  <2> QED
    BY <1>1, <1>2, <2>1 DEF Raised
<1> QED
  BY <1>3, <1>4

\* A file that is raised is spoken of, by its own notice or by the summary.
LEMMA RaisedIsSpoken ==
    ASSUME NEW previous, NEW current, NEW f \in Raised(previous, current)
    PROVE  NotificationsFor(previous, current) # {}
<1> DEFINE raised == Raised(previous, current)
           resolved == Resolved(previous, current)
<1>1. CASE Cardinality(raised \cup resolved) <= MaxNotifications
  <2>1. [kind |-> "broken", file |-> f] \in [kind : {"broken"}, file : raised]
    OBVIOUS
  <2> QED
    BY <1>1, <2>1 DEF NotificationsFor
<1>2. CASE ~(Cardinality(raised \cup resolved) <= MaxNotifications)
  BY <1>2 DEF NotificationsFor
<1> QED
  BY <1>1, <1>2

\* Only files that are resolved are announced as resolved.
LEMMA OnlyResolved ==
    ASSUME NEW previous, NEW current, NEW f,
           [kind |-> "resolved", file |-> f] \in NotificationsFor(previous, current)
    PROVE  f \in Resolved(previous, current)
<1> DEFINE raised == Raised(previous, current)
           resolved == Resolved(previous, current)
           notice == [kind |-> "resolved", file |-> f]
<1>0. notice.kind = "resolved" /\ notice.file = f
  OBVIOUS
<1>1. CASE Cardinality(raised \cup resolved) <= MaxNotifications
  <2>1. notice \in [kind : {"broken"}, file : raised] \cup [kind : {"resolved"}, file : resolved]
    BY <1>1 DEF NotificationsFor
  <2> HIDE DEF raised, resolved
  <2>2. notice \in [kind : {"resolved"}, file : resolved]
    BY <2>1
  <2>3. f \in resolved
    BY <2>2
  <2> QED
    BY <2>3 DEF resolved
<1>2. CASE ~(Cardinality(raised \cup resolved) <= MaxNotifications)
  <2>1. notice = [kind |-> "summary", count |-> Cardinality(raised)]
    BY <1>2 DEF NotificationsFor
  <2>2. notice.kind = "summary"
    BY <2>1
  <2> QED
    BY <1>0, <2>2
<1> QED
  BY <1>1, <1>2

\* A scan publishes statuses, and tells of every file that is red by them.
LEMMA PublishTells ==
    ASSUME StatusInv, Publish
    PROVE  snapshot' # None => IsStatuses(snapshot') /\ BrokenIsTold'
<1> SUFFICES ASSUME snapshot' # None
             PROVE  IsStatuses(snapshot') /\ BrokenIsTold'
  OBVIOUS
<1>1. IsStatuses(snapshot')
  <2>1. CASE partial /\ snapshot # None
    <3>1. snapshot' = MergeScan(snapshot, read)
      BY <2>1 DEF Publish
    <3>2. \A f \in DOMAIN snapshot' :
             snapshot'[f] = IF f \in DOMAIN read THEN read[f] ELSE snapshot[f]
      BY <3>1 DEF MergeScan
    <3>3. DOMAIN snapshot' \subseteq DOMAIN snapshot \cup DOMAIN read
      BY <3>1 DEF MergeScan
    <3> QED
      BY <2>1, <3>2, <3>3 DEF StatusInv, IsStatuses
  <2>2. CASE ~(partial /\ snapshot # None)
    BY <2>2 DEF Publish, StatusInv
  <2> QED
    BY <2>1, <2>2
<1>2. ASSUME Supported, NEW f \in DOMAIN snapshot', snapshot'[f] # 0
      PROVE  f \in told'
  <2>0. Announced(snapshot, snapshot') = NotificationsFor(snapshot, snapshot')
    BY <1>2 DEF Announced
  <2>1. /\ f \in Raised(snapshot, snapshot')
           \/ (snapshot # None /\ f \in DOMAIN snapshot /\ snapshot[f] # 0)
        /\ f \notin Resolved(snapshot, snapshot')
    BY <1>1, <1>2, RedIsRaised DEF StatusInv
  <2>2. told' = Believed(snapshot, snapshot')
    BY DEF Publish
  <2>3. [kind |-> "resolved", file |-> f] \notin NotificationsFor(snapshot, snapshot')
    BY <2>1, OnlyResolved
  <2>4. CASE f \in Raised(snapshot, snapshot')
    <3>1. NotificationsFor(snapshot, snapshot') # {}
      BY <2>4, RaisedIsSpoken
    <3> QED
      BY <2>0, <2>2, <2>3, <2>4, <3>1 DEF Believed
  <2>5. CASE snapshot # None /\ f \in DOMAIN snapshot /\ snapshot[f] # 0
    <3>1. f \in told
      BY <1>2, <2>5 DEF StatusInv, BrokenIsTold
    <3> QED
      BY <2>0, <2>2, <2>3, <3>1 DEF Believed
  <2> QED
    BY <2>1, <2>4, <2>5
<1> QED
  BY <1>1, <1>2 DEF BrokenIsTold

\* Every step keeps statuses statuses, and the user informed.
LEMMA StatusStep == FolderInv /\ StatusInv /\ [Next]_vars => StatusInv'
<1> SUFFICES ASSUME FolderInv, StatusInv, [Next]_vars
             PROVE  StatusInv'
  OBVIOUS
<1> USE DEF watcher, scan, world, user
<1>1. CASE UNCHANGED <<disk, paths, read, snapshot, told>>
  BY <1>1 DEF StatusInv, IsStatuses, BrokenIsTold
<1>2. ASSUME NEW f \in Files, Change(f)
      PROVE  StatusInv'
  <2>1. disk' \in [Files -> Statuses \cup {Absent}] /\ UNCHANGED <<paths, read, snapshot, told>>
    BY <1>2 DEF Change, StatusInv
  <2> QED
    BY <2>1 DEF StatusInv, IsStatuses, BrokenIsTold
<1>3. ASSUME NEW e \in Files \cup {None}, Push(e)
      PROVE  StatusInv'
  BY <1>1, <1>3 DEF Push
<1>4. CASE Flush
  <2>1. paths' \subseteq Files /\ UNCHANGED <<disk, read, snapshot, told>>
    BY <1>4 DEF Flush, StatusInv, FolderInv, FilesOf
  <2> QED
    BY <2>1 DEF StatusInv, IsStatuses, BrokenIsTold
<1>5. CASE List
  <2>1. paths' \subseteq Files /\ UNCHANGED <<disk, read, snapshot, told>>
    BY <1>5 DEF List, FilesOf
  <2> QED
    BY <2>1 DEF StatusInv, IsStatuses, BrokenIsTold
<1>6. CASE ReadFiles
  <2>1. read' = [f \in paths |-> Scanned(f)] /\ UNCHANGED <<disk, paths, snapshot, told>>
    BY <1>6 DEF ReadFiles
  <2>2. \A f \in paths : Scanned(f) \in Statuses
    BY ScannedStatus DEF StatusInv
  <2>3. IsStatuses(read')
    BY <2>1, <2>2 DEF IsStatuses
  <2> QED
    BY <2>1, <2>3 DEF StatusInv, IsStatuses, BrokenIsTold
<1>7. CASE Publish
  <2>1. snapshot' # None => IsStatuses(snapshot') /\ BrokenIsTold'
    BY <1>7, PublishTells
  <2>2. paths' = {} /\ DOMAIN read' = {} /\ UNCHANGED disk
    BY <1>7 DEF Publish, Nothing
  <2> QED
    BY <2>1, <2>2 DEF StatusInv, IsStatuses, BrokenIsTold
<1>8. ASSUME NEW d \in Folders, ChooseFolder(d)
      PROVE  StatusInv'
  BY <1>8 DEF ChooseFolder, StatusInv, IsStatuses, BrokenIsTold
<1>9. CASE Rescan
  BY <1>1, <1>9 DEF Rescan
<1>10. CASE StopWatching
  BY <1>10 DEF StopWatching, StatusInv, IsStatuses, BrokenIsTold
<1>11. CASE WatchFails
  BY <1>1, <1>11 DEF WatchFails
<1> QED
  BY <1>1, <1>2, <1>3, <1>4, <1>5, <1>6, <1>7, <1>8, <1>9, <1>10, <1>11 DEF Next, vars

\* Where the system shows notifications, every file the tray is red for has been
\* announced since its folder was chosen, by its own notice or by a summary.
THEOREM EveryBreakIsTold == Spec => []BrokenIsTold
<1>1. Init => FolderInv /\ StatusInv
  BY DEF Init, FolderInv, ScanClean, Known, StatusInv, IsStatuses, BrokenIsTold, Nothing
<1>2. StatusInv => BrokenIsTold
  BY DEF StatusInv
<1> QED
  BY <1>1, <1>2, FolderStep, StatusStep, PTL DEF Spec

-----------------------------------------------------------------------------
(* Types, and with them the limit on notices. *)

\* A snapshot is a function from some of the files to their statuses.
LEMMA SnapshotIntro ==
    ASSUME NEW S \in SUBSET Files, NEW s \in [S -> Statuses]
    PROVE  s \in Snapshots
BY DEF Snapshots

\* Merging two snapshots gives a snapshot.
LEMMA MergeIsSnapshot ==
    ASSUME NEW previous \in Snapshots, NEW rescanned \in Snapshots
    PROVE  MergeScan(previous, rescanned) \in Snapshots
<1> DEFINE kept == (DOMAIN previous \ DOMAIN rescanned)
                       \cup {f \in DOMAIN rescanned : disk[f] # Absent}
<1>1. PICK P \in SUBSET Files : previous \in [P -> Statuses]
  BY DEF Snapshots
<1>2. PICK R \in SUBSET Files : rescanned \in [R -> Statuses]
  BY DEF Snapshots
<1>3. kept \in SUBSET Files
  BY <1>1, <1>2
<1>4. \A f \in kept : IF f \in DOMAIN rescanned THEN rescanned[f] \in Statuses ELSE previous[f] \in Statuses
  BY <1>1, <1>2
<1>5. MergeScan(previous, rescanned) \in [kept -> Statuses]
  BY <1>4 DEF MergeScan
<1> HIDE DEF kept
<1> QED
  BY <1>3, <1>5, SnapshotIntro

\* Whatever two scans say, no more notices are raised than the limit, and
\* each is one of the kinds there are.
LEMMA NoticesLimited ==
    ASSUME NEW previous, previous = None \/ previous \in Snapshots,
           NEW current \in Snapshots
    PROVE  /\ NotificationsFor(previous, current) \subseteq Notices
           /\ Cardinality(NotificationsFor(previous, current)) <= MaxNotifications
<1> DEFINE raised == Raised(previous, current)
           resolved == Resolved(previous, current)
           notices2 == [kind : {"broken"}, file : raised] \cup [kind : {"resolved"}, file : resolved]
           notice == [f \in raised \cup resolved |->
                        IF f \in raised THEN [kind |-> "broken", file |-> f]
                                        ELSE [kind |-> "resolved", file |-> f]]
<1>1. raised \subseteq Files /\ resolved \subseteq Files
  BY DEF Raised, Resolved, Snapshots
<1>2. IsFiniteSet(raised) /\ IsFiniteSet(raised \cup resolved) /\ Cardinality(raised) <= Cardinality(Files)
  BY <1>1, FS_Subset, DesktopAssumption DEF DesktopAssumption
<1>3. Cardinality(raised) \in Nat /\ Cardinality(raised \cup resolved) \in Nat /\ Cardinality(Files) \in Nat
  BY <1>2, FS_CardinalityType, DesktopAssumption DEF DesktopAssumption
<1>4. \A f \in raised : f \notin resolved
  <2> SUFFICES ASSUME NEW f \in raised, f \in resolved
               PROVE  FALSE
    OBVIOUS
  <2>1. WeightIn(current, f) = 0 /\ WeightIn(previous, f) > 0 /\ WeightIn(current, f) > WeightIn(previous, f)
    BY DEF Raised, Resolved
  <2>2. previous # None /\ f \in DOMAIN previous => previous[f] \in Statuses
    BY DEF Snapshots
  <2>3. WeightIn(previous, f) \in Nat
    BY <2>2, WeightPositive DEF WeightIn
  <2> QED
    BY <2>1, <2>3
<1> HIDE DEF raised, resolved
<1>5. CASE Cardinality(raised \cup resolved) <= MaxNotifications
  <2>1. NotificationsFor(previous, current) = notices2
    BY <1>5 DEF NotificationsFor, raised, resolved
  <2>2. notices2 \subseteq Notices
    BY <1>1 DEF Notices
  <2>3. notice \in Surjection(raised \cup resolved, notices2)
    <3>1. notice \in [raised \cup resolved -> notices2]
      OBVIOUS
    <3>2. \A n \in notices2 : \E f \in raised \cup resolved : notice[f] = n
      <4> SUFFICES ASSUME NEW n \in notices2
                   PROVE  \E f \in raised \cup resolved : notice[f] = n
        OBVIOUS
      <4>1. CASE n \in [kind : {"broken"}, file : raised]
        <5>1. n.file \in raised /\ n = [kind |-> "broken", file |-> n.file]
          BY <4>1
        <5> QED
          BY <5>1
      <4>2. CASE n \in [kind : {"resolved"}, file : resolved]
        <5>1. n.file \in resolved /\ n = [kind |-> "resolved", file |-> n.file]
          BY <4>2
        <5>2. n.file \notin raised
          BY <1>4, <5>1
        <5> QED
          BY <5>1, <5>2
      <4> QED
        BY <4>1, <4>2
    <3> QED
      BY <3>1, <3>2 DEF Surjection
  <2>4. Cardinality(notices2) <= Cardinality(raised \cup resolved) /\ IsFiniteSet(notices2)
    BY <1>2, <2>3, FS_Surjection
  <2>5. Cardinality(notices2) \in Nat
    BY <2>4, FS_CardinalityType
  <2> QED
    BY <1>3, <1>5, <2>1, <2>2, <2>4, <2>5, DesktopAssumption DEF DesktopAssumption
<1>6. CASE ~(Cardinality(raised \cup resolved) <= MaxNotifications)
  <2>1. NotificationsFor(previous, current) = {[kind |-> "summary", count |-> Cardinality(raised)]}
    BY <1>6 DEF NotificationsFor, raised, resolved
  <2>2. [kind |-> "summary", count |-> Cardinality(raised)] \in Notices
    BY <1>2, <1>3 DEF Notices
  <2>3. Cardinality(NotificationsFor(previous, current)) = 1
    BY <2>1, FS_Singleton
  <2>4. 1 <= MaxNotifications
    BY DesktopAssumption DEF DesktopAssumption
  <2>5. NotificationsFor(previous, current) \subseteq Notices
    BY <2>1, <2>2
  <2> QED
    BY <2>3, <2>4, <2>5, DesktopAssumption DEF DesktopAssumption
<1> QED
  BY <1>5, <1>6

\* Nor are more shown: all of them, or none where the system shows none.
LEMMA AnnouncedLimited ==
    ASSUME NEW previous, previous = None \/ previous \in Snapshots,
           NEW current \in Snapshots
    PROVE  /\ Announced(previous, current) \subseteq Notices
           /\ Cardinality(Announced(previous, current)) <= MaxNotifications
<1>1. CASE Supported
  BY <1>1, NoticesLimited DEF Announced
<1>2. CASE ~Supported
  BY <1>2, FS_EmptySet, DesktopAssumption DEF Announced, DesktopAssumption
<1> QED
  BY <1>1, <1>2

\* Initially every variable has its type.
LEMMA TypesStart == Init => TypeOK
<1> SUFFICES ASSUME Init
             PROVE  TypeOK
  OBVIOUS
<1>1. Nothing \in Snapshots
  <2>1. Nothing \in [{} -> Statuses] /\ {} \in SUBSET Files
    BY DEF Nothing
  <2> QED
    BY <2>1, SnapshotIntro
<1>2. Cardinality({}) <= MaxNotifications
  BY FS_EmptySet, DesktopAssumption DEF DesktopAssumption
<1>3. 0 \in 0..MaxSaves /\ 0 \in 0..MaxCommands
  BY DesktopAssumption DEF DesktopAssumption
<1> QED
  BY <1>1, <1>2, <1>3 DEF Init, TypeOK

\* Every step keeps the types.
LEMMA TypesStep == TypeOK /\ [Next]_vars => TypeOK'
<1> SUFFICES ASSUME TypeOK, [Next]_vars
             PROVE  TypeOK'
  OBVIOUS
<1> USE DEF watcher, scan, world, user
<1>1. CASE UNCHANGED vars
  BY <1>1 DEF vars, TypeOK
<1>2. ASSUME NEW f \in Files, Change(f)
      PROVE  TypeOK'
  <2>1. saves' \in 0..MaxSaves
    BY <1>2, DesktopAssumption DEF DesktopAssumption, Change, TypeOK
  <2>2. disk' \in [Files -> Statuses \cup {Absent}]
    BY <1>2 DEF Change, TypeOK
  <2>3. events' \subseteq Files \cup {None} /\ unseen' \subseteq Files
    BY <1>2 DEF Change, TypeOK
  <2> QED
    BY <1>2, <2>1, <2>2, <2>3 DEF Change, TypeOK
<1>3. ASSUME NEW e \in Files \cup {None}, Push(e)
      PROVE  TypeOK'
  BY <1>3 DEF Push, TypeOK
<1>4. CASE Flush
  <2>1. CASE waiting = {} \/ directory = None
    BY <1>4, <2>1 DEF Flush, TypeOK
  <2>2. CASE ~(waiting = {} \/ directory = None)
    BY <1>4, <2>2 DEF Flush, TypeOK
  <2> QED
    BY <2>1, <2>2
<1>5. CASE List
  BY <1>5 DEF List, FilesOf, TypeOK
<1>6. CASE ReadFiles
  <2>1. \A f \in paths : Scanned(f) \in Statuses
    BY ScannedStatus DEF TypeOK
  <2>2. read' \in [paths -> Statuses]
    BY <1>6, <2>1 DEF ReadFiles
  <2>3. read' \in Snapshots
    BY <2>2, SnapshotIntro DEF TypeOK
  <2> QED
    BY <1>6, <2>3 DEF ReadFiles, TypeOK
<1>7. CASE Publish
  <2>1. Nothing \in Snapshots
    <3>1. Nothing \in [{} -> Statuses] /\ {} \in SUBSET Files
      BY DEF Nothing
    <3> QED
      BY <3>1, SnapshotIntro
  <2>2. snapshot' \in Snapshots
    BY <1>7, MergeIsSnapshot DEF Publish, TypeOK
  <2>3. notices' \subseteq Notices /\ Cardinality(notices') <= MaxNotifications
    BY <1>7, <2>2, AnnouncedLimited DEF Publish, TypeOK
  <2>4. Raised(snapshot, snapshot') \subseteq Files
    BY <2>2 DEF Raised, Snapshots
  <2>5. told' \subseteq Files
    BY <1>7, <2>4 DEF Publish, Believed, TypeOK
  <2>6. tray' \in {"idle", "ok", "error"}
    BY <1>7 DEF Publish, TrayStateFor
  <2> QED
    BY <1>7, <2>1, <2>2, <2>3, <2>5, <2>6 DEF Publish, TypeOK
<1>8. ASSUME NEW d \in Folders, ChooseFolder(d)
      PROVE  TypeOK'
  <2>1. commands' \in 0..MaxCommands
    BY <1>8, DesktopAssumption DEF DesktopAssumption, ChooseFolder, Command, TypeOK
  <2> QED
    BY <1>8, <2>1 DEF ChooseFolder, StopWatcher, TypeOK
<1>9. CASE Rescan
  <2>1. commands' \in 0..MaxCommands
    BY <1>9, DesktopAssumption DEF DesktopAssumption, Rescan, Command, TypeOK
  <2> QED
    BY <1>9, <2>1 DEF Rescan, TypeOK
<1>10. CASE StopWatching
  <2>1. commands' \in 0..MaxCommands
    BY <1>10, DesktopAssumption DEF DesktopAssumption, StopWatching, Command, TypeOK
  <2> QED
    BY <1>10, <2>1 DEF StopWatching, StopWatcher, TypeOK
<1>11. CASE WatchFails
  BY <1>11 DEF WatchFails, TypeOK
<1> QED
  BY <1>1, <1>2, <1>3, <1>4, <1>5, <1>6, <1>7, <1>8, <1>9, <1>10, <1>11 DEF Next

\* Every variable keeps its type; in particular a scan never raises more
\* notices than MAX_NOTIFICATIONS, however many files change at once.
THEOREM TypeCorrect == Spec => []TypeOK
<1> QED
  BY TypesStart, TypesStep, PTL DEF Spec
=============================================================================
