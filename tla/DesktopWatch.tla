---------------------------- MODULE DesktopWatch ----------------------------
(***************************************************************************)
(* The tray application (apps/desktop/src): the directory watcher and its  *)
(* batcher (watcher.ts), the scan and the merge of a partial scan          *)
(* (scanner.ts), the tray state and the notification policy (status.ts),   *)
(* and the commands that put them together (main.ts).                      *)
(*                                                                         *)
(* The main process is one thread, but the folder is not its own: a scan   *)
(* is three steps (list, read, publish) so that files change, vanish and   *)
(* come back between them.  While it runs no event is delivered and no     *)
(* timer fires.                                                            *)
(*                                                                         *)
(* A file is told by the number of errors lint() reports in it.  Warnings, *)
(* which never notify, are left out.                                       *)
(***************************************************************************)
EXTENDS Naturals, FiniteSets

CONSTANTS
    Folders,           \* folders the user may choose
    Files,             \* lintable paths, each as <<its folder, its name>>
    Nested,            \* those below a sub-folder of their folder
    Deep,              \* those more than DEFAULT_MAX_DEPTH folders below
    Supported,         \* Notification.isSupported()
    MaxErrors,         \* bound on the errors of a file
    MaxNotifications,  \* MAX_NOTIFICATIONS
    MaxSaves,          \* bound on the changes of the disk
    MaxCommands,       \* bound on the commands of the user
    Absent, Unreadable,
    None               \* undefined, null

ASSUME DesktopAssumption ==
    /\ IsFiniteSet(Files) /\ \A f \in Files : f[1] \in Folders
    /\ Deep \subseteq Nested /\ Nested \subseteq Files
    /\ Supported \in BOOLEAN
    /\ MaxErrors \in Nat /\ MaxNotifications \in Nat \ {0}
    /\ MaxSaves \in Nat /\ MaxCommands \in Nat
    /\ Absent # Unreadable /\ {Absent, Unreadable} \cap Nat = {}
    /\ None \notin Folders \cup Files

FilesOf(d) == {f \in Files : f[1] = d}

VARIABLES
    disk,      \* per file: what is there
    events,    \* what fs.watch has still to report: files, or None for a change it
               \* names no lintable file of
    directory, snapshot,  \* AppState; an undefined snapshot is None
    mode,      \* what the DirectoryWatcher covers
    waiting, armed,       \* the batcher: its set, its timer
    phase,     \* where the scan of the main thread stands
    partial,   \* it is a rescanChanged
    paths,     \* the paths it was given or has listed
    read,      \* what it has read
    tray,      \* the icon
    notices,   \* notifications the last scan raised
    told,      \* files the user was last told are broken (history)
    unseen,    \* files whose last change was reported without their name, or whom
               \* the last walk of the folder passed by (history)
    saves, commands

world == <<disk, saves>>
watcher == <<mode, events, waiting, armed>>
scan == <<phase, partial, paths, read>>
user == <<tray, notices, told>>
vars == <<world, watcher, scan, directory, snapshot, user, unseen, commands>>

Statuses == (0..MaxErrors) \cup {Unreadable}
Snapshots == UNION {[S -> Statuses] : S \in SUBSET Files}
Nothing == [f \in {} |-> Unreadable]
Notices ==
    [kind : {"broken", "resolved"}, file : Files]
        \cup [kind : {"summary"}, count : 0..Cardinality(Files)]

TypeOK ==
    /\ disk \in [Files -> Statuses \cup {Absent}]
    /\ events \subseteq Files \cup {None}
    /\ directory \in Folders \cup {None}
    /\ snapshot = None \/ snapshot \in Snapshots
    /\ mode \in {"off", "flat", "recursive"}
    /\ waiting \subseteq Files
    /\ armed \in BOOLEAN
    /\ phase \in {"idle", "listing", "reading", "publishing"}
    /\ partial \in BOOLEAN
    /\ paths \subseteq Files
    /\ read \in Snapshots
    /\ tray \in {"idle", "ok", "error"}
    /\ notices \subseteq Notices /\ Cardinality(notices) <= MaxNotifications
    /\ told \subseteq Files /\ unseen \subseteq Files
    /\ saves \in 0..MaxSaves
    /\ commands \in 0..MaxCommands

Init ==
    /\ disk \in [Files -> Statuses \cup {Absent}]
    /\ events = {}
    /\ directory = None /\ snapshot = None
    /\ mode = "off"
    /\ waiting = {} /\ armed = FALSE
    /\ phase = "idle" /\ partial = FALSE /\ paths = {} /\ read = Nothing
    /\ tray = "idle"
    /\ notices = {} /\ told = {} /\ unseen = {}
    /\ saves = 0 /\ commands = 0

-----------------------------------------------------------------------------
(* The disk (external), and the watcher. *)

Watched(f) ==
    /\ f[1] = directory
    /\ mode = "recursive" \/ (mode = "flat" /\ f \notin Nested)

\* A file changes, and the watch reports it by its name, or only that something
\* changed: without a name, or by that of a folder that came or went.
Change(f) ==
    /\ saves < MaxSaves
    /\ saves' = saves + 1
    /\ \E c \in Statuses \cup {Absent} : c # disk[f] /\ disk' = [disk EXCEPT ![f] = c]
    /\ IF Watched(f)
       THEN \/ events' = events \cup {f} /\ UNCHANGED unseen
            \/ events' = events \cup {None} /\ unseen' = unseen \cup {f}
       ELSE UNCHANGED <<events, unseen>>
    /\ UNCHANGED <<mode, waiting, armed, scan, directory, snapshot, user, commands>>

\* The watcher's error is shown in the window; it reports nothing from then on.
WatchFails ==
    /\ phase = "idle"
    /\ mode # "off"
    /\ mode' = "off"
    /\ UNCHANGED <<world, events, waiting, armed, scan, directory, snapshot, user, unseen, commands>>

\* The handler drops what has no name or is not isRelevantChange, and pushes the
\* rest: the set grows and the timer restarts.
Push(e) ==
    /\ phase = "idle"
    /\ e \in events
    /\ events' = events \ {e}
    /\ IF e \in Files
       THEN waiting' = waiting \cup {e} /\ armed' = TRUE
       ELSE UNCHANGED <<waiting, armed>>
    /\ UNCHANGED <<world, mode, scan, directory, snapshot, user, unseen, commands>>

\* flush(), by the timer: the batch is handed to rescanChanged.
Flush ==
    /\ phase = "idle"
    /\ armed
    /\ armed' = FALSE
    /\ waiting' = {}
    /\ IF waiting = {} \/ directory = None
       THEN UNCHANGED scan
       ELSE /\ phase' = "reading"
            /\ partial' = TRUE
            /\ paths' = waiting
            /\ UNCHANGED read
    /\ UNCHANGED <<world, mode, events, directory, snapshot, user, unseen, commands>>

\* Mutant: the watch is closed, the batch still waits.
StopWatcherKeeping ==
    /\ UNCHANGED <<waiting, armed>>
    /\ events' = {}

\* stop(): the batch is cancelled and the watch closed.
StopWatcher ==
    /\ waiting' = {}
    /\ armed' = FALSE
    /\ events' = {}

-----------------------------------------------------------------------------
(* One scan. *)

\* scanFiles on one path.
Scanned(f) == IF disk[f] = Absent THEN Unreadable ELSE disk[f]

\* findTomlFiles: the walk goes no deeper than its limit, and passes by the
\* folders and files it cannot read.
List ==
    /\ phase = "listing"
    /\ phase' = "reading"
    /\ \E passed \in SUBSET FilesOf(directory) :
        /\ FilesOf(directory) \cap Deep \subseteq passed
        /\ paths' = {f \in FilesOf(directory) \ passed : disk[f] # Absent}
        /\ unseen' = {f \in unseen \cup passed : disk[f] # Absent}
    /\ UNCHANGED <<world, watcher, partial, read, directory, snapshot, user, commands>>

ReadFiles ==
    /\ phase = "reading"
    /\ phase' = "publishing"
    /\ read' = [f \in paths |-> Scanned(f)]
    /\ unseen' = unseen \ {f \in paths : disk[f] # Absent}
    /\ UNCHANGED <<world, watcher, partial, paths, directory, snapshot, user, commands>>

\* Mutant: nobody asks whether the file still exists.
MergeScanKeeping(previous, rescanned) ==
    [f \in DOMAIN previous \cup DOMAIN rescanned |->
        IF f \in DOMAIN rescanned THEN rescanned[f] ELSE previous[f]]

MergeScan(previous, rescanned) ==
    LET kept == (DOMAIN previous \ DOMAIN rescanned)
                    \cup {f \in DOMAIN rescanned : disk[f] # Absent}
    IN  [f \in kept |-> IF f \in DOMAIN rescanned THEN rescanned[f] ELSE previous[f]]

\* Mutant: an unreadable file has no errors.
ErrorWeightRaw(s) == IF s = Unreadable THEN 0 ELSE s

ErrorWeight(s) == IF s = Unreadable THEN 1 ELSE s

WeightIn(s, f) == IF s # None /\ f \in DOMAIN s THEN ErrorWeight(s[f]) ELSE 0

Raised(previous, current) ==
    {f \in DOMAIN current : WeightIn(current, f) > WeightIn(previous, f)}

Resolved(previous, current) ==
    {f \in DOMAIN current : WeightIn(previous, f) > 0 /\ WeightIn(current, f) = 0}

\* Mutant: one notice per file, however many.
NotificationsForUncapped(previous, current) ==
    [kind : {"broken"}, file : Raised(previous, current)]
        \cup [kind : {"resolved"}, file : Resolved(previous, current)]

NotificationsFor(previous, current) ==
    LET raised == Raised(previous, current)
        resolved == Resolved(previous, current)
    IN  IF Cardinality(raised \cup resolved) <= MaxNotifications
        THEN [kind : {"broken"}, file : raised] \cup [kind : {"resolved"}, file : resolved]
        ELSE {[kind |-> "summary", count |-> Cardinality(raised)]}

\* notify()
Announced(previous, current) ==
    IF Supported THEN NotificationsFor(previous, current) ELSE {}

\* What the user believes once the notices are on the screen: a summary
\* speaks of every file that broke, and of no file that recovered.
Believed(previous, current) ==
    LET ns == Announced(previous, current)
    IN  (told \cup (IF ns # {} THEN Raised(previous, current) ELSE {}))
            \ {f \in Files : [kind |-> "resolved", file |-> f] \in ns}

TrayStateFor(s) ==
    IF s = None THEN "idle"
    ELSE IF \E f \in DOMAIN s : s[f] # 0 THEN "error" ELSE "ok"

\* The merge asks the disk again; notify() and publish() follow at once.
Publish ==
    /\ phase = "publishing"
    /\ phase' = "idle" /\ partial' = FALSE /\ paths' = {} /\ read' = Nothing
    /\ snapshot' = IF partial /\ snapshot # None THEN MergeScan(snapshot, read) ELSE read
    /\ notices' = Announced(snapshot, snapshot')
    /\ told' = Believed(snapshot, snapshot')
    /\ tray' = TrayStateFor(snapshot')
    /\ UNCHANGED <<world, watcher, directory, unseen, commands>>

-----------------------------------------------------------------------------
(* Commands of the user. *)

Command ==
    /\ phase = "idle"
    /\ commands < MaxCommands
    /\ commands' = commands + 1

\* watchDirectory: the watch is replaced before the first scan lists a file.
\* The platform may refuse the recursive flag, or the whole watch.
ChooseFolder(d) ==
    /\ Command
    /\ StopWatcher
    /\ directory' = d
    /\ mode' \in {"off", "flat", "recursive"}
    /\ snapshot' = None
    /\ told' = {} /\ unseen' = {}
    /\ phase' = "listing"
    /\ UNCHANGED <<world, partial, paths, read, tray, notices>>

Rescan ==
    /\ Command
    /\ directory # None
    /\ phase' = "listing"
    /\ UNCHANGED <<world, watcher, partial, paths, read, directory, snapshot, user, unseen>>

StopWatching ==
    /\ Command
    /\ StopWatcher
    /\ mode' = "off"
    /\ directory' = None
    /\ snapshot' = None
    /\ tray' = "idle"
    /\ told' = {} /\ unseen' = {}
    /\ UNCHANGED <<world, scan, notices>>

Next ==
    \/ \E f \in Files : Change(f)
    \/ \E e \in Files \cup {None} : Push(e)
    \/ WatchFails
    \/ Flush \/ List \/ ReadFiles \/ Publish
    \/ \E d \in Folders : ChooseFolder(d)
    \/ Rescan \/ StopWatching

Spec == Init /\ [][Next]_vars

\* Events are delivered, the timer fires and the main thread goes on.
Fairness ==
    /\ \A e \in Files \cup {None} : WF_vars(Push(e))
    /\ WF_vars(Flush) /\ WF_vars(List) /\ WF_vars(ReadFiles) /\ WF_vars(Publish)

FairSpec == Spec /\ Fairness

-----------------------------------------------------------------------------
(* Properties. *)

\* Nothing of a folder that is no longer watched reaches the status of the one
\* that is: no event, no batch that waited, no scan under way.
StaysInFolder ==
    (events \ {None}) \cup waiting \cup paths \cup DOMAIN read
        \cup (IF snapshot = None THEN {} ELSE DOMAIN snapshot) \subseteq FilesOf(directory)

\* "Says nothing until something breaks": where the system shows notifications
\* at all, every file the tray is red for has been announced since the folder
\* was chosen, by its own notice or by a summary, unreadable files and files
\* that break a second time included.
BrokenIsTold ==
    Supported /\ snapshot # None => {f \in DOMAIN snapshot : snapshot[f] # 0} \subseteq told

\* The status agrees with the disk about f.
Agrees(f) ==
    IF disk[f] = Absent
    THEN snapshot # None => f \notin DOMAIN snapshot
    ELSE snapshot # None /\ f \in DOMAIN snapshot /\ snapshot[f] = disk[f]

\* When the disk is left alone, the tray comes to show the status, and the
\* status what is on disk, whatever the scans and events raced with: for every
\* file the watch covers, except those whose last change it reported without
\* their name (no file name, or the folder's only) and those the last walk
\* passed by (below the depth limit, or in a folder that could not be read)
\* with no event of their own since.
UpToDate ==
    /\ \A f \in Files : Watched(f) /\ f \notin unseen => Agrees(f)
    /\ tray = TrayStateFor(snapshot)
Converges == <>[]UpToDate

\* A file that had errors and now has none gets one notice, so that the user
\* learns of it: no file is left believed broken once the status says clean.
RecoveryIsTold ==
    snapshot # None => \A f \in told \cap DOMAIN snapshot : snapshot[f] # 0
=============================================================================
