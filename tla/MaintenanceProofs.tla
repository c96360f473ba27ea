-------------------------- MODULE MaintenanceProofs --------------------------
(***************************************************************************)
(* Maintenance for any files, shortcuts, versions, folders and number of   *)
(* runs.  The argument: every shortcut there is, is on the record, is the  *)
(* running job's to write there, or was left off it by something the       *)
(* history names; every list of shortcuts a run can start from was asked   *)
(* for; an update's version is above what its actor compared with, which   *)
(* is what is on disk while nothing is known to be behind.                 *)
(***************************************************************************)
EXTENDS Maintenance, TLAPS

PhasesOf ==
    [verb \in Verbs |->
        CASE verb = "remote" -> {"download", "apply", "merge"}
          [] verb = "uninstall" -> {"unregister", "remove"}
          [] OTHER -> {"extract", "drop", "integrate", "record"}]

\* Shortcuts somebody asked for, or the ones taken for lack of a record.
Wanted == asked \cup (IF unrecorded THEN DefaultShortcuts ELSE {})

ShortcutsAreWanted ==
    /\ system \subseteq Wanted
    /\ record # Nothing => record.shortcuts \subseteq Wanted
    /\ job # Nothing => job.shortcuts \subseteq Wanted
    /\ window # Nothing /\ window.page = "maintenance" => window.shortcuts \subseteq Wanted

Excused == astray \cup takenOut

ShortcutsAreAccounted ==
    /\ ~In("record") => LeftOff(record) \subseteq Excused
    /\ In("record") => LeftOff(record) \subseteq Excused \cup job.shortcuts
    /\ In("remove") => system \subseteq Excused

WindowIsTrue ==
    window # Nothing =>
        /\ window.remote # None => window.shown = window.remote /\ window.remote > window.cur
        /\ window.remote = None => window.shown = window.setup
        /\ window.available /\ window.remote = None => window.setup > window.cur

OnlyModifyDrops(j) == j.verb # "modify" => j.drop = {}

JobIsTrue ==
    job # Nothing =>
        /\ job.phase \in PhasesOf[job.verb]
        /\ job.by = "window" => window # Nothing
        /\ job.by = "window" /\ job.verb \in {"update", "remote"} => job.version = job.shown
        /\ job.verb \in {"update", "remote"} /\ job.sure =>
              \A f \in Files : onDisk[f] <= job.version
        /\ OnlyModifyDrops(job)

FilesAreWritten ==
    /\ In("extract") => \A f \in Selected(job.comps) \ job.left : onDisk[f] = job.version
    /\ In("drop") => \A f \in Selected(job.comps) : onDisk[f] = job.version
    /\ In("integrate") => \A f \in Taken(job) : onDisk[f] = job.version
    /\ registered # None => \A f \in Files \ behind : onDisk[f] = registered

IInv ==
    /\ TypeOK
    /\ ShortcutsAreWanted
    /\ ShortcutsAreAccounted
    /\ WindowIsTrue
    /\ JobIsTrue
    /\ FilesAreWritten

LEMMA Constants ==
    /\ Required \subseteq Comps /\ Default \subseteq Comps
    /\ DefaultShortcuts \subseteq Shortcuts /\ DefaultPlace \in Places
    /\ MaxVersion \in Nat \ {0} /\ MaxRuns \in Nat
    /\ Nothing \notin Record /\ Nothing \notin Window /\ Nothing \notin Job
PROOF BY ConfigIsSane, NothingIsDistinct

-----------------------------------------------------------------------------
(* Types *)

\* The components of an installation, and what is chosen, are components.
LEMMA ComponentsAre ==
    ASSUME TypeOK
    PROVE  InstalledComponents \subseteq Comps /\ Preset \subseteq Comps /\ Choices \subseteq SUBSET Comps
PROOF
  <1>1. CASE record = Nothing
    BY <1>1, Constants DEF InstalledComponents, Preset, Choices
  <1>2. CASE record # Nothing
    <2>1. record.comps \subseteq Comps
      BY <1>2 DEF TypeOK, Record
    <2> QED BY <1>2, <2>1, Constants DEF InstalledComponents, Preset, Choices
  <1> QED BY <1>1, <1>2

\* No file but those of the registered version.
AllIsSeen == \A f \in behind : onDisk[f] = None

\* What a new job is made of.
LEMMA NewJobIs ==
    ASSUME TypeOK, NEW by \in {"window", "command"}, NEW verb \in Verbs, NEW v \in Versions,
           NEW cur, NEW shown \in Versions, NEW sh \in SUBSET Shortcuts, NEW C \in SUBSET Comps,
           NEW j, j = NewJob(by, verb, v, cur, shown, sh, C)
    PROVE  /\ j \in Job
           /\ j.by = by /\ j.verb = verb /\ j.version = v /\ j.shown = shown
           /\ j.shortcuts = sh /\ j.comps = C
           /\ OnlyModifyDrops(j)
           /\ j.phase \in PhasesOf[verb]
           /\ j.phase \in {"extract", "download", "unregister"}
           /\ j.phase = "extract" => j.left = Selected(C)
           /\ j.sure => registered # None /\ cur = registered /\ AllIsSeen
PROOF
  <1> DEFINE phase == CASE verb = "remote" -> "download"
                        [] verb = "uninstall" -> "unregister"
                        [] OTHER -> "extract"
  <1>1. /\ phase \in Phases /\ phase \in PhasesOf[verb]
        /\ phase \in {"extract", "download", "unregister"}
        /\ phase = "extract" => verb \notin {"remote", "uninstall"}
    BY DEF Phases, PhasesOf, Verbs
  <1> DEFINE left == IF verb \in {"remote", "uninstall"} THEN {} ELSE Selected(C)
             drop == IF verb = "modify" THEN InstalledComponents \ C ELSE {}
             sure == /\ registered # None /\ cur = registered
                     /\ \A f \in behind : onDisk[f] = None
  <1>2. sure \in BOOLEAN /\ left \in SUBSET Files /\ drop \in SUBSET Comps
    BY ComponentsAre DEF Selected
  <1>3. /\ verb \notin {"remote", "uninstall"} => left = Selected(C)
        /\ verb # "modify" => drop = {}
        /\ sure => registered # None /\ cur = registered /\ AllIsSeen
    BY DEF AllIsSeen
  <1>4. j = [by |-> by, verb |-> verb, version |-> v, shown |-> shown, shortcuts |-> sh,
             comps |-> C, drop |-> drop, left |-> left, phase |-> phase, sure |-> sure]
    BY DEF NewJob
  <1> HIDE DEF phase, left, drop, sure
  <1> QED BY <1>1, <1>2, <1>3, <1>4 DEF Job, OnlyModifyDrops

\* What a new window is made of.
LEMMA NewWindowIs ==
    ASSUME TypeOK, NEW v \in Versions, NEW m \in BOOLEAN
    PROVE  LET w == NewWindow(v, m)
           IN  /\ w \in Window
               /\ w.page = IF m THEN "maintenance" ELSE "welcome"
               /\ w.remote = None /\ w.shown = v /\ w.setup = v
               /\ w.available => v > w.cur
               /\ m => w.shortcuts = RecordedShortcuts
PROOF
  <1>1. RecordedShortcuts \in SUBSET Shortcuts
    BY Constants DEF RecordedShortcuts, TypeOK, Record
  <1> DEFINE page == IF m THEN "maintenance" ELSE "welcome"
             cur == IF registered # None THEN registered ELSE v
             available == m /\ registered # None /\ v > registered
             sh == IF m THEN RecordedShortcuts ELSE DefaultShortcuts
  <1>2. cur \in Versions
    BY Constants DEF TypeOK, Versions, None
  <1>3. available \in BOOLEAN /\ (available => v > cur)
    OBVIOUS
  <1>4. sh \in SUBSET Shortcuts /\ (m => sh = RecordedShortcuts)
    BY <1>1, Constants
  <1>5. page \in {"welcome", "maintenance"} /\ page = IF m THEN "maintenance" ELSE "welcome"
    OBVIOUS
  <1>6. None \in 0 .. MaxVersion
    BY Constants DEF None
  <1>7. NewWindow(v, m) = [page |-> page, setup |-> v, cur |-> cur, available |-> available,
                           remote |-> None, shown |-> v, checking |-> m, shortcuts |-> sh,
                           launchDir |-> DefaultPlace, verb |-> "none", success |-> FALSE]
    BY DEF NewWindow
  <1> HIDE DEF page, cur, available, sh
  <1> QED BY <1>2, <1>3, <1>4, <1>5, <1>6, <1>7, Constants DEF Window

LEMMA RecordedIs ==
    ASSUME TypeOK
    PROVE  RecordedShortcuts \in SUBSET Shortcuts
PROOF BY Constants DEF RecordedShortcuts, TypeOK, Record

\* A window and a job after an event of theirs; what only they say of the invariant.
WindowKept ==
    window' # Nothing =>
        /\ window # Nothing
        /\ window'.page \in {window.page, "progress", "done"}
        /\ window'.remote = window.remote /\ window'.shown = window.shown
        /\ window'.setup = window.setup /\ window'.cur = window.cur
        /\ window'.available = window.available /\ window'.shortcuts = window.shortcuts

\* A window that only changes page is as true as it was.
LEMMA KeptIsTrue ==
    ASSUME IInv, WindowKept, asked \subseteq asked', unrecorded => unrecorded'
    PROVE  /\ WindowIsTrue'
           /\ (window # Nothing /\ window.page = "maintenance" => window.shortcuts \subseteq Wanted)'
PROOF BY DEF IInv, WindowKept, WindowIsTrue, ShortcutsAreWanted, Wanted

\* The last step of a run.
LEMMA EndsIs ==
    ASSUME IInv, job # Nothing, NEW ok \in BOOLEAN, Ends(ok)
    PROVE  /\ job' = Nothing /\ window' \in Window \cup {Nothing} /\ WindowKept
PROOF
  <1>1. CASE job.by = "window"
    <2>1. window # Nothing /\ window \in Window /\ window' = [window EXCEPT !.page = "done", !.success = ok]
      BY <1>1 DEF IInv, TypeOK, JobIsTrue, Ends
    <2> QED BY <2>1 DEF Window, WindowKept, Ends
  <1>2. CASE job.by # "window"
    BY <1>2 DEF Ends, WindowKept, IInv, TypeOK
  <1> QED BY <1>1, <1>2

\* A step of a run to its next phase.
LEMMA GoToIs ==
    ASSUME IInv, job # Nothing, NEW phase \in PhasesOf[job.verb], GoTo(phase)
    PROVE  /\ job' \in Job /\ job' # Nothing /\ window' = window /\ WindowKept
           /\ job'.phase = phase /\ job'.verb = job.verb /\ job'.by = job.by
           /\ job'.version = job.version /\ job'.shown = job.shown /\ job'.sure = job.sure
           /\ job'.shortcuts = job.shortcuts /\ job'.left = job.left
           /\ job'.comps = job.comps /\ job'.drop = job.drop
PROOF
  <1>1. job \in Job /\ phase \in Phases
    BY DEF IInv, TypeOK, PhasesOf, Phases, Job
  <1> QED BY <1>1, Constants DEF GoTo, Job, WindowKept

-----------------------------------------------------------------------------
(* The window *)

LEMMA OpenStep ==
    ASSUME IInv, NEW v \in Versions, NEW m \in BOOLEAN, Open(v, m)
    PROVE  IInv'
PROOF
  <1>1. TypeOK /\ window' = NewWindow(v, m) /\ window = Nothing
    BY DEF Open, IInv
  <1>2. UNCHANGED <<onDisk, registered, record, system, engine, place, job, runs, asked,
                    astray, takenOut, behind>>
    BY DEF Open, disk
  <1>3. /\ window' \in Window /\ (window'.page = "maintenance" => m)
        /\ window'.remote = None /\ window'.shown = v /\ window'.setup = v
        /\ window'.available => v > window'.cur
        /\ m => window'.shortcuts = RecordedShortcuts
    BY <1>1, NewWindowIs
  <1>4. unrecorded' = (unrecorded \/ (m /\ record = Nothing))
    BY DEF Open
  <1>5. unrecorded' \in BOOLEAN /\ (unrecorded => unrecorded')
        /\ ((m /\ record = Nothing) => unrecorded')
    BY <1>1, <1>4 DEF TypeOK
  <1>6. TypeOK'
    BY <1>1, <1>2, <1>3, <1>5 DEF TypeOK
  <1>7. Wanted \subseteq Wanted' /\ (m => RecordedShortcuts \subseteq Wanted')
    BY <1>1, <1>2, <1>5 DEF Wanted, RecordedShortcuts, IInv, ShortcutsAreWanted
  <1>8. ShortcutsAreWanted'
    BY <1>2, <1>3, <1>7 DEF IInv, ShortcutsAreWanted
  <1>9. ShortcutsAreAccounted' /\ FilesAreWritten'
    BY <1>2 DEF IInv, ShortcutsAreAccounted, FilesAreWritten, In, LeftOff, Excused
  <1>10. WindowIsTrue'
    BY <1>3 DEF WindowIsTrue
  <1>11. JobIsTrue'
    BY <1>1, <1>2, <1>3, Constants DEF IInv, JobIsTrue
  <1> QED BY <1>6, <1>8, <1>9, <1>10, <1>11 DEF IInv

\* Whatever only changes the window, and keeps it as true as it was.
LEMMA WindowStep ==
    ASSUME IInv, UNCHANGED <<onDisk, registered, record, system, engine, place, job, runs,
                             asked, unrecorded, astray, takenOut, behind>>,
           window' \in Window \cup {Nothing}, WindowIsTrue',
           job # Nothing /\ job.by = "window" => window' # Nothing,
           window' # Nothing /\ window'.page = "maintenance" =>
               window # Nothing /\ window.page = "maintenance"
               /\ window'.shortcuts = window.shortcuts
    PROVE  IInv'
PROOF
  <1>1. TypeOK'
    BY DEF IInv, TypeOK
  <1>2. ShortcutsAreWanted'
    BY DEF IInv, ShortcutsAreWanted, Wanted
  <1>3. ShortcutsAreAccounted' /\ FilesAreWritten'
    BY DEF IInv, ShortcutsAreAccounted, FilesAreWritten, In, LeftOff, Excused
  <1>4. JobIsTrue'
    BY DEF IInv, JobIsTrue
  <1> QED BY <1>1, <1>2, <1>3, <1>4 DEF IInv

LEMMA RemoteFoundStep ==
    ASSUME IInv, NEW v \in Versions, RemoteFound(v)
    PROVE  IInv'
PROOF
  <1>1. /\ window \in Window /\ v > window.cur
        /\ window' = [window EXCEPT !.available = TRUE, !.remote = v, !.shown = v,
                                    !.checking = FALSE]
    BY DEF RemoteFound, IInv, TypeOK
  <1>2. v \in 0 .. MaxVersion /\ v # None
    BY Constants DEF Versions, None
  <1>3. /\ window' \in Window /\ window'.remote = v /\ window'.shown = v
        /\ window'.cur = window.cur
        /\ window'.page = window.page /\ window'.shortcuts = window.shortcuts
    BY <1>1, <1>2 DEF Window
  <1>4. WindowIsTrue'
    BY <1>1, <1>2, <1>3 DEF WindowIsTrue
  <1>5. window' # Nothing
    BY <1>3, Constants
  <1> QED BY <1>3, <1>4, <1>5, WindowStep DEF RemoteFound, disk, history

LEMMA CloseStep == IInv /\ Close => IInv'
PROOF
  <1> SUFFICES ASSUME IInv, Close PROVE IInv'
    OBVIOUS
  <1>1. window' = Nothing /\ ~(job # Nothing /\ job.by = "window")
    BY DEF Close
  <1>2. WindowIsTrue'
    BY <1>1 DEF WindowIsTrue
  <1> QED BY <1>1, <1>2, WindowStep DEF Close, disk, history

LEMMA UpdateRefusedStep == IInv /\ UpdateRefused => IInv'
PROOF
  <1> SUFFICES ASSUME IInv, UpdateRefused PROVE IInv'
    OBVIOUS
  <1>1. /\ window # Nothing /\ window \in Window
        /\ window' = [window EXCEPT !.page = "done", !.verb = "remote", !.success = FALSE]
    BY DEF UpdateRefused, Idle, IInv, TypeOK
  <1>2. window' \in Window /\ WindowKept /\ window'.page = "done"
    BY <1>1 DEF Window, Verbs, WindowKept
  <1>3. asked' = asked /\ unrecorded' = unrecorded
    BY DEF UpdateRefused, history
  <1>4. WindowIsTrue'
    BY <1>2, <1>3, KeptIsTrue
  <1>5. window' # Nothing
    BY <1>2, Constants
  <1> QED BY <1>2, <1>4, <1>5, WindowStep DEF UpdateRefused, disk, history

-----------------------------------------------------------------------------
(* A run begins *)

LEMMA BeginStep ==
    ASSUME IInv, NEW by \in {"window", "command"}, NEW verb \in Verbs, NEW v \in Versions,
           NEW cur, NEW shown \in Versions, NEW sh \in SUBSET Shortcuts, NEW C \in SUBSET Comps,
           Begin(NewJob(by, verb, v, cur, shown, sh, C)),
           UNCHANGED <<onDisk, registered, record, system, engine, astray, takenOut, behind>>,
           place' \in Places,
           window' \in Window \cup {Nothing}, WindowKept, by = "window" => window' # Nothing,
           asked \subseteq asked', asked' \subseteq Shortcuts,
           unrecorded' \in BOOLEAN, unrecorded => unrecorded',
           sh \subseteq Wanted',
           by = "window" /\ verb \in {"update", "remote"} => v = shown,
           verb \in {"update", "remote"} /\ registered # None /\ cur = registered => v > cur
    PROVE  IInv'
PROOF
  <1>1. TypeOK /\ job = Nothing /\ runs < MaxRuns /\ runs' = runs + 1
    BY DEF IInv, Begin
  <1>2. /\ job' \in Job
        /\ job'.by = by /\ job'.verb = verb /\ job'.version = v /\ job'.shown = shown
        /\ job'.shortcuts = sh /\ job'.comps = C
        /\ OnlyModifyDrops(job')
        /\ job'.phase \in PhasesOf[verb]
        /\ job'.phase \in {"extract", "download", "unregister"}
        /\ job'.phase = "extract" => job'.left = Selected(C)
        /\ job'.sure => registered # None /\ cur = registered /\ AllIsSeen
    BY <1>1, NewJobIs DEF Begin
  <1>3. runs' \in 0 .. MaxRuns
    BY <1>1, Constants DEF TypeOK
  <1>4. TypeOK'
    BY <1>1, <1>2, <1>3 DEF TypeOK
  <1>5. WindowIsTrue'
        /\ (window # Nothing /\ window.page = "maintenance" => window.shortcuts \subseteq Wanted)'
    BY KeptIsTrue
  <1>6. Wanted \subseteq Wanted'
    BY DEF Wanted
  <1>7. ShortcutsAreWanted'
    BY <1>2, <1>5, <1>6 DEF IInv, ShortcutsAreWanted
  <1>8. ~In("record") /\ ~In("record")' /\ ~In("remove")' /\ ~In("integrate")' /\ ~In("drop")'
    BY <1>1, <1>2 DEF In
  <1>9. ShortcutsAreAccounted'
    BY <1>8 DEF IInv, ShortcutsAreAccounted, LeftOff, Excused
  <1>10. FilesAreWritten'
    BY <1>2, <1>8 DEF IInv, FilesAreWritten, In, Selected
  <1>11. JobIsTrue'
    <2>1. CASE verb \in {"update", "remote"} /\ job'.sure
      <3>1. v > registered /\ \A f \in Files : onDisk[f] \in {registered, None}
        BY <1>2, <2>1 DEF IInv, FilesAreWritten, AllIsSeen
      <3>2. \A f \in Files : onDisk'[f] <= v
        BY <1>1, <3>1, Constants DEF TypeOK, Versions, None
      <3> QED BY <1>2, <3>2 DEF JobIsTrue
    <2>2. CASE ~(verb \in {"update", "remote"} /\ job'.sure)
      BY <1>2, <2>2 DEF JobIsTrue
    <2> QED BY <2>1, <2>2
  <1> QED BY <1>4, <1>5, <1>7, <1>9, <1>10, <1>11 DEF IInv

LEMMA ClickInstallStep == IInv /\ ClickInstall => IInv'
PROOF
  <1> SUFFICES ASSUME IInv, ClickInstall PROVE IInv'
    OBVIOUS
  <1>1. PICK sh \in SUBSET Shortcuts, C \in Choices, d \in Places :
          /\ Begin(NewJob("window", "install", window.setup, window.cur, window.shown, sh, C))
          /\ window' = [window EXCEPT !.page = "progress", !.verb = "install",
                                      !.launchDir = d]
          /\ place' = d /\ asked' = asked \cup sh
    BY DEF ClickInstall
  <1>2. window # Nothing /\ window \in Window /\ asked \subseteq Shortcuts
    BY DEF ClickInstall, Idle, IInv, TypeOK
  <1>3. window' \in Window /\ WindowKept /\ window.setup \in Versions /\ window.shown \in Versions
    BY <1>1, <1>2 DEF Window, Verbs, WindowKept
  <1>4. UNCHANGED <<onDisk, registered, record, system, engine, unrecorded, astray, takenOut,
                    behind>>
    BY DEF ClickInstall
  <1>5. /\ window' # Nothing /\ unrecorded' \in BOOLEAN /\ (unrecorded => unrecorded')
        /\ sh \subseteq Wanted'
    BY <1>1, <1>3, <1>4, Constants DEF IInv, TypeOK, Wanted
  <1>6. "install" \in Verbs /\ C \in SUBSET Comps
    BY ComponentsAre DEF Verbs, IInv
  <1> QED BY <1>1, <1>2, <1>3, <1>4, <1>5, <1>6, BeginStep

\* A button of the maintenance page.
LEMMA FromWindowStep ==
    ASSUME IInv, NEW verb \in Verbs, NEW v \in Versions, Idle("maintenance"),
           FromWindow(verb, v, window.shortcuts), UNCHANGED <<disk, history>>,
           verb \in {"update", "remote"} => v = window.shown /\ v > window.cur
    PROVE  IInv'
PROOF
  <1>1. window # Nothing /\ window \in Window /\ window.shortcuts \subseteq Wanted
    BY DEF Idle, IInv, TypeOK, ShortcutsAreWanted
  <1>2. window' = [window EXCEPT !.page = "progress", !.verb = verb]
    BY DEF FromWindow
  <1>3. /\ window' \in Window /\ WindowKept
        /\ window.shown \in Versions /\ window.shortcuts \in SUBSET Shortcuts
    BY <1>1, <1>2 DEF Window, WindowKept
  <1>4. window' # Nothing
    BY <1>3, Constants
  <1>5. /\ UNCHANGED <<onDisk, registered, record, system, engine, astray, takenOut, behind>>
        /\ place' = place /\ asked' = asked /\ unrecorded' = unrecorded
    BY DEF disk, history
  <1>6. /\ place' \in Places /\ asked' \subseteq Shortcuts /\ unrecorded' \in BOOLEAN
        /\ (unrecorded => unrecorded') /\ window.shortcuts \subseteq Wanted'
    BY <1>1, <1>5 DEF IInv, TypeOK, Wanted
  <1>7. Begin(NewJob("window", verb, v, window.cur, window.shown, window.shortcuts, Preset))
    BY DEF FromWindow
  <1>8. Preset \in SUBSET Comps
    BY ComponentsAre DEF IInv
  <1> QED BY <1>3, <1>4, <1>5, <1>6, <1>7, <1>8, BeginStep

LEMMA ClickStep == IInv /\ (ClickRepair \/ ClickUpdate \/ ClickUninstall) => IInv'
PROOF
  <1> SUFFICES ASSUME IInv, Idle("maintenance"), UNCHANGED <<disk, history>>,
                      ClickRepair \/ ClickUpdate \/ ClickUninstall
               PROVE  IInv'
    BY DEF ClickRepair, ClickUpdate, ClickUninstall
  <1>1. /\ window # Nothing /\ window \in Window /\ WindowIsTrue
        /\ {"repair", "update", "remote", "uninstall"} \subseteq Verbs
    BY DEF Idle, IInv, TypeOK, Verbs
  <1>2. window.setup \in Versions /\ window.remote \in 0 .. MaxVersion
    BY <1>1 DEF Window
  <1>3. CASE ClickRepair
    BY <1>1, <1>2, <1>3, FromWindowStep DEF ClickRepair
  <1>4. CASE ClickUninstall
    BY <1>1, <1>2, <1>4, FromWindowStep DEF ClickUninstall
  <1>5. CASE ClickUpdate /\ window.remote # None
    <2>1. FromWindow("remote", window.remote, window.shortcuts)
      BY <1>5 DEF ClickUpdate
    <2>2. window.remote \in Versions
      BY <1>2, <1>5, Constants DEF Versions, None
    <2>3. window.remote = window.shown /\ window.remote > window.cur
      BY <1>1, <1>5 DEF WindowIsTrue
    <2> QED BY <1>1, <2>1, <2>2, <2>3, FromWindowStep
  <1>6. CASE ClickUpdate /\ window.remote = None
    <2>1. FromWindow("update", window.setup, window.shortcuts)
      BY <1>6 DEF ClickUpdate
    <2>2. window.setup = window.shown /\ window.setup > window.cur
      BY <1>1, <1>6 DEF WindowIsTrue, ClickUpdate
    <2> QED BY <1>1, <1>2, <2>1, <2>2, FromWindowStep
  <1> QED BY <1>3, <1>4, <1>5, <1>6

\* A command, with shortcuts that were asked for before or are now.
LEMMA FromCommandStep ==
    ASSUME IInv, NEW verb \in Verbs, NEW v \in Versions, NEW sh \in SUBSET Shortcuts,
           NEW C \in SUBSET Comps, FromCommand(verb, v, sh, C), place' \in Places,
           asked \subseteq asked', asked' \subseteq Shortcuts,
           sh \subseteq asked' \/ (verb # "install" /\ sh = RecordedShortcuts),
           verb \in {"update", "remote"} => v > InstalledVersion
    PROVE  IInv'
PROOF
  <1>1. TypeOK
    BY DEF IInv
  <1>2. /\ Begin(NewJob("command", verb, v, InstalledVersion, v, sh, C))
        /\ unrecorded' = (unrecorded \/ (verb # "install" /\ record = Nothing))
        /\ UNCHANGED <<onDisk, registered, record, system, engine, window, astray, takenOut,
                       behind>>
    BY DEF FromCommand
  <1>3. /\ unrecorded' \in BOOLEAN /\ (unrecorded => unrecorded')
        /\ (verb # "install" /\ record = Nothing => unrecorded')
    BY <1>1, <1>2 DEF TypeOK
  <1>4. sh \subseteq Wanted'
    <2>1. CASE sh \subseteq asked'
      BY <2>1 DEF Wanted
    <2>2. CASE verb # "install" /\ sh = RecordedShortcuts
      BY <2>2, <1>3 DEF RecordedShortcuts, Wanted, IInv, ShortcutsAreWanted
    <2> QED BY <2>1, <2>2
  <1>5. WindowKept
    BY <1>2 DEF WindowKept
  <1>6. window' \in Window \cup {Nothing}
    BY <1>1, <1>2 DEF TypeOK
  <1> QED BY <1>2, <1>3, <1>4, <1>5, <1>6, BeginStep

LEMMA CommandStep ==
    ASSUME IInv, NEW v \in Versions, Command(v)
    PROVE  IInv'
PROOF
  <1>1. /\ TypeOK /\ asked \subseteq Shortcuts /\ place \in Places
        /\ RecordedShortcuts \in SUBSET Shortcuts
        /\ InstalledComponents \in SUBSET Comps /\ Choices \subseteq SUBSET Comps
        /\ {"install", "update", "remote", "repair", "modify", "uninstall"} \subseteq Verbs
    BY RecordedIs, ComponentsAre DEF IInv, TypeOK, Verbs
  <1>2. CASE CommandInstall(v)
    <2>1. PICK sh \in SUBSET Shortcuts, C \in Choices, d \in Places :
            FromCommand("install", v, sh, C) /\ place' = d /\ asked' = asked \cup sh
      BY <1>2 DEF CommandInstall
    <2> QED BY <1>1, <2>1, FromCommandStep
  <1>3. CASE CommandUpdate(v)
    <2>1. place' = place /\ asked' = asked
      BY <1>3 DEF CommandUpdate
    <2>2. CASE v > InstalledVersion
      <3>1. FromCommand("update", v, RecordedShortcuts, InstalledComponents)
        BY <1>3, <2>2 DEF CommandUpdate
      <3> QED BY <1>1, <2>1, <2>2, <3>1, FromCommandStep
    <2>3. CASE ~(v > InstalledVersion)
      <3>1. PICK m \in Versions : m > InstalledVersion
                                  /\ FromCommand("remote", m, RecordedShortcuts, {})
        BY <1>3, <2>3 DEF CommandUpdate
      <3> QED BY <1>1, <2>1, <3>1, FromCommandStep
    <2> QED BY <2>2, <2>3
  <1>4. CASE CommandRepair(v)
    <2>1. /\ FromCommand("repair", v, RecordedShortcuts, InstalledComponents)
          /\ place' = place /\ asked' = asked
      BY <1>4 DEF CommandRepair
    <2> QED BY <1>1, <2>1, FromCommandStep
  <1>5. CASE CommandModify(v)
    <2>1. PICK sh \in SUBSET Shortcuts, C \in Choices \cup {InstalledComponents} :
            /\ FromCommand("modify", v, sh, C) /\ place' = place
            /\ asked' = asked \cup (IF sh = RecordedShortcuts THEN {} ELSE sh)
      BY <1>5 DEF CommandModify
    <2> QED BY <1>1, <2>1, FromCommandStep
  <1>6. CASE CommandUninstall(v)
    <2>1. FromCommand("uninstall", v, {}, {}) /\ place' = place /\ asked' = asked
      BY <1>6 DEF CommandUninstall
    <2> QED BY <1>1, <2>1, FromCommandStep
  <1> QED BY <1>2, <1>3, <1>4, <1>5, <1>6 DEF Command

-----------------------------------------------------------------------------
(* The steps of a run *)

\* Each phase belongs to its verbs, and leads on within them.
LEMMA PhaseIs ==
    ASSUME IInv, job # Nothing
    PROVE  /\ job \in Job /\ job.verb \in Verbs
           /\ job.phase \in {"extract", "drop", "integrate", "record"} =>
                /\ job.verb \notin {"remote", "uninstall"}
                /\ {"drop", "integrate", "record"} \subseteq PhasesOf[job.verb]
           /\ job.phase \in {"download", "apply", "merge"} =>
                job.verb = "remote" /\ {"apply", "merge"} \subseteq PhasesOf[job.verb]
           /\ job.phase \in {"unregister", "remove"} =>
                job.verb = "uninstall" /\ "remove" \in PhasesOf[job.verb]
PROOF
  <1>1. job \in Job /\ job.verb \in Verbs
    BY DEF IInv, TypeOK, Job
  <1>2. job.phase \in PhasesOf[job.verb]
    BY DEF IInv, JobIsTrue
  <1>3. PhasesOf[job.verb] = CASE job.verb = "remote" -> {"download", "apply", "merge"}
                               [] job.verb = "uninstall" -> {"unregister", "remove"}
                               [] OTHER -> {"extract", "drop", "integrate", "record"}
    BY <1>1 DEF PhasesOf
  <1>4. CASE job.verb = "remote"
    BY <1>1, <1>2, <1>3, <1>4
  <1>5. CASE job.verb = "uninstall"
    BY <1>1, <1>2, <1>3, <1>5
  <1>6. CASE job.verb \notin {"remote", "uninstall"}
    BY <1>1, <1>2, <1>3, <1>6
  <1> QED BY <1>4, <1>5, <1>6

\* The end of a run, well or not, and its death: what each of them has to say of its own.
LEMMA EndStep ==
    ASSUME IInv, job # Nothing, job' = Nothing,
           window' \in Window \cup {Nothing}, WindowKept,
           asked' = asked, unrecorded' = unrecorded, runs' = runs, place' = place,
           onDisk' \in [Files -> 0 .. MaxVersion], registered' = registered,
           system' = system, engine' \in 0 .. MaxVersion,
           record' \in {record, Nothing, [shortcuts |-> job.shortcuts, comps |-> job.comps]},
           astray' \subseteq Shortcuts, takenOut' \subseteq Shortcuts, behind' \subseteq Files,
           LeftOff(record)' \subseteq Excused',
           registered # None => \A f \in Files \ behind' : onDisk'[f] = registered
    PROVE  IInv'
PROOF
  <1>1. TypeOK /\ job \in Job
    BY PhaseIs DEF IInv
  <1>2. /\ [shortcuts |-> job.shortcuts, comps |-> job.comps] \in Record
        /\ [shortcuts |-> job.shortcuts, comps |-> job.comps].shortcuts = job.shortcuts
    BY <1>1 DEF Record, Job
  <1>3. TypeOK'
    BY <1>1, <1>2 DEF TypeOK
  <1>4. WindowIsTrue'
        /\ (window # Nothing /\ window.page = "maintenance" => window.shortcuts \subseteq Wanted)'
    BY KeptIsTrue
  <1>5. Wanted' = Wanted
    BY DEF Wanted
  <1>6. ShortcutsAreWanted'
    BY <1>2, <1>4, <1>5 DEF IInv, ShortcutsAreWanted
  <1>7. ShortcutsAreAccounted' /\ JobIsTrue' /\ FilesAreWritten'
    BY DEF ShortcutsAreAccounted, JobIsTrue, FilesAreWritten, In
  <1> QED BY <1>3, <1>4, <1>6, <1>7 DEF IInv

\* A run goes on to its next phase.
LEMMA GoStep ==
    ASSUME IInv, job # Nothing, NEW phase \in PhasesOf[job.verb], GoTo(phase),
           UNCHANGED <<record, asked, unrecorded, runs, place, takenOut>>,
           onDisk' \in [Files -> 0 .. MaxVersion], registered' \in 0 .. MaxVersion,
           system' \subseteq system \cup job.shortcuts, engine' \in 0 .. MaxVersion,
           astray' \subseteq Shortcuts, behind' \subseteq Files,
           ShortcutsAreAccounted', FilesAreWritten',
           \A f \in Files : onDisk'[f] \in {onDisk[f], job.version, None}
    PROVE  IInv'
PROOF
  <1>1. TypeOK /\ job \in Job /\ job.version \in Nat /\ job.shortcuts \subseteq Shortcuts
    BY PhaseIs, Constants DEF IInv, Job, Versions
  <1>2. /\ job' \in Job /\ job' # Nothing /\ window' = window /\ WindowKept
        /\ job'.phase = phase /\ job'.verb = job.verb /\ job'.by = job.by
        /\ job'.version = job.version /\ job'.shown = job.shown /\ job'.sure = job.sure
        /\ job'.shortcuts = job.shortcuts /\ job'.drop = job.drop
    BY GoToIs
  <1>3. TypeOK'
    BY <1>1, <1>2 DEF TypeOK
  <1>4. WindowIsTrue'
        /\ (window # Nothing /\ window.page = "maintenance" => window.shortcuts \subseteq Wanted)'
    BY <1>2, KeptIsTrue
  <1>5. Wanted' = Wanted
    BY DEF Wanted
  <1>6. ShortcutsAreWanted'
    BY <1>2, <1>4, <1>5 DEF IInv, ShortcutsAreWanted
  <1>7. JobIsTrue'
    <2>1. \A f \in Files : onDisk[f] <= job.version => onDisk'[f] <= job.version
      BY <1>1 DEF None
    <2>2. OnlyModifyDrops(job) => OnlyModifyDrops(job')
      BY <1>2 DEF OnlyModifyDrops
    <2> QED BY <1>1, <1>2, <2>1, <2>2 DEF IInv, JobIsTrue
  <1> QED BY <1>3, <1>4, <1>6, <1>7 DEF IInv

LEMMA ExtractStep ==
    ASSUME IInv, NEW f \in Files, Extract(f)
    PROVE  IInv'
PROOF
  <1>1. /\ TypeOK /\ job # Nothing /\ job \in Job /\ job.phase = "extract" /\ f \in job.left
        /\ job.version \in Versions /\ job.left \subseteq Files
    BY PhaseIs DEF IInv, Extract, In, Job
  <1>2. job' = [job EXCEPT !.left = job.left \ {f}]
        /\ onDisk' = [onDisk EXCEPT ![f] = job.version] /\ behind' = behind \cup {f}
        /\ UNCHANGED <<registered, record, system, engine, place, window, runs, asked,
                       unrecorded, astray, takenOut>>
    BY <1>1 DEF Extract, Job
  <1>3. /\ job' \in Job /\ job' # Nothing
        /\ job'.phase = "extract" /\ job'.verb = job.verb /\ job'.by = job.by
        /\ job'.version = job.version /\ job'.shown = job.shown /\ job'.sure = job.sure
        /\ job'.shortcuts = job.shortcuts /\ job'.left = job.left \ {f}
        /\ job'.comps = job.comps /\ job'.drop = job.drop
    <2>1. job' \in Job
      BY <1>1, <1>2 DEF Job
    <2> QED BY <1>1, <1>2, <2>1, Constants DEF Job
  <1>5. onDisk' \in [Files -> 0 .. MaxVersion] /\ onDisk'[f] = job.version
        /\ \A g \in Files \ {f} : onDisk'[g] = onDisk[g]
    BY <1>1, <1>2, Constants DEF TypeOK, Versions
  <1>6. TypeOK'
    BY <1>1, <1>2, <1>3, <1>5 DEF TypeOK
  <1>7. ShortcutsAreWanted' /\ WindowIsTrue'
    BY <1>1, <1>2, <1>3 DEF IInv, ShortcutsAreWanted, Wanted, WindowIsTrue
  <1>8. ShortcutsAreAccounted'
    BY <1>1, <1>2, <1>3 DEF IInv, ShortcutsAreAccounted, In, LeftOff, Excused
  <1>9. JobIsTrue'
    <2>1. job'.phase \in PhasesOf[job'.verb]
      BY <1>1, <1>3 DEF IInv, JobIsTrue
    <2>2. job.version \in Nat
      BY <1>1, Constants DEF Versions
    <2>3. job.verb \in {"update", "remote"} /\ job.sure =>
              \A g \in Files : onDisk'[g] <= job.version
      BY <1>1, <1>5, <2>2 DEF IInv, JobIsTrue
    <2>4. /\ job.by = "window" => window # Nothing
          /\ job.by = "window" /\ job.verb \in {"update", "remote"} => job.version = job.shown
          /\ OnlyModifyDrops(job)
      BY <1>1 DEF IInv, JobIsTrue
    <2>5. OnlyModifyDrops(job')
      BY <1>3, <2>4 DEF OnlyModifyDrops
    <2> QED BY <1>2, <1>3, <2>1, <2>3, <2>4, <2>5 DEF JobIsTrue
  <1>10. FilesAreWritten'
    BY <1>1, <1>2, <1>3, <1>5 DEF IInv, FilesAreWritten, In, Selected
  <1> QED BY <1>6, <1>7, <1>8, <1>9, <1>10 DEF IInv

LEMMA ExtractedStep == IInv /\ Extracted => IInv'
PROOF
  <1> SUFFICES ASSUME IInv, Extracted PROVE IInv'
    OBVIOUS
  <1> DEFINE phase == IF job.drop = {} THEN "integrate" ELSE "drop"
  <1>1. /\ TypeOK /\ job # Nothing /\ job \in Job /\ job.phase = "extract" /\ job.left = {}
        /\ {"integrate", "drop"} \subseteq PhasesOf[job.verb] /\ GoTo(phase)
        /\ UNCHANGED <<onDisk, registered, record, system, engine, place, runs, asked,
                       unrecorded, astray, takenOut, behind>>
    BY PhaseIs DEF IInv, Extracted, In, disk, history
  <1>2. phase \in {"integrate", "drop"}
    OBVIOUS
  <1> HIDE DEF phase
  <1>3. /\ job' # Nothing /\ job'.phase \in {"integrate", "drop"}
        /\ job'.version = job.version /\ job'.comps = job.comps /\ job'.drop = job.drop
    BY <1>1, <1>2, GoToIs
  <1>4. ShortcutsAreAccounted'
    BY <1>1, <1>3 DEF IInv, ShortcutsAreAccounted, In, LeftOff, Excused
  <1>5. FilesAreWritten'
    BY <1>1, <1>3 DEF IInv, FilesAreWritten, In, Selected, Taken
  <1> QED BY <1>1, <1>2, <1>4, <1>5, GoStep DEF TypeOK

LEMMA DropComponentsStep == IInv /\ DropComponents => IInv'
PROOF
  <1> SUFFICES ASSUME IInv, DropComponents PROVE IInv'
    OBVIOUS
  <1>1. /\ TypeOK /\ job # Nothing /\ job \in Job /\ job.phase = "drop"
        /\ "integrate" \in PhasesOf[job.verb] /\ GoTo("integrate")
        /\ UNCHANGED <<registered, record, system, engine, place, runs, asked, unrecorded, astray,
                       takenOut>>
        /\ behind' = behind \cup FilesOf(job.drop)
    BY PhaseIs DEF IInv, DropComponents, In
  <1>2. PICK left : onDisk' = [f \in Files |-> IF f \in FilesOf(job.drop) \ left
                                                THEN None ELSE onDisk[f]]
    BY DEF DropComponents
  <1>3. /\ onDisk' \in [Files -> 0 .. MaxVersion]
        /\ \A f \in Files : onDisk'[f] \in {onDisk[f], None}
        /\ \A f \in Files \ FilesOf(job.drop) : onDisk'[f] = onDisk[f]
        /\ behind' \subseteq Files
    BY <1>1, <1>2, Constants DEF TypeOK, None, FilesOf
  <1>4. /\ job' # Nothing /\ job'.phase = "integrate"
        /\ job'.version = job.version /\ job'.comps = job.comps /\ job'.drop = job.drop
    BY <1>1, GoToIs
  <1>5. ShortcutsAreAccounted'
    BY <1>1, <1>4 DEF IInv, ShortcutsAreAccounted, In, LeftOff, Excused
  <1>6. \A f \in Selected(job.comps) : onDisk[f] = job.version
    BY <1>1 DEF IInv, FilesAreWritten, In
  <1>7. \A f \in Taken(job) : onDisk'[f] = job.version
    BY <1>3, <1>6 DEF Taken, Selected
  <1>8. Taken(job') = Taken(job)
    BY <1>4 DEF Taken
  <1>9. FilesAreWritten'
    BY <1>1, <1>3, <1>4, <1>7, <1>8 DEF IInv, FilesAreWritten, In
  <1> QED BY <1>1, <1>3, <1>5, <1>9, GoStep DEF TypeOK

\* A run that stops where nothing but its result changes.
LEMMA StopStep ==
    ASSUME IInv, job # Nothing, ~In("record"), Ends(FALSE), UNCHANGED <<disk, runs, history>>
    PROVE  IInv'
PROOF
  <1>1. job' = Nothing /\ window' \in Window \cup {Nothing} /\ WindowKept
    BY EndsIs
  <1>2. UNCHANGED <<onDisk, registered, record, system, engine, place, runs, asked, unrecorded,
                    astray, takenOut, behind>>
    BY DEF disk, history
  <1>3. LeftOff(record)' \subseteq Excused'
    BY <1>2 DEF IInv, ShortcutsAreAccounted, LeftOff, Excused
  <1> QED BY <1>1, <1>2, <1>3, EndStep DEF IInv, TypeOK, FilesAreWritten

LEMMA ExtractStopsStep == IInv /\ ExtractStops => IInv'
PROOF BY StopStep DEF ExtractStops, In

LEMMA IntegrateStep == IInv /\ Integrate => IInv'
PROOF
  <1> SUFFICES ASSUME IInv, Integrate PROVE IInv'
    OBVIOUS
  <1>1. /\ TypeOK /\ job # Nothing /\ job \in Job /\ job.phase = "integrate"
        /\ "record" \in PhasesOf[job.verb]
        /\ job.version \in 0 .. MaxVersion /\ job.shortcuts \subseteq Shortcuts
    BY PhaseIs, Constants DEF IInv, Integrate, In, Job, Versions
  <1>2. /\ GoTo("record") /\ engine' \in {engine, job.version}
        /\ UNCHANGED <<onDisk, record, place, runs, asked, unrecorded, astray, takenOut>>
    BY DEF Integrate
  <1>3. PICK made \in SUBSET job.shortcuts : system' = system \cup made
    BY DEF Integrate
  <1>4. \/ registered' = job.version /\ behind' = Files \ Taken(job)
        \/ registered' = registered /\ behind' = behind
    BY DEF Integrate
  <1>5. job'.phase = "record" /\ job' # Nothing /\ job'.shortcuts = job.shortcuts
    BY <1>1, <1>2, GoToIs
  <1>6. ShortcutsAreAccounted'
    BY <1>1, <1>2, <1>3, <1>5 DEF IInv, ShortcutsAreAccounted, In, LeftOff, Excused
  <1>7. FilesAreWritten'
    BY <1>1, <1>2, <1>4, <1>5 DEF IInv, FilesAreWritten, In
  <1> QED BY <1>1, <1>2, <1>3, <1>4, <1>6, <1>7, GoStep DEF TypeOK

LEMMA WriteRecordStep == IInv /\ WriteRecord => IInv'
PROOF
  <1> SUFFICES ASSUME IInv, WriteRecord PROVE IInv'
    OBVIOUS
  <1> DEFINE new == [shortcuts |-> job.shortcuts, comps |-> job.comps]
  <1>1. /\ TypeOK /\ job # Nothing /\ job \in Job /\ In("record")
        /\ LeftOff(record) \subseteq Excused \cup job.shortcuts
    BY PhaseIs DEF IInv, WriteRecord, In, ShortcutsAreAccounted
  <1>2. /\ new \in Record /\ new # Nothing /\ new.shortcuts = job.shortcuts
    BY <1>1, Constants DEF Record, Job
  <1>3. job' = Nothing /\ window' \in Window \cup {Nothing} /\ WindowKept
    BY <1>1, EndsIs DEF WriteRecord
  <1>4. UNCHANGED <<onDisk, registered, system, engine, place, runs, asked, unrecorded, behind>>
    BY DEF WriteRecord
  <1>5. CASE /\ record' = new
             /\ takenOut' = takenOut \cup LeftOff(new)
             /\ astray' = astray
    <2>1. LeftOff(new) \subseteq Shortcuts
      BY <1>1 DEF LeftOff, TypeOK
    <2>2. LeftOff(record)' \subseteq Excused'
      BY <1>2, <1>4, <1>5 DEF LeftOff, Excused
    <2> QED BY <1>1, <1>3, <1>4, <1>5, <2>1, <2>2, EndStep DEF IInv, TypeOK, FilesAreWritten
  <1>6. CASE /\ record' = new
             /\ job.shortcuts = RecordedShortcuts
             /\ takenOut' = takenOut
             /\ astray' = astray
    <2>1. LeftOff(record)' \subseteq Excused'
      BY <1>1, <1>2, <1>4, <1>6 DEF LeftOff, Excused, RecordedShortcuts
    <2> QED BY <1>1, <1>3, <1>4, <1>6, <2>1, EndStep DEF IInv, TypeOK, FilesAreWritten
  <1>7. CASE /\ record' \in {record, Nothing}
             /\ astray' = astray \cup LeftOff(record')
             /\ takenOut' = takenOut
    <2>1. LeftOff(record') \subseteq Shortcuts /\ LeftOff(record)' = LeftOff(record')
      BY <1>1, <1>4 DEF LeftOff, TypeOK
    <2>2. LeftOff(record)' \subseteq Excused'
      BY <1>7, <2>1 DEF Excused
    <2> QED BY <1>1, <1>3, <1>4, <1>7, <2>1, <2>2, EndStep DEF IInv, TypeOK, FilesAreWritten
  <1> QED BY <1>5, <1>6, <1>7 DEF WriteRecord

LEMMA DownloadStep == IInv /\ Download => IInv'
PROOF
  <1> SUFFICES ASSUME IInv, Download PROVE IInv'
    OBVIOUS
  <1>1. /\ TypeOK /\ job # Nothing /\ In("download") /\ ~In("record")
        /\ "apply" \in PhasesOf[job.verb]
        /\ UNCHANGED <<disk, runs, history>>
    BY PhaseIs DEF IInv, Download, In
  <1>2. CASE Ends(FALSE)
    BY <1>1, <1>2, StopStep
  <1>3. CASE GoTo("apply")
    <2>1. job'.phase = "apply"
      BY <1>1, <1>3, GoToIs
    <2>2. ShortcutsAreAccounted' /\ FilesAreWritten'
      BY <1>1, <2>1 DEF disk, history, IInv, ShortcutsAreAccounted, FilesAreWritten, In, LeftOff,
                        Excused
    <2> QED BY <1>1, <1>3, <2>2, GoStep DEF disk, history, TypeOK
  <1> QED BY <1>2, <1>3 DEF Download

LEMMA ApplyStep == IInv /\ Apply => IInv'
PROOF
  <1> SUFFICES ASSUME IInv, Apply PROVE IInv'
    OBVIOUS
  <1>1. /\ TypeOK /\ job # Nothing /\ job \in Job /\ job.phase = "apply"
        /\ "merge" \in PhasesOf[job.verb] /\ job.version \in 0 .. MaxVersion
        /\ LeftOff(record) \subseteq Excused
    BY PhaseIs, Constants DEF IInv, Apply, In, Job, Versions, ShortcutsAreAccounted
  <1>2. UNCHANGED <<registered, record, system, engine, place, runs, asked, unrecorded, astray,
                    takenOut>>
    BY DEF Apply
  <1>3. PICK new \in SUBSET Files :
          /\ onDisk' = [f \in Files |-> IF f \in new THEN job.version ELSE onDisk[f]]
          /\ behind' = behind \cup new
          /\ Ends(FALSE) \/ (new = Files /\ GoTo("merge"))
    BY DEF Apply
  <1>4. /\ onDisk' \in [Files -> 0 .. MaxVersion]
        /\ \A f \in Files : onDisk'[f] \in {onDisk[f], job.version}
    BY <1>1, <1>3 DEF TypeOK
  <1>5. behind' \subseteq Files
    BY <1>1, <1>3 DEF TypeOK
  <1>6. registered # None => \A f \in Files \ behind' : onDisk'[f] = registered
    BY <1>3 DEF IInv, FilesAreWritten
  <1>7. LeftOff(record)' \subseteq Excused'
    BY <1>1, <1>2 DEF LeftOff, Excused
  <1>8. CASE Ends(FALSE)
    <2>1. job' = Nothing /\ window' \in Window \cup {Nothing} /\ WindowKept
      BY <1>1, <1>8, EndsIs
    <2> QED BY <1>1, <1>2, <1>4, <1>5, <1>6, <1>7, <2>1, EndStep DEF TypeOK
  <1>9. CASE GoTo("merge")
    <2>1. job'.phase = "merge"
      BY <1>1, <1>9, GoToIs
    <2>2. ShortcutsAreAccounted' /\ FilesAreWritten'
      BY <1>2, <1>6, <1>7, <2>1 DEF ShortcutsAreAccounted, FilesAreWritten, In
    <2> QED BY <1>1, <1>2, <1>4, <1>5, <1>9, <2>2, GoStep DEF TypeOK
  <1> QED BY <1>3, <1>8, <1>9

LEMMA RecordUpdateStep == IInv /\ RecordUpdate => IInv'
PROOF
  <1> SUFFICES ASSUME IInv, RecordUpdate PROVE IInv'
    OBVIOUS
  <1>1. /\ TypeOK /\ job # Nothing /\ LeftOff(record) \subseteq Excused
    BY DEF IInv, RecordUpdate, In, ShortcutsAreAccounted
  <1>2. /\ record' \in {record, Nothing}
        /\ astray' = IF record' = record THEN astray ELSE astray \cup LeftOff(Nothing)
        /\ UNCHANGED <<onDisk, registered, system, engine, place, runs, asked, unrecorded,
                       takenOut, behind>>
    BY DEF RecordUpdate
  <1>3. job' = Nothing /\ window' \in Window \cup {Nothing} /\ WindowKept
    BY <1>1, EndsIs DEF RecordUpdate
  <1>4. astray' \subseteq Shortcuts /\ LeftOff(record)' \subseteq Excused'
    BY <1>1, <1>2 DEF TypeOK, LeftOff, Excused
  <1> QED BY <1>1, <1>2, <1>3, <1>4, EndStep DEF IInv, TypeOK, FilesAreWritten

LEMMA UnregisterStep == IInv /\ Unregister => IInv'
PROOF
  <1> SUFFICES ASSUME IInv, Unregister PROVE IInv'
    OBVIOUS
  <1>1. /\ TypeOK /\ job # Nothing /\ job \in Job /\ GoTo("remove")
        /\ "remove" \in PhasesOf[job.verb] /\ LeftOff(record) \subseteq Excused
    BY PhaseIs DEF IInv, Unregister, In, ShortcutsAreAccounted
  <1>2. UNCHANGED <<onDisk, record, engine, place, runs, asked, unrecorded, takenOut, behind>>
    BY DEF Unregister
  <1>3. job'.phase = "remove"
    BY <1>1, GoToIs
  <1>4. /\ registered' \in {registered, None}
        /\ system' \subseteq system /\ astray \subseteq astray' /\ astray' \subseteq Shortcuts
        /\ system' \subseteq Excused'
    <2>1. CASE record = Nothing
      BY <1>1, <1>2, <2>1 DEF Unregister, LeftOff, Excused, TypeOK
    <2>2. CASE record # Nothing
      <3>1. PICK gone : /\ system' = system \ gone
                        /\ astray' = astray \cup ((system \cap record.shortcuts) \ gone)
        BY <2>2 DEF Unregister
      <3>2. registered' \in {registered, None}
        BY <2>2 DEF Unregister
      <3> QED BY <1>1, <1>2, <2>2, <3>1, <3>2 DEF LeftOff, Excused, TypeOK
    <2> QED BY <2>1, <2>2
  <1>5. ShortcutsAreAccounted'
    BY <1>3, <1>4 DEF ShortcutsAreAccounted, In, LeftOff
  <1>6. FilesAreWritten'
    BY <1>2, <1>3, <1>4 DEF IInv, FilesAreWritten, In
  <1>7. registered' \in 0 .. MaxVersion
    BY <1>1, <1>4, Constants DEF TypeOK, None
  <1> QED BY <1>1, <1>2, <1>4, <1>5, <1>6, <1>7, GoStep DEF TypeOK

LEMMA RemoveStep == IInv /\ Remove => IInv'
PROOF
  <1> SUFFICES ASSUME IInv, Remove PROVE IInv'
    OBVIOUS
  <1>1. /\ TypeOK /\ job # Nothing /\ system \subseteq Excused
    BY DEF IInv, Remove, In, ShortcutsAreAccounted
  <1>2. PICK left \in SUBSET Files :
          /\ onDisk' = [f \in Files |-> IF f \in left THEN onDisk[f] ELSE None]
          /\ record' \in {record, Nothing} /\ engine' \in {engine, None}
    BY DEF Remove
  <1>3. /\ behind' = Files
        /\ UNCHANGED <<registered, system, place, runs, asked, unrecorded, astray, takenOut>>
    BY DEF Remove
  <1>4. job' = Nothing /\ window' \in Window \cup {Nothing} /\ WindowKept
    BY <1>1, EndsIs DEF Remove
  <1>5. onDisk' \in [Files -> 0 .. MaxVersion] /\ engine' \in 0 .. MaxVersion
    BY <1>1, <1>2, Constants DEF TypeOK, None
  <1>6. LeftOff(record)' \subseteq Excused'
    BY <1>1, <1>3 DEF LeftOff, Excused
  <1> QED BY <1>1, <1>2, <1>3, <1>4, <1>5, <1>6, EndStep DEF TypeOK

LEMMA DiesStep == IInv /\ Dies => IInv'
PROOF
  <1> SUFFICES ASSUME IInv, Dies PROVE IInv'
    OBVIOUS
  <1>1. /\ TypeOK /\ job # Nothing /\ job' = Nothing
        /\ window' \in {window, Nothing}
        /\ UNCHANGED <<onDisk, registered, system, engine, place, runs, asked, unrecorded,
                       takenOut, behind>>
    BY DEF IInv, Dies
  <1>2. window' \in Window \cup {Nothing} /\ WindowKept
    BY <1>1 DEF TypeOK, WindowKept
  <1>3. record' \in {record, Nothing}
    BY DEF Dies
  <1>4. astray' \subseteq Shortcuts /\ LeftOff(record)' \subseteq Excused'
    <2>1. CASE job.phase = "record" \/ record' # record
      BY <1>1, <2>1 DEF Dies, LeftOff, Excused, TypeOK
    <2>2. CASE ~(job.phase = "record" \/ record' # record)
      BY <1>1, <2>2 DEF Dies, IInv, ShortcutsAreAccounted, In, LeftOff, Excused, TypeOK
    <2> QED BY <2>1, <2>2
  <1> QED BY <1>1, <1>2, <1>3, <1>4, EndStep DEF IInv, TypeOK, FilesAreWritten

LEMMA DeleteFolderStep == IInv /\ DeleteFolder => IInv'
PROOF
  <1> SUFFICES ASSUME IInv, DeleteFolder PROVE IInv'
    OBVIOUS
  <1>1. /\ TypeOK /\ job = Nothing /\ job' = Nothing /\ window' = window
        /\ UNCHANGED <<registered, system, place, runs, asked, unrecorded, takenOut>>
        /\ onDisk' = [f \in Files |-> None] /\ engine' = None /\ record' = Nothing
        /\ astray' = astray \cup system /\ behind' = Files
    BY DEF IInv, DeleteFolder
  <1>2. TypeOK'
    BY <1>1, Constants DEF TypeOK, None
  <1>3. ShortcutsAreWanted' /\ WindowIsTrue' /\ JobIsTrue' /\ FilesAreWritten'
    BY <1>1 DEF IInv, ShortcutsAreWanted, Wanted, WindowIsTrue, JobIsTrue, FilesAreWritten, In
  <1>4. ShortcutsAreAccounted'
    BY <1>1 DEF ShortcutsAreAccounted, In, LeftOff, Excused
  <1> QED BY <1>2, <1>3, <1>4 DEF IInv

-----------------------------------------------------------------------------
(* The invariant *)

LEMMA InitInv == Init => IInv
PROOF
  <1> SUFFICES ASSUME Init PROVE IInv
    OBVIOUS
  <1>1. /\ window = Nothing /\ job = Nothing /\ place = DefaultPlace /\ runs = 0
        /\ unrecorded = FALSE /\ astray = {} /\ takenOut = {}
        /\ None \in 0 .. MaxVersion /\ 0 \in 0 .. MaxRuns
    BY Constants DEF Init, None
  <1>2. CASE Absent
    <2>1. TypeOK
      BY <1>1, <1>2, Constants DEF Absent, TypeOK
    <2>2. IInv
      BY <1>1, <1>2, <2>1 DEF Absent, IInv, ShortcutsAreWanted, ShortcutsAreAccounted, WindowIsTrue,
                         JobIsTrue, FilesAreWritten, In, LeftOff, Excused
    <2> QED BY <2>2
  <1>3. CASE \E v \in Versions, C \in Choices, sh \in SUBSET Shortcuts : Complete(v, C, sh)
    <2>1. PICK v \in Versions, C \in Choices, sh \in SUBSET Shortcuts : Complete(v, C, sh)
      BY <1>3
    <2>2. /\ [shortcuts |-> sh, comps |-> C] \in Record /\ v \in 0 .. MaxVersion
          /\ Selected(C) \subseteq Files
      BY Constants DEF Record, Choices, Versions, Selected
    <2>3. /\ record \in Record /\ record # Nothing /\ record.shortcuts = sh
          /\ system = sh /\ asked = sh /\ registered = v /\ engine = v
          /\ behind = Files \ Selected(C)
          /\ onDisk = [f \in Files |-> IF f \in Selected(C) THEN v ELSE None]
      BY <2>1, <2>2, Constants DEF Complete
    <2>4. TypeOK
      BY <1>1, <2>2, <2>3, Constants DEF TypeOK
    <2>5. FilesAreWritten
      BY <1>1, <2>3 DEF FilesAreWritten, In
    <2>6. ShortcutsAreWanted /\ ShortcutsAreAccounted
      BY <1>1, <2>3 DEF ShortcutsAreWanted, ShortcutsAreAccounted, Wanted, In, LeftOff, Excused
    <2> QED BY <1>1, <2>4, <2>5, <2>6 DEF IInv, WindowIsTrue, JobIsTrue
  <1> QED BY <1>2, <1>3 DEF Init

LEMMA StepInv == IInv /\ [Next]_vars => IInv'
PROOF
  <1> SUFFICES ASSUME IInv, [Next]_vars PROVE IInv'
    OBVIOUS
  <1>1. CASE People
    <2>1. CASE \E v \in Versions : OpenSetup(v) \/ Command(v)
      <3>1. Installed \in BOOLEAN
        BY DEF Installed
      <3> QED BY <2>1, <3>1, OpenStep, CommandStep DEF OpenSetup
    <2>2. CASE OpenInstalled
      <3>1. engine \in Versions
        BY <2>2, Constants DEF OpenInstalled, IInv, TypeOK, Versions, None
      <3> QED BY <2>2, <3>1, OpenStep DEF OpenInstalled
    <2> QED BY <1>1, <2>1, <2>2, CloseStep, ClickInstallStep, ClickStep, UpdateRefusedStep,
               DeleteFolderStep DEF People
  <1>2. CASE Work
    BY <1>2, ExtractStep, ExtractedStep, ExtractStopsStep, DropComponentsStep, IntegrateStep, WriteRecordStep, DownloadStep,
       ApplyStep, RecordUpdateStep, UnregisterStep, RemoveStep DEF Work
  <1>3. CASE Dies
    BY <1>3, DiesStep
  <1>4. CASE \E v \in Versions : RemoteFound(v)
    BY <1>4, RemoteFoundStep
  <1>5. CASE UNCHANGED vars
    <2>1. TypeOK'
      BY <1>5 DEF IInv, TypeOK, vars
    <2>2. ShortcutsAreWanted' /\ WindowIsTrue' /\ JobIsTrue' /\ FilesAreWritten'
      BY <1>5 DEF vars, IInv, ShortcutsAreWanted, Wanted, WindowIsTrue, JobIsTrue,
                  FilesAreWritten, In
    <2>3. ShortcutsAreAccounted'
      BY <1>5 DEF vars, IInv, ShortcutsAreAccounted, In, LeftOff, Excused
    <2> QED BY <2>1, <2>2, <2>3 DEF IInv
  <1> QED BY <1>1, <1>2, <1>3, <1>4, <1>5 DEF Next

\* The invariant holds of every behaviour.
THEOREM Inductive == Spec => []IInv
PROOF BY InitInv, StepInv, PTL DEF Spec

-----------------------------------------------------------------------------
(* What follows *)

\* Every variable keeps its type: a run, a window and a record hold what their fields may.
THEOREM TypeCorrect == Spec => []TypeOK
PROOF
  <1>1. IInv => TypeOK
    BY DEF IInv
  <1> QED BY <1>1, Inductive, PTL

\* Whatever an uninstall later cannot take out was left off the record by a failure, a death,
\* a person, a new choice or a window that had read an older record.
THEOREM ShortcutSafety == Spec => []EveryShortcutIsOnRecord
PROOF
  <1>1. IInv => EveryShortcutIsOnRecord
    BY DEF IInv, ShortcutsAreAccounted, EveryShortcutIsOnRecord, In, Excused
  <1> QED BY <1>1, Inductive, PTL

\* Repairs and updates never bring back a shortcut that nobody asked for.
THEOREM UnaskedSafety == Spec => []NoUnaskedShortcut
PROOF
  <1>1. IInv => NoUnaskedShortcut
    BY DEF IInv, ShortcutsAreWanted, Wanted, NoUnaskedShortcut
  <1> QED BY <1>1, Inductive, PTL

\* The window's Update goes to the version its text named.
THEOREM ShownSafety == Spec => []UpdateIsToTheShownVersion
PROOF
  <1>1. IInv => UpdateIsToTheShownVersion
    BY DEF IInv, JobIsTrue, UpdateIsToTheShownVersion
  <1> QED BY <1>1, Inductive, PTL

\* Between runs the list of programs names the version of every file the last run to register
\* took, but what a remote update, a failure, an uninstall or a person changed since.
THEOREM RegisteredSafety == Spec => []RegisteredIsOnDisk
PROOF
  <1>1. IInv => RegisteredIsOnDisk
    BY DEF IInv, FilesAreWritten, RegisteredIsOnDisk
  <1> QED BY <1>1, Inductive, PTL

\* A step of an update whose actor saw what is on disk puts no older file over it.
LEMMA NotBack ==
    IInv /\ [Next]_vars =>
        ((job # Nothing /\ job.verb \in {"update", "remote"} /\ job.sure)
            => \A f \in Files : onDisk'[f] >= onDisk[f])
PROOF
  <1> SUFFICES ASSUME IInv, [Next]_vars, job # Nothing, job.verb \in {"update", "remote"},
                      job.sure, NEW f \in Files
               PROVE  onDisk'[f] >= onDisk[f]
    OBVIOUS
  <1>1. /\ onDisk \in [Files -> 0 .. MaxVersion] /\ onDisk[f] \in Nat
        /\ job \in Job /\ job.version \in Nat /\ onDisk[f] <= job.version
    BY PhaseIs, Constants DEF IInv, TypeOK, JobIsTrue, Job, Versions
  <1>2. CASE onDisk' = onDisk
    BY <1>1, <1>2
  <1>3. CASE \E g \in Files : Extract(g)
    BY <1>1, <1>3 DEF Extract
  <1>4. CASE Apply
    BY <1>1, <1>4 DEF Apply
  <1>5. ~Remove /\ ~DeleteFolder
    BY PhaseIs DEF Remove, In, DeleteFolder
  <1>6. CASE DropComponents
    <2>1. job.drop = {}
      BY DEF IInv, JobIsTrue, OnlyModifyDrops
    <2> QED BY <1>1, <1>6, <2>1 DEF DropComponents, FilesOf
  <1>7. ~(\E g \in Files : Extract(g)) /\ ~Apply /\ ~DropComponents => onDisk' = onDisk
    <2> SUFFICES ASSUME ~(\E g \in Files : Extract(g)), ~Apply, ~DropComponents
                 PROVE  onDisk' = onDisk
      OBVIOUS
    <2>1. CASE People
      BY <1>5, <2>1 DEF People, OpenSetup, OpenInstalled, Open, Close, ClickInstall, Begin,
         ClickRepair, ClickUpdate, UpdateRefused, ClickUninstall, Command, CommandInstall,
         CommandUpdate, CommandRepair, CommandModify, CommandUninstall, FromCommand, disk
    <2>2. CASE Work
      BY <1>5, <2>2 DEF Work, Extracted, ExtractStops, Integrate, WriteRecord, Download, RecordUpdate,
         Unregister, disk
    <2>3. CASE Dies \/ (\E v \in Versions : RemoteFound(v)) \/ UNCHANGED vars
      BY <2>3 DEF Dies, RemoteFound, disk, vars
    <2> QED BY <2>1, <2>2, <2>3 DEF Next
  <1> QED BY <1>2, <1>3, <1>4, <1>6, <1>7

\* No step of such an update goes back.
THEOREM BackwardsSafety == Spec => UpdateNeverGoesBack
PROOF
  <1>1. IInv /\ [Next]_vars =>
          [(job # Nothing /\ job.verb \in {"update", "remote"} /\ job.sure)
              => \A f \in Files : onDisk'[f] >= onDisk[f]]_vars
    BY NotBack
  <1> QED BY <1>1, Inductive, PTL DEF Spec, UpdateNeverGoesBack
=============================================================================
