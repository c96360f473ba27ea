----------------------------- MODULE Maintenance -----------------------------
(***************************************************************************)
(* One installation through its life: the setup's window on an app that is *)
(* not installed (Install) or is (Repair, Update, Uninstall, and the check *)
(* for a remote update that answers whenever it likes), unattended runs    *)
(* beside an open window, the integration with the system (shortcuts, the  *)
(* list of programs, the copied engine, uninstall-info.json) each step of  *)
(* which is best effort, processes that die and people who delete the      *)
(* folder by hand.                                                         *)
(*                                                                         *)
(* A run writes the files of the components it takes: chosen in an Install *)
(* or a Modify, the default ones in the window's Repair and Update, those  *)
(* on record in a command's, all of them in a remote update. What else is  *)
(* in the folder is InstallFolder's subject, the snapshot of a remote      *)
(* update UpdateApply's, the manifest UpdateOffer's, the exits of a        *)
(* command Unattended's, two runs at once UpdateRace's. Here one run       *)
(* follows another, while a window may stay open.                          *)
(***************************************************************************)
EXTENDS Integers, FiniteSets

CONSTANTS
    Files,                            \* the package's
    Comps, Required, Default,         \* its components, and those of them installer.toml marks so
    Core, CompOf,                     \* the component of each file, Core when it has none
    Shortcuts, DefaultShortcuts,      \* desktop, start menu, autostart; what installer.toml asks
    Autostart,                        \* the start at sign-in, one of them when the product has it
    MaxVersion,
    Places, DefaultPlace,             \* folders; default_install_dir
    MaxRuns,                          \* bound: runs begun
    Nothing

ASSUME ConfigIsSane ==
    /\ Required \subseteq Comps /\ Default \subseteq Comps
    /\ CompOf \in [Files -> Comps \cup {Core}]
    /\ DefaultShortcuts \subseteq Shortcuts
    /\ DefaultPlace \in Places
    /\ MaxVersion \in Nat \ {0} /\ MaxRuns \in Nat

Versions == 1 .. MaxVersion
None == 0                             \* no version: not there, not registered

VARIABLES
    onDisk,      \* the version of each file, None when it is not there
    registered,  \* DisplayVersion of the list of programs
    record,      \* uninstall-info.json, Nothing when absent or unreadable
    system,      \* the shortcuts there are
    engine,      \* the setup copied in as uninstall.exe, by its version
    place,       \* the folder
    window,      \* the window, Nothing when none is open
    job,         \* the run at work, Nothing when none is
    runs,        \* how many were begun
    \* What people asked for and what failures made, for the properties:
    asked,       \* shortcuts an install or a modify ever asked for
    unrecorded,  \* a run found no record and took the defaults
    astray,      \* shortcuts a failure, a death or a person left off the record
    takenOut,    \* shortcuts a new choice, or a window with an older one, left off it
    behind       \* files that may not be of the registered version

vars == <<onDisk, registered, record, system, engine, place, window, job, runs,
          asked, unrecorded, astray, takenOut, behind>>
disk == <<onDisk, registered, record, system, engine, place>>
history == <<asked, unrecorded, astray, takenOut, behind>>

Verbs == {"install", "repair", "update", "remote", "modify", "uninstall"}
Phases == {"extract", "drop", "integrate", "record", "download", "apply", "merge", "unregister",
           "remove"}

Record == [shortcuts : SUBSET Shortcuts, comps : SUBSET Comps]
Window == [page : {"welcome", "maintenance", "progress", "done"}, setup : Versions,
           cur : Versions, available : BOOLEAN, remote : 0 .. MaxVersion, shown : Versions,
           checking : BOOLEAN, shortcuts : SUBSET Shortcuts, launchDir : Places,
           verb : Verbs \cup {"none"}, success : BOOLEAN]
Job == [by : {"window", "command"}, verb : Verbs, version : Versions, shown : Versions,
        shortcuts : SUBSET Shortcuts, comps : SUBSET Comps, drop : SUBSET Comps,
        left : SUBSET Files, phase : Phases, sure : BOOLEAN]

ASSUME NothingIsDistinct == Nothing \notin Record \cup Window \cup Job

TypeOK ==
    /\ onDisk \in [Files -> 0 .. MaxVersion]
    /\ registered \in 0 .. MaxVersion
    /\ record \in Record \cup {Nothing}
    /\ system \subseteq Shortcuts
    /\ engine \in 0 .. MaxVersion
    /\ place \in Places
    /\ window \in Window \cup {Nothing}
    /\ job \in Job \cup {Nothing}
    /\ runs \in 0 .. MaxRuns
    /\ asked \subseteq Shortcuts
    /\ unrecorded \in BOOLEAN
    /\ astray \subseteq Shortcuts
    /\ takenOut \subseteq Shortcuts
    /\ behind \subseteq Files

-----------------------------------------------------------------------------
(* What the record says *)

Folder == \/ \E f \in Files : onDisk[f] # None
          \/ engine # None
          \/ record # Nothing

\* installed_dir: the entry of the list of programs, and the folder it names is there.
Installed == registered # None /\ Folder

\* find_existing: that, else a record in the folder the command names.
Existing == Installed \/ record # Nothing
InstalledVersion == IF Installed THEN registered ELSE None

\* apply_record: the recorded shortcuts, over the ones the config asks for.
RecordedShortcuts == IF record = Nothing THEN DefaultShortcuts ELSE record.shortcuts

-----------------------------------------------------------------------------
(* Components *)

\* reader.rs, selected: none chosen stands for all of them.
Selected(C) == {f \in Files : C = {} \/ CompOf[f] \in C \cup {Core}}

FilesOf(C) == {f \in Files : CompOf[f] \in C}

\* What a run wrote and did not delete: a modify may drop the components it has just
\* written, when none is chosen and so all of them are.
Taken(j) == Selected(j.comps) \ FilesOf(j.drop)

\* What a person or a command may choose, and what is ticked before anybody chooses.
Choices == {C \in SUBSET Comps : Required \subseteq C}
Preset == Required \cup Default

\* installed_components: the recorded ones, else those with a file there.
InstalledComponents ==
    IF record = Nothing
    THEN Required \cup {c \in Comps : IF FilesOf({c}) = {}
                                      THEN c \in Default
                                      ELSE \E f \in FilesOf({c}) : onDisk[f] # None}
    ELSE IF record.comps = {} THEN Comps ELSE Required \cup record.comps

-----------------------------------------------------------------------------
(* The window *)

\* A mutant: another version, instead of a newer one.
NewWindowDiffers(v, maintenance) ==
    [page |-> IF maintenance THEN "maintenance" ELSE "welcome",
     setup |-> v,
     cur |-> IF registered # None THEN registered ELSE v,
     available |-> maintenance /\ registered # None /\ v # registered,
     remote |-> None,
     shown |-> v,
     checking |-> maintenance,
     shortcuts |-> IF maintenance THEN RecordedShortcuts ELSE DefaultShortcuts,
     launchDir |-> DefaultPlace,
     verb |-> "none",
     success |-> FALSE]

\* A mutant: the shortcuts of the configuration, whatever was recorded.
NewWindowDefaults(v, maintenance) ==
    [page |-> IF maintenance THEN "maintenance" ELSE "welcome",
     setup |-> v,
     cur |-> IF registered # None THEN registered ELSE v,
     available |-> maintenance /\ registered # None /\ v > registered,
     remote |-> None,
     shown |-> v,
     checking |-> maintenance,
     shortcuts |-> DefaultShortcuts,
     launchDir |-> DefaultPlace,
     verb |-> "none",
     success |-> FALSE]

NewWindow(v, maintenance) ==
    [page |-> IF maintenance THEN "maintenance" ELSE "welcome",
     setup |-> v,
     cur |-> IF registered # None THEN registered ELSE v,
     available |-> maintenance /\ registered # None /\ v > registered,
     remote |-> None,
     shown |-> v,
     checking |-> maintenance,
     shortcuts |-> IF maintenance THEN RecordedShortcuts ELSE DefaultShortcuts,
     launchDir |-> DefaultPlace,
     verb |-> "none",
     success |-> FALSE]

Open(v, maintenance) ==
    /\ window = Nothing
    /\ window' = NewWindow(v, maintenance)
    /\ unrecorded' = (unrecorded \/ (maintenance /\ record = Nothing))
    /\ UNCHANGED <<disk, job, runs, asked, astray, takenOut, behind>>

\* A setup of any version is started, or the list of programs starts the copied engine.
OpenSetup(v) == Open(v, Installed)
OpenInstalled == engine # None /\ Open(engine, TRUE)

\* A mutant: the text is not told of the new version.
RemoteFoundUntold(v) ==
    /\ window # Nothing /\ window.checking
    /\ v > window.cur
    /\ window' = [window EXCEPT !.available = TRUE, !.remote = v, !.checking = FALSE]
    /\ UNCHANGED <<disk, job, runs, history>>

\* The background check found something newer than what was installed when the window opened:
\* the button, the text and REMOTE_MANIFEST are set in one event.
RemoteFound(v) ==
    /\ window # Nothing /\ window.checking
    /\ v > window.cur
    /\ window' = [window EXCEPT !.available = TRUE, !.remote = v, !.shown = v,
                                !.checking = FALSE]
    /\ UNCHANGED <<disk, job, runs, history>>

Close ==
    /\ window # Nothing
    /\ job # Nothing => job.by = "command"
    /\ window' = Nothing
    /\ UNCHANGED <<disk, job, runs, history>>

-----------------------------------------------------------------------------
(* A run begins *)

\* sure: cur, the version the actor compared with, is that of every file there is. A modify
\* that deselects components deletes their files.
NewJob(by, verb, version, cur, shown, shortcuts, comps) ==
    [by |-> by, verb |-> verb, version |-> version, shown |-> shown, shortcuts |-> shortcuts,
     comps |-> comps,
     drop |-> IF verb = "modify" THEN InstalledComponents \ comps ELSE {},
     left |-> IF verb \in {"remote", "uninstall"} THEN {} ELSE Selected(comps),
     phase |-> CASE verb = "remote" -> "download"
                 [] verb = "uninstall" -> "unregister"
                 [] OTHER -> "extract",
     sure |-> /\ registered # None /\ cur = registered
              /\ \A f \in behind : onDisk[f] = None]

Begin(j) ==
    /\ job = Nothing
    /\ runs < MaxRuns
    /\ runs' = runs + 1
    /\ job' = j

\* The maintenance page shows no components: Repair and Update take the preset.
FromWindow(verb, version, shortcuts) ==
    /\ Begin(NewJob("window", verb, version, window.cur, window.shown, shortcuts, Preset))
    /\ window' = [window EXCEPT !.page = "progress", !.verb = verb]

Idle(page) == window # Nothing /\ window.page = page

\* on_install: a fresh one, whatever was ticked; the folder can be chosen.
ClickInstall ==
    /\ Idle("welcome")
    /\ \E sh \in SUBSET Shortcuts, C \in Choices, d \in Places :
          /\ Folder => d = place      \* bound: what an earlier folder still has stays in view
          /\ Begin(NewJob("window", "install", window.setup, window.cur, window.shown, sh, C))
          /\ window' = [window EXCEPT !.page = "progress", !.verb = "install",
                                      !.launchDir = d]
          /\ place' = d
          /\ asked' = asked \cup sh
    /\ UNCHANGED <<onDisk, registered, record, system, engine, unrecorded, astray, takenOut,
                   behind>>

ClickRepair ==
    /\ Idle("maintenance")
    /\ FromWindow("repair", window.setup, window.shortcuts)
    /\ UNCHANGED <<disk, history>>

\* on_update_app: the remote update when there is one, else the setup's own package.
ClickUpdate ==
    /\ Idle("maintenance")
    /\ window.available
    /\ IF window.remote # None
       THEN FromWindow("remote", window.remote, window.shortcuts)
       ELSE FromWindow("update", window.setup, window.shortcuts)
    /\ UNCHANGED <<disk, history>>

\* Its early return: no key that parses where one is asked for.
UpdateRefused ==
    /\ Idle("maintenance")
    /\ window.remote # None
    /\ window' = [window EXCEPT !.page = "done", !.verb = "remote", !.success = FALSE]
    /\ UNCHANGED <<disk, job, runs, history>>

ClickUninstall ==
    /\ Idle("maintenance")
    /\ FromWindow("uninstall", window.setup, window.shortcuts)
    /\ UNCHANGED <<disk, history>>

-----------------------------------------------------------------------------
(* An unattended run begins, beside whatever window is open *)

FromCommand(verb, version, shortcuts, comps) ==
    /\ Begin(NewJob("command", verb, version, InstalledVersion, version, shortcuts, comps))
    /\ unrecorded' = (unrecorded \/ (verb # "install" /\ record = Nothing))
    /\ UNCHANGED <<onDisk, registered, record, system, engine, window, astray, takenOut,
                   behind>>

CommandInstall(v) ==
    /\ ~Existing
    /\ \E sh \in SUBSET Shortcuts, C \in Choices, d \in Places :
          /\ Folder => d = place
          /\ FromCommand("install", v, sh, C)
          /\ place' = d
          /\ asked' = asked \cup sh

CommandUpdate(v) ==
    /\ Existing
    /\ IF v > InstalledVersion     \* an unknown version is older than any
       THEN FromCommand("update", v, RecordedShortcuts, InstalledComponents)
       ELSE \E m \in Versions : /\ m > InstalledVersion
                               /\ FromCommand("remote", m, RecordedShortcuts, {})
    /\ UNCHANGED <<place, asked>>

\* resolve refuses an older setup unless --allow-downgrade.
CommandRepair(v) ==
    /\ Existing
    /\ FromCommand("repair", v, RecordedShortcuts, InstalledComponents)
    /\ UNCHANGED <<place, asked>>

\* With the shortcuts and the components named, or the recorded ones.
CommandModify(v) ==
    /\ Existing
    /\ \E sh \in SUBSET Shortcuts, C \in Choices \cup {InstalledComponents} :
          /\ FromCommand("modify", v, sh, C)
          /\ asked' = asked \cup (IF sh = RecordedShortcuts THEN {} ELSE sh)
    /\ UNCHANGED place

CommandUninstall(v) ==
    /\ Existing
    /\ FromCommand("uninstall", v, {}, {})
    /\ UNCHANGED <<place, asked>>

Command(v) == \/ CommandInstall(v) \/ CommandUpdate(v) \/ CommandRepair(v)
              \/ CommandModify(v) \/ CommandUninstall(v)

-----------------------------------------------------------------------------
(* The steps of a run over the setup's own package: run_real_install *)

In(phase) == job # Nothing /\ job.phase = phase
GoTo(phase) == job' = [job EXCEPT !.phase = phase] /\ UNCHANGED window

\* A mutant: the window is not told.
EndsUntold(ok) == job' = Nothing /\ window' = window

\* The worker's last event: the title, the message and the Done page; or the exit code.
Ends(ok) ==
    /\ job' = Nothing
    /\ window' = IF job.by = "window"
                 THEN [window EXCEPT !.page = "done", !.success = ok]
                 ELSE window

Extract(f) ==
    /\ In("extract")
    /\ f \in job.left
    /\ onDisk' = [onDisk EXCEPT ![f] = job.version]
    /\ behind' = behind \cup {f}
    /\ job' = [job EXCEPT !.left = @ \ {f}]
    /\ UNCHANGED <<registered, record, system, engine, place, window, runs, asked,
                   unrecorded, astray, takenOut>>

Extracted ==
    /\ In("extract")
    /\ job.left = {}
    /\ GoTo(IF job.drop = {} THEN "integrate" ELSE "drop")
    /\ UNCHANGED <<disk, runs, history>>

\* A mutant: the error of the extraction is not returned.
ExtractStopsUnnoticed ==
    /\ In("extract")
    /\ GoTo("integrate")
    /\ UNCHANGED <<disk, runs, history>>

\* Its refusals, prerequisites, a running app and errors, before and between files.
ExtractStops ==
    /\ In("extract")
    /\ Ends(FALSE)
    /\ UNCHANGED <<disk, runs, history>>

\* remove_listed passes over what it cannot delete.
DropComponents ==
    /\ In("drop")
    /\ \E left \in SUBSET FilesOf(job.drop) :
          onDisk' = [f \in Files |-> IF f \in FilesOf(job.drop) \ left THEN None ELSE onDisk[f]]
    /\ behind' = behind \cup FilesOf(job.drop)
    /\ GoTo("integrate")
    /\ UNCHANGED <<registered, record, system, engine, place, runs, asked, unrecorded, astray,
                   takenOut>>

\* do_system_integration adds shortcuts, copies the engine and writes the entry of the list
\* of programs, one after the other and each of them best effort: any of them may not
\* happen, so that stopping between two is one of the outcomes.
Integrate ==
    /\ In("integrate")
    /\ \E made \in SUBSET job.shortcuts : system' = system \cup made
    /\ engine' \in {engine, job.version}
    /\ \/ /\ registered' = job.version
          /\ behind' = Files \ Taken(job)
       \/ UNCHANGED <<registered, behind>>
    /\ GoTo("record")
    /\ UNCHANGED <<onDisk, record, place, runs, asked, unrecorded, astray, takenOut>>

LeftOff(r) == system \ (IF r = Nothing THEN {} ELSE r.shortcuts)

\* uninstall-info.json is written in place: it may be written, torn or left as it was.
WriteRecord ==
    /\ In("record")
    /\ LET new == [shortcuts |-> job.shortcuts, comps |-> job.comps]
       IN \/ /\ record' = new
             /\ takenOut' = IF job.verb \in {"install", "modify"} \/ job.shortcuts # RecordedShortcuts
                            THEN takenOut \cup LeftOff(new) ELSE takenOut
             /\ UNCHANGED astray
          \/ /\ record' \in {record, Nothing}
             /\ astray' = astray \cup LeftOff(record')
             /\ UNCHANGED takenOut
    /\ Ends(TRUE)
    /\ UNCHANGED <<onDisk, registered, system, engine, place, runs, asked,
                   unrecorded, behind>>

-----------------------------------------------------------------------------
(* The steps of a remote update: download_update, apply_remote_update *)

Download ==
    /\ In("download")
    /\ GoTo("apply") \/ Ends(FALSE)
    /\ UNCHANGED <<disk, runs, history>>

\* Every file is extracted; a failure rolls back, as far as it can.
Apply ==
    /\ In("apply")
    /\ \E new \in SUBSET Files :
          /\ onDisk' = [f \in Files |-> IF f \in new THEN job.version ELSE onDisk[f]]
          /\ behind' = behind \cup new
          /\ \/ Ends(FALSE)
             \/ new = Files /\ GoTo("merge")
    /\ UNCHANGED <<registered, record, system, engine, place, runs, asked,
                   unrecorded, astray, takenOut>>

\* A mutant: the record is written anew, with what this path knows.
RecordUpdateAnew ==
    /\ In("merge")
    /\ record' = IF record = Nothing THEN Nothing ELSE [record EXCEPT !.shortcuts = {}]
    /\ Ends(TRUE)
    /\ UNCHANGED <<onDisk, registered, system, engine, place, runs, history>>

\* record_update: the files are added, every other key is kept; the write may tear it.
RecordUpdate ==
    /\ In("merge")
    /\ record' \in {record, Nothing}
    /\ astray' = IF record' = record THEN astray ELSE astray \cup LeftOff(Nothing)
    /\ Ends(TRUE)
    /\ UNCHANGED <<onDisk, registered, system, engine, place, runs, asked,
                   unrecorded, takenOut, behind>>

-----------------------------------------------------------------------------
(* The steps of an uninstall: do_uninstall_full *)

\* Nothing is undone for an installation without a record, its entry included. With one, the
\* start at sign-in is taken out whether it was recorded or not.
Unregister ==
    /\ In("unregister")
    /\ IF record = Nothing
       THEN UNCHANGED <<system, registered, astray>>
       ELSE /\ \E gone \in SUBSET (record.shortcuts \cup {Autostart}) :
                  /\ system' = system \ gone
                  /\ astray' = astray \cup ((system \cap record.shortcuts) \ gone)
            /\ registered' \in {registered, None}
    /\ GoTo("remove")
    /\ UNCHANGED <<onDisk, record, engine, place, runs, asked, unrecorded,
                   takenOut, behind>>

\* A list is gone through ignoring what cannot be deleted; a folder's removal may fail.
Remove ==
    /\ In("remove")
    /\ \E left \in SUBSET Files :
          /\ onDisk' = [f \in Files |-> IF f \in left THEN onDisk[f] ELSE None]
          /\ record' \in {record, Nothing}
          /\ engine' \in {engine, None}
    /\ behind' = Files
    /\ Ends(TRUE) \/ (Folder' /\ Ends(FALSE))
    /\ UNCHANGED <<registered, system, place, runs, asked, unrecorded, astray,
                   takenOut>>

-----------------------------------------------------------------------------
(* What stops a run, and a folder *)

\* The process dies, or the window is closed over its worker; a write in progress is torn.
Dies ==
    /\ job # Nothing
    /\ job' = Nothing
    /\ window' = IF job.by = "window" THEN Nothing ELSE window
    /\ record' \in IF job.phase \in {"record", "merge"} THEN {record, Nothing} ELSE {record}
    /\ astray' = IF job.phase = "record" \/ record' # record
                 THEN astray \cup LeftOff(record') ELSE astray
    /\ UNCHANGED <<onDisk, registered, system, engine, place, runs, asked, unrecorded,
                   takenOut, behind>>

\* Somebody deletes the folder.
DeleteFolder ==
    /\ job = Nothing
    /\ Folder
    /\ onDisk' = [f \in Files |-> None]
    /\ engine' = None
    /\ record' = Nothing
    /\ astray' = astray \cup system
    /\ behind' = Files
    /\ UNCHANGED <<registered, system, place, window, job, runs, asked, unrecorded, takenOut>>

-----------------------------------------------------------------------------

\* An installation made by a setup of version v that did all it was to do.
Complete(v, C, sh) ==
    /\ onDisk = [f \in Files |-> IF f \in Selected(C) THEN v ELSE None]
    /\ registered = v
    /\ record = [shortcuts |-> sh, comps |-> C]
    /\ system = sh
    /\ engine = v
    /\ asked = sh
    /\ behind = Files \ Selected(C)

Absent ==
    /\ onDisk = [f \in Files |-> None]
    /\ registered = None
    /\ record = Nothing
    /\ system = {}
    /\ engine = None
    /\ asked = {}
    /\ behind = {}

Init ==
    /\ \/ Absent
       \/ \E v \in Versions, C \in Choices, sh \in SUBSET Shortcuts : Complete(v, C, sh)
    /\ place = DefaultPlace
    /\ window = Nothing
    /\ job = Nothing
    /\ runs = 0
    /\ unrecorded = FALSE /\ astray = {} /\ takenOut = {}

People ==
    \/ \E v \in Versions : OpenSetup(v) \/ Command(v)
    \/ OpenInstalled \/ Close
    \/ ClickInstall \/ ClickRepair \/ ClickUpdate \/ UpdateRefused \/ ClickUninstall
    \/ DeleteFolder

Work ==
    \/ \E f \in Files : Extract(f)
    \/ Extracted \/ ExtractStops \/ DropComponents \/ Integrate \/ WriteRecord
    \/ Download \/ Apply \/ RecordUpdate
    \/ Unregister \/ Remove

Next == People \/ Work \/ Dies \/ \E v \in Versions : RemoteFound(v)

Spec == Init /\ [][Next]_vars

\* A worker thread that nobody kills goes on to its result.
FairSpec == Spec /\ WF_vars(Work)

-----------------------------------------------------------------------------
(* Properties *)

\* An Update started from the window is to the version its text named when it was clicked,
\* whichever of the bundled package and the remote manifest it comes from, and however late
\* the check answered.
UpdateIsToTheShownVersion ==
    job # Nothing /\ job.by = "window" /\ job.verb \in {"update", "remote"}
        => job.version = job.shown

\* An Update whose actor saw the version of every file there is never puts an older file over
\* one of them.
UpdateNeverGoesBack ==
    [][(job # Nothing /\ job.verb \in {"update", "remote"} /\ job.sure)
           => \A f \in Files : onDisk'[f] >= onDisk[f]]_vars

\* A shortcut, or the start at sign-in, that nobody ever asked for is not there after any
\* number of repairs and updates, unless a run had no record to read.
NoUnaskedShortcut ==
    system \subseteq asked \cup (IF unrecorded THEN DefaultShortcuts ELSE {})

\* Between runs every shortcut of the system is on the record the uninstall will read, but
\* those a failure, a death or a person kept off it, those somebody chose again without, and
\* those a window that had read an older record wrote it without.
EveryShortcutIsOnRecord ==
    job = Nothing => LeftOff(record) \subseteq astray \cup takenOut

\* Between runs every file the last run to register took is there and of the registered
\* version, whatever was chosen, repaired, updated and modified before, but what a remote
\* update (which registers nothing), a run that failed or died half-way, an uninstall or a
\* person changed since. Of other files nothing is promised: the window's Repair and Update
\* take the preset components (main.rs:1240, 1398), so that one chosen beyond them stays at
\* the version it had while the new one is registered.
RegisteredIsOnDisk ==
    job = Nothing /\ registered # None
        => \A f \in Files \ behind : onDisk[f] = registered

\* The window comes back from its progress page, whatever fails, unless it is closed.
WindowComesBack ==
    (window # Nothing /\ window.page = "progress")
        ~> (window = Nothing \/ window.page # "progress")

=============================================================================
