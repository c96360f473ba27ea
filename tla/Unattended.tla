------------------------------- MODULE Unattended ------------------------------
(***************************************************************************)
(* Unattended runs, one after the other on one machine: run_inner, Job and *)
(* with_window of crates/installer/src/unattended.rs, resolve of cli.rs,   *)
(* run_real_install and apply_remote_update of main.rs as the job sees     *)
(* them.  The worker thread and the progress window run beside the app the *)
(* setup replaces, which people start and quit as they like, and beside    *)
(* the process given as --wait-pid.                                        *)
(*                                                                         *)
(* What is in the folder is its version, whole, or some mixture.           *)
(* UpdateApply and InstallFolder have the files.                           *)
(***************************************************************************)
EXTENDS Integers

CONSTANTS
  MaxVersion,     \* bound: versions there are
  Setups,         \* the setups one may run
  CommandLines,   \* the command lines cli.rs lets through
  NotInstalled,   \* find_existing: no installation
  Unknown,        \* find_existing: one, of a version nobody recorded
  Empty,          \* none of the app's files in the folder
  Mixed           \* files of several versions, or some missing

Versions == 1 .. MaxVersion
Modes == {"install", "update", "repair", "modify", "uninstall"}
Trusts == {"preview", "unreadable", "invalid", "unsigned", "signed", "verified"}

(* version: of the bundled package; trust: what detect_signature says of   *)
(* it; update: is there an [update] section.  A configuration whose key is *)
(* none or no key where one is needed does not load (config.rs).           *)
SetupType ==
  [version : Versions, trust : Trusts, requireSignature : BOOLEAN, update : BOOLEAN]

(* wrong: what run_inner will refuse of it, a --dir elsewhere or a choice; *)
(* whole: run from elsewhere on a folder the record owns, so that an       *)
(* uninstall of it is one remove_dir_all.                                  *)
CommandLine ==
  [mode : Modes, quiet : BOOLEAN, wrong : {"nothing", "dir", "choices"},
   consents : BOOLEAN, offline : BOOLEAN, allowDowngrade : BOOLEAN,
   launch : BOOLEAN, waits : BOOLEAN, whole : BOOLEAN]

(* cli::validate: combinations that cannot mean what the caller thinks.    *)
Validated ==
  {c \in CommandLine :
     /\ c.offline => c.mode = "update"
     /\ c.consents => c.mode = "install"
     /\ c.wrong = "choices" => c.mode \in {"install", "modify"}
     /\ c.launch => c.mode # "uninstall"}

ASSUME ConstantsAssumption ==
  /\ MaxVersion \in Nat \ {0}
  /\ Setups \subseteq SetupType
  /\ CommandLines \subseteq Validated
  /\ NotInstalled \notin Versions /\ Unknown \notin Versions
  /\ Empty \notin Versions /\ Mixed \notin Versions
  /\ NotInstalled # Unknown /\ Empty # Mixed

VARIABLES
  folder,      \* what the app's folder holds
  registered,  \* the version find_existing reads
  app,         \* the app from that folder: not running, running, or running
               \* elevated, so that this process may not open it
  caller,      \* the --wait-pid process: gone, the app, or one it may not open
  handoff,     \* the handoff was written by this run
  pc, args, setup, elevated, plan, offered,
  cancel,      \* the window was asked to close
  exit,        \* how the last run ended
  before,      \* history: the folder when the run began
  recorded,    \* history: was its version the registered one then
  inTime,      \* history: it was asked while the run had a look at it to come
  touched      \* history: what the run did: "closed" the app, "prereqs", "wrote",
               \* "left" a file it could not delete

machine == << folder, registered, app, caller, handoff >>
locals == << args, setup, elevated, plan, offered, cancel >>
begun == << before, recorded, inTime >>
vars == << machine, pc, locals, exit, begun, touched >>

Exits == {"Ok", "Failed", "BadArgs", "NotInstalled", "Elevation", "Verification",
          "Disk", "AppRunning", "Cancelled", "AlreadyInstalled", "ConsentRequired",
          "Downgrade"}
Refusals == {"BadArgs", "NotInstalled", "AlreadyInstalled", "ConsentRequired",
             "Downgrade"}

(* What an error of the package reader or of a write is turned into.       *)
PackageErrors == {"Failed", "Elevation", "Verification", "Disk", "AppRunning"}

Plans == {"None", "Fresh", "Reinstall", "UpdateRemote", "UpToDate", "Uninstall"}

Places == {"idle", "package", "resolve", "choose", "rights", "space", "wait", "grace",
           "start", "open", "prereqs", "close", "closed", "extract", "first",
           "writing", "integrate", "ask", "download", "apply", "applying", "settling", "remove",
           "removing", "window", "handoff", "launch"}
JobPlaces == Places \ {"idle", "package", "resolve", "choose", "rights", "space",
                       "window", "handoff", "launch"}

Init ==
  /\ folder \in Versions \cup {Empty}
  /\ registered \in IF folder = Empty THEN {NotInstalled} ELSE {folder, Unknown}
  /\ app = "no" /\ caller = "gone" /\ handoff = FALSE
  /\ pc = "idle" /\ plan = "None" /\ exit = "Ok"
  /\ args \in CommandLines /\ setup \in Setups     \* read by no step before Begin
  /\ elevated = FALSE /\ offered = Unknown /\ cancel = FALSE
  /\ before = folder /\ recorded = FALSE /\ inTime = FALSE /\ touched = {}

--------------------------------------------------------------------------------
Begin(c, s) ==
  /\ pc = "idle"
  /\ pc' = "package"
  /\ args' = c /\ setup' = s
  /\ elevated' = FALSE /\ cancel' = FALSE /\ plan' = "None" /\ offered' = Unknown
  /\ caller' \in IF c.waits THEN {"app", "other"} ELSE {"gone"}
  /\ before' = folder /\ recorded' = (registered = folder)
  /\ inTime' = FALSE /\ touched' = {}
  /\ handoff' = FALSE
  /\ UNCHANGED << folder, registered, app, exit >>

(* run_inner returns.                                                      *)
Return(code) == pc' = "idle" /\ exit' = code

(* The worker is done: run_inner goes on when the window has closed.       *)
EndJob(code) ==
  /\ exit' = code
  /\ pc' = IF ~ args.quiet THEN "window" ELSE IF code = "Ok" THEN "handoff" ELSE "idle"

Goto(place) == pc' = place /\ UNCHANGED exit

Trusted(s) ==
  s.trust \in {"verified", "signed"} \/ (s.trust = "unsigned" /\ ~ s.requireSignature)

(* Mutant: an unsigned package is let through whatever the setup requires. *)
VerifyPackageLoosely ==
  /\ pc = "package"
  /\ \/ (args.mode = "uninstall" \/ setup.trust \in {"verified", "signed", "unsigned"})
          /\ Goto("resolve")
     \/ args.mode # "uninstall" /\ setup.trust = "preview" /\ Return("Failed")
     \/ args.mode # "uninstall" /\ setup.trust \in {"unreadable", "invalid"}
          /\ Return("Verification")
  /\ UNCHANGED << machine, locals, begun, touched >>

VerifyPackage ==
  /\ pc = "package"
  /\ IF args.mode = "uninstall" \/ Trusted(setup) THEN Goto("resolve")
     ELSE Return(IF setup.trust = "preview" THEN "Failed" ELSE "Verification")
  /\ UNCHANGED << machine, locals, begun, touched >>

Newer(v) == registered = Unknown \/ (registered \in Versions /\ v > registered)
Older(v) == registered \in Versions /\ registered > v

(* Mutant: a setup older than the registered version is put over it.       *)
ResolutionIgnoringOrder ==
  IF registered = NotInstalled
    THEN IF args.mode = "install" THEN "Fresh" ELSE "NotInstalled"
  ELSE IF args.mode = "install" THEN "AlreadyInstalled"
  ELSE IF args.mode = "uninstall" THEN "Uninstall"
  ELSE "Reinstall"

(* cli::resolve: the plan, or the exit code of what it refuses.            *)
Resolution ==
  IF registered = NotInstalled
    THEN IF args.mode = "install" THEN "Fresh" ELSE "NotInstalled"
  ELSE IF args.mode = "install" THEN "AlreadyInstalled"
  ELSE IF args.mode = "uninstall" THEN "Uninstall"
  ELSE IF args.mode = "update"
    THEN IF Newer(setup.version) THEN "Reinstall"
         ELSE IF setup.update /\ ~ args.offline THEN "UpdateRemote" ELSE "UpToDate"
  ELSE IF Older(setup.version) /\ ~ args.allowDowngrade THEN "Downgrade" ELSE "Reinstall"

Resolve ==
  /\ pc = "resolve"
  /\ IF args.wrong = "dir" /\ registered # NotInstalled /\ args.mode # "install"
       THEN Return("BadArgs") /\ UNCHANGED plan
     ELSE IF Resolution \in Refusals THEN Return(Resolution) /\ UNCHANGED plan
     ELSE /\ plan' = Resolution
          /\ IF Resolution = "UpToDate" THEN pc' = "launch" /\ exit' = "Ok"
             ELSE Goto("choose")
  /\ UNCHANGED << machine, args, setup, elevated, offered, cancel, begun, touched >>

(* Components, shortcuts, answers; a fresh install's consent.              *)
Choose ==
  /\ pc = "choose"
  /\ IF args.wrong = "choices" THEN Return("BadArgs")
     ELSE IF plan = "Fresh" /\ ~ args.consents THEN Return("ConsentRequired")
     ELSE Goto("rights")
  /\ UNCHANGED << machine, locals, begun, touched >>

(* Mutant: the elevated copy may ask again.                                *)
RightsAgain ==
  /\ pc = "rights"
  /\ \/ Goto("space") /\ UNCHANGED elevated
     \/ Return("Elevation") /\ UNCHANGED elevated
     \/ ~ args.quiet /\ elevated' = TRUE /\ Goto("package")
  /\ UNCHANGED << machine, args, setup, plan, offered, cancel, begun, touched >>

(* writable, elevate: a folder this process cannot write to.  The elevated *)
(* copy is the same command line run from its beginning; the one that      *)
(* started it waits, and returns its exit code.                            *)
Rights ==
  /\ pc = "rights"
  /\ \/ Goto("space") /\ UNCHANGED elevated
     \/ Return("Elevation") /\ UNCHANGED elevated
     \/ ~ elevated /\ ~ args.quiet /\ Return("Failed") /\ UNCHANGED elevated
     \/ ~ elevated /\ ~ args.quiet /\ elevated' = TRUE /\ Goto("package")
  /\ UNCHANGED << machine, args, setup, plan, offered, cancel, begun, touched >>

Space ==
  /\ pc = "space"
  /\ \/ plan \in {"Fresh", "Reinstall"} /\ Return("Disk")
     \/ ~ args.quiet /\ Return("Failed")      \* no window
     \/ Goto("wait")
  /\ UNCHANGED << machine, locals, begun, touched >>

--------------------------------------------------------------------------------
(* kill_running_apps: the processes started from the folder that this one  *)
(* may open are ended, if they can be.                                     *)
CloseApp ==
  /\ app' \in IF app = "running" THEN {"running", "no"} ELSE {app}
  /\ caller' \in IF caller = "app" THEN {"app", "gone"} ELSE {caller}
  /\ touched' = IF << app', caller' >> # << app, caller >>
                  THEN touched \cup {"closed"} ELSE touched

(* running_apps: of the processes this one may open.                       *)
Running == app = "running" \/ caller = "app"

(* Job::run, --wait-pid: for --wait-timeout, then after closing the app    *)
(* for five seconds more; a process it may not open is not waited for.     *)
WaitPid ==
  /\ pc = "wait"
  /\ \/ caller # "app" /\ Goto("start") /\ UNCHANGED << app, caller, touched >>
     \/ caller # "gone" /\ CloseApp /\ Goto("grace")
  /\ UNCHANGED << folder, registered, handoff, locals, begun >>

Grace ==
  /\ pc = "grace"
  /\ IF caller = "gone" THEN Goto("start") ELSE EndJob("AppRunning")
  /\ UNCHANGED << machine, locals, begun, touched >>

Cancelled == cancel /\ EndJob("Cancelled")

StartWork ==
  /\ pc = "start"
  /\ \/ Cancelled
     \/ ~ cancel /\ Goto(CASE plan = "UpdateRemote" -> "ask"
                           [] plan = "Uninstall" -> "remove"
                           [] OTHER -> "open")
  /\ UNCHANGED << machine, locals, begun, touched >>

(* run_real_install reads and checks the package a second time.            *)
OpenPackage ==
  /\ pc = "open"
  /\ \/ \E e \in PackageErrors : EndJob(e)
     \/ Trusted(setup) /\ Goto("prereqs")
  /\ UNCHANGED << machine, locals, begun, touched >>

EnsurePrereqs ==
  /\ pc = "prereqs"
  /\ \/ Cancelled /\ UNCHANGED touched
     \/ /\ ~ cancel
        /\ touched' \in {touched, touched \cup {"prereqs"}}
        /\ Goto("close") \/ \E e \in PackageErrors : EndJob(e)
  /\ UNCHANGED << machine, locals, begun >>

CloseBeforeInstall ==
  /\ pc = "close"
  /\ \/ Cancelled /\ UNCHANGED << app, caller, touched >>
     \/ ~ cancel /\ CloseApp /\ Goto("closed")
  /\ UNCHANGED << folder, registered, handoff, locals, begun >>

CheckClosed ==
  /\ pc = "closed"
  /\ \/ Running /\ EndJob("AppRunning")
     \/ ~ Running /\ (Goto("extract") \/ \E e \in {"Failed", "Elevation", "Disk"} : EndJob(e))
  /\ UNCHANGED << machine, locals, begun, touched >>

(* Mutant: the last look at the window's cancel is forgotten.              *)
LookUnasked ==
  /\ pc = "extract"
  /\ Goto("first")
  /\ UNCHANGED << machine, locals, begun, touched >>

(* The last look at the window's cancel.                                   *)
LastLook ==
  /\ pc = "extract"
  /\ Cancelled \/ (~ cancel /\ Goto("first"))
  /\ UNCHANGED << machine, locals, begun, touched >>

(* install_with_progress: nothing is asked any more.                       *)
Extract ==
  /\ pc = "first"
  /\ \/ UNCHANGED << folder, touched >> /\ \E e \in PackageErrors : EndJob(e)
     \/ Goto("writing") /\ folder' = Mixed /\ touched' = touched \cup {"wrote"}
  /\ UNCHANGED << registered, app, caller, handoff, locals, begun >>

Write ==
  /\ pc = "writing"
  /\ \/ UNCHANGED folder /\ \E e \in PackageErrors : EndJob(e)
     \/ folder' = setup.version /\ Goto("integrate")
  /\ UNCHANGED << registered, app, caller, handoff, locals, begun, touched >>

(* do_system_integration: no error of its own stops it.  A first install   *)
(* whose entry is not written may still be found by its record (--dir).    *)
Integrate ==
  /\ pc = "integrate"
  /\ registered' \in {setup.version, registered}
                      \cup (IF registered = NotInstalled THEN {Unknown} ELSE {})
  /\ EndJob("Ok")
  /\ UNCHANGED << folder, app, caller, handoff, locals, begun, touched >>

--------------------------------------------------------------------------------

(* Job::remote_update.  Nobody looks whether closing the app worked, and   *)
(* the registered version stays what it was.                               *)
AskRemote ==
  /\ pc = "ask"
  /\ \/ UNCHANGED offered /\ \E e \in {"Ok", "Failed", "Verification"} : EndJob(e)
     \/ Goto("download") /\ \E v \in Versions : Newer(v) /\ offered' = v
  /\ UNCHANGED << machine, args, setup, elevated, plan, cancel, begun, touched >>

Download ==
  /\ pc = "download"
  /\ \/ Cancelled
     \/ ~ cancel /\ (Goto("apply") \/ \E e \in PackageErrors : EndJob(e))
  /\ UNCHANGED << machine, locals, begun, touched >>

ApplyRemote ==
  /\ pc = "apply"
  /\ \/ Cancelled /\ UNCHANGED << app, caller, touched >>
     \/ ~ cancel /\ UNCHANGED << app, caller, touched >>
          /\ \E e \in {"Failed", "Verification"} : EndJob(e)
     \/ ~ cancel /\ CloseApp /\ Goto("applying")
  /\ UNCHANGED << folder, registered, handoff, locals, begun >>

(* The snapshot is taken, or refused.                                      *)
Snapshot ==
  /\ pc = "applying"
  /\ \/ EndJob("Failed") /\ UNCHANGED << folder, touched >>
     \/ Goto("settling") /\ folder' = Mixed /\ touched' = touched \cup {"wrote"}
  /\ UNCHANGED << registered, app, caller, handoff, locals, begun >>

(* The new version is in, or the old one is back, or it is in the snapshot.*)
Settle ==
  /\ pc = "settling"
  /\ \/ folder' = offered /\ EndJob("Ok")
     \/ folder' \in {before, Mixed} /\ EndJob("Failed")
  /\ UNCHANGED << registered, app, caller, handoff, locals, begun, touched >>

--------------------------------------------------------------------------------
(* do_uninstall_full: the Apps & Features entry goes first; the record     *)
(* that stays behind is found with --dir, without its version.             *)
Unregister ==
  /\ pc = "remove"
  /\ registered' \in {registered, NotInstalled, Unknown}
  /\ CloseApp /\ Goto("removing")
  /\ UNCHANGED << folder, handoff, locals, begun >>

(* Mutant: what remove_dir_all could not delete is passed over as well.    *)
RemoveUnnoticed ==
  /\ pc = "removing"
  /\ \/ folder' = Empty /\ touched' = touched \cup {"wrote"}
     \/ folder' \in {folder, Mixed, Empty} /\ touched' = touched \cup {"wrote", "left"}
  /\ registered' = IF registered = Unknown /\ folder' = Empty THEN NotInstalled
                   ELSE registered
  /\ EndJob("Ok")
  /\ UNCHANGED << app, caller, handoff, locals, begun >>

(* remove_dir_all stops with an error; remove_listed, and remove_dir_except*)
(* around the setup that runs from the folder, pass over what they cannot  *)
(* delete and tell nobody.                                                 *)
Remove ==
  /\ pc = "removing"
  /\ \/ folder' = Empty /\ touched' = touched \cup {"wrote"} /\ EndJob("Ok")
     \/ /\ folder' \in {folder, Mixed, Empty}
        /\ touched' = touched \cup {"wrote", "left"}
        /\ EndJob(IF args.whole THEN "Failed" ELSE "Ok")
  /\ registered' = IF registered = Unknown /\ folder' = Empty THEN NotInstalled
                   ELSE registered
  /\ UNCHANGED << app, caller, handoff, locals, begun >>

--------------------------------------------------------------------------------
(* with_window: closed by the worker's success, by the timer of the failure*)
(* page, or by hand; then the worker is joined.                            *)
CloseWindow ==
  /\ pc = "window"
  /\ Goto(IF exit = "Ok" THEN "handoff" ELSE "idle")
  /\ UNCHANGED << machine, locals, begun, touched >>

WriteHandoff ==
  /\ pc = "handoff"
  /\ IF plan # "Fresh" THEN Goto("launch") /\ UNCHANGED handoff
     ELSE \/ handoff' = TRUE /\ Goto("launch")
          \/ handoff' = FALSE /\ Return("Failed")
  /\ UNCHANGED << folder, registered, app, caller, locals, begun, touched >>

Launch ==
  /\ pc = "launch"
  /\ Return("Ok")
  /\ app' = IF args.launch /\ args.mode # "uninstall" /\ folder # Empty /\ app = "no"
              THEN "running" ELSE app
  /\ UNCHANGED << folder, registered, caller, handoff, locals, begun, touched >>

--------------------------------------------------------------------------------
(* The places of a run from which check_cancel is still called before the  *)
(* plan touches a file of the app.                                         *)
LooksToCome ==
  {"wait", "grace", "start"} \cup
    (CASE plan \in {"Fresh", "Reinstall"} ->
            {"open", "prereqs", "close", "closed", "extract"}
       [] plan = "UpdateRemote" -> {"ask", "download", "apply"}
       [] OTHER -> {})

(* The window is asked to close while the worker works.                    *)
AskClose ==
  /\ pc \in JobPlaces /\ ~ args.quiet
  /\ cancel' = TRUE
  /\ inTime' = (inTime \/ pc \in LooksToCome)
  /\ UNCHANGED << machine, pc, args, setup, elevated, plan, offered, exit, before,
                  recorded, touched >>

(* The process is killed, at any point.                                    *)
Die ==
  /\ pc # "idle"
  /\ Return("Failed")
  /\ UNCHANGED << machine, locals, begun, touched >>

StartApp ==
  /\ app = "no" /\ folder # Empty
  /\ app' \in {"running", "elevated"}
  /\ UNCHANGED << folder, registered, caller, handoff, pc, locals, exit, begun, touched >>

QuitApp ==
  /\ app # "no" /\ app' = "no"
  /\ UNCHANGED << folder, registered, caller, handoff, pc, locals, exit, begun, touched >>

CallerExits ==
  /\ caller # "gone" /\ caller' = "gone"
  /\ UNCHANGED << folder, registered, app, handoff, pc, locals, exit, begun, touched >>

Step ==
  \/ VerifyPackage \/ Resolve \/ Choose \/ Rights \/ Space
  \/ WaitPid \/ Grace \/ StartWork
  \/ OpenPackage \/ EnsurePrereqs \/ CloseBeforeInstall \/ CheckClosed
  \/ LastLook \/ Extract \/ Write \/ Integrate
  \/ AskRemote \/ Download \/ ApplyRemote \/ Snapshot \/ Settle
  \/ Unregister \/ Remove
  \/ CloseWindow \/ WriteHandoff \/ Launch

Next ==
  \/ \E c \in CommandLines, s \in Setups : Begin(c, s)
  \/ Step
  \/ AskClose \/ Die \/ StartApp \/ QuitApp \/ CallerExits

Spec == Init /\ [][Next]_vars

(* A run is one process whose waits all have an end; of people, of the app *)
(* and of what a call answers nothing is assumed.                          *)
FairSpec == Spec /\ WF_vars(Step)

--------------------------------------------------------------------------------
TypeOK ==
  /\ folder \in Versions \cup {Empty, Mixed}
  /\ registered \in Versions \cup {NotInstalled, Unknown}
  /\ app \in {"no", "running", "elevated"}
  /\ caller \in {"gone", "app", "other"}
  /\ handoff \in BOOLEAN
  /\ pc \in Places
  /\ args \in CommandLines /\ setup \in Setups
  /\ elevated \in BOOLEAN /\ cancel \in BOOLEAN
  /\ plan \in Plans
  /\ offered \in Versions \cup {Unknown}
  /\ exit \in Exits
  /\ before \in Versions \cup {Empty, Mixed}
  /\ recorded \in BOOLEAN /\ inTime \in BOOLEAN
  /\ touched \subseteq {"closed", "prereqs", "wrote", "left"}

(***************************************************************************)
(* What the exit code stands for, to the updater that branches on it       *)
(* (cli.rs:20-22).  Ok of an install, a repair or a modify: the setup's    *)
(* version is in the folder, and the handoff of a fresh install written.   *)
(* Ok of an update from the network: the version offered is in, newer than *)
(* the registered one, or none was and no file was touched.  Ok of an      *)
(* update that is up to date: the app was left alone.  Ok of an uninstall: *)
(* the folder is gone, or a file in it could not be deleted by one of the  *)
(* two removals that pass over that (main.rs:2263, 2270); the removal of an*)
(* owned folder from outside says so.  A refusal: nothing happened at all, *)
(* not even to the running app.  Cancelled: none of the app's files was    *)
(* written.                                                                *)
(***************************************************************************)
ExitTellsTheTruth ==
  pc = "idle" =>
    /\ exit = "Ok" /\ plan \in {"Fresh", "Reinstall"} => folder = setup.version
    /\ exit = "Ok" /\ plan = "Fresh" => handoff
    /\ exit = "Ok" /\ plan = "UpdateRemote" =>
         IF offered = Unknown THEN folder = before /\ "wrote" \notin touched
         ELSE folder = offered /\ Newer(offered)
    /\ exit = "Ok" /\ plan = "UpToDate" => touched = {}
    /\ exit = "Ok" /\ plan = "Uninstall" =>
         folder = Empty \/ ("left" \in touched /\ ~ args.whole)
    /\ exit \in Refusals => touched = {}
    /\ exit = "Cancelled" => "wrote" \notin touched

(***************************************************************************)
(* A run closes the app, brings prerequisites in and writes files only for *)
(* a package it has verified and, for a fresh install, with the consent    *)
(* given.  The app may be closed long before run_real_install, which looks *)
(* at the signature again, opens the package.                              *)
(***************************************************************************)
TouchesOnlyWhatIsVerified ==
  touched # {} /\ args.mode # "uninstall" =>
    /\ Trusted(setup)
    /\ plan = "Fresh" => args.consents

(***************************************************************************)
(* A window asked to close while its run has a look at that still to come  *)
(* (Hooks::check_cancel) closes on a run that has written and removed none *)
(* of the app's files, then and for good, whatever the run was doing and   *)
(* whatever its plan.  Asked between the last look and the first file, or  *)
(* later, the run goes on to its end.                                      *)
(***************************************************************************)
CloseInTimeWritesNothing ==
  inTime => /\ "wrote" \notin touched
            /\ pc \notin {"first", "writing", "integrate", "applying", "settling",
                          "remove", "removing"}

(***************************************************************************)
(* Where the registered version is what the folder holds, no run without   *)
(* --allow-downgrade leaves an older one, through failures and retries.    *)
(***************************************************************************)
NeverOlderThanRecorded ==
  [][(recorded /\ before \in Versions /\ ~ args.allowDowngrade
       /\ folder' # folder /\ folder' \in Versions) => folder' >= before]_vars

(***************************************************************************)
(* Every run ends with an exit code: the waits are bounded, a cancelled or *)
(* failed job closes its window, and the elevated copy never asks again.   *)
(***************************************************************************)
EveryRunExits == pc # "idle" ~> pc = "idle"
================================================================================
