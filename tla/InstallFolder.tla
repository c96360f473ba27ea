----------------------------- MODULE InstallFolder -----------------------------
(***************************************************************************)
(* What an install, a modify, a remote update and an uninstall may do to   *)
(* the folder the user picked, which may hold files of the user's and of   *)
(* another app: run_real_install, do_system_integration, record_update and *)
(* do_uninstall_full of crates/installer, with crates/installer's          *)
(* uninstall.rs deciding what is the install's own.                        *)
(*                                                                         *)
(* The facts it decides from live in <dir>/uninstall-info.json, written    *)
(* last, best effort, and not atomically.  A remote update's files are     *)
(* written all or not at all: UpdateApply is that part.  One process runs  *)
(* at a time; the script that deletes the uninstaller runs beside it.      *)
(***************************************************************************)
EXTENDS Naturals

CONSTANTS
  Files,        \* paths packages and users put files at
  Uninstaller,  \* uninstall.exe
  UserFiles,    \* those the user puts files at
  Apps,
  Comps,        \* optional or required components, as installer.toml lists them
  Core,         \* the component of a file that has none
  NotPacked,    \* "component" of a path a package does not hold
  Places,       \* the folders one may pick
  Setups,       \* the setups one may run: an app, its files, the required components
  Nobody,       \* no file there
  User,         \* a file of the user's there
  NoFile,       \* no uninstall-info.json
  Unreadable,   \* one whose writing was cut short
  Absent        \* a key older engines did not write

SetupType ==
  [app : Apps, comp : [Files -> Comps \cup {Core, NotPacked}], required : SUBSET Comps]

ASSUME ConstantsAssumption ==
  /\ Uninstaller \notin Files
  /\ UserFiles \subseteq Files
  /\ Setups \subseteq SetupType
  /\ Places \subseteq [named : Apps \cup {Nobody}, broad : BOOLEAN]
  /\ Nobody # User /\ {Nobody, User} \cap Apps = {}
  /\ Core # NotPacked /\ {Core, NotPacked} \cap Comps = {}
  /\ Absent \notin BOOLEAN
  /\ NoFile # Unreadable

Paths == Files \cup {Uninstaller}

Records ==
  [app : Apps, owns : {Absent} \cup BOOLEAN, files : {Absent} \cup SUBSET Files,
   comps : {Absent} \cup SUBSET Comps]

ASSUME RecordsAssumption ==
  /\ NoFile \notin Records /\ Unreadable \notin Records
  /\ \A S \in SUBSET Files : S # Absent

VARIABLES
  folder,      \* who wrote the file at each path
  info,        \* uninstall-info.json
  registered,  \* apps with an Apps & Features entry for this folder
  place,       \* the folder: the app it is named after, if any; and is it a root,
               \* a folder just below one, or the user's home (`broad`)
  doomed,      \* the detached script: not scheduled, "exe" only, or "whole" folder
  pc,          \* the running install or remote update
  run,         \* its locals
  guests,      \* history: the user's files when the recorded install began
  orphans,     \* history: files on disk no record knows of
  overtaken    \* history: an install began while the script waited for its second

vars == << folder, info, registered, place, doomed, pc, run, guests, orphans, overtaken >>

--------------------------------------------------------------------------------
PackageFiles(s) == {f \in Files : s.comp[f] # NotPacked}
CompsOf(s) == {s.comp[f] : f \in Files} \ {Core, NotPacked}
FilesOf(s, C) == {f \in Files : s.comp[f] \in C}

(* reader.rs, selected: an empty selection stands for "install everything".*)
Selected(s, want) ==
  {f \in PackageFiles(s) : want = {} \/ s.comp[f] \in want \cup {Core}}

Written(a, W) == [p \in Paths |-> IF p \in W THEN a ELSE folder[p]]
Deleted(D) == [p \in Paths |-> IF p \in D THEN Nobody ELSE folder[p]]
Present == {p \in Paths : folder[p] # Nobody}
AppFiles == {f \in Files : folder[f] \in Apps}

(* The step leaves the folder as `t`, and those files of S on no record.    *)
Unlisted(t, S) == orphans' = {f \in S : t[f] \in Apps}

(* read_info: Null for a file that is not there or does not parse.         *)
ReadInfo == IF info = Unreadable THEN NoFile ELSE info

LegacyOwns(a) == place.named = a

(* Mutant: an install without a record owns whatever folder it is given.   *)
OwnsAnyFolder(prior) ==
  IF prior = NoFile THEN TRUE
  ELSE IF prior.owns # Absent THEN prior.owns
  ELSE LegacyOwns(prior.app)

OwnsDirBeforeInstall(prior) ==
  IF prior = NoFile THEN Present = {} /\ info = NoFile
  ELSE IF prior.owns # Absent THEN prior.owns
  ELSE LegacyOwns(prior.app)

RecordedFiles(i) == IF i = NoFile \/ i.files = Absent THEN {} ELSE i.files

(* Mutants: only this run's files; the uninstaller along with them.        *)
WrittenFilesOnly(prior, written) == written

MergedFiles(prior, written) == RecordedFiles(prior) \cup written

InstalledComponents(s) ==
  s.required \cup
  IF ReadInfo # NoFile /\ ReadInfo.comps # Absent
    THEN IF ReadInfo.comps = {} THEN CompsOf(s) ELSE ReadInfo.comps \cap CompsOf(s)
    ELSE {c \in CompsOf(s) : \E f \in FilesOf(s, {c}) : folder[f] # Nobody}

(* find_existing: the Apps & Features entry, else a record for this app.   *)
Exists(s) == s.app \in registered \/ (ReadInfo # NoFile /\ ReadInfo.app = s.app)

NoRun == [setup |-> Nobody]

Init ==
  /\ place \in Places
  /\ \/ folder \in [Paths -> {Nobody}] /\ info = NoFile /\ registered = {}
     \/ \E s \in Setups :      \* left by an engine that recorded neither fact
          /\ folder = [p \in Paths |->
                         IF p \in PackageFiles(s) \cup {Uninstaller} THEN s.app ELSE Nobody]
          /\ info = [app |-> s.app, owns |-> Absent, files |-> Absent, comps |-> Absent]
          /\ registered = {s.app}
  /\ doomed = "no"
  /\ pc = "idle"
  /\ run = NoRun
  /\ guests = {}
  /\ orphans = {}
  /\ overtaken = FALSE

--------------------------------------------------------------------------------
(* The user saves a file in the folder.                                    *)
UserPut(f) ==
  /\ folder[f] = Nobody
  /\ folder' = [folder EXCEPT ![f] = User]
  /\ UNCHANGED << info, registered, place, doomed, pc, run, guests, orphans, overtaken >>

(* run_real_install up to the extraction.  Whether the folder is ours is   *)
(* decided here, and not looked at again.                                  *)
BeginInstall(s, want, drop) ==
  /\ s.required \subseteq want
  /\ pc = "idle"
  /\ pc' = "begun"
  /\ run' = [setup |-> s, want |-> want, drop |-> drop, prior |-> ReadInfo,
             owns |-> OwnsDirBeforeInstall(ReadInfo), files |-> {}]
  /\ guests' = IF ReadInfo = NoFile THEN {f \in Files : folder[f] = User} ELSE guests
  /\ overtaken' = (overtaken \/ doomed = "whole")
  /\ UNCHANGED << folder, info, registered, place, doomed, orphans >>

(* install_with_progress: what it writes stays, whether it finishes or not.*)
Extract ==
  /\ pc = "begun"
  /\ LET W == Selected(run.setup, run.want) IN
       /\ folder' = Written(run.setup.app, W)
       /\ run' = [run EXCEPT !.files = W]
       /\ guests' = guests \ W
  /\ pc' = "extracted"
  /\ UNCHANGED << info, registered, place, doomed, orphans, overtaken >>

ExtractStops(W) ==
  /\ pc = "begun"
  /\ W \subseteq Selected(run.setup, run.want)
  /\ folder' = Written(run.setup.app, W)
  /\ guests' = guests \ W
  /\ Unlisted(folder', orphans \cup W)
  /\ pc' = "idle"
  /\ run' = NoRun
  /\ UNCHANGED << info, registered, place, doomed, overtaken >>

(* A modify's deselected components: their files are deleted, `left` could *)
(* not be, and all of them leave the list.                                 *)
Drop(left) ==
  /\ pc = "extracted"
  /\ LET gone == FilesOf(run.setup, run.drop) IN
       /\ left \subseteq gone \cap Present
       /\ folder' = Deleted(gone \ left)
       /\ run' = [run EXCEPT !.files = MergedFiles(run.prior, run.files) \ gone]
       /\ Unlisted(folder', orphans \cup left)
  /\ pc' = "settling"
  /\ UNCHANGED << info, registered, place, doomed, guests, overtaken >>

(* do_system_integration: uninstall.exe, the Apps & Features entry and the *)
(* record, each of which may fail unsaid.                                  *)
Integrate ==
  /\ pc = "settling"
  /\ folder' \in {folder, Written(run.setup.app, {Uninstaller})}
  /\ registered' \in {registered, registered \cup {run.setup.app}}
  /\ info' = [app |-> run.setup.app, owns |-> run.owns, files |-> run.files,
              comps |-> run.want]
  /\ Unlisted(folder, (IF run.prior # NoFile /\ run.prior.files = Absent
                THEN AppFiles ELSE orphans) \ run.files)
  /\ pc' = "idle"
  /\ run' = NoRun
  /\ UNCHANGED << place, doomed, guests, overtaken >>

RecordFails ==
  /\ pc = "settling"
  /\ folder' \in {folder, Written(run.setup.app, {Uninstaller})}
  /\ registered' \in {registered, registered \cup {run.setup.app}}
  /\ info' \in {info, Unreadable}
  /\ Unlisted(folder, AppFiles)
  /\ pc' = "idle"
  /\ run' = NoRun
  /\ UNCHANGED << place, doomed, guests, overtaken >>

(* The process dies after its files were written.                          *)
InstallDies ==
  /\ pc \in {"extracted", "settling"}
  /\ Unlisted(folder, AppFiles)
  /\ pc' = "idle"
  /\ run' = NoRun
  /\ UNCHANGED << folder, info, registered, place, doomed, guests, overtaken >>

--------------------------------------------------------------------------------
(* apply_remote_update: every component of the package, whatever is        *)
(* selected; then record_update, which adds to a record but makes none.    *)
RemoteUpdate(s) ==
  /\ pc = "idle"
  /\ Exists(s)
  /\ folder' = Written(s.app, PackageFiles(s))
  /\ guests' = guests \ PackageFiles(s)
  /\ pc' = "updated"
  /\ run' = [NoRun EXCEPT !.setup = s]
  /\ UNCHANGED << info, registered, place, doomed, orphans, overtaken >>

RecordUpdate ==
  /\ pc = "updated"
  /\ info \in Records
  /\ info' = [info EXCEPT !.files = MergedFiles(info, PackageFiles(run.setup))]
  /\ Unlisted(folder, (IF info.files = Absent THEN AppFiles ELSE orphans) \ info'.files)
  /\ pc' = "idle"
  /\ run' = NoRun
  /\ UNCHANGED << folder, registered, place, doomed, guests, overtaken >>

(* No record to add to, a write that fails, a process that dies.           *)
RecordUpdateFails ==
  /\ pc = "updated"
  /\ info' \in IF info = NoFile THEN {NoFile} ELSE {info, Unreadable}
  /\ Unlisted(folder, AppFiles)
  /\ pc' = "idle"
  /\ run' = NoRun
  /\ UNCHANGED << folder, registered, place, doomed, guests, overtaken >>

--------------------------------------------------------------------------------
(* Mutant: the folder goes whole whoever owns it.                          *)
RecursiveAlways ==
  /\ ~ place.broad
  /\ ReadInfo # NoFile

(* plan: the whole folder when it is ours, else the recorded list, else    *)
(* the list of the package the uninstaller carries.                        *)
Recursive ==
  LET i == ReadInfo IN
    /\ ~ place.broad
    /\ i # NoFile
    /\ IF i.owns # Absent THEN i.owns ELSE LegacyOwns(i.app)

Listed(s) ==
  {Uninstaller} \cup
  IF ReadInfo # NoFile /\ ReadInfo.files # Absent THEN ReadInfo.files ELSE PackageFiles(s)

(* do_uninstall_full: `left` could not be deleted, or the process died     *)
(* before; the record too may stay.  Run from inside, the uninstaller is   *)
(* locked and left to the detached script.                                 *)
Uninstall(s, inside, left) ==
  /\ pc = "idle"
  /\ IF inside THEN folder[Uninstaller] = s.app ELSE Exists(s)
  /\ registered' = IF ReadInfo = NoFile THEN registered ELSE registered \ {ReadInfo.app}
  /\ LET target == (IF Recursive THEN Present ELSE Listed(s) \cap Present)
                      \ (IF inside THEN {Uninstaller} ELSE {}) IN
       /\ left \subseteq target
       /\ folder' = Deleted(target \ left)
  /\ info' \in {NoFile, info}
  /\ Unlisted(folder', IF info' = info THEN orphans ELSE Files)
  /\ guests' = IF info' = NoFile THEN {} ELSE guests
  /\ doomed' \in IF inside THEN {doomed, IF Recursive THEN "whole" ELSE "exe"} ELSE {doomed}
  /\ UNCHANGED << place, pc, run, overtaken >>

(* The script of schedule_self_delete, about a second later: the exe and,  *)
(* for an owned folder, `rmdir /S /Q`, which passes over what is open.     *)
SelfDelete(left) ==
  /\ doomed # "no"
  /\ doomed' = "no" /\ overtaken' = FALSE
  /\ LET target == IF doomed = "whole" THEN Present ELSE Present \cap {Uninstaller} IN
       /\ left \subseteq target
       /\ folder' = Deleted(target \ left)
  /\ info' \in IF doomed = "whole" THEN {NoFile, info} ELSE {info}
  /\ Unlisted(folder', IF info' = info THEN orphans ELSE Files)
  /\ UNCHANGED << registered, place, pc, run, guests >>

--------------------------------------------------------------------------------
Next ==
  \/ \E f \in UserFiles : UserPut(f)
  \/ \E s \in Setups, want \in SUBSET Comps :
       \/ BeginInstall(s, want, {})
       \/ Exists(s) /\ BeginInstall(s, want, InstalledComponents(s) \ want)
  \/ Extract
  \/ \E W \in SUBSET Files : ExtractStops(W)
  \/ \E left \in SUBSET Files : Drop(left)
  \/ Integrate \/ RecordFails \/ InstallDies
  \/ \E s \in Setups : RemoteUpdate(s)
  \/ RecordUpdate \/ RecordUpdateFails
  \/ \E s \in Setups, inside \in BOOLEAN, left \in SUBSET Paths :
       Uninstall(s, inside, left)
  \/ \E left \in SUBSET Paths : SelfDelete(left)

Spec == Init /\ [][Next]_vars

--------------------------------------------------------------------------------
Runs ==
  [setup : Setups, want : SUBSET Comps, drop : SUBSET Comps,
   prior : Records \cup {NoFile}, owns : BOOLEAN, files : SUBSET Files]

TypeOK ==
  /\ folder \in [Paths -> Apps \cup {Nobody, User}]
  /\ info \in Records \cup {NoFile, Unreadable}
  /\ registered \subseteq Apps
  /\ place \in Places
  /\ doomed \in {"no", "exe", "whole"}
  /\ pc \in {"idle", "begun", "extracted", "settling", "updated"}
  /\ pc = "idle" => run = NoRun
  /\ pc = "updated" => run \in [setup : Setups]
  /\ pc \in {"begun", "extracted", "settling"} => run \in Runs
  /\ guests \subseteq Files
  /\ orphans \subseteq Files
  /\ overtaken \in BOOLEAN

(***************************************************************************)
(* owns_dir, carried from run to run and from app to app, through stopped  *)
(* installs, lost records and remote updates, is true only of a folder that*)
(* held nothing of the user's when the install it stands for was decided.  *)
(***************************************************************************)
OwnedFolderHadNothing == info \in Records /\ info.owns = TRUE => guests = {}

(***************************************************************************)
(* A file of the user's that no install wrote over is deleted in four ways *)
(* only.  An uninstall takes the whole of a folder the record owns, but    *)
(* never what was there when that was decided: what goes with it was saved *)
(* since, and a later install, repair or modify of any app keeps the first *)
(* decision (uninstall.rs:42).  An uninstall by list takes what lies at a  *)
(* recorded path, which held nothing of the user's then.  Dropping a       *)
(* component, or uninstalling where no list is on record, takes what lies  *)
(* at the paths of a package.  And the delayed script of an owned folder's *)
(* uninstall takes what is there when it runs: an older file only if an    *)
(* install began in the second it waits.                                   *)
(***************************************************************************)
UserFilesGoOnlyAs(f) ==
  \/ pc = "idle" /\ Recursive /\ f \notin guests
  \/ pc = "idle" /\ f \in RecordedFiles(ReadInfo) \ guests
  \/ /\ \E s \in Setups : f \in PackageFiles(s)
     /\ \/ pc = "extracted" /\ run.drop # {}
        \/ pc = "idle" /\ (ReadInfo = NoFile \/ info.files = Absent)
  \/ doomed = "whole" /\ doomed' = "no" /\ (overtaken \/ f \notin guests)

UserFilesStay ==
  [][\A f \in Files : folder[f] = User /\ folder'[f] = Nobody => UserFilesGoOnlyAs(f)]_vars

(***************************************************************************)
(* Uninstall from a folder it does not own deletes every file any install  *)
(* or update put there: they are all on record, but those of runs that     *)
(* stopped or whose record could not be written, those that could not be   *)
(* deleted, and those that an earlier record without a list did not name.  *)
(***************************************************************************)
RecordCoversInstall ==
  pc = "idle" /\ info \in Records /\ info.files # Absent =>
    AppFiles \subseteq info.files \cup orphans
================================================================================
