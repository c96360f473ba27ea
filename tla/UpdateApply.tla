------------------------------ MODULE UpdateApply ------------------------------
(***************************************************************************)
(* apply_checked of crates/bpkg-core/src/update.rs: one package is applied *)
(* over an install directory, file by file, with a snapshot of the         *)
(* directory in a sibling folder `<name>.bak` to roll back to.             *)
(*                                                                         *)
(* A step is one system call that changes the disk, or one decision of the *)
(* code.  Every such call may fail, and the process may die between any    *)
(* two of them (power cut, killed process).  The only memory that survives *)
(* is the disk: install, backup, hasBackup and links.                      *)
(***************************************************************************)
EXTENDS Integers

CONSTANTS
  Files,        \* paths the install directory or a package may hold
  NestedLinks,  \* links and junctions inside SUBdirectories of the install
  UserFiles,    \* those the app and its user write between updates
  Contents,     \* what a file may hold
  Missing,      \* no file at that path
  Torn,         \* a file whose writing was cut short
  Packages,     \* the packages that may be handed to an update
  NoPackage

(* A package: what the checks before the snapshot say of it, the entries   *)
(* the install pass will write (a component that is not selected has none),*)
(* and those of them it refuses: not listed, wrong hash, or unsafe path.   *)
PackageType ==
  [ verified : BOOLEAN, accepted : BOOLEAN,
    archive : [Files -> Contents \cup {Missing}], bad : SUBSET Files ]

ASSUME ConstantsAssumption ==
  /\ Missing \notin Contents
  /\ Torn \notin Contents
  /\ Missing # Torn
  /\ UserFiles \subseteq Files
  /\ Files \cap NestedLinks = {}
  /\ NoPackage \notin Packages
  /\ \A p \in Packages : p \in PackageType

VARIABLES
  install,    \* the install directory
  backup,     \* what `<name>.bak` holds
  hasBackup,  \* whether `<name>.bak` exists
  links,      \* the nested links still there
  pc,         \* where the running update is; "idle": none is running
  pkg,        \* the package of the running update
  todo,       \* the directory or archive entries its current loop has left
  failed,     \* restore_dir's count
  result,     \* what the last update returned
  base,       \* history: the install directory when the update took its snapshot
  pending,    \* history: the package whose writing began and was not settled
  whole       \* history: the last whole version, with what its user changed since

disk == << install, backup, hasBackup, links >>
vars == << install, backup, hasBackup, links, pc, pkg, todo, failed, result,
           base, pending, whole >>

--------------------------------------------------------------------------------
Tree == [Files -> Contents \cup {Missing, Torn}]
EmptyDir == [f \in Files |-> Missing]
Present(t) == {f \in Files : t[f] # Missing}
Entries(p) == Present(p.archive)

(* The directory after every entry of the package was written over it.     *)
Overlay(t, p) == [f \in Files |-> IF f \in Entries(p) THEN p.archive[f] ELSE t[f]]

(* Every file of `t` is in `u` with the same contents; `u` may hold more.   *)
Holds(u, t) == \A f \in Present(t) : u[f] = t[f]

(* What a write of a file that fails half-way leaves.                      *)
CutShort(t, f) == {t, [t EXCEPT ![f] = Torn]}

Init ==
  /\ install \in [Files -> Contents \cup {Missing}]
  /\ backup = EmptyDir
  /\ hasBackup = FALSE
  /\ links = NestedLinks
  /\ pc = "idle"
  /\ pkg = NoPackage
  /\ todo = {}
  /\ failed = 0
  /\ result = "none"
  /\ base = install
  /\ pending = NoPackage
  /\ whole = install

(* Return to the caller: the locals go, the disk stays.                    *)
Return(r) ==
  /\ pc' = "idle"
  /\ result' = r
  /\ todo' = {}
  /\ failed' = 0
  /\ pkg' = pkg

--------------------------------------------------------------------------------
(* Package::open, then the gates: the signature when a key is pinned, then *)
(* `accept` (check_offered).                                               *)
Begin(p) ==
  /\ pc = "idle"
  /\ pc' = "gates"
  /\ pkg' = p
  /\ result' = "none"
  /\ UNCHANGED << disk, todo, failed, base, pending, whole >>

Reject ==
  /\ pc = "gates"
  /\ ~ (pkg.verified /\ pkg.accepted)
  /\ Return("rejected")
  /\ UNCHANGED << disk, base, pending, whole >>

(* Mutant: the package's signature is not looked at.                       *)
AdmitUnverified ==
  /\ pc = "gates"
  /\ pkg.accepted
  /\ pc' = "admitted"
  /\ UNCHANGED << disk, pkg, todo, failed, result, base, pending, whole >>

(* before_apply runs here: the GUI closes the running app.                 *)
Admit ==
  /\ pc = "gates"
  /\ pkg.verified /\ pkg.accepted
  /\ pc' = "admitted"
  /\ UNCHANGED << disk, pkg, todo, failed, result, base, pending, whole >>

(* A snapshot that is already there is never touched.                      *)
RefuseLeftover ==
  /\ pc = "admitted"
  /\ hasBackup
  /\ Return("leftover")
  /\ UNCHANGED << disk, base, pending, whole >>

(* Mutant: a snapshot that is already there is not looked for.             *)
NoLeftoverUnchecked ==
  /\ pc = "admitted"
  /\ pc' = "create"
  /\ base' = install /\ whole' = install
  /\ UNCHANGED << disk, pkg, todo, failed, result, pending >>

NoLeftover ==
  /\ pc = "admitted"
  /\ ~ hasBackup
  /\ pc' = "create"
  /\ base' = install /\ whole' = install
  /\ UNCHANGED << disk, pkg, todo, failed, result, pending >>

--------------------------------------------------------------------------------
(* copy_dir: create the folder, copy every file that is not a link.  The   *)
(* first error ends it and sends the partial snapshot to remove_path.      *)
CreateBackup ==
  /\ pc = "create"
  /\ hasBackup' = TRUE
  /\ todo' = Present(install)
  /\ pc' = "snapshot"
  /\ UNCHANGED << install, backup, links, pkg, failed, result, base, pending, whole >>

CreateFails ==
  /\ pc = "create"
  /\ hasBackup' \in BOOLEAN
  /\ pc' = "undo"
  /\ UNCHANGED << install, backup, links, pkg, todo, failed, result, base, pending, whole >>

CopyFile(f) ==
  /\ pc = "snapshot"
  /\ f \in todo \cap Present(install)
  /\ hasBackup
  /\ backup' = [backup EXCEPT ![f] = install[f]]
  /\ todo' = todo \ {f}
  /\ UNCHANGED << install, hasBackup, links, pc, pkg, failed, result, base, pending, whole >>

(* Mutant: a file that cannot be copied is passed over.                    *)
CopyFailsPassedOver(f) ==
  /\ pc = "snapshot"
  /\ f \in todo
  /\ todo' = todo \ {f}
  /\ UNCHANGED << disk, pc, pkg, failed, result, base, pending, whole >>

CopyFails(f) ==
  /\ pc = "snapshot"
  /\ f \in todo
  /\ backup' \in IF hasBackup THEN CutShort(backup, f) ELSE {backup}
  /\ todo' = {}
  /\ pc' = "undo"
  /\ UNCHANGED << install, hasBackup, links, pkg, failed, result, base, pending, whole >>

CopyDone ==
  /\ pc = "snapshot"
  /\ todo = {}
  /\ pc' = "install"
  /\ todo' = Entries(pkg)
  /\ pending' = pkg
  /\ UNCHANGED << disk, pkg, failed, result, base, whole >>

--------------------------------------------------------------------------------
(* Mutant: an entry is written without comparing its hash.                 *)
WriteEntryUnchecked(f) ==
  /\ pc = "install"
  /\ f \in todo
  /\ install' = [install EXCEPT ![f] = pkg.archive[f]]
  /\ todo' = todo \ {f}
  /\ UNCHANGED << backup, hasBackup, links, pc, pkg, failed, result, base, pending, whole >>

(* install_with_progress: an entry is written whole, or refused unwritten, *)
(* or its writing fails; the last two end the pass.                        *)
WriteEntry(f) ==
  /\ pc = "install"
  /\ f \in todo \ pkg.bad
  /\ install' = [install EXCEPT ![f] = pkg.archive[f]]
  /\ todo' = todo \ {f}
  /\ UNCHANGED << backup, hasBackup, links, pc, pkg, failed, result, base, pending, whole >>

EntryFails(f) ==
  /\ pc = "install"
  /\ f \in todo
  /\ install' \in IF f \in pkg.bad THEN {install} ELSE CutShort(install, f)
  /\ todo' = Present(install') \cup links
  /\ pc' = "wipe"
  /\ UNCHANGED << backup, hasBackup, links, pkg, failed, result, base, pending, whole >>

(* The archive does not decompress, or is not well formed beyond the        *)
(* entries already written.                                                *)
ArchiveFails ==
  /\ pc = "install"
  /\ pc' = "wipe"
  /\ todo' = Present(install) \cup links
  /\ UNCHANGED << disk, pkg, failed, result, base, pending, whole >>

InstallDone ==
  /\ pc = "install"
  /\ todo = {}
  /\ pc' = "commit"
  /\ pending' = NoPackage
  /\ whole' = Overlay(base, pkg)
  /\ UNCHANGED << disk, pkg, todo, failed, result, base >>

--------------------------------------------------------------------------------
(* wipe_dir_contents: what cannot be deleted is passed over.  A link at the*)
(* top of the directory stays; remove_dir_all of a subdirectory takes the  *)
(* links inside it along.                                                  *)
WipeFile(f) ==
  /\ pc = "wipe"
  /\ f \in todo \cap Files
  /\ install' \in {install, [install EXCEPT ![f] = Missing]}
  /\ todo' = todo \ {f}
  /\ UNCHANGED << backup, hasBackup, links, pc, pkg, failed, result, base, pending, whole >>

WipeLink(l) ==
  /\ pc = "wipe"
  /\ l \in todo \cap NestedLinks
  /\ links' \in {links, links \ {l}}
  /\ todo' = todo \ {l}
  /\ UNCHANGED << install, backup, hasBackup, pc, pkg, failed, result, base, pending, whole >>

(* Mutant: the rollback waits for the directory to be empty.               *)
WipeDoneWhenEmpty ==
  /\ pc = "wipe"
  /\ todo = {}
  /\ Present(install) = {}
  /\ pc' = "restore"
  /\ todo' = Present(backup)
  /\ failed' = IF hasBackup THEN 0 ELSE 1
  /\ UNCHANGED << disk, pkg, result, base, pending, whole >>

WipeDone ==
  /\ pc = "wipe"
  /\ todo = {}
  /\ pc' = "restore"
  /\ todo' = Present(backup)
  /\ failed' = IF hasBackup THEN 0 ELSE 1
  /\ UNCHANGED << disk, pkg, result, base, pending, whole >>

--------------------------------------------------------------------------------
(* restore_dir goes on past a file it cannot write, and counts it; a       *)
(* folder it cannot list, or that is not there, counts once for all the    *)
(* files in it.                                                            *)
RestoreFile(f) ==
  /\ pc = "restore"
  /\ f \in todo \cap Present(backup)
  /\ install' = [install EXCEPT ![f] = backup[f]]
  /\ todo' = todo \ {f}
  /\ UNCHANGED << backup, hasBackup, links, pc, pkg, failed, result, base, pending, whole >>

RestoreFails(f) ==
  /\ pc = "restore"
  /\ f \in todo
  /\ install' \in CutShort(install, f)
  /\ todo' = todo \ {f}
  /\ failed' = failed + 1
  /\ UNCHANGED << backup, hasBackup, links, pc, pkg, result, base, pending, whole >>

RestoreUnlisted(S) ==
  /\ pc = "restore"
  /\ S \subseteq todo
  /\ S # {}
  /\ todo' = todo \ S
  /\ failed' = failed + 1
  /\ UNCHANGED << disk, pc, pkg, result, base, pending, whole >>

(* Mutant: the snapshot is deleted whatever the restore counted.           *)
RestoreDoneRegardless ==
  /\ pc = "restore"
  /\ todo = {}
  /\ pc' = "discard"
  /\ pending' = NoPackage
  /\ UNCHANGED << disk, pkg, todo, failed, result, base, whole >>

RestoreDone ==
  /\ pc = "restore"
  /\ todo = {}
  /\ failed = 0
  /\ pc' = "discard"
  /\ pending' = NoPackage
  /\ UNCHANGED << disk, pkg, todo, failed, result, base, whole >>

KeepBackup ==
  /\ pc = "restore"
  /\ todo = {}
  /\ failed > 0
  /\ Return("kept")
  /\ UNCHANGED << disk, base, pending, whole >>

--------------------------------------------------------------------------------
(* The three calls of remove_path on the snapshot: after a copy that       *)
(* failed, after the new version is in, after a complete rollback.  Their  *)
(* own failure is ignored: the update returns what it would have returned. *)
Removing == {"undo", "commit", "discard"}

Outcome ==
  [undo |-> "failed", commit |-> "applied", discard |-> "rolledback"][pc]

RemoveFile(f) ==
  /\ pc \in Removing
  /\ f \in Present(backup)
  /\ backup' = [backup EXCEPT ![f] = Missing]
  /\ UNCHANGED << install, hasBackup, links, pc, pkg, todo, failed, result, base, pending, whole >>

RemoveDone ==
  /\ pc \in Removing
  /\ Present(backup) = {}
  /\ hasBackup' = FALSE
  /\ Return(Outcome)
  /\ UNCHANGED << install, backup, links, base, pending, whole >>

RemoveFails ==
  /\ pc \in Removing
  /\ hasBackup
  /\ Return(Outcome)
  /\ UNCHANGED << disk, base, pending, whole >>

--------------------------------------------------------------------------------
(* The process dies.  The file being written at that moment may be torn.   *)
Crash ==
  /\ pc # "idle"
  /\ install' \in IF pc \in {"install", "restore"}
                    THEN {install} \cup UNION {CutShort(install, f) : f \in todo}
                    ELSE {install}
  /\ backup' \in IF pc = "snapshot" /\ hasBackup
                   THEN {backup} \cup UNION {CutShort(backup, f) : f \in todo}
                   ELSE {backup}
  /\ Return("crashed")
  /\ UNCHANGED << hasBackup, links, base, pending, whole >>

(* Between updates the app and its user write, create and delete files ... *)
UserEdit(f, c) ==
  /\ pc = "idle"
  /\ install' = [install EXCEPT ![f] = c]
  /\ result' = "none"
  /\ whole' = IF pending = NoPackage THEN [whole EXCEPT ![f] = c] ELSE whole
  /\ UNCHANGED << backup, hasBackup, links, pc, pkg, todo, failed, base, pending >>

(* ... and the user does what the error message asks: "Restore it or       *)
(* delete it, then update again".                                          *)
RestoreByHand ==
  /\ pc = "idle"
  /\ hasBackup
  /\ install' = backup
  /\ backup' = EmptyDir
  /\ hasBackup' = FALSE
  /\ result' = "none"
  /\ pending' = NoPackage
  /\ whole' = backup
  /\ UNCHANGED << links, pc, pkg, todo, failed, base >>

DeleteByHand ==
  /\ pc = "idle"
  /\ hasBackup
  /\ backup' = EmptyDir
  /\ hasBackup' = FALSE
  /\ result' = "none"
  /\ pending' = NoPackage
  /\ whole' = IF pending = NoPackage THEN whole ELSE install
  /\ UNCHANGED << install, links, pc, pkg, todo, failed, base >>

--------------------------------------------------------------------------------
(* The steps of a running update, as its single thread takes them.         *)
Step ==
  \/ Reject \/ Admit \/ RefuseLeftover \/ NoLeftover
  \/ CreateBackup \/ CreateFails \/ CopyDone
  \/ ArchiveFails \/ InstallDone \/ WipeDone
  \/ RestoreDone \/ KeepBackup
  \/ RemoveDone \/ RemoveFails
  \/ \E f \in Files :
       \/ CopyFile(f) \/ CopyFails(f)
       \/ WriteEntry(f) \/ EntryFails(f)
       \/ WipeFile(f)
       \/ RestoreFile(f) \/ RestoreFails(f)
       \/ RemoveFile(f)
  \/ \E l \in NestedLinks : WipeLink(l)
  \/ \E S \in SUBSET Files : RestoreUnlisted(S)

Environment ==
  \/ \E p \in Packages : Begin(p)
  \/ Crash
  \/ \E f \in UserFiles, c \in Contents \cup {Missing} : UserEdit(f, c)
  \/ RestoreByHand
  \/ DeleteByHand

Next == Step \/ Environment

Spec == Init /\ [][Next]_vars

(* The thread of a running update is scheduled; nobody has to start one.   *)
FairSpec == Spec /\ WF_vars(Step)

--------------------------------------------------------------------------------
TypeOK ==
  /\ {install, backup, base, whole} \subseteq Tree
  /\ hasBackup \in BOOLEAN
  /\ links \subseteq NestedLinks
  /\ pc \in {"idle", "gates", "admitted", "create", "snapshot", "install",
              "wipe", "restore"} \cup Removing
  /\ pkg \in Packages \cup {NoPackage}
  /\ pending \in Packages \cup {NoPackage}
  /\ todo \subseteq Files \cup NestedLinks
  /\ failed \in Nat
  /\ result \in {"none", "rejected", "leftover", "failed", "applied",
                  "rolledback", "kept", "crashed"}

(***************************************************************************)
(* From the first file written until the update is settled, the snapshot   *)
(* holds the directory as it was: through crashes, rollbacks that fail,    *)
(* and the updates attempted afterwards, which must not touch it.          *)
(***************************************************************************)
SnapshotIntact == pending # NoPackage => hasBackup /\ backup = base

(***************************************************************************)
(* The snapshot is deleted file by file only once the install directory    *)
(* alone holds the whole old version or the whole new one.                 *)
(***************************************************************************)
NothingLostWhileRemoving ==
  /\ pc = "undo" => install = base
  /\ pc = "commit" => install = Overlay(base, pkg)
  /\ pc = "discard" => Holds(install, base)

(***************************************************************************)
(* The Result the caller gets, which is what the user is told, is true of  *)
(* the disk: success means the whole new version, a failure that names no  *)
(* folder means the old one is back, one that names it means it is there.  *)
(* The refusal over a snapshot that is already there says that it `holds   *)
(* the install as it was' and to restore or delete it (update.rs:645).     *)
(* That is true of an update that began to write.  A copy or a removal cut *)
(* short leaves a part of an install under the same words, and restoring   *)
(* that loses files: what is true is that it may be deleted, since the     *)
(* directory alone holds a whole version and what its user changed since.  *)
(***************************************************************************)
ResultTellsTheTruth ==
  /\ result = "failed" => install = base
  /\ result = "applied" => /\ install = Overlay(base, pkg)
                          /\ Entries(pkg) \cap pkg.bad = {}
  /\ result = "rolledback" => Holds(install, base)
  /\ result = "kept" => hasBackup /\ backup = base
  /\ result = "leftover" =>
       /\ hasBackup
       /\ IF pending # NoPackage THEN backup = base ELSE Holds(install, whole)

(***************************************************************************)
(* Why: what the loops have done so far, and what their ends rely on.  Safe*)
(* is inductive, for one update and for two that never overlap.            *)
(***************************************************************************)

(* Which package is unsettled, and that it passed the checks.              *)
Bookkeeping ==
  /\ ~ hasBackup => backup = EmptyDir
  /\ pc \in {"create", "snapshot"} \cup Removing => pending = NoPackage
  /\ pc \in {"install", "wipe", "restore"} => pending = pkg
  /\ pc # "idle" => pkg \in Packages
  /\ pc \notin {"idle", "gates"} => pkg.verified /\ pkg.accepted
  /\ pc \in {"idle", "gates", "admitted", "create", "undo"} => todo = {}
  /\ pc = "create" => ~ hasBackup

(* The copy loop: what is no longer to do is in the snapshot.              *)
CopyLoop ==
  /\ pc \in {"create", "snapshot", "undo"} => install = base
  /\ pc = "snapshot" =>
       hasBackup /\ \A f \in Files : f \notin todo => backup[f] = install[f]

(* The install loop: what is no longer to do is the package's.             *)
InstallLoop ==
  pc = "install" =>
    /\ todo \subseteq Entries(pkg)
    /\ \A f \in Files :
         install[f] = IF f \in Entries(pkg) \ todo THEN pkg.archive[f] ELSE base[f]
    /\ (Entries(pkg) \ todo) \cap pkg.bad = {}

(* The restore loop: with no failure so far, what is no longer to do is    *)
(* back.                                                                   *)
RestoreLoop ==
  pc = "restore" /\ failed = 0 =>
    \A f \in Present(base) : f \notin todo => install[f] = base[f]

(* What the removal of the snapshot relies on.                             *)
Settled ==
  /\ pc = "commit" => /\ install = Overlay(base, pkg)
                      /\ Entries(pkg) \cap pkg.bad = {}
  /\ pc = "discard" => Holds(install, base)

Safe ==
  /\ TypeOK
  /\ SnapshotIntact
  /\ Bookkeeping
  /\ CopyLoop
  /\ InstallLoop
  /\ RestoreLoop
  /\ Settled

(***************************************************************************)
(* While an update runs, the install directory changes only after a        *)
(* complete snapshot of it was taken for a package that passed every check.*)
(***************************************************************************)
TouchedOnlyUnderSnapshot ==
  [][pc # "idle" /\ install' # install =>
        /\ pkg.verified /\ pkg.accepted
        /\ pending = pkg
        /\ backup = base]_vars

(* Every update that starts returns, or dies.                              *)
EveryUpdateReturns == (pc # "idle") ~> (pc = "idle")

(***************************************************************************)
(* Refinement: the installation one can get back is in the snapshot while  *)
(* a package's writing is not settled, and in the directory otherwise.     *)
(***************************************************************************)
Atomic == INSTANCE AtomicUpdate
  WITH view <- IF pending = NoPackage THEN install ELSE backup,
       running <- pc # "idle"

ImplementsAtomicUpdate == Atomic!ASpec
================================================================================
