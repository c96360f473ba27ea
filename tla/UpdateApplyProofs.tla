--------------------------- MODULE UpdateApplyProofs ---------------------------
(***************************************************************************)
(* Proofs about UpdateApply, for every set of files, links and packages.   *)
(*                                                                         *)
(* SnapshotIntact is not inductive by itself: that the snapshot equals the *)
(* directory when writing begins depends on what the copy loop has done so *)
(* far, and that it may be deleted depends on what the restore loop has    *)
(* done.  Safe (in UpdateApply) adds one conjunct per loop; Results adds   *)
(* what is returned.  The last section is about two updates at once.       *)
(***************************************************************************)
EXTENDS UpdateRace, TLAPS

(* Where nothing is unsettled the directory holds the last whole version,  *)
(* which a running update took as its base.                                *)
WholeInPlace ==
  /\ pending = NoPackage => Holds(install, whole)
  /\ pc \in {"create", "snapshot", "undo", "install", "wipe", "restore"} => whole = base

(* What the running update returns is true, and it has returned nothing yet.*)
Results ==
  /\ WholeInPlace
  /\ ResultTellsTheTruth
  /\ result = "kept" => pending # NoPackage
  /\ pc # "idle" => result = "none"

IInv == Safe /\ Results

--------------------------------------------------------------------------------
(* Two directories with the same files and contents are the same.          *)
LEMMA TreeEquality ==
  ASSUME NEW t \in Tree, NEW u \in Tree, \A f \in Files : t[f] = u[f]
  PROVE  t = u
BY DEF Tree

(* The empty directory has no file.                                         *)
LEMMA EmptyDirIsTree == EmptyDir \in Tree /\ Present(EmptyDir) = {}
BY DEF EmptyDir, Tree, Present

(* A directory with no file is the empty one.                              *)
LEMMA NothingPresent ==
  ASSUME NEW t \in Tree, Present(t) = {}
  PROVE  t = EmptyDir
BY DEF Present, Tree, EmptyDir

(* What a write that fails half-way leaves is still a directory.           *)
LEMMA CutShortIsTree ==
  ASSUME NEW t \in Tree, NEW f \in Files, NEW u \in CutShort(t, f)
  PROVE  u \in Tree
BY DEF CutShort, Tree

(* What the assumption on the packages says of one of them.                *)
LEMMA PackagesAreTyped ==
  ASSUME NEW p \in Packages
  PROVE  /\ p.archive \in [Files -> Contents \cup {Missing}]
         /\ p.bad \subseteq Files
         /\ Entries(p) \subseteq Files
         /\ \A f \in Entries(p) : p.archive[f] \in Contents
BY ConstantsAssumption DEF PackageType, Entries, Present

--------------------------------------------------------------------------------
(* Lemma: the invariant holds initially.                                   *)
LEMMA InitEstablishes == Init => IInv
<1> SUFFICES ASSUME Init PROVE IInv
  OBVIOUS
<1>1. TypeOK
  BY EmptyDirIsTree DEF Init, TypeOK, Tree
<1>2. QED
  BY <1>1 DEF Init, IInv, Safe, SnapshotIntact, Bookkeeping, CopyLoop, InstallLoop,
     RestoreLoop, Settled, Results, ResultTellsTheTruth, Removing, WholeInPlace, Holds

(* Lemma: every step keeps what the loops rely on, action by action.       *)
LEMMA SafeStep == Safe /\ [Next]_vars => Safe'
<1> SUFFICES ASSUME Safe, [Next]_vars PROVE Safe'
  OBVIOUS
<1> USE DEF Safe, TypeOK, SnapshotIntact, Bookkeeping, CopyLoop, InstallLoop,
        RestoreLoop, Settled, Removing
<1>1. ASSUME NEW p \in Packages, Begin(p)
      PROVE  Safe'
  BY <1>1 DEF Begin, disk
<1>2. CASE Reject
  BY <1>2 DEF Reject, disk, Return
<1>3. CASE Admit
  BY <1>3 DEF Admit, disk
<1>4. CASE RefuseLeftover
  BY <1>4 DEF RefuseLeftover, disk, Return
<1>5. CASE NoLeftover
  BY <1>5 DEF NoLeftover, disk
<1>6. CASE CreateBackup
  <2>1. \A f \in Files : f \notin todo' => backup'[f] = install'[f]
    BY <1>6 DEF CreateBackup, EmptyDir, Present
  <2>2. todo' \subseteq Files
    BY <1>6 DEF CreateBackup, Present
  <2>3. QED
    BY <1>6, <2>1, <2>2 DEF CreateBackup
<1>7. CASE CreateFails
  BY <1>7 DEF CreateFails, disk
<1>8. ASSUME NEW f \in Files, CopyFile(f)
      PROVE  Safe'
  BY <1>8 DEF CopyFile, Tree
<1>9. ASSUME NEW f \in Files, CopyFails(f)
      PROVE  Safe'
  BY <1>9, CutShortIsTree DEF CopyFails
<1>10. CASE CopyDone
  <2>1. backup = base
    BY <1>10, TreeEquality DEF CopyDone
  <2>2. Entries(pkg) \subseteq Files
    BY <1>10, PackagesAreTyped DEF CopyDone
  <2>3. QED
    BY <1>10, <2>1, <2>2 DEF CopyDone, disk
<1>11. ASSUME NEW f \in Files, WriteEntry(f)
       PROVE  Safe'
  <2>1. /\ pkg.archive[f] \in Contents
        /\ f \in Entries(pkg)
        /\ pkg' = pkg
    BY <1>11, PackagesAreTyped DEF WriteEntry
  <2>2. TypeOK'
    BY <1>11, <2>1 DEF WriteEntry, Tree
  <2>3. InstallLoop'
    <3>1. \A g \in Files :
            install'[g] = IF g \in Entries(pkg) \ todo' THEN pkg.archive[g] ELSE base[g]
      BY <1>11, <2>1 DEF WriteEntry, Tree
    <3>2. (Entries(pkg) \ todo') \cap pkg.bad = {}
      BY <1>11 DEF WriteEntry
    <3>3. QED
      BY <1>11, <2>1, <3>1, <3>2 DEF WriteEntry
  <2>4. QED
    BY <1>11, <2>2, <2>3 DEF WriteEntry
<1>12. ASSUME NEW f \in Files, EntryFails(f)
       PROVE  Safe'
  <2>1. install' \in Tree
    BY <1>12, CutShortIsTree DEF EntryFails
  <2>2. todo' \subseteq Files \cup NestedLinks
    BY <1>12 DEF EntryFails, Present
  <2>3. QED
    BY <1>12, <2>1, <2>2 DEF EntryFails
<1>12a. CASE ArchiveFails
  <2>1. todo' \subseteq Files \cup NestedLinks
    BY <1>12a DEF ArchiveFails, Present
  <2>2. QED
    BY <1>12a, <2>1 DEF ArchiveFails, disk
<1>13. CASE InstallDone
  <2>1. Overlay(base, pkg) \in Tree
    BY <1>13, PackagesAreTyped DEF InstallDone, Overlay, Tree
  <2>2. \A f \in Files : install[f] = Overlay(base, pkg)[f]
    BY <1>13 DEF InstallDone, Overlay
  <2>3. install = Overlay(base, pkg)
    BY <2>1, <2>2, TreeEquality
  <2>4. Entries(pkg) \cap pkg.bad = {}
    BY <1>13 DEF InstallDone
  <2>5. QED
    BY <1>13, <2>3, <2>4 DEF InstallDone, disk
<1>14. ASSUME NEW f \in Files, WipeFile(f)
       PROVE  Safe'
  BY <1>14 DEF WipeFile, Tree
<1>15. ASSUME NEW l \in NestedLinks, WipeLink(l)
       PROVE  Safe'
  BY <1>15 DEF WipeLink
<1>16. CASE WipeDone
  BY <1>16, ConstantsAssumption DEF WipeDone, disk, Present
<1>17. ASSUME NEW f \in Files, RestoreFile(f)
       PROVE  Safe'
  BY <1>17, ConstantsAssumption DEF RestoreFile, Tree, Present
<1>18. ASSUME NEW f \in Files, RestoreFails(f)
       PROVE  Safe'
  BY <1>18, CutShortIsTree DEF RestoreFails
<1>19. ASSUME NEW S \in SUBSET Files, RestoreUnlisted(S)
       PROVE  Safe'
  BY <1>19 DEF RestoreUnlisted, disk
<1>20. CASE RestoreDone
  BY <1>20 DEF RestoreDone, disk, Holds
<1>21. CASE KeepBackup
  BY <1>21, ConstantsAssumption DEF KeepBackup, disk, Return
<1>22. ASSUME NEW f \in Files, RemoveFile(f)
       PROVE  Safe'
  BY <1>22 DEF RemoveFile, Tree, EmptyDir, Present
<1>23. CASE RemoveDone
  <2>1. backup' = EmptyDir
    BY <1>23, NothingPresent DEF RemoveDone
  <2>2. /\ pc = "undo" => result' = "failed"
        /\ pc = "commit" => result' = "applied"
        /\ pc = "discard" => result' = "rolledback"
    BY <1>23 DEF RemoveDone, Return, Outcome
  <2>3. QED
    BY <1>23, <2>1, <2>2 DEF RemoveDone, Return
<1>24. CASE RemoveFails
  BY <1>24 DEF RemoveFails, disk, Return, Outcome
<1>25. CASE Crash
  <2>1. ASSUME NEW t \in Tree, NEW u \in UNION {CutShort(t, f) : f \in todo}
        PROVE  u \in Tree
    BY <2>1 DEF CutShort, Tree
  <2>2. install' \in Tree /\ backup' \in Tree
    BY <1>25, <2>1 DEF Crash
  <2>3. ~ hasBackup => backup' = backup
    BY <1>25 DEF Crash
  <2>4. pending # NoPackage => backup' = backup
    BY <1>25 DEF Crash
  <2>5. QED
    BY <1>25, <2>2, <2>3, <2>4 DEF Crash, Return
<1>26. ASSUME NEW f \in UserFiles, NEW c \in Contents \cup {Missing}, UserEdit(f, c)
       PROVE  Safe'
  <2>1. install' \in Tree /\ whole' \in Tree
    BY <1>26 DEF UserEdit, Tree
  <2>2. QED
    BY <1>26, <2>1 DEF UserEdit
<1>27. CASE RestoreByHand
  BY <1>27, EmptyDirIsTree DEF RestoreByHand
<1>28. CASE DeleteByHand
  BY <1>28, EmptyDirIsTree DEF DeleteByHand
<1>29. CASE UNCHANGED vars
  BY <1>29 DEF vars, Outcome
<1>30. QED
  BY <1>1, <1>2, <1>3, <1>4, <1>5, <1>6, <1>7, <1>8, <1>9, <1>10, <1>11, <1>12, <1>12a,
     <1>13, <1>14, <1>15, <1>16, <1>17, <1>18, <1>19, <1>20, <1>21, <1>22, <1>23, <1>24,
     <1>25, <1>26, <1>27, <1>28, <1>29 DEF Next, Step, Environment

(* Lemma: where nothing is unsettled the directory is whole.               *)
LEMMA WholeStep == Safe /\ WholeInPlace /\ [Next]_vars => WholeInPlace'
<1> SUFFICES ASSUME Safe, WholeInPlace, [Next]_vars PROVE WholeInPlace'
  OBVIOUS
<1> USE DEF WholeInPlace
<1>1. CASE InstallDone
  <2>1. pc' = "commit" /\ whole' = install'
    <3>1. Safe'
      BY SafeStep
    <3> QED  BY <1>1, <3>1 DEF InstallDone, disk, Safe, Settled
  <2> QED  BY <2>1 DEF Holds
<1>2. CASE RestoreDone
  <2>1. Holds(install, base) /\ whole = base
    BY <1>2 DEF RestoreDone, Safe, RestoreLoop, Holds
  <2> QED  BY <1>2, <2>1 DEF RestoreDone, disk
<1>3. ASSUME NEW f \in UserFiles, NEW c \in Contents \cup {Missing}, UserEdit(f, c)
      PROVE  WholeInPlace'
  BY <1>3 DEF UserEdit, Holds, Present, Safe, TypeOK, Tree
<1>4. CASE RestoreByHand \/ DeleteByHand
  BY <1>4 DEF RestoreByHand, DeleteByHand, Holds
<1>5. CASE NoLeftover
  BY <1>5 DEF NoLeftover, disk, Holds
<1>6. CASE CopyDone
  BY <1>6, ConstantsAssumption DEF CopyDone, Safe, Bookkeeping
<1>7. CASE \/ \E f \in Files : \/ WriteEntry(f) \/ EntryFails(f) \/ WipeFile(f)
                               \/ RestoreFile(f) \/ RestoreFails(f)
           \/ \E l \in NestedLinks : WipeLink(l)
           \/ \E S \in SUBSET Files : RestoreUnlisted(S)
           \/ ArchiveFails \/ WipeDone \/ KeepBackup
  <2>1. /\ pc \in {"install", "wipe", "restore"}
        /\ pc' \in {"install", "wipe", "restore", "idle"}
        /\ UNCHANGED << pending, whole, base >>
    BY <1>7 DEF WriteEntry, EntryFails, WipeFile, RestoreFile, RestoreFails, WipeLink,
       RestoreUnlisted, ArchiveFails, WipeDone, KeepBackup, Return
  <2>2. pending # NoPackage
    BY <2>1, ConstantsAssumption DEF Safe, Bookkeeping
  <2> QED  BY <2>1, <2>2
<1>8. CASE Crash
  <2>1. pc \notin {"install", "restore"} => install' = install
    BY <1>8 DEF Crash
  <2>2. pc \in {"install", "restore"} => pending # NoPackage
    BY <1>8, ConstantsAssumption DEF Crash, Safe, Bookkeeping
  <2>3. pc' = "idle" /\ UNCHANGED << pending, whole >>
    BY <1>8 DEF Crash, Return
  <2> QED  BY <2>1, <2>2, <2>3 DEF Holds
<1>9. CASE \/ \E p \in Packages : Begin(p)
           \/ Reject \/ Admit \/ RefuseLeftover \/ CreateBackup \/ CreateFails
           \/ \E f \in Files : CopyFile(f) \/ CopyFails(f) \/ RemoveFile(f)
           \/ RemoveDone \/ RemoveFails
  <2>1. UNCHANGED << install, pending, whole, base >>
    BY <1>9 DEF Begin, Reject, Admit, RefuseLeftover, CreateBackup, CreateFails, CopyFile,
       CopyFails, RemoveFile, RemoveDone, RemoveFails, disk
  <2>2. pc' \in {"gates", "admitted", "idle", "commit", "discard", "install", "wipe", "restore"}
        \/ pc \in {"create", "snapshot", "undo"}
    BY <1>9 DEF Begin, Reject, Admit, RefuseLeftover, CreateBackup, CreateFails, CopyFile,
       CopyFails, RemoveFile, RemoveDone, RemoveFails, Return, Removing
  <2>3. pc' \notin {"install", "wipe", "restore"}
    BY <1>9 DEF Begin, Reject, Admit, RefuseLeftover, CreateBackup, CreateFails, CopyFile,
       CopyFails, RemoveFile, RemoveDone, RemoveFails, Return, Removing
  <2> QED  BY <2>1, <2>2, <2>3 DEF Holds, Present
<1>10. CASE UNCHANGED vars
  BY <1>10 DEF vars, disk, Holds, Present
<1> QED
  BY <1>1, <1>2, <1>3, <1>4, <1>5, <1>6, <1>7, <1>8, <1>9, <1>10 DEF Next, Step, Environment

(* Lemma: ... and an update returns what is true of the disk.              *)
LEMMA ResultsStep == Safe /\ Results /\ [Next]_vars => Results'
<1> SUFFICES ASSUME Safe, Results, [Next]_vars PROVE Results'
  OBVIOUS
<1>0. WholeInPlace'
  BY WholeStep DEF Results
<1> SUFFICES /\ ResultTellsTheTruth'
             /\ (result = "kept" => pending # NoPackage)'
             /\ (pc # "idle" => result = "none")'
  BY <1>0 DEF Results
<1> USE DEF Results, ResultTellsTheTruth
<1>1. CASE \/ \E p \in Packages : Begin(p)
           \/ \E f \in UserFiles, c \in Contents \cup {Missing} : UserEdit(f, c)
           \/ RestoreByHand \/ DeleteByHand
  <2>1. result' = "none"
    BY <1>1 DEF Begin, UserEdit, RestoreByHand, DeleteByHand
  <2>2. QED
    BY <2>1
<1>2. CASE Reject \/ Crash
  <2>1. result' \in {"rejected", "crashed"} /\ pc' = "idle"
    BY <1>2 DEF Reject, Crash, Return
  <2>2. QED
    BY <2>1
<1>2a. CASE RefuseLeftover
  <2>1. /\ UNCHANGED << disk, base, pending, whole >>
        /\ result' = "leftover" /\ pc' = "idle" /\ hasBackup
    BY <1>2a DEF RefuseLeftover, Return
  <2>2. UNCHANGED << install, backup, hasBackup >>
    BY <2>1 DEF disk
  <2>3. IF pending # NoPackage THEN backup = base ELSE Holds(install, whole)
    BY DEF Safe, SnapshotIntact, WholeInPlace
  <2>4. (IF pending # NoPackage THEN backup = base ELSE Holds(install, whole))'
    BY <2>1, <2>2, <2>3 DEF Holds, Present
  <2>5. QED
    BY <2>1, <2>2, <2>4
<1>3. CASE KeepBackup
  <2>1. /\ result' = "kept" /\ pc' = "idle" /\ pending' # NoPackage
        /\ hasBackup' /\ backup' = base'
    BY <1>3, ConstantsAssumption DEF KeepBackup, Return, disk, Safe, SnapshotIntact,
       Bookkeeping
  <2>2. QED
    BY <2>1
<1>4. CASE RemoveDone \/ RemoveFails
  <2>1. UNCHANGED << install, base, pkg >> /\ result' = Outcome /\ pc' = "idle"
    BY <1>4 DEF RemoveDone, RemoveFails, Return, disk
  <2>2. CASE pc = "undo"
    BY <2>1, <2>2 DEF Outcome, Safe, CopyLoop
  <2>3. CASE pc = "commit"
    <3>1. result' = "applied"
      BY <2>1, <2>3 DEF Outcome
    <3>2. /\ install' = Overlay(base', pkg')
          /\ Entries(pkg') \cap pkg'.bad = {}
      BY <2>1, <2>3 DEF Safe, Settled
    <3>3. QED
      BY <2>1, <3>1, <3>2
  <2>4. CASE pc = "discard"
    BY <2>1, <2>4 DEF Outcome, Safe, Settled
  <2>5. QED
    BY <1>4, <2>2, <2>3, <2>4 DEF RemoveDone, RemoveFails, Removing
<1>5. CASE \/ Admit \/ NoLeftover \/ CreateBackup \/ CreateFails \/ CopyDone
           \/ ArchiveFails \/ InstallDone \/ WipeDone \/ RestoreDone
           \/ \E f \in Files : \/ CopyFile(f) \/ CopyFails(f) \/ WriteEntry(f)
                               \/ EntryFails(f) \/ WipeFile(f) \/ RestoreFile(f)
                               \/ RestoreFails(f) \/ RemoveFile(f)
           \/ \E l \in NestedLinks : WipeLink(l)
           \/ \E S \in SUBSET Files : RestoreUnlisted(S)
  <2>1. result' = result /\ pc # "idle"
    BY <1>5 DEF Admit, NoLeftover, CreateBackup, CreateFails, CopyDone, ArchiveFails,
       InstallDone, WipeDone, RestoreDone, CopyFile, CopyFails, WriteEntry, EntryFails,
       WipeFile, RestoreFile, RestoreFails, RemoveFile, Removing, WipeLink, RestoreUnlisted
  <2>2. QED
    BY <2>1
<1>6. CASE UNCHANGED vars
  BY <1>6 DEF vars, disk, Holds, Present
<1>7. QED
  BY <1>1, <1>2, <1>2a, <1>3, <1>4, <1>5, <1>6 DEF Next, Step, Environment

--------------------------------------------------------------------------------
(* Theorem: the strengthened invariant holds of every state of the program. *)
THEOREM Invariance == Spec => []IInv
<1>1. Init => IInv
  BY InitEstablishes
<1>2. IInv /\ [Next]_vars => IInv'
  BY SafeStep, ResultsStep DEF IInv
<1>3. QED
  BY <1>1, <1>2, PTL DEF Spec

(* Theorem: type correctness of apply_checked's state.                     *)
THEOREM TypeCorrect == Spec => []TypeOK
<1>1. IInv => TypeOK
  BY DEF IInv, Safe
<1>2. QED
  BY <1>1, Invariance, PTL

(* Theorem: an unsettled update's snapshot stays whole, whatever crashes   *)
(* and whatever is attempted next.                                         *)
THEOREM SnapshotSafety == Spec => []SnapshotIntact
<1>1. IInv => SnapshotIntact
  BY DEF IInv, Safe
<1>2. QED
  BY <1>1, Invariance, PTL

(* Theorem: the snapshot is only ever deleted when the directory itself    *)
(* holds a whole version.                                                  *)
THEOREM RemovalSafety == Spec => []NothingLostWhileRemoving
<1>1. IInv => NothingLostWhileRemoving
  BY DEF IInv, Safe, NothingLostWhileRemoving, CopyLoop, Settled
<1>2. QED
  BY <1>1, Invariance, PTL

(* Theorem: what the update reports to its caller is true of the disk; of a*)
(* snapshot that is already there, that it is the install as it was or may *)
(* be deleted without loss.                                                *)
THEOREM ResultSafety == Spec => []ResultTellsTheTruth
<1>1. IInv => ResultTellsTheTruth
  BY DEF IInv, Results
<1>2. QED
  BY <1>1, Invariance, PTL

(* Theorem: nothing is written before the checks and the full snapshot.    *)
THEOREM TouchSafety == Spec => TouchedOnlyUnderSnapshot
<1> DEFINE Touched ==
      pc # "idle" /\ install' # install =>
        /\ pkg.verified /\ pkg.accepted
        /\ pending = pkg
        /\ backup = base
<1>1. IInv /\ [Next]_vars => [Touched]_vars
  <2> SUFFICES ASSUME IInv, [Next]_vars, pc # "idle", install' # install
               PROVE  Touched
    BY DEF vars
  <2>1. pc \in {"install", "wipe", "restore"}
    BY DEF Next, Step, Environment, disk, vars, Begin, Reject, Admit, RefuseLeftover,
       NoLeftover, CreateBackup, CreateFails, CopyFile, CopyFails, CopyDone, WriteEntry,
       EntryFails, ArchiveFails, InstallDone, WipeFile, WipeLink, WipeDone, RestoreFile,
       RestoreFails,
       RestoreUnlisted, RestoreDone, KeepBackup, RemoveFile, RemoveDone, RemoveFails,
       Crash, UserEdit, RestoreByHand, DeleteByHand
  <2>2. pending = pkg /\ pending # NoPackage /\ pkg.verified /\ pkg.accepted
    BY <2>1, ConstantsAssumption DEF IInv, Safe, Bookkeeping
  <2>3. QED
    BY <2>2 DEF IInv, Safe, SnapshotIntact
<1>2. QED
  BY <1>1, Invariance, PTL DEF Spec, TouchedOnlyUnderSnapshot

--------------------------------------------------------------------------------
(* The installation one can get back, as the refinement maps it.           *)
View == IF pending = NoPackage THEN install ELSE backup

(* Lemma: an initial state shows an initial state of AtomicUpdate.         *)
LEMMA InitRefines == Init => Atomic!AInit
BY DEF Init, Atomic!AInit, Atomic!Trees, Tree, EmptyDir

(* Lemma: every step shows a step of AtomicUpdate, or none.                *)
LEMMA StepRefines ==
  ASSUME IInv, IInv', [Next]_vars
  PROVE  [Atomic!ANext]_(Atomic!avars)
<1> USE DEF Atomic!ANext, Atomic!avars
<1>0. View \in Tree /\ View' \in Tree
  BY DEF IInv, Safe, TypeOK, View
<1>1. CASE \E p \in Packages : Begin(p)
  <2>1. Atomic!Start
    BY <1>1 DEF Begin, disk, Atomic!Start
  <2>2. QED
    BY <2>1
<1>2. CASE Reject \/ RefuseLeftover \/ KeepBackup
  <2>1. Atomic!Stop
    BY <1>2 DEF Reject, RefuseLeftover, KeepBackup, Return, disk, Atomic!Stop
  <2>2. QED
    BY <2>1
<1>3. CASE Admit \/ NoLeftover \/ CreateBackup \/ CreateFails
  BY <1>3 DEF Admit, NoLeftover, CreateBackup, CreateFails, disk, IInv, Safe, Bookkeeping
<1>4. CASE \E f \in Files : CopyFile(f) \/ CopyFails(f)
  BY <1>4 DEF CopyFile, CopyFails, IInv, Safe, Bookkeeping
<1>5. CASE CopyDone
  <2>1. pkg \in Packages /\ pkg # NoPackage /\ pkg.verified /\ pkg.accepted
        /\ pending = NoPackage
    BY <1>5, ConstantsAssumption DEF CopyDone, IInv, Safe, Bookkeeping
  <2>2. backup' = install
    BY <1>5, <2>1 DEF CopyDone, disk, IInv, Safe, SnapshotIntact, CopyLoop
  <2>3. Atomic!BeginWriting(pkg)
    BY <1>5, <2>1, <2>2 DEF CopyDone, disk, Atomic!BeginWriting
  <2>4. QED
    BY <2>1, <2>3
<1>6. CASE \E f \in Files : \/ WriteEntry(f) \/ EntryFails(f) \/ WipeFile(f)
                           \/ RestoreFile(f) \/ RestoreFails(f)
  <2>1. pending # NoPackage
    BY <1>6, ConstantsAssumption DEF WriteEntry, EntryFails, WipeFile, RestoreFile,
       RestoreFails, IInv, Safe, Bookkeeping
  <2>2. QED
    BY <1>6, <2>1 DEF WriteEntry, EntryFails, WipeFile, RestoreFile, RestoreFails
<1>7. CASE InstallDone
  <2>1. /\ pending # NoPackage /\ pending = pkg /\ backup = base
        /\ pc = "install" /\ pc' = "commit" /\ pending' = NoPackage
        /\ install' = install /\ pkg' = pkg /\ base' = base
    BY <1>7, ConstantsAssumption DEF InstallDone, disk, IInv, Safe, Bookkeeping,
       SnapshotIntact
  <2>2. install' = Overlay(backup, pending) /\ Entries(pending) \cap pending.bad = {}
    BY <2>1 DEF IInv, Safe, Settled
  <2>3. install' = Atomic!Written(backup, pending)
    BY <2>1, <2>2, PackagesAreTyped DEF Overlay, Entries, Present, Atomic!Written
  <2>4. \A f \in Files : pending.archive[f] # Missing => f \notin pending.bad
    BY <2>2 DEF Entries, Present
  <2>5. Atomic!Commit
    BY <2>1, <2>3, <2>4 DEF Atomic!Commit
  <2>6. QED
    BY <2>5
<1>8. CASE \/ \E l \in NestedLinks : WipeLink(l)
           \/ \E S \in SUBSET Files : RestoreUnlisted(S)
           \/ ArchiveFails \/ WipeDone
  BY <1>8 DEF WipeLink, RestoreUnlisted, ArchiveFails, WipeDone, disk
<1>9. CASE RestoreDone
  <2>1. /\ pending # NoPackage /\ backup = base
        /\ pc = "restore" /\ pc' = "discard" /\ pending' = NoPackage
        /\ install' = install /\ base' = base
    BY <1>9, ConstantsAssumption DEF RestoreDone, disk, IInv, Safe, Bookkeeping,
       SnapshotIntact
  <2>2. Holds(install', backup)
    BY <2>1 DEF IInv, Safe, Settled
  <2>3. install' \in Atomic!Trees
    BY DEF IInv, Safe, TypeOK, Tree, Atomic!Trees
  <2>4. Atomic!GiveUp
    BY <2>1, <2>2, <2>3 DEF Holds, Present, Atomic!GiveUp
  <2>5. QED
    BY <2>4
<1>10. CASE \E f \in Files : RemoveFile(f)
  BY <1>10 DEF RemoveFile, IInv, Safe, Bookkeeping
<1>11. CASE RemoveDone \/ RemoveFails
  <2>1. pending = NoPackage /\ pending' = NoPackage /\ install' = install
    BY <1>11 DEF RemoveDone, RemoveFails, disk, IInv, Safe, Bookkeeping
  <2>2. pc # "idle" /\ pc' = "idle"
    BY <1>11 DEF RemoveDone, RemoveFails, Return, Removing
  <2>3. Atomic!Stop
    BY <2>1, <2>2 DEF Atomic!Stop
  <2>4. QED
    BY <2>3
<1>12. CASE Crash
  <2>1. pending # NoPackage => backup' = backup
    BY <1>12 DEF Crash, IInv, Safe, Bookkeeping
  <2>2. pending = NoPackage => install' = install
    BY <1>12, ConstantsAssumption DEF Crash, IInv, Safe, Bookkeeping
  <2>3. Atomic!Stop
    BY <1>12, <2>1, <2>2 DEF Crash, Return, Atomic!Stop
  <2>4. QED
    BY <2>3
<1>13. CASE \/ \E f \in UserFiles, c \in Contents \cup {Missing} : UserEdit(f, c)
            \/ RestoreByHand \/ DeleteByHand
  <2>1. View' \in Atomic!Trees
    BY <1>0 DEF Tree, Atomic!Trees
  <2>2. pc = "idle" /\ pc' = "idle" /\ pending' \in {pending, NoPackage}
    BY <1>13 DEF UserEdit, RestoreByHand, DeleteByHand
  <2>3. Atomic!ByHand
    BY <2>1, <2>2 DEF Atomic!ByHand, View
  <2>4. QED
    BY <2>3
<1>14. CASE UNCHANGED vars
  BY <1>14 DEF vars
<1>15. QED
  BY <1>1, <1>2, <1>3, <1>4, <1>5, <1>6, <1>7, <1>8, <1>9, <1>10, <1>11, <1>12,
     <1>13, <1>14 DEF Next, Step, Environment

(* Theorem: apply_checked implements the promise of AtomicUpdate: file by  *)
(* file, with failures and crashes, it still shows the old version, the new*)
(* one, or the old one with leftovers, and nothing in between.             *)
THEOREM Refinement == Spec => ImplementsAtomicUpdate
<1>1. Init => Atomic!AInit
  BY InitRefines
<1>2. IInv /\ IInv' /\ [Next]_vars => [Atomic!ANext]_(Atomic!avars)
  BY StepRefines
<1>3. QED
  BY <1>1, <1>2, Invariance, PTL DEF Spec, ImplementsAtomicUpdate, Atomic!ASpec

--------------------------------------------------------------------------------
(* Two updates of one directory (UpdateRace): process A is the update the  *)
(* sections above are about, process B another one over the same disk.     *)

MovesA == Step \/ Crash \/ \E p \in Packages : Begin(p)
MovesB == B!Step \/ B!Crash \/ \E p \in Packages : B!Begin(p)

(* A process past its check for a leftover snapshot finds nothing pending  *)
(* of the other's; so as long as they do not overlap, each keeps what its  *)
(* loops rely on, whoever moves.                                           *)
RaceInv ==
  ~ overlapped =>
    /\ Safe
    /\ B!Safe
    /\ pc \in Started => pcB \notin Started /\ pendingB = NoPackage
    /\ pcB \in Started => pc \notin Started /\ pending = NoPackage

(* Lemma: the two processes run the same code, down to its operators.      *)
LEMMA SameOperators ==
  /\ B!Tree = Tree
  /\ B!EmptyDir = EmptyDir
  /\ B!Removing = Removing
  /\ \A t : B!Present(t) = Present(t)
  /\ \A p : B!Entries(p) = Entries(p)
  /\ \A t, f : B!CutShort(t, f) = CutShort(t, f)
BY DEF Tree, B!Tree, EmptyDir, B!EmptyDir, Present, B!Present, Removing,
   B!Removing, Entries, B!Entries, CutShort, B!CutShort

(* Lemma: a step of process B keeps what its loops rely on (SafeStep, for  *)
(* the other process).                                                     *)
LEMMA SafeStepB == B!Safe /\ MovesB => B!Safe'
<1> SUFFICES ASSUME B!Safe, MovesB PROVE B!Safe'
  OBVIOUS
<1> USE DEF B!Safe, B!TypeOK, B!SnapshotIntact, B!Bookkeeping,
        B!CopyLoop, B!InstallLoop,
        B!RestoreLoop, B!Settled, B!Removing
<1>1. ASSUME NEW p \in Packages, B!Begin(p)
      PROVE  B!Safe'
  BY <1>1 DEF B!Begin, B!disk
<1>2. CASE B!Reject
  BY <1>2 DEF B!Reject, B!disk, B!Return
<1>3. CASE B!Admit
  BY <1>3 DEF B!Admit, B!disk
<1>4. CASE B!RefuseLeftover
  BY <1>4 DEF B!RefuseLeftover, B!disk, B!Return
<1>5. CASE B!NoLeftover
  BY <1>5 DEF B!NoLeftover, B!disk
<1>6. CASE B!CreateBackup
  <2>1. \A f \in Files : f \notin todoB' => backup'[f] = install'[f]
    BY <1>6 DEF B!CreateBackup, B!EmptyDir, B!Present
  <2>2. todoB' \subseteq Files
    BY <1>6 DEF B!CreateBackup, B!Present
  <2>3. QED
    BY <1>6, <2>1, <2>2 DEF B!CreateBackup
<1>7. CASE B!CreateFails
  BY <1>7 DEF B!CreateFails, B!disk
<1>8. ASSUME NEW f \in Files, B!CopyFile(f)
      PROVE  B!Safe'
  BY <1>8 DEF B!CopyFile, B!Tree
<1>9. ASSUME NEW f \in Files, B!CopyFails(f)
      PROVE  B!Safe'
  BY <1>9, CutShortIsTree, SameOperators DEF B!CopyFails
<1>10. CASE B!CopyDone
  <2>1. backup = baseB
    BY <1>10, TreeEquality, SameOperators DEF B!CopyDone
  <2>2. B!Entries(pkgB) \subseteq Files
    BY <1>10, PackagesAreTyped, SameOperators DEF B!CopyDone
  <2>3. QED
    BY <1>10, <2>1, <2>2 DEF B!CopyDone, B!disk
<1>11. ASSUME NEW f \in Files, B!WriteEntry(f)
       PROVE  B!Safe'
  <2>1. /\ pkgB.archive[f] \in Contents
        /\ f \in B!Entries(pkgB)
        /\ pkgB' = pkgB
    BY <1>11, PackagesAreTyped, SameOperators DEF B!WriteEntry
  <2>2. B!TypeOK'
    BY <1>11, <2>1 DEF B!WriteEntry, B!Tree
  <2>3. B!InstallLoop'
    <3>1. \A g \in Files :
            install'[g] = IF g \in B!Entries(pkgB) \ todoB' THEN pkgB.archive[g] ELSE baseB[g]
      BY <1>11, <2>1 DEF B!WriteEntry, B!Tree
    <3>2. (B!Entries(pkgB) \ todoB') \cap pkgB.bad = {}
      BY <1>11 DEF B!WriteEntry
    <3>3. QED
      BY <1>11, <2>1, <3>1, <3>2 DEF B!WriteEntry
  <2>4. QED
    BY <1>11, <2>2, <2>3 DEF B!WriteEntry
<1>12. ASSUME NEW f \in Files, B!EntryFails(f)
       PROVE  B!Safe'
  <2>1. install' \in B!Tree
    BY <1>12, CutShortIsTree, SameOperators DEF B!EntryFails
  <2>2. todoB' \subseteq Files \cup NestedLinks
    BY <1>12 DEF B!EntryFails, B!Present
  <2>3. QED
    BY <1>12, <2>1, <2>2 DEF B!EntryFails
<1>12a. CASE B!ArchiveFails
  <2>1. todoB' \subseteq Files \cup NestedLinks
    BY <1>12a DEF B!ArchiveFails, B!Present
  <2>2. QED
    BY <1>12a, <2>1 DEF B!ArchiveFails, B!disk
<1>13. CASE B!InstallDone
  <2>1. B!Overlay(baseB, pkgB) \in B!Tree
    BY <1>13, PackagesAreTyped, SameOperators DEF B!InstallDone, B!Overlay,
       B!Tree
  <2>2. \A f \in Files : install[f] = B!Overlay(baseB, pkgB)[f]
    BY <1>13 DEF B!InstallDone, B!Overlay
  <2>3. install = B!Overlay(baseB, pkgB)
    BY <2>1, <2>2, TreeEquality, SameOperators
  <2>4. B!Entries(pkgB) \cap pkgB.bad = {}
    BY <1>13 DEF B!InstallDone
  <2>5. QED
    BY <1>13, <2>3, <2>4 DEF B!InstallDone, B!disk
<1>14. ASSUME NEW f \in Files, B!WipeFile(f)
       PROVE  B!Safe'
  BY <1>14 DEF B!WipeFile, B!Tree
<1>15. ASSUME NEW l \in NestedLinks, B!WipeLink(l)
       PROVE  B!Safe'
  BY <1>15 DEF B!WipeLink
<1>16. CASE B!WipeDone
  BY <1>16, ConstantsAssumption DEF B!WipeDone, B!disk, B!Present
<1>17. ASSUME NEW f \in Files, B!RestoreFile(f)
       PROVE  B!Safe'
  BY <1>17, ConstantsAssumption DEF B!RestoreFile, B!Tree, B!Present
<1>18. ASSUME NEW f \in Files, B!RestoreFails(f)
       PROVE  B!Safe'
  BY <1>18, CutShortIsTree, SameOperators DEF B!RestoreFails
<1>19. ASSUME NEW S \in SUBSET Files, B!RestoreUnlisted(S)
       PROVE  B!Safe'
  BY <1>19 DEF B!RestoreUnlisted, B!disk
<1>20. CASE B!RestoreDone
  BY <1>20 DEF B!RestoreDone, B!disk, B!Holds
<1>21. CASE B!KeepBackup
  BY <1>21, ConstantsAssumption DEF B!KeepBackup, B!disk, B!Return
<1>22. ASSUME NEW f \in Files, B!RemoveFile(f)
       PROVE  B!Safe'
  BY <1>22 DEF B!RemoveFile, B!Tree, B!EmptyDir, B!Present
<1>23. CASE B!RemoveDone
  <2>1. backup' = B!EmptyDir
    BY <1>23, NothingPresent, SameOperators DEF B!RemoveDone
  <2>2. /\ pcB = "undo" => resultB' = "failed"
        /\ pcB = "commit" => resultB' = "applied"
        /\ pcB = "discard" => resultB' = "rolledback"
    BY <1>23 DEF B!RemoveDone, B!Return, B!Outcome
  <2>3. QED
    BY <1>23, <2>1, <2>2 DEF B!RemoveDone, B!Return
<1>24. CASE B!RemoveFails
  BY <1>24 DEF B!RemoveFails, B!disk, B!Return, B!Outcome
<1>25. CASE B!Crash
  <2>1. ASSUME NEW t \in B!Tree, NEW u \in UNION {B!CutShort(t, f) : f \in todoB}
        PROVE  u \in B!Tree
    BY <2>1 DEF B!CutShort, B!Tree
  <2>2. install' \in B!Tree /\ backup' \in B!Tree
    BY <1>25, <2>1 DEF B!Crash
  <2>3. ~ hasBackup => backup' = backup
    BY <1>25 DEF B!Crash
  <2>4. pendingB # NoPackage => backup' = backup
    BY <1>25 DEF B!Crash
  <2>5. QED
    BY <1>25, <2>2, <2>3, <2>4 DEF B!Crash, B!Return
<1>26. QED
  BY <1>1, <1>2, <1>3, <1>4, <1>5, <1>6, <1>7, <1>8, <1>9, <1>10, <1>11, <1>12, <1>12a,
     <1>13, <1>14, <1>15, <1>16, <1>17, <1>18, <1>19, <1>20, <1>21, <1>22, <1>23, <1>24,
     <1>25 DEF MovesB, B!Step


(* Lemma: a process that is not past its check touches neither the disk nor*)
(* what is pending of it, and gets past it only where no snapshot is left. *)
LEMMA QuietA ==
  ASSUME MovesA, pc \notin Started
  PROVE  /\ UNCHANGED << install, backup, hasBackup, links, pending >>
         /\ pc' \in Started => ~ hasBackup
<1> USE DEF disk, Removing, Started, Removing, Return
<1>1. CASE \E p \in Packages : Begin(p)
  BY <1>1 DEF Begin
<1>2. CASE Crash
  BY <1>2 DEF Crash
<1>3. CASE Reject \/ Admit \/ RefuseLeftover \/ NoLeftover
  BY <1>3 DEF Reject, Admit, RefuseLeftover, NoLeftover
<1>4. CASE Step /\ ~ (Reject \/ Admit \/ RefuseLeftover \/ NoLeftover)
  BY <1>4 DEF Step, CreateBackup, CreateFails, CopyFile, CopyFails, CopyDone, WriteEntry,
     EntryFails, ArchiveFails, InstallDone, WipeFile, WipeLink, WipeDone, RestoreFile,
     RestoreFails, RestoreUnlisted, RestoreDone, KeepBackup, RemoveFile, RemoveDone,
     RemoveFails
<1>5. QED
  BY <1>1, <1>2, <1>3, <1>4 DEF MovesA

LEMMA QuietB ==
  ASSUME MovesB, pcB \notin Started
  PROVE  /\ UNCHANGED << install, backup, hasBackup, links, pendingB >>
         /\ pcB' \in Started => ~ hasBackup
<1> USE DEF B!disk, B!Removing, Started, Removing, B!Return
<1>1. CASE \E p \in Packages : B!Begin(p)
  BY <1>1 DEF B!Begin
<1>2. CASE B!Crash
  BY <1>2 DEF B!Crash
<1>3. CASE \/ B!Reject \/ B!Admit \/ B!RefuseLeftover \/ B!NoLeftover
  BY <1>3 DEF B!Reject, B!Admit, B!RefuseLeftover, B!NoLeftover
<1>4. CASE /\ B!Step
           /\ ~ (\/ B!Reject \/ B!Admit \/ B!RefuseLeftover
                 \/ B!NoLeftover)
  BY <1>4 DEF B!Step, B!CreateBackup, B!CreateFails, B!CopyFile,
     B!CopyFails, B!CopyDone, B!WriteEntry, B!EntryFails,
     B!ArchiveFails, B!InstallDone, B!WipeFile, B!WipeLink,
     B!WipeDone, B!RestoreFile, B!RestoreFails, B!RestoreUnlisted,
     B!RestoreDone, B!KeepBackup, B!RemoveFile, B!RemoveDone,
     B!RemoveFails
<1>5. QED
  BY <1>1, <1>2, <1>3, <1>4 DEF MovesB

(* Lemma: while one process works on the disk, the other, which has not    *)
(* started and has nothing pending, keeps its own part.                    *)
LEMMA BystanderB ==
  ASSUME B!Safe, Safe', UNCHANGED localB,
         pcB \notin Started, pendingB = NoPackage
  PROVE  B!Safe'
<1> USE DEF localB, Started, Removing, B!Safe, Safe
<1>1. B!TypeOK'
  BY SameOperators DEF B!TypeOK, TypeOK
<1>2. B!Bookkeeping'
  BY SameOperators DEF B!Bookkeeping, Bookkeeping, B!Removing
<1>3. QED
  BY <1>1, <1>2 DEF B!SnapshotIntact, B!CopyLoop, B!InstallLoop,
     B!RestoreLoop, B!Settled

LEMMA BystanderA ==
  ASSUME Safe, B!Safe', UNCHANGED localA,
         pc \notin Started, pending = NoPackage
  PROVE  Safe'
<1> USE DEF localA, Started, Removing, B!Safe, Safe
<1>1. TypeOK'
  BY SameOperators DEF B!TypeOK, TypeOK
<1>2. Bookkeeping'
  BY SameOperators DEF B!Bookkeeping, Bookkeeping, Removing
<1>3. QED
  BY <1>1, <1>2 DEF SnapshotIntact, CopyLoop, InstallLoop, RestoreLoop, Settled

(* Lemma: ... and keeps it as well while the disk stands still.            *)
LEMMA StillB ==
  ASSUME B!Safe, UNCHANGED << install, backup, hasBackup, links, localB >>
  PROVE  B!Safe'
BY DEF localB, B!Safe, B!TypeOK, B!SnapshotIntact, B!Bookkeeping,
   B!CopyLoop, B!InstallLoop, B!RestoreLoop, B!Settled

LEMMA StillA ==
  ASSUME Safe, UNCHANGED << install, backup, hasBackup, links, localA >>
  PROVE  Safe'
BY DEF localA, Safe, TypeOK, SnapshotIntact, Bookkeeping, CopyLoop, InstallLoop,
   RestoreLoop, Settled

(* Lemma: a step of either process keeps the invariant of the race.        *)
LEMMA RaceStep == RaceInv /\ [RaceNext]_raceVars => RaceInv'
<1> SUFFICES ASSUME RaceInv, [RaceNext]_raceVars, ~ overlapped' PROVE RaceInv'
  BY DEF RaceInv
<1>1. CASE StepA
  <2>1. /\ MovesA /\ UNCHANGED localB
        /\ ~ overlapped /\ ~ (pc' \in Started /\ pcB' \in Started)
    BY <1>1 DEF StepA, Overlap, MovesA
  <2>2. /\ Safe /\ B!Safe
        /\ pc \in Started => pcB \notin Started /\ pendingB = NoPackage
        /\ pcB \in Started => pc \notin Started /\ pending = NoPackage
    BY <2>1 DEF RaceInv
  <2>3. Safe'
    BY <2>1, <2>2, SafeStep DEF MovesA, Next, Environment
  <2>4. pcB' = pcB /\ pendingB' = pendingB
    BY <2>1 DEF localB
  <2>5. CASE pc \in Started
    BY <2>1, <2>2, <2>3, <2>4, <2>5, BystanderB DEF RaceInv
  <2>6. CASE pc \notin Started
    <3>1. /\ UNCHANGED << install, backup, hasBackup, links, pending >>
          /\ pc' \in Started => ~ hasBackup
      BY <2>1, <2>6, QuietA
    <3>2. B!Safe'
      BY <2>1, <2>2, <3>1, StillB
    <3>3. ~ hasBackup => pendingB = NoPackage
      BY <2>2 DEF B!Safe, B!SnapshotIntact
    <3>4. QED
      BY <2>1, <2>2, <2>3, <2>4, <3>1, <3>2, <3>3 DEF RaceInv
  <2>7. QED
    BY <2>5, <2>6
<1>2. CASE StepB
  <2>1. /\ MovesB /\ UNCHANGED localA
        /\ ~ overlapped /\ ~ (pc' \in Started /\ pcB' \in Started)
    BY <1>2 DEF StepB, Overlap, MovesB
  <2>2. /\ Safe /\ B!Safe
        /\ pc \in Started => pcB \notin Started /\ pendingB = NoPackage
        /\ pcB \in Started => pc \notin Started /\ pending = NoPackage
    BY <2>1 DEF RaceInv
  <2>3. B!Safe'
    BY <2>1, <2>2, SafeStepB
  <2>4. pc' = pc /\ pending' = pending
    BY <2>1 DEF localA
  <2>5. CASE pcB \in Started
    BY <2>1, <2>2, <2>3, <2>4, <2>5, BystanderA DEF RaceInv
  <2>6. CASE pcB \notin Started
    <3>1. /\ UNCHANGED << install, backup, hasBackup, links, pendingB >>
          /\ pcB' \in Started => ~ hasBackup
      BY <2>1, <2>6, QuietB
    <3>2. Safe'
      BY <2>1, <2>2, <3>1, StillA
    <3>3. ~ hasBackup => pending = NoPackage
      BY <2>2 DEF Safe, SnapshotIntact
    <3>4. QED
      BY <2>1, <2>2, <2>3, <2>4, <3>1, <3>2, <3>3 DEF RaceInv
  <2>7. QED
    BY <2>5, <2>6
<1>3. CASE UNCHANGED raceVars
  <2>1. UNCHANGED << install, backup, hasBackup, links, localA, localB, overlapped >>
    BY <1>3 DEF raceVars, disk
  <2>2. UNCHANGED << pc, pending, pcB, pendingB, overlapped >>
    BY <2>1 DEF localA, localB
  <2>3. QED
    BY <2>1, <2>2, StillA, StillB DEF RaceInv
<1>4. QED
  BY <1>1, <1>2, <1>3 DEF RaceNext

(* Theorem: with two updates of one directory in two processes, the check  *)
(* for a leftover snapshot is all the exclusion they need as long as they  *)
(* are never both past it.                                                 *)
THEOREM RaceSafety == RaceSpec => []SafeUnlessOverlapped
<1>1. RaceInit => RaceInv
  <2> SUFFICES ASSUME RaceInit PROVE RaceInv
    OBVIOUS
  <2>1. Safe
    BY InitEstablishes DEF RaceInit, IInv
  <2>2. Init /\ B!Init
    BY DEF RaceInit
  <2>3. B!Safe
    <3>1. B!TypeOK
      BY <2>1, <2>2, SameOperators DEF Safe, TypeOK, B!Init, B!TypeOK
    <3>2. QED
      BY <2>2, <3>1 DEF B!Init, B!Safe, B!SnapshotIntact, B!Bookkeeping,
         B!CopyLoop, B!InstallLoop, B!RestoreLoop, B!Settled,
         B!Removing
  <2>4. pc = "idle" /\ pcB = "idle"
    BY <2>2 DEF Init, B!Init
  <2>5. "idle" \notin Started
    BY DEF Started, Removing
  <2>6. QED
    BY <2>1, <2>3, <2>4, <2>5 DEF RaceInv
<1>2. RaceInv => SafeUnlessOverlapped
  <2> SUFFICES ASSUME RaceInv, ~ overlapped PROVE SafeUnlessOverlapped
    BY DEF SafeUnlessOverlapped
  <2>1. Safe /\ B!Safe
    BY DEF RaceInv
  <2>2. SnapshotIntact /\ B!SnapshotIntact
    BY <2>1 DEF Safe, B!Safe
  <2>3. NothingLostWhileRemoving
    BY <2>1 DEF Safe, CopyLoop, Settled, NothingLostWhileRemoving
  <2>4. B!NothingLostWhileRemoving
    BY <2>1 DEF B!Safe, B!CopyLoop, B!Settled, B!NothingLostWhileRemoving
  <2>5. QED
    BY <2>2, <2>3, <2>4 DEF SafeUnlessOverlapped
<1>3. QED
  BY <1>1, <1>2, RaceStep, PTL DEF RaceSpec
================================================================================
