-------------------------- MODULE InstallFolderProofs --------------------------
(***************************************************************************)
(* The rules of uninstall.rs for every set of files, apps, components and  *)
(* setups: ownership is claimed only of a folder that held nothing of the  *)
(* user's, the file list names no file of the user's, and it names every   *)
(* file an install or update put there.                                    *)
(***************************************************************************)
EXTENDS InstallFolder, TLAPS

Installing == {"begun", "extracted", "settling"}

(* Nothing of the user's is claimed: not by the record, and not by the run *)
(* that is about to write the next one.                                    *)
GuestsUnclaimed ==
  /\ info \in Records => /\ info.owns # FALSE => guests = {}
                         /\ info.files # Absent => info.files \cap guests = {}
  /\ pc \in Installing =>
       /\ run.owns => guests = {}
       /\ RecordedFiles(run.prior) \cap guests = {}
       /\ run.files \cap guests = {}
  /\ pc = "updated" => PackageFiles(run.setup) \cap guests = {}

(* Every file of an app is on record, or its record was lost.              *)
Covered(i, S) ==
  IF i \in Records THEN i.files # Absent => AppFiles \subseteq i.files \cup S
  ELSE AppFiles \subseteq S

FilesListed ==
  /\ pc \in {"idle", "begun"} => Covered(info, orphans)
  /\ pc = "begun" => Covered(run.prior, orphans)
  /\ pc = "extracted" => Covered(run.prior, orphans \cup run.files)
  /\ pc = "settling" /\ (run.prior \in Records => run.prior.files # Absent) =>
       AppFiles \subseteq orphans \cup run.files
  /\ pc = "updated" => Covered(info, orphans \cup PackageFiles(run.setup))

(* What the script waits to remove held nothing older when it was left.    *)
ScriptKnowsNoGuest == doomed = "whole" /\ ~ overtaken => guests = {}

IInv == TypeOK /\ GuestsUnclaimed /\ FilesListed /\ ScriptKnowsNoGuest

--------------------------------------------------------------------------------
(***************************************************************************)
(* What the assumption on the setups says of one of them.                  *)
(***************************************************************************)
LEMMA SetupTypes ==
  ASSUME NEW s \in Setups
  PROVE  /\ s.app \in Apps
         /\ s.required \in SUBSET Comps
         /\ PackageFiles(s) \subseteq Files
         /\ CompsOf(s) \subseteq Comps
         /\ \A C : FilesOf(s, C) \subseteq Files
         /\ \A want : Selected(s, want) \subseteq PackageFiles(s)
BY ConstantsAssumption DEF SetupType, PackageFiles, CompsOf, FilesOf, Selected

(***************************************************************************)
(* Writing and deleting files gives a folder again.                        *)
(***************************************************************************)
LEMMA FolderTypes ==
  ASSUME TypeOK
  PROVE  /\ \A a \in Apps : \A W : Written(a, W) \in [Paths -> Apps \cup {Nobody, User}]
         /\ \A D : Deleted(D) \in [Paths -> Apps \cup {Nobody, User}]
BY DEF TypeOK, Written, Deleted

(***************************************************************************)
(* read_info yields a record or Null, and what is derived from it is typed.*)
(***************************************************************************)
LEMMA RecordTypes ==
  ASSUME TypeOK
  PROVE  /\ ReadInfo \in Records \cup {NoFile}
         /\ OwnsDirBeforeInstall(ReadInfo) \in BOOLEAN
         /\ \A i \in Records \cup {NoFile} : RecordedFiles(i) \subseteq Files
         /\ \A s \in Setups : InstalledComponents(s) \subseteq Comps
<1>1. ReadInfo \in Records \cup {NoFile}
  BY DEF TypeOK, ReadInfo
<1>2. OwnsDirBeforeInstall(ReadInfo) \in BOOLEAN
  BY <1>1, RecordsAssumption DEF OwnsDirBeforeInstall, Records, LegacyOwns
<1>3. \A i \in Records \cup {NoFile} : RecordedFiles(i) \subseteq Files
  BY RecordsAssumption DEF RecordedFiles, Records
<1>4. \A s \in Setups : InstalledComponents(s) \subseteq Comps
  BY SetupTypes DEF InstalledComponents
<1> QED  BY <1>1, <1>2, <1>3, <1>4

(***************************************************************************)
(* Every step leaves the state typed.                                      *)
(***************************************************************************)
LEMMA StepTypes == TypeOK /\ [Next]_vars => TypeOK'
<1> SUFFICES ASSUME TypeOK, [Next]_vars PROVE TypeOK'
  OBVIOUS
<1> USE ConstantsAssumption, RecordsAssumption
<1>1. ASSUME NEW f \in UserFiles, UserPut(f) PROVE TypeOK'
  BY <1>1 DEF TypeOK, UserPut, Runs, Paths
<1>2. ASSUME NEW s \in Setups, NEW want \in SUBSET Comps, NEW drop \in SUBSET Comps,
             BeginInstall(s, want, drop)
      PROVE TypeOK'
  <2>1. run' \in Runs
    BY <1>2, RecordTypes DEF BeginInstall, Runs
  <2>2. overtaken' \in BOOLEAN
    BY <1>2 DEF BeginInstall, TypeOK
  <2> QED  BY <1>2, <2>1, <2>2, RecordTypes DEF TypeOK, BeginInstall
<1>3. ASSUME Extract PROVE TypeOK'
  BY <1>3, SetupTypes, FolderTypes DEF TypeOK, Extract, Runs
<1>4. ASSUME NEW W \in SUBSET Files, ExtractStops(W) PROVE TypeOK'
  BY <1>4, SetupTypes, FolderTypes DEF TypeOK, ExtractStops, Runs, Unlisted
<1>5. ASSUME NEW left \in SUBSET Files, Drop(left) PROVE TypeOK'
  BY <1>5, SetupTypes, FolderTypes, RecordTypes DEF TypeOK, Drop, Runs, Unlisted, MergedFiles
<1>6. ASSUME Integrate PROVE TypeOK'
  BY <1>6, SetupTypes, FolderTypes DEF TypeOK, Integrate, Runs, Records, Unlisted, AppFiles
<1>7. ASSUME RecordFails PROVE TypeOK'
  BY <1>7, SetupTypes, FolderTypes DEF TypeOK, RecordFails, Runs, Unlisted, AppFiles
<1>8. ASSUME InstallDies PROVE TypeOK'
  BY <1>8 DEF TypeOK, InstallDies, Unlisted, AppFiles
<1>9. ASSUME NEW s \in Setups, RemoteUpdate(s) PROVE TypeOK'
  BY <1>9, SetupTypes, FolderTypes DEF TypeOK, RemoteUpdate, NoRun
<1>10. ASSUME RecordUpdate PROVE TypeOK'
  BY <1>10, SetupTypes, RecordTypes
     DEF TypeOK, RecordUpdate, Records, Unlisted, AppFiles, MergedFiles, RecordedFiles
<1>11. ASSUME RecordUpdateFails PROVE TypeOK'
  BY <1>11 DEF TypeOK, RecordUpdateFails, Unlisted, AppFiles
<1>12. ASSUME NEW s \in Setups, NEW inside \in BOOLEAN, NEW left \in SUBSET Paths,
              Uninstall(s, inside, left)
       PROVE TypeOK'
  BY <1>12, FolderTypes DEF TypeOK, Uninstall, Unlisted
<1>13. ASSUME NEW left \in SUBSET Paths, SelfDelete(left) PROVE TypeOK'
  BY <1>13, FolderTypes DEF TypeOK, SelfDelete, Unlisted, Runs
<1>14. ASSUME UNCHANGED vars PROVE TypeOK'
  BY <1>14 DEF TypeOK, vars, Runs
<1> QED
  BY <1>1, <1>2, <1>3, <1>4, <1>5, <1>6, <1>7, <1>8, <1>9, <1>10, <1>11, <1>12,
     <1>13, <1>14, RecordTypes DEF Next

(***************************************************************************)
(* The initial states: an empty folder, or one with a legacy install.      *)
(***************************************************************************)
LEMMA InitEstablishes == Init => IInv
<1> SUFFICES ASSUME Init PROVE IInv
  OBVIOUS
<1> USE ConstantsAssumption, RecordsAssumption
<1>1. TypeOK
  <2>1. overtaken \in BOOLEAN
    BY DEF Init
  <2>2. folder \in [Paths -> Apps \cup {Nobody, User}]
    BY SetupTypes DEF Init, Paths
  <2> QED  BY <2>1, <2>2, SetupTypes DEF Init, TypeOK, Records
<1>2. GuestsUnclaimed
  BY DEF Init, GuestsUnclaimed, Installing, Records
<1>3. FilesListed
  BY DEF Init, FilesListed, Covered, AppFiles, Records, Paths
<1>4. ScriptKnowsNoGuest
  BY DEF Init, ScriptKnowsNoGuest
<1> QED  BY <1>1, <1>2, <1>3, <1>4 DEF IInv

(***************************************************************************)
(* Integrate writes a record, with what the run decided.                   *)
(***************************************************************************)
LEMMA IntegrateRecords ==
  ASSUME TypeOK, Integrate
  PROVE  /\ info' \in Records
         /\ info'.owns = run.owns /\ info'.files = run.files
         /\ run.files # Absent
BY SetupTypes, RecordsAssumption DEF Integrate, TypeOK, Runs, Records

(***************************************************************************)
(* No step claims anything of the user's.                                  *)
(***************************************************************************)
LEMMA StepKeepsUnclaimed == TypeOK /\ GuestsUnclaimed /\ [Next]_vars => GuestsUnclaimed'
<1> SUFFICES ASSUME TypeOK, GuestsUnclaimed, [Next]_vars PROVE GuestsUnclaimed'
  OBVIOUS
<1> USE ConstantsAssumption, RecordsAssumption DEF GuestsUnclaimed, Installing
<1>1. ASSUME NEW f \in UserFiles, UserPut(f) PROVE GuestsUnclaimed'
  BY <1>1 DEF UserPut
<1>2. ASSUME NEW s \in Setups, NEW want \in SUBSET Comps, NEW drop \in SUBSET Comps,
             BeginInstall(s, want, drop)
      PROVE GuestsUnclaimed'
  <2>1. CASE ReadInfo = NoFile
    <3>1. info \notin Records
      BY <2>1 DEF ReadInfo, TypeOK
    <3>2. OwnsDirBeforeInstall(ReadInfo) => guests' = {}
      BY <1>2, <2>1 DEF BeginInstall, OwnsDirBeforeInstall, Present, Paths
    <3> QED  BY <1>2, <2>1, <3>1, <3>2 DEF BeginInstall, RecordedFiles
  <2>2. CASE ReadInfo # NoFile
    <3>1. info \in Records /\ ReadInfo = info
      BY <2>2 DEF ReadInfo, TypeOK
    <3>2. OwnsDirBeforeInstall(ReadInfo) => info.owns # FALSE
      BY <2>2, <3>1 DEF OwnsDirBeforeInstall
    <3>3. RecordedFiles(ReadInfo) \cap guests = {}
      BY <2>2, <3>1 DEF RecordedFiles
    <3> QED  BY <1>2, <2>2, <3>1, <3>2, <3>3 DEF BeginInstall
  <2> QED  BY <2>1, <2>2
<1>3. ASSUME Extract PROVE GuestsUnclaimed'
  BY <1>3 DEF Extract, TypeOK, Runs
<1>4. ASSUME NEW W \in SUBSET Files, ExtractStops(W) PROVE GuestsUnclaimed'
  BY <1>4 DEF ExtractStops
<1>5. ASSUME NEW left \in SUBSET Files, Drop(left) PROVE GuestsUnclaimed'
  BY <1>5 DEF Drop, TypeOK, Runs, MergedFiles
<1>6. ASSUME Integrate PROVE GuestsUnclaimed'
  <2>1. /\ run.owns => guests = {}
        /\ run.files \cap guests = {}
    BY <1>6 DEF Integrate
  <2>2. run.owns \in BOOLEAN
    BY <1>6 DEF Integrate, TypeOK, Runs
  <2>3. guests' = guests /\ pc' = "idle"
    BY <1>6 DEF Integrate
  <2> QED  BY <1>6, <2>1, <2>2, <2>3, IntegrateRecords
<1>7. ASSUME RecordFails PROVE GuestsUnclaimed'
  BY <1>7 DEF RecordFails
<1>8. ASSUME InstallDies PROVE GuestsUnclaimed'
  BY <1>8 DEF InstallDies
<1>9. ASSUME NEW s \in Setups, RemoteUpdate(s) PROVE GuestsUnclaimed'
  BY <1>9 DEF RemoteUpdate, NoRun
<1>10. ASSUME RecordUpdate PROVE GuestsUnclaimed'
  BY <1>10 DEF RecordUpdate, MergedFiles, RecordedFiles, Records
<1>11. ASSUME RecordUpdateFails PROVE GuestsUnclaimed'
  BY <1>11 DEF RecordUpdateFails
<1>12. ASSUME NEW s \in Setups, NEW inside \in BOOLEAN, NEW left \in SUBSET Paths,
              Uninstall(s, inside, left)
       PROVE GuestsUnclaimed'
  BY <1>12 DEF Uninstall
<1>13. ASSUME NEW left \in SUBSET Paths, SelfDelete(left) PROVE GuestsUnclaimed'
  BY <1>13 DEF SelfDelete
<1>14. ASSUME UNCHANGED vars PROVE GuestsUnclaimed'
  BY <1>14 DEF vars
<1> QED
  BY <1>1, <1>2, <1>3, <1>4, <1>5, <1>6, <1>7, <1>8, <1>9, <1>10, <1>11, <1>12,
     <1>13, <1>14, RecordTypes DEF Next

(***************************************************************************)
(* What is an app's after writing, and after deleting.                     *)
(***************************************************************************)
LEMMA AppFilesAfter ==
  ASSUME TypeOK
  PROVE  /\ \A a, W : folder' = Written(a, W) => AppFiles' \subseteq AppFiles \cup W
         /\ \A D : folder' = Deleted(D) => AppFiles' = AppFiles \ D
BY ConstantsAssumption DEF TypeOK, AppFiles, Written, Deleted, Paths

(***************************************************************************)
(* No step leaves an app's file neither on record nor counted as lost.     *)
(***************************************************************************)
LEMMA StepKeepsListed == TypeOK /\ FilesListed /\ [Next]_vars => FilesListed'
<1> SUFFICES ASSUME TypeOK, FilesListed, [Next]_vars PROVE FilesListed'
  OBVIOUS
<1> USE ConstantsAssumption, RecordsAssumption DEF FilesListed
<1>1. ASSUME NEW f \in UserFiles, UserPut(f) PROVE FilesListed'
  <2>1. AppFiles' = AppFiles
    BY <1>1 DEF UserPut, AppFiles, TypeOK, Paths
  <2> QED  BY <1>1, <2>1 DEF UserPut, Covered
<1>2. ASSUME NEW s \in Setups, NEW want \in SUBSET Comps, NEW drop \in SUBSET Comps,
             BeginInstall(s, want, drop)
      PROVE FilesListed'
  BY <1>2 DEF BeginInstall, Covered, AppFiles, ReadInfo, TypeOK
<1>3. ASSUME Extract PROVE FilesListed'
  <2>1. AppFiles' \subseteq AppFiles \cup run'.files
    BY <1>3, AppFilesAfter DEF Extract, TypeOK, Runs
  <2> QED  BY <1>3, <2>1 DEF Extract, Covered, TypeOK, Runs
<1>4. ASSUME NEW W \in SUBSET Files, ExtractStops(W) PROVE FilesListed'
  <2>1. AppFiles' \subseteq AppFiles \cup W
    BY <1>4, AppFilesAfter DEF ExtractStops
  <2>2. AppFiles' \cap (orphans \cup W) \subseteq orphans'
    BY <1>4 DEF ExtractStops, Unlisted, AppFiles
  <2> QED  BY <1>4, <2>1, <2>2 DEF ExtractStops, Covered
<1>5. ASSUME NEW left \in SUBSET Files, Drop(left) PROVE FilesListed'
  <2> DEFINE gone == FilesOf(run.setup, run.drop)
  <2>1. AppFiles' = AppFiles \ (gone \ left)
    BY <1>5, AppFilesAfter DEF Drop
  <2>2. AppFiles' \cap (orphans \cup left) \subseteq orphans'
    BY <1>5 DEF Drop, Unlisted, AppFiles
  <2>3. /\ run' = [run EXCEPT !.files = MergedFiles(run.prior, run.files) \ gone]
        /\ pc = "extracted" /\ pc' = "settling"
        /\ run \in Runs
    BY <1>5 DEF Drop, TypeOK
  <2>4. run'.prior = run.prior /\ run'.files = MergedFiles(run.prior, run.files) \ gone
    BY <2>3 DEF Runs
  <2> QED  BY <2>1, <2>2, <2>3, <2>4 DEF Covered, MergedFiles, RecordedFiles, Runs
<1>6. ASSUME Integrate PROVE FilesListed'
  <2>1. AppFiles' = AppFiles
    BY <1>6 DEF Integrate, AppFiles, Written, TypeOK, Paths
  <2>2. AppFiles \subseteq info'.files \cup orphans'
    BY <1>6 DEF Integrate, Unlisted, AppFiles, TypeOK, Runs
  <2>3. pc' = "idle"
    BY <1>6 DEF Integrate
  <2> QED  BY <1>6, <2>1, <2>2, <2>3, IntegrateRecords DEF Covered
<1>7. ASSUME RecordFails PROVE FilesListed'
  <2>1. AppFiles' = AppFiles
    BY <1>7 DEF RecordFails, AppFiles, Written, TypeOK, Paths
  <2> QED  BY <1>7, <2>1 DEF RecordFails, Covered, Unlisted, AppFiles
<1>8. ASSUME InstallDies PROVE FilesListed'
  BY <1>8 DEF InstallDies, Covered, Unlisted, AppFiles
<1>9. ASSUME NEW s \in Setups, RemoteUpdate(s) PROVE FilesListed'
  <2>1. AppFiles' \subseteq AppFiles \cup PackageFiles(s)
    BY <1>9, AppFilesAfter DEF RemoteUpdate
  <2> QED  BY <1>9, <2>1 DEF RemoteUpdate, Covered, NoRun
<1>10. ASSUME RecordUpdate PROVE FilesListed'
  <2>1. info'.files = MergedFiles(info, PackageFiles(run.setup)) /\ info' \in Records
    BY <1>10, SetupTypes, RecordTypes
       DEF RecordUpdate, Records, MergedFiles, TypeOK, RecordedFiles
  <2>2. AppFiles' \subseteq info'.files \cup orphans'
    BY <1>10, <2>1
       DEF RecordUpdate, Unlisted, AppFiles, Covered, MergedFiles, RecordedFiles
  <2> QED  BY <1>10, <2>1, <2>2 DEF RecordUpdate, Covered
<1>11. ASSUME RecordUpdateFails PROVE FilesListed'
  BY <1>11 DEF RecordUpdateFails, Covered, Unlisted, AppFiles
<1>12. ASSUME NEW s \in Setups, NEW inside \in BOOLEAN, NEW left \in SUBSET Paths,
              Uninstall(s, inside, left)
       PROVE FilesListed'
  <2>1. AppFiles' \subseteq AppFiles
    BY <1>12, AppFilesAfter DEF Uninstall
  <2>2. orphans' = {f \in (IF info' = info THEN orphans ELSE Files) : folder'[f] \in Apps}
    BY <1>12 DEF Uninstall, Unlisted
  <2> QED  BY <1>12, <2>1, <2>2 DEF Uninstall, Covered, AppFiles
<1>13. ASSUME NEW left \in SUBSET Paths, SelfDelete(left) PROVE FilesListed'
  <2>1. AppFiles' \subseteq AppFiles
    BY <1>13, AppFilesAfter DEF SelfDelete
  <2>2. orphans' = {f \in (IF info' = info THEN orphans ELSE Files) : folder'[f] \in Apps}
    BY <1>13 DEF SelfDelete, Unlisted
  <2>3. AppFiles' \cap orphans \subseteq orphans'
    BY <2>2 DEF AppFiles, TypeOK
  <2>4. info' # info => AppFiles' \subseteq orphans'
    BY <2>2 DEF AppFiles
  <2>5. pc' = pc /\ run' = run /\ info' \in {NoFile, info}
    BY <1>13 DEF SelfDelete
  <2> QED  BY <2>1, <2>3, <2>4, <2>5 DEF Covered
<1>14. ASSUME UNCHANGED vars PROVE FilesListed'
  BY <1>14 DEF vars, Covered, AppFiles
<1> QED
  BY <1>1, <1>2, <1>3, <1>4, <1>5, <1>6, <1>7, <1>8, <1>9, <1>10, <1>11, <1>12,
     <1>13, <1>14, RecordTypes DEF Next

--------------------------------------------------------------------------------
(***************************************************************************)
(* A folder that an uninstall may remove whole holds no guest.             *)
(***************************************************************************)
LEMMA RecursiveHasNoGuest == TypeOK /\ GuestsUnclaimed /\ Recursive => guests = {}
<1> SUFFICES ASSUME TypeOK, GuestsUnclaimed, Recursive PROVE guests = {}
  OBVIOUS
<1>1. info \in Records /\ ReadInfo = info
  BY DEF Recursive, ReadInfo, TypeOK
<1>2. info.owns # FALSE
  BY <1>1, ConstantsAssumption DEF Recursive
<1> QED  BY <1>1, <1>2 DEF GuestsUnclaimed

(***************************************************************************)
(* Guests are counted anew only by an install, which the script remembers. *)
(***************************************************************************)
LEMMA StepKeepsScript ==
  TypeOK /\ GuestsUnclaimed /\ ScriptKnowsNoGuest /\ [Next]_vars => ScriptKnowsNoGuest'
<1> SUFFICES ASSUME TypeOK, GuestsUnclaimed, ScriptKnowsNoGuest, [Next]_vars
             PROVE  ScriptKnowsNoGuest'
  OBVIOUS
<1> USE DEF ScriptKnowsNoGuest
<1>1. ASSUME NEW f \in UserFiles, UserPut(f) PROVE ScriptKnowsNoGuest'
  BY <1>1 DEF UserPut
<1>2. ASSUME NEW s, NEW want, NEW drop, BeginInstall(s, want, drop)
      PROVE ScriptKnowsNoGuest'
  BY <1>2 DEF BeginInstall
<1>3. ASSUME Extract PROVE ScriptKnowsNoGuest'
  BY <1>3 DEF Extract
<1>4. ASSUME NEW W \in SUBSET Files, ExtractStops(W) PROVE ScriptKnowsNoGuest'
  BY <1>4 DEF ExtractStops
<1>5. ASSUME NEW left \in SUBSET Files, Drop(left) PROVE ScriptKnowsNoGuest'
  BY <1>5 DEF Drop
<1>6. CASE Integrate \/ RecordFails \/ InstallDies \/ RecordUpdate \/ RecordUpdateFails
  BY <1>6 DEF Integrate, RecordFails, InstallDies, RecordUpdate, RecordUpdateFails
<1>7. ASSUME NEW s \in Setups, RemoteUpdate(s) PROVE ScriptKnowsNoGuest'
  BY <1>7 DEF RemoteUpdate
<1>8. ASSUME NEW s \in Setups, NEW inside \in BOOLEAN, NEW left \in SUBSET Paths,
             Uninstall(s, inside, left)
      PROVE ScriptKnowsNoGuest'
  BY <1>8, RecursiveHasNoGuest DEF Uninstall
<1>9. ASSUME NEW left \in SUBSET Paths, SelfDelete(left) PROVE ScriptKnowsNoGuest'
  BY <1>9 DEF SelfDelete
<1>10. ASSUME UNCHANGED vars PROVE ScriptKnowsNoGuest'
  BY <1>10 DEF vars
<1> QED
  BY <1>1, <1>2, <1>3, <1>4, <1>5, <1>6, <1>7, <1>8, <1>9, <1>10 DEF Next

(***************************************************************************)
(* A user's file is deleted only in the ways UserFilesGoOnlyAs names.      *)
(***************************************************************************)
LEMMA StepSparesUserFiles ==
  ASSUME TypeOK, GuestsUnclaimed, ScriptKnowsNoGuest, [Next]_vars,
         NEW f \in Files, folder[f] = User, folder'[f] = Nobody
  PROVE  UserFilesGoOnlyAs(f)
<1> USE ConstantsAssumption, RecordsAssumption
<1>0. f \in Paths /\ f # Uninstaller
  BY DEF Paths
<1>1. ASSUME NEW u \in UserFiles, UserPut(u) PROVE FALSE
  BY <1>0, <1>1 DEF UserPut, TypeOK
<1>2. ASSUME NEW a \in Apps, NEW W, folder' = Written(a, W) PROVE FALSE
  BY <1>0, <1>2 DEF Written
<1>3. ASSUME NEW left \in SUBSET Files, Drop(left) PROVE UserFilesGoOnlyAs(f)
  <2>1. run.setup \in Setups /\ pc = "extracted"
    BY <1>3 DEF Drop, TypeOK, Runs
  <2>2. f \in FilesOf(run.setup, run.drop) \ left
    BY <1>0, <1>3 DEF Drop, Deleted
  <2>3. f \in PackageFiles(run.setup) /\ run.drop # {}
    <3>1. run.drop \subseteq Comps
      BY <1>3 DEF Drop, TypeOK, Runs
    <3> QED  BY <2>2, <3>1 DEF FilesOf, PackageFiles
  <2> QED  BY <2>1, <2>3 DEF UserFilesGoOnlyAs
<1>4. ASSUME NEW s \in Setups, NEW inside \in BOOLEAN, NEW left \in SUBSET Paths,
             Uninstall(s, inside, left)
      PROVE UserFilesGoOnlyAs(f)
  <2>1. pc = "idle"
    BY <1>4 DEF Uninstall
  <2>2. CASE Recursive
    BY <2>1, <2>2, RecursiveHasNoGuest DEF UserFilesGoOnlyAs
  <2>3. CASE ~ Recursive
    <3>1. f \in Listed(s)
      BY <1>0, <1>4, <2>3 DEF Uninstall, Deleted
    <3>2. CASE ReadInfo # NoFile /\ ReadInfo.files # Absent
      <4>1. ReadInfo = info /\ info \in Records
        BY <3>2 DEF ReadInfo, TypeOK
      <4>2. f \in RecordedFiles(ReadInfo) /\ f \notin guests
        BY <1>0, <3>1, <3>2, <4>1 DEF Listed, RecordedFiles, GuestsUnclaimed
      <4> QED  BY <2>1, <4>2 DEF UserFilesGoOnlyAs
    <3>3. CASE ~ (ReadInfo # NoFile /\ ReadInfo.files # Absent)
      <4>1. f \in PackageFiles(s)
        BY <1>0, <3>1, <3>3 DEF Listed
      <4>2. ReadInfo = NoFile \/ info.files = Absent
        BY <3>3 DEF ReadInfo
      <4> QED  BY <2>1, <4>1, <4>2 DEF UserFilesGoOnlyAs
    <3> QED  BY <3>2, <3>3
  <2> QED  BY <2>2, <2>3
<1>5. ASSUME NEW left \in SUBSET Paths, SelfDelete(left) PROVE UserFilesGoOnlyAs(f)
  <2>1. doomed = "whole" /\ doomed' = "no"
    BY <1>0, <1>5 DEF SelfDelete, Deleted, TypeOK
  <2> QED  BY <2>1 DEF ScriptKnowsNoGuest, UserFilesGoOnlyAs
<1>6. ASSUME UNCHANGED folder PROVE FALSE
  BY <1>6
<1>7. Extract => FALSE
  BY <1>2, SetupTypes DEF Extract, TypeOK, Runs
<1>8. ASSUME NEW W \in SUBSET Files PROVE ~ ExtractStops(W)
  BY <1>2, SetupTypes DEF ExtractStops, TypeOK, Runs
<1>9. ~ Integrate /\ ~ RecordFails
  BY <1>2, SetupTypes DEF Integrate, RecordFails, TypeOK, Runs
<1>10. ASSUME NEW s \in Setups PROVE ~ RemoteUpdate(s)
  BY <1>2, SetupTypes DEF RemoteUpdate
<1>11. ~ InstallDies /\ ~ RecordUpdate /\ ~ RecordUpdateFails
  BY DEF InstallDies, RecordUpdate, RecordUpdateFails
<1>12. ASSUME NEW s, NEW want, NEW drop PROVE ~ BeginInstall(s, want, drop)
  BY DEF BeginInstall
<1>13. Next
  BY <1>6 DEF vars
<1> QED
  BY <1>1, <1>3, <1>4, <1>5, <1>7, <1>8, <1>9, <1>10, <1>11, <1>12, <1>13 DEF Next

(***************************************************************************)
(* The inductive invariant holds of every reachable state.                 *)
(***************************************************************************)
THEOREM Invariance == Spec => []IInv
<1>1. IInv /\ [Next]_vars => IInv'
  BY StepTypes, StepKeepsUnclaimed, StepKeepsListed, StepKeepsScript DEF IInv
<1> QED  BY InitEstablishes, <1>1, PTL DEF Spec

(***************************************************************************)
(* Type correctness of the install folder and of the runs over it.         *)
(***************************************************************************)
THEOREM TypeCorrect == Spec => []TypeOK
<1>1. IInv => TypeOK
  BY DEF IInv
<1> QED  BY Invariance, <1>1, PTL

(***************************************************************************)
(* owns_dir is claimed only of a folder that held nothing of the user's.   *)
(***************************************************************************)
THEOREM OwnershipSafety == Spec => []OwnedFolderHadNothing
<1>1. IInv => OwnedFolderHadNothing
  BY DEF IInv, GuestsUnclaimed, OwnedFolderHadNothing
<1> QED  BY Invariance, <1>1, PTL

(***************************************************************************)
(* The record of a finished run lists every file apps put there, but those *)
(* of runs that stopped or lost their record.                              *)
(***************************************************************************)
THEOREM ListSafety == Spec => []RecordCoversInstall
<1>1. IInv => RecordCoversInstall
  BY DEF IInv, FilesListed, Covered, RecordCoversInstall
<1> QED  BY Invariance, <1>1, PTL

(***************************************************************************)
(* A user's file that no install wrote over goes only with a folder that   *)
(* was owned before it was saved, at a path on the record, at a path of a  *)
(* package, or with the delayed script of an owned folder: uninstall.rs's  *)
(* rule, with the exceptions the code makes.                               *)
(***************************************************************************)
THEOREM UserFileSafety == Spec => UserFilesStay
<1>1. IInv /\ [Next]_vars =>
        [\A f \in Files : folder[f] = User /\ folder'[f] = Nobody =>
           UserFilesGoOnlyAs(f)]_vars
  BY StepSparesUserFiles DEF IInv
<1> QED  BY Invariance, <1>1, PTL DEF Spec, UserFilesStay
================================================================================
