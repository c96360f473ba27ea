----------------------------- MODULE PrereqProofs -----------------------------
(***************************************************************************)
(* Proofs about Prereq, for every list of prerequisites, every size of the *)
(* archives and every number of runs.                                      *)
(***************************************************************************)
EXTENDS Prereq, TLAPS

USE DEF Ids

\* Where a run is: at a prerequisite until the list is through.
AtItsPrereq ==
    run # Nothing =>
        /\ run.phase = "app" => run.at = Len(Prereqs) + 1
        /\ run.phase \notin {"next", "app"} => run.at \in Ids

\* The required ones before the one a run is at are there, or were taken away.
PassedAreThere ==
    run # Nothing =>
        \A i \in Ids : i < run.at /\ Prereqs[i].required => CheckIn(i) \/ i \in lost

\* What is opened is what was compared.
ScratchIsCompared ==
    run # Nothing =>
        /\ run.phase = "compare" /\ Prereqs[run.at].kind = "zip" => scratch = run.bytes
        /\ run.phase = "unpack" => scratch = "pinned"

All(i, c) == \A k \in 1 .. Entries : unpacked[i][k] = c

\* A zip is not there at all, there whole, being unpacked, or torn.
AllOrNothing ==
    /\ lost \subseteq Outside
    /\ \A i \in Ids : \/ All(i, "none") \/ All(i, "whole") \/ i \in torn
                      \/ run # Nothing /\ run.phase = "unpack" /\ run.at = i
    /\ run # Nothing /\ run.phase = "unpack" =>
          \A k \in 1 .. Entries : k < run.entry => unpacked[run.at][k] = "whole"

\* A folder nobody else put anything into belongs to the installation.
OwnedUnlessMixed ==
    ~mixed =>
        /\ ~guests
        /\ run = Nothing /\ record = Nothing => FolderIsEmpty
        /\ record # Nothing => record = TRUE
        /\ run # Nothing => run.owns = TRUE

LEMMA Constants ==
    /\ Len(Prereqs) \in Nat /\ Entries \in Nat \ {0} /\ MaxRuns \in Nat
    /\ \A i \in Ids : Prereqs[i].at \in 1 .. Entries
    /\ Nothing \notin BOOLEAN /\ Nothing \notin Run
<1>1. \A i \in Ids : Prereqs[i] \in Prerequisite
  BY ConfigIsSane
<1>2. Len(Prereqs) \in Nat
  BY ConfigIsSane
<1>3. QED
  BY <1>1, <1>2, ConfigIsSane, NothingIsDistinct DEF Prerequisite

\* A run that ends, goes on or turns to the next prerequisite is still one of Run.
LEMMA EndTypes ==
    ASSUME TypeOK, NEW how \in Verdicts, End(how)
    PROVE  run' = Nothing /\ verdict' \in Verdicts /\ mixed' \in BOOLEAN /\ runs' = runs
  BY Zenon DEF End, TypeOK

LEMMA AdvanceTypes ==
    ASSUME TypeOK, run # Nothing, run.at \in Ids, Advance
    PROVE  /\ run' \in Run /\ run' # Nothing /\ run'.owns = run.owns
           /\ runs' = runs /\ verdict' = verdict /\ mixed' = mixed
<1>1. run \in Run /\ run.at + 1 \in 1 .. Len(Prereqs) + 1
  BY Constants DEF TypeOK
<1>2. run' = [run EXCEPT !.at = run.at + 1, !.phase = "next"]
  BY DEF Advance
<1>3. run' \in Run /\ run'.owns = run.owns
  BY <1>1, <1>2 DEF Run, Phases
<1>4. QED
  BY <1>3, Constants DEF Advance

LEMMA GoToTypes ==
    ASSUME TypeOK, run # Nothing, NEW phase \in Phases, GoTo(phase)
    PROVE  /\ run' \in Run /\ run' # Nothing /\ run'.owns = run.owns
           /\ run'.at = run.at /\ run'.phase = phase /\ run'.entry = run.entry
           /\ runs' = runs /\ verdict' = verdict /\ mixed' = mixed
<1>1. run \in Run
  BY DEF TypeOK
<1>2. run' = [run EXCEPT !.phase = phase]
  BY DEF GoTo
<1>3. run' \in Run /\ run'.owns = run.owns /\ run'.at = run.at /\ run'.phase = phase
      /\ run'.entry = run.entry
  BY <1>1, <1>2 DEF Run
<1>4. QED
  BY <1>3, Constants DEF GoTo

LEMMA FailedTypes ==
    ASSUME TypeOK, run # Nothing, run.at \in Ids, Failed
    PROVE  run' \in Run \cup {Nothing} /\ verdict' \in Verdicts /\ mixed' \in BOOLEAN
           /\ runs' = runs
<1>1. CASE Prereqs[run.at].required
  BY <1>1, EndTypes DEF Failed, Verdicts
<1>2. CASE ~Prereqs[run.at].required
  BY <1>2, AdvanceTypes DEF Failed, TypeOK
<1>3. QED
  BY <1>1, <1>2

\* A run that failed there is over or at the next prerequisite.
LEMMA FailedPhase ==
    ASSUME TypeOK, run # Nothing, run.at \in Ids, Failed
    PROVE  run' = Nothing \/ run'.phase = "next"
<1>1. CASE Prereqs[run.at].required
  BY <1>1 DEF Failed, End
<1>2. CASE ~Prereqs[run.at].required
  BY <1>2 DEF Failed, Advance, TypeOK, Run
<1>3. QED
  BY <1>1, <1>2

\* A run that turns to the next prerequisite has passed the one it was at, or can do without.
LEMMA PassedAdvance ==
    ASSUME TypeOK, run # Nothing, run.at \in Ids, PassedAreThere, Advance, lost' = lost,
           Prereqs[run.at].required => \A i \in Ids : i = run.at => CheckIn(i)',
           \A i \in Ids : i # run.at /\ CheckIn(i) => CheckIn(i)'
    PROVE  PassedAreThere'
<1>1. run \in Run /\ run.at \in Nat
  BY Constants DEF TypeOK
<1>2. run'.at = run.at + 1
  BY <1>1 DEF Advance, Run
<1>3. SUFFICES ASSUME NEW i \in Ids, i < run'.at, Prereqs[i].required
               PROVE  CheckIn(i)' \/ i \in lost'
  BY DEF PassedAreThere
<1>4. CASE i = run.at
  BY <1>3, <1>4
<1>5. CASE i # run.at
  BY <1>1, <1>2, <1>3, <1>5, Constants DEF PassedAreThere
<1>6. QED
  BY <1>4, <1>5

LEMMA PassedFailed ==
    ASSUME TypeOK, run # Nothing, run.at \in Ids, PassedAreThere, Failed, lost' = lost,
           \A i \in Ids : i # run.at /\ CheckIn(i) => CheckIn(i)'
    PROVE  PassedAreThere'
<1>1. CASE Prereqs[run.at].required
  BY <1>1 DEF Failed, End, PassedAreThere
<1>2. CASE ~Prereqs[run.at].required
  BY <1>2, PassedAdvance DEF Failed
<1>3. QED
  BY <1>1, <1>2

LEMMA EmptySame ==
    ASSUME UNCHANGED <<unpacked, app, guests>>
    PROVE  FolderIsEmpty' <=> FolderIsEmpty
  BY DEF FolderIsEmpty, EmptyZip

LEMMA OwnedSame ==
    ASSUME OwnedUnlessMixed, run # Nothing, run' # Nothing, run'.owns = run.owns,
           guests' = guests, record' = record, mixed' = mixed
    PROVE  OwnedUnlessMixed'
  BY DEF OwnedUnlessMixed

LEMMA OwnedFailed ==
    ASSUME TypeOK, OwnedUnlessMixed, run # Nothing, run.at \in Ids, Failed, UNCHANGED folder
    PROVE  OwnedUnlessMixed'
<1>1. CASE Prereqs[run.at].required
  BY <1>1, Constants DEF Failed, End, LeavesFiles, OwnedUnlessMixed, folder
<1>2. CASE ~Prereqs[run.at].required
  BY <1>2, AdvanceTypes, OwnedSame DEF Failed, folder
<1>3. QED
  BY <1>1, <1>2

\* The steps of a zip leave its place in the list alone.
LEMMA StillRuns ==
    ASSUME TypeOK, AtItsPrereq, Fetch \/ OpenZip \/ CreateEntry \/ CopyEntry
    PROVE  /\ run \in Run /\ run # Nothing /\ run' # Nothing
           /\ run'.at = run.at /\ run'.owns = run.owns /\ run.at \in Ids
<1>1. run \in Run /\ run # Nothing /\ run.at \in Ids
  BY DEF Fetch, OpenZip, CreateEntry, CopyEntry, In, TypeOK, AtItsPrereq
<1>2. CASE Fetch
  <2>1. PICK b \in Bytes : run' = [run EXCEPT !.bytes = b, !.phase = "compare"]
    BY <1>2 DEF Fetch
  <2>2. run' \in Run /\ run'.at = run.at /\ run'.owns = run.owns
    BY <1>1, <2>1 DEF Run, Phases
  <2>3. QED
    BY <1>1, <2>2, Constants
<1>3. CASE OpenZip
  <2>1. run' = [run EXCEPT !.phase = "unpack", !.entry = 1, !.begun = FALSE]
    BY <1>3 DEF OpenZip
  <2>2. 1 \in 1 .. Entries + 1
    BY Constants
  <2>3. run' \in Run /\ run'.at = run.at /\ run'.owns = run.owns
    BY <1>1, <2>1, <2>2 DEF Run, Phases
  <2>4. QED
    BY <1>1, <2>3, Constants
<1>4. CASE CreateEntry
  <2>1. run' = [run EXCEPT !.begun = TRUE]
    BY <1>4 DEF CreateEntry
  <2>2. run' \in Run /\ run'.at = run.at /\ run'.owns = run.owns
    BY <1>1, <2>1 DEF Run
  <2>3. QED
    BY <1>1, <2>2, Constants
<1>5. CASE CopyEntry
  <2>1. run' = [run EXCEPT !.begun = FALSE, !.entry = run.entry + 1]
    BY <1>5 DEF CopyEntry
  <2>2. run.entry \in 1 .. Entries + 1
    BY <1>1 DEF Run
  <2>3. run.entry + 1 \in 1 .. Entries + 1
    BY <1>5, <2>2, Constants DEF CopyEntry
  <2>4. run' \in Run /\ run'.at = run.at /\ run'.owns = run.owns
    BY <1>1, <2>1, <2>3 DEF Run
  <2>5. QED
    BY <1>1, <2>4, Constants
<1>6. QED
  BY <1>2, <1>3, <1>4, <1>5

\* An uninstall takes files away, never puts one, and leaves the record or takes it.
LEMMA UninstallIs ==
    ASSUME TypeOK, Uninstall
    PROVE  /\ run = Nothing /\ run' = Nothing /\ runs' \in 0 .. MaxRuns
           /\ UNCHANGED <<machine, broad, scratch, ran, lost>>
           /\ unpacked' \in [Ids -> [1 .. Entries -> Contents]]
           /\ \A i \in Ids, k \in 1 .. Entries : unpacked'[i][k] \in {unpacked[i][k], "none"}
           /\ app' \in BOOLEAN /\ guests' \in BOOLEAN /\ (guests' => guests)
           /\ record' \in {record, Nothing}
           /\ verdict' \in {"uninstalled", "incomplete", "failed"}
<1>1. /\ run = Nothing /\ run' = Nothing /\ runs < MaxRuns /\ runs' = runs + 1
      /\ UNCHANGED <<machine, broad, scratch, ran, lost>>
      /\ IF record = TRUE /\ ~broad THEN RemoveFolder ELSE RemoveListed
  BY DEF Uninstall
<1>2. runs' \in 0 .. MaxRuns
  BY <1>1, Constants DEF TypeOK
<1>3. CASE RemoveListed
  BY <1>1, <1>2, <1>3, Zenon DEF RemoveListed, TypeOK
<1>4. CASE RemoveFolder
  <2>1. CASE /\ unpacked' = [i \in Ids |-> EmptyZip]
             /\ app' = FALSE /\ guests' = FALSE /\ record' = Nothing
             /\ verdict' = "uninstalled"
    <3>1. /\ unpacked' \in [Ids -> [1 .. Entries -> Contents]]
          /\ \A i \in Ids, k \in 1 .. Entries : unpacked'[i][k] = "none"
      BY <2>1 DEF EmptyZip, Contents
    <3>2. QED
      BY <1>1, <1>2, <2>1, <3>1
  <2>2. app \in BOOLEAN /\ guests \in BOOLEAN
    BY DEF TypeOK
  <2>3. CASE /\ \E kept \in SUBSET {f \in Ids \X (1 .. Entries) : unpacked[f[1]][f[2]] # "none"} :
                  unpacked' = [i \in Ids |-> [k \in 1 .. Entries |->
                                 IF <<i, k>> \in kept THEN unpacked[i][k] ELSE "none"]]
             /\ app' \in {app, FALSE} /\ guests' \in {guests, FALSE}
             /\ record' \in {record, Nothing}
             /\ verdict' \in {"incomplete", "failed"}
    <3>1. /\ unpacked' \in [Ids -> [1 .. Entries -> Contents]]
          /\ \A i \in Ids, k \in 1 .. Entries : unpacked'[i][k] \in {unpacked[i][k], "none"}
      <4>1. PICK kept \in SUBSET (Ids \X (1 .. Entries)) :
                unpacked' = [i \in Ids |-> [k \in 1 .. Entries |->
                               IF <<i, k>> \in kept THEN unpacked[i][k] ELSE "none"]]
        BY <2>3
      <4>2. QED
        BY <4>1 DEF TypeOK, Contents
    <3>2. app' \in BOOLEAN /\ guests' \in BOOLEAN /\ (guests' => guests)
      <4>1. (app' = app \/ app' = FALSE) /\ (guests' = guests \/ guests' = FALSE)
        BY <2>3
      <4>2. app' \in BOOLEAN /\ guests' \in BOOLEAN
        BY <2>2, <4>1
      <4>3. ASSUME guests' PROVE guests
        <5>1. guests' # FALSE
          BY <4>3
        <5>2. QED
          BY <4>1, <4>3, <5>1
      <4>4. QED
        BY <4>2, <4>3
    <3>3. QED
      BY <1>1, <1>2, <2>3, <3>1, <3>2
  <2>4. QED
    BY <1>4, <2>1, <2>3, Zenon DEF RemoveFolder
<1>5. QED
  BY <1>1, <1>3, <1>4

\* What a look at the machine may find of a program.
LEMMA ProgramsAreTyped == \A i : Programs(i) \subseteq Machine
  BY DEF Programs, Machine

\* Every step keeps the types.
LEMMA TypeStep ==
    ASSUME TypeOK, AtItsPrereq, ScratchIsCompared, [Next]_vars
    PROVE  TypeOK'
<1>1. CASE Begin
  <2>1. OwnsDir \in BOOLEAN
    BY DEF OwnsDir, FolderIsEmpty, TypeOK
  <2>2. run' \in Run
    BY <1>1, <2>1, Constants DEF Begin, Run, Phases, Bytes
  <2>3. QED
    BY <1>1, <2>2, Constants DEF Begin, TypeOK, folder
<1>2. CASE Skip
  BY <1>2, Constants, AdvanceTypes DEF TypeOK, AtItsPrereq, Skip, AtPrereq, In, folder,
     Phases, Verdicts, Bytes, Contents, Machine, Outside
<1>3. CASE NoDownload
  BY <1>3, Constants, FailedTypes DEF TypeOK, AtItsPrereq, NoDownload, AtPrereq, In,
     folder, Phases, Verdicts, Bytes, Contents, Machine, Outside
<1>4. CASE AutoInstall
  BY <1>4, Constants, GoToTypes DEF TypeOK, AtItsPrereq, AutoInstall, AtPrereq, In,
     folder, Phases, Verdicts, Bytes, Contents, Machine, Outside
<1>5. CASE Fetch
  <2>1. run \in Run
    BY <1>5 DEF Fetch, In, TypeOK
  <2>2. PICK b \in Bytes :
            /\ run' = [run EXCEPT !.bytes = b, !.phase = "compare"]
            /\ scratch' = IF Prereqs[run.at].kind = "zip" THEN b ELSE scratch
    BY <1>5 DEF Fetch
  <2>3. run' \in Run
    BY <2>1, <2>2 DEF Run, Phases
  <2>4. scratch' \in Bytes \cup {"none", "part"}
    BY <2>2 DEF TypeOK
  <2>5. QED
    BY <1>5, <2>3, <2>4 DEF Fetch, TypeOK, folder, history
<1>6. CASE FetchFails
  BY <1>6, Constants, FailedTypes DEF TypeOK, AtItsPrereq, FetchFails, In, folder,
     Phases, Verdicts, Bytes, Contents, Machine, Outside
<1>7. CASE Mismatch
  BY <1>7, Constants, FailedTypes DEF TypeOK, AtItsPrereq, Mismatch, In, Discard,
     folder, Phases, Verdicts, Bytes, Contents, Machine, Outside
<1>8. CASE OpenZip
  <2>1. run \in Run /\ 1 \in 1 .. Entries + 1
    BY <1>8, Constants DEF OpenZip, In, TypeOK
  <2>2. run' = [run EXCEPT !.phase = "unpack", !.entry = 1, !.begun = FALSE]
    BY <1>8 DEF OpenZip
  <2>3. run' \in Run
    BY <2>1, <2>2 DEF Run, Phases
  <2>4. scratch \in Bytes
    BY <1>8 DEF OpenZip, In, ScratchIsCompared, Bytes
  <2>5. QED
    BY <1>8, <2>3, <2>4 DEF OpenZip, TypeOK, folder
<1>9. CASE OpenFails
  <2>1. run # Nothing /\ run.at \in Ids
    BY <1>9 DEF OpenFails, In, AtItsPrereq
  <2>2. /\ run' \in Run \cup {Nothing} /\ verdict' \in Verdicts /\ mixed' \in BOOLEAN
        /\ runs' = runs
    BY <1>9, <2>1, FailedTypes DEF OpenFails
  <2>3. scratch' \in Bytes \cup {"none", "part"}
    BY <1>9 DEF OpenFails, Discard, TypeOK
  <2>4. QED
    BY <1>9, <2>2, <2>3 DEF OpenFails, TypeOK, folder
<1>10. CASE CreateEntry
  <2>1. run \in Run /\ run.entry \in 1 .. Entries /\ run.at \in Ids
    BY <1>10, Constants DEF CreateEntry, In, TypeOK, Run, AtItsPrereq
  <2>2. run' = [run EXCEPT !.begun = TRUE]
    BY <1>10 DEF CreateEntry
  <2>3. run' \in Run
    BY <2>1, <2>2 DEF Run
  <2>4. unpacked' \in [Ids -> [1 .. Entries -> Contents]]
    BY <1>10, <2>1 DEF CreateEntry, Put, TypeOK, Contents
  <2>5. QED
    BY <1>10, <2>3, <2>4 DEF CreateEntry, TypeOK, history
<1>11. CASE CopyEntry
  <2>1. run \in Run /\ run.entry \in 1 .. Entries /\ run.at \in Ids
        /\ run.entry + 1 \in 1 .. Entries + 1
    BY <1>11, Constants DEF CopyEntry, In, TypeOK, Run, AtItsPrereq
  <2>2. run' = [run EXCEPT !.begun = FALSE, !.entry = run.entry + 1]
    BY <1>11 DEF CopyEntry
  <2>3. run' \in Run
    BY <2>1, <2>2 DEF Run
  <2>4. unpacked' \in [Ids -> [1 .. Entries -> Contents]]
    BY <1>11, <2>1 DEF CopyEntry, Put, TypeOK, Contents
  <2>5. QED
    BY <1>11, <2>3, <2>4 DEF CopyEntry, TypeOK, history
<1>12. CASE UnpackStops
  BY <1>12, Constants, FailedTypes DEF TypeOK, AtItsPrereq, UnpackStops, In, Discard,
     folder, Phases, Verdicts, Bytes, Contents, Machine, Outside
<1>13. CASE Unpacked
  <2>1. run # Nothing /\ GoTo("recheck") /\ "recheck" \in Phases
    BY <1>13 DEF Unpacked, In, Phases
  <2>2. run' \in Run /\ runs' = runs /\ verdict' = verdict /\ mixed' = mixed
    BY <2>1, GoToTypes
  <2>3. scratch' \in Bytes \cup {"none", "part"}
    BY <1>13 DEF Unpacked, Discard, TypeOK
  <2>4. QED
    BY <1>13, <2>2, <2>3 DEF Unpacked, TypeOK, folder
<1>14. CASE Execute
  BY <1>14, Constants, GoToTypes DEF TypeOK, AtItsPrereq, Execute, In, folder, Phases,
     Verdicts, Bytes, Contents, Machine, Outside
<1>15. CASE Recheck
  <2>1. run # Nothing /\ run.at \in Ids /\ (Advance \/ Failed)
    BY <1>15 DEF Recheck, In, AtItsPrereq
  <2>2. /\ run' \in Run \cup {Nothing} /\ verdict' \in Verdicts /\ mixed' \in BOOLEAN
        /\ runs' = runs
    BY <2>1, FailedTypes, AdvanceTypes DEF TypeOK
  <2>3. QED
    BY <1>15, <2>2 DEF Recheck, TypeOK, folder
<1>16. CASE PrereqsDone
  BY <1>16, Constants, GoToTypes DEF TypeOK, AtItsPrereq, PrereqsDone, In, folder,
     Phases, Verdicts, Bytes, Contents, Machine, Outside
<1>17. CASE Cancelled
  BY <1>17, Constants, EndTypes DEF TypeOK, AtItsPrereq, Cancelled, In, folder, Phases,
     Verdicts, Bytes, Contents, Machine, Outside
<1>18. CASE AppFails
  BY <1>18, Constants, EndTypes DEF TypeOK, AtItsPrereq, AppFails, In, Phases, Verdicts,
     Bytes, Contents, Machine, Outside
<1>19. CASE InstallApp
  <2>1. app' \in BOOLEAN /\ record' \in BOOLEAN \cup {Nothing}
    BY <1>19, Constants DEF InstallApp, In, TypeOK, Run
  <2>2. QED
    BY <1>19, <2>1, EndTypes DEF InstallApp, In, TypeOK, Verdicts
<1>20. CASE Executed
  <2>1. run # Nothing /\ run.at \in Ids /\ (GoTo("recheck") \/ Failed)
        /\ "recheck" \in Phases
    BY <1>20 DEF Executed, In, AtItsPrereq, Phases
  <2>2. /\ run' \in Run \cup {Nothing} /\ verdict' \in Verdicts /\ mixed' \in BOOLEAN
        /\ runs' = runs
    BY <2>1, FailedTypes, GoToTypes DEF TypeOK
  <2>3. scratch' \in Bytes \cup {"none", "part"} /\ machine' \in [Ids -> Machine]
    BY <1>20, ProgramsAreTyped DEF Executed, Discard, TypeOK
  <2>4. QED
    BY <1>20, <2>2, <2>3 DEF Executed, TypeOK, folder
<1>21. CASE Uninstall
  <2>1. torn' \in SUBSET Ids /\ verdict' \in Verdicts
    BY <1>21, UninstallIs DEF Uninstall, Verdicts
  <2>2. mixed' \in BOOLEAN
    BY <1>21, Zenon DEF Uninstall, TypeOK
  <2>3. QED
    BY <1>21, <2>1, <2>2, UninstallIs DEF TypeOK
<1>22. CASE Dies
  BY <1>22, Constants, EndTypes DEF TypeOK, AtItsPrereq, Dies, folder, Phases, Verdicts,
     Bytes, Contents, Machine, Outside
<1>23. CASE MachineChanges
  <2>1. PICK i \in Outside, m \in Machine :
            /\ machine' = [machine EXCEPT ![i] = m]
            /\ lost' = IF m = "good" \/ run = Nothing THEN lost ELSE lost \cup {i}
    BY <1>23, ProgramsAreTyped DEF MachineChanges
  <2>2. machine' \in [Ids -> Machine]
    BY <2>1 DEF TypeOK
  <2>3. lost' \subseteq Ids
    BY <2>1 DEF TypeOK, Outside
  <2>4. QED
    BY <1>23, <2>2, <2>3 DEF MachineChanges, TypeOK, folder
<1>24. CASE UserPuts
  BY <1>24, Constants DEF TypeOK, AtItsPrereq, UserPuts, folder, Phases, Verdicts,
     Bytes, Contents, Machine, Outside
<1>25. CASE UNCHANGED vars
  BY <1>25 DEF TypeOK, vars
<1>26. QED
  BY <1>1, <1>2, <1>3, <1>4, <1>5, <1>6, <1>7, <1>8, <1>9, <1>10, <1>11, <1>12, <1>13,
     <1>14, <1>15, <1>16, <1>17, <1>18, <1>19, <1>20, <1>21, <1>22, <1>23, <1>24, <1>25 DEF
     Next, Work

\* A run is at a prerequisite, or through.
LEMMA AtStep ==
    ASSUME TypeOK, AtItsPrereq, [Next]_vars
    PROVE  AtItsPrereq'
<1>1. CASE Begin
  BY <1>1, Constants DEF AtItsPrereq, TypeOK, Run, Begin
<1>2. CASE Skip
  BY <1>2, Constants DEF AtItsPrereq, TypeOK, Run, Skip, AtPrereq, In, Advance
<1>3. CASE NoDownload
  BY <1>3, Constants DEF AtItsPrereq, TypeOK, Run, NoDownload, AtPrereq, In, Failed,
     End, Advance
<1>4. CASE AutoInstall
  BY <1>4, Constants DEF AtItsPrereq, TypeOK, Run, AutoInstall, AtPrereq, In, GoTo
<1>5. CASE Fetch
  BY <1>5, Constants DEF AtItsPrereq, TypeOK, Run, Fetch, In
<1>6. CASE FetchFails
  BY <1>6, Constants DEF AtItsPrereq, TypeOK, Run, FetchFails, In, Failed, End, Advance
<1>7. CASE Mismatch
  BY <1>7, Constants DEF AtItsPrereq, TypeOK, Run, Mismatch, In, Failed, End, Advance
<1>8. CASE OpenZip
  BY <1>8, Constants DEF AtItsPrereq, TypeOK, Run, OpenZip, In
<1>9. CASE OpenFails
  BY <1>9, Constants DEF AtItsPrereq, TypeOK, Run, OpenFails, In, Failed, End, Advance
<1>10. CASE CreateEntry
  BY <1>10, Constants DEF AtItsPrereq, TypeOK, Run, CreateEntry, In
<1>11. CASE CopyEntry
  BY <1>11, Constants DEF AtItsPrereq, TypeOK, Run, CopyEntry, In
<1>12. CASE UnpackStops
  BY <1>12, Constants DEF AtItsPrereq, TypeOK, Run, UnpackStops, In, Failed, End,
     Advance
<1>13. CASE Unpacked
  BY <1>13, Constants DEF AtItsPrereq, TypeOK, Run, Unpacked, In, GoTo
<1>14. CASE Execute
  BY <1>14, Constants DEF AtItsPrereq, TypeOK, Run, Execute, In, GoTo
<1>15. CASE Recheck
  BY <1>15, Constants DEF AtItsPrereq, TypeOK, Run, Recheck, In, Failed, End, Advance
<1>16. CASE PrereqsDone
  BY <1>16, Constants DEF AtItsPrereq, TypeOK, Run, PrereqsDone, In, GoTo
<1>17. CASE Cancelled
  BY <1>17, Constants DEF AtItsPrereq, TypeOK, Run, Cancelled, In, End
<1>18. CASE AppFails
  BY <1>18, Constants DEF AtItsPrereq, TypeOK, Run, AppFails, In, End
<1>19. CASE InstallApp
  BY <1>19, Constants DEF AtItsPrereq, TypeOK, Run, InstallApp, In, End
<1>20. CASE Executed
  BY <1>20, Constants DEF AtItsPrereq, TypeOK, Run, Executed, In, GoTo, Failed, End,
     Advance
<1>21. CASE Uninstall
  BY <1>21, UninstallIs DEF AtItsPrereq
<1>22. CASE Dies
  BY <1>22, Constants DEF AtItsPrereq, TypeOK, Run, Dies, End
<1>23. CASE MachineChanges
  BY <1>23, Constants DEF AtItsPrereq, TypeOK, Run, MachineChanges
<1>24. CASE UserPuts
  BY <1>24, Constants DEF AtItsPrereq, TypeOK, Run, UserPuts
<1>25. CASE UNCHANGED vars
  BY <1>25 DEF AtItsPrereq, vars
<1>26. QED
  BY <1>1, <1>2, <1>3, <1>4, <1>5, <1>6, <1>7, <1>8, <1>9, <1>10, <1>11, <1>12, <1>13,
     <1>14, <1>15, <1>16, <1>17, <1>18, <1>19, <1>20, <1>21, <1>22, <1>23, <1>24, <1>25 DEF
     Next, Work

\* What was passed stays there: each step touches the prerequisite it is at.
LEMMA PassedStep ==
    ASSUME TypeOK, AtItsPrereq, PassedAreThere, [Next]_vars
    PROVE  PassedAreThere'
<1>1. CASE Begin
  BY <1>1, Constants DEF PassedAreThere, AtItsPrereq, TypeOK, Run, CheckIn, Wanted,
     Begin, folder
<1>2. CASE Skip
  <2>1. run # Nothing /\ run.at \in Ids /\ lost' = lost
        /\ \A i \in Ids : CheckIn(i)' = CheckIn(i)
    BY <1>2 DEF Skip, AtPrereq, In, CheckIn, folder
  <2>2. Prereqs[run.at].required => CheckIn(run.at)
    BY <1>2 DEF Skip, Wanted
  <2>3. QED
    BY <1>2, <2>1, <2>2, PassedAdvance DEF Skip
<1>3. CASE NoDownload
  <2>1. run.at \in Ids /\ lost' = lost /\ \A i \in Ids : CheckIn(i)' = CheckIn(i)
    BY <1>3 DEF NoDownload, AtPrereq, In, AtItsPrereq, CheckIn, folder
  <2>2. QED
    BY <1>3, <2>1, PassedFailed DEF NoDownload, AtPrereq, In
<1>4. CASE AutoInstall
  BY <1>4, Constants DEF PassedAreThere, AtItsPrereq, TypeOK, Run, CheckIn, Wanted,
     AutoInstall, AtPrereq, In, GoTo, folder
<1>5. CASE Fetch
  BY <1>5, Constants DEF PassedAreThere, AtItsPrereq, TypeOK, Run, CheckIn, Wanted,
     Fetch, In, folder, history
<1>6. CASE FetchFails
  <2>1. run.at \in Ids /\ lost' = lost /\ \A i \in Ids : CheckIn(i)' = CheckIn(i)
    BY <1>6 DEF FetchFails, AtPrereq, In, AtItsPrereq, CheckIn, folder
  <2>2. QED
    BY <1>6, <2>1, PassedFailed DEF FetchFails, AtPrereq, In
<1>7. CASE Mismatch
  <2>1. run.at \in Ids /\ lost' = lost /\ \A i \in Ids : CheckIn(i)' = CheckIn(i)
    BY <1>7 DEF Mismatch, AtPrereq, In, AtItsPrereq, CheckIn, folder
  <2>2. QED
    BY <1>7, <2>1, PassedFailed DEF Mismatch, AtPrereq, In
<1>8. CASE OpenZip
  BY <1>8, Constants DEF PassedAreThere, AtItsPrereq, TypeOK, Run, CheckIn, Wanted,
     OpenZip, In, folder
<1>9. CASE OpenFails
  <2>1. run.at \in Ids /\ lost' = lost /\ \A i \in Ids : CheckIn(i)' = CheckIn(i)
    BY <1>9 DEF OpenFails, AtPrereq, In, AtItsPrereq, CheckIn, folder
  <2>2. QED
    BY <1>9, <2>1, PassedFailed DEF OpenFails, AtPrereq, In
<1>10. CASE CreateEntry
  BY <1>10, Constants DEF PassedAreThere, AtItsPrereq, TypeOK, Run, CheckIn, Wanted,
     CreateEntry, In, Put, history
<1>11. CASE CopyEntry
  BY <1>11, Constants DEF PassedAreThere, AtItsPrereq, TypeOK, Run, CheckIn, Wanted,
     CopyEntry, In, Put, history
<1>12. CASE UnpackStops
  <2>1. run.at \in Ids /\ lost' = lost /\ \A i \in Ids : CheckIn(i)' = CheckIn(i)
    BY <1>12 DEF UnpackStops, AtPrereq, In, AtItsPrereq, CheckIn, folder
  <2>2. QED
    BY <1>12, <2>1, PassedFailed DEF UnpackStops, AtPrereq, In
<1>13. CASE Unpacked
  BY <1>13, Constants DEF PassedAreThere, AtItsPrereq, TypeOK, Run, CheckIn, Wanted,
     Unpacked, In, GoTo, folder
<1>14. CASE Execute
  BY <1>14, Constants DEF PassedAreThere, AtItsPrereq, TypeOK, Run, CheckIn, Wanted,
     Execute, In, GoTo, folder
<1>15. CASE Recheck
  <2>1. run.at \in Ids /\ lost' = lost /\ \A i \in Ids : CheckIn(i)' = CheckIn(i)
    BY <1>15 DEF Recheck, In, AtItsPrereq, CheckIn, folder
  <2>2. CASE CheckIn(run.at)
    BY <1>15, <2>1, <2>2, PassedAdvance DEF Recheck, In
  <2>3. CASE ~CheckIn(run.at)
    BY <1>15, <2>1, <2>3, PassedFailed DEF Recheck, In
  <2>4. QED
    BY <2>2, <2>3
<1>16. CASE PrereqsDone
  BY <1>16, Constants DEF PassedAreThere, AtItsPrereq, TypeOK, Run, CheckIn, Wanted,
     PrereqsDone, In, GoTo, folder
<1>17. CASE Cancelled
  BY <1>17, Constants DEF PassedAreThere, AtItsPrereq, TypeOK, Run, CheckIn, Wanted,
     Cancelled, In, End, folder
<1>18. CASE AppFails
  BY <1>18, Constants DEF PassedAreThere, AtItsPrereq, TypeOK, Run, CheckIn, Wanted,
     AppFails, In, End
<1>19. CASE InstallApp
  BY <1>19, Constants DEF PassedAreThere, AtItsPrereq, TypeOK, Run, CheckIn, Wanted,
     InstallApp, In, End
<1>20. CASE Executed
  <2>1. run # Nothing /\ run.at \in Ids /\ lost' = lost /\ run \in Run
    BY <1>20, Constants DEF Executed, In, AtItsPrereq, TypeOK
  <2>2. \A i \in Ids : i # run.at => (CheckIn(i)' <=> CheckIn(i))
    BY <1>20, <2>1 DEF Executed, CheckIn, folder, TypeOK
  <2>3. CASE GoTo("recheck")
    <3>1. run'.at = run.at
      BY <2>1, <2>3 DEF GoTo, Run
    <3>2. QED
      BY <2>1, <2>2, <3>1, Constants DEF PassedAreThere, Run
  <2>4. CASE Failed
    BY <2>1, <2>2, <2>4, PassedFailed
  <2>5. QED
    BY <1>20, <2>3, <2>4 DEF Executed
<1>21. CASE Uninstall
  BY <1>21, UninstallIs DEF PassedAreThere
<1>22. CASE Dies
  BY <1>22, Constants DEF PassedAreThere, AtItsPrereq, TypeOK, Run, CheckIn, Wanted,
     Dies, End, folder
<1>23. CASE MachineChanges
  BY <1>23, Constants DEF PassedAreThere, AtItsPrereq, TypeOK, Run, CheckIn, Wanted,
     MachineChanges, folder
<1>24. CASE UserPuts
  BY <1>24, Constants DEF PassedAreThere, AtItsPrereq, TypeOK, Run, CheckIn, Wanted,
     UserPuts, folder
<1>25. CASE UNCHANGED vars
  BY <1>25 DEF PassedAreThere, CheckIn, vars
<1>26. QED
  BY <1>1, <1>2, <1>3, <1>4, <1>5, <1>6, <1>7, <1>8, <1>9, <1>10, <1>11, <1>12, <1>13,
     <1>14, <1>15, <1>16, <1>17, <1>18, <1>19, <1>20, <1>21, <1>22, <1>23, <1>24, <1>25 DEF
     Next, Work

\* Nothing is opened or run that was not compared.
LEMMA PinnedStep ==
    ASSUME TypeOK, AtItsPrereq, ScratchIsCompared, OnlyPinnedBytes, [Next]_vars
    PROVE  ScratchIsCompared' /\ OnlyPinnedBytes'
<1>1. CASE Begin
  BY <1>1, Constants DEF ScratchIsCompared, OnlyPinnedBytes, AtItsPrereq, TypeOK, Run,
     Begin, EmptyZip, folder
<1>2. CASE Skip
  BY <1>2, Constants DEF ScratchIsCompared, OnlyPinnedBytes, AtItsPrereq, TypeOK, Run,
     Skip, AtPrereq, In, Advance, folder
<1>3. CASE NoDownload
  BY <1>3, Constants DEF ScratchIsCompared, OnlyPinnedBytes, AtItsPrereq, TypeOK, Run,
     NoDownload, AtPrereq, In, Failed, End, Advance, folder
<1>4. CASE AutoInstall
  BY <1>4, Constants DEF ScratchIsCompared, OnlyPinnedBytes, AtItsPrereq, TypeOK, Run,
     AutoInstall, AtPrereq, In, GoTo, folder
<1>5. CASE Fetch
  BY <1>5, Constants DEF ScratchIsCompared, OnlyPinnedBytes, AtItsPrereq, TypeOK, Run,
     Fetch, In, folder, history
<1>6. CASE FetchFails
  BY <1>6, Constants DEF ScratchIsCompared, OnlyPinnedBytes, AtItsPrereq, TypeOK, Run,
     FetchFails, In, Failed, End, Advance, folder
<1>7. CASE Mismatch
  BY <1>7, Constants DEF ScratchIsCompared, OnlyPinnedBytes, AtItsPrereq, TypeOK, Run,
     Mismatch, In, Failed, End, Advance, Discard, folder
<1>8. CASE OpenZip
  BY <1>8, Constants DEF ScratchIsCompared, OnlyPinnedBytes, AtItsPrereq, TypeOK, Run,
     OpenZip, In, folder
<1>9. CASE OpenFails
  BY <1>9, Constants DEF ScratchIsCompared, OnlyPinnedBytes, AtItsPrereq, TypeOK, Run,
     OpenFails, In, Failed, End, Advance, Discard, folder
<1>10. CASE CreateEntry
  BY <1>10, Constants DEF ScratchIsCompared, OnlyPinnedBytes, AtItsPrereq, TypeOK, Run,
     CreateEntry, In, Put, history
<1>11. CASE CopyEntry
  BY <1>11, Constants DEF ScratchIsCompared, OnlyPinnedBytes, AtItsPrereq, TypeOK, Run,
     CopyEntry, In, Put, history
<1>12. CASE UnpackStops
  BY <1>12, Constants DEF ScratchIsCompared, OnlyPinnedBytes, AtItsPrereq, TypeOK, Run,
     UnpackStops, In, Failed, End, Advance, Discard, folder
<1>13. CASE Unpacked
  BY <1>13, Constants DEF ScratchIsCompared, OnlyPinnedBytes, AtItsPrereq, TypeOK, Run,
     Unpacked, In, GoTo, Discard, folder
<1>14. CASE Execute
  BY <1>14, Constants DEF ScratchIsCompared, OnlyPinnedBytes, AtItsPrereq, TypeOK, Run,
     Execute, In, GoTo, folder
<1>15. CASE Recheck
  BY <1>15, Constants DEF ScratchIsCompared, OnlyPinnedBytes, AtItsPrereq, TypeOK, Run,
     Recheck, In, Failed, End, Advance, folder
<1>16. CASE PrereqsDone
  BY <1>16, Constants DEF ScratchIsCompared, OnlyPinnedBytes, AtItsPrereq, TypeOK, Run,
     PrereqsDone, In, GoTo, folder
<1>17. CASE Cancelled
  BY <1>17, Constants DEF ScratchIsCompared, OnlyPinnedBytes, AtItsPrereq, TypeOK, Run,
     Cancelled, In, End, folder
<1>18. CASE AppFails
  BY <1>18, Constants DEF ScratchIsCompared, OnlyPinnedBytes, AtItsPrereq, TypeOK, Run,
     AppFails, In, End
<1>19. CASE InstallApp
  BY <1>19, Constants DEF ScratchIsCompared, OnlyPinnedBytes, AtItsPrereq, TypeOK, Run,
     InstallApp, In, End
<1>20. CASE Executed
  <2>1. run # Nothing /\ run.at \in Ids /\ (GoTo("recheck") \/ Failed)
        /\ "recheck" \in Phases
    BY <1>20 DEF Executed, In, AtItsPrereq, Phases
  <2>2. run' = Nothing \/ run'.phase \in {"next", "recheck"}
    BY <2>1, FailedPhase, GoToTypes
  <2>3. ran' = ran /\ unpacked' = unpacked
    BY <1>20 DEF Executed, folder
  <2>4. QED
    BY <2>2, <2>3 DEF ScratchIsCompared, OnlyPinnedBytes
<1>21. CASE Uninstall
  BY <1>21, UninstallIs DEF ScratchIsCompared, OnlyPinnedBytes
<1>22. CASE Dies
  BY <1>22, Constants DEF ScratchIsCompared, OnlyPinnedBytes, AtItsPrereq, TypeOK, Run,
     Dies, End, folder
<1>23. CASE MachineChanges
  BY <1>23, Constants DEF ScratchIsCompared, OnlyPinnedBytes, AtItsPrereq, TypeOK, Run,
     MachineChanges, folder
<1>24. CASE UserPuts
  BY <1>24, Constants DEF ScratchIsCompared, OnlyPinnedBytes, AtItsPrereq, TypeOK, Run,
     UserPuts, folder
<1>25. CASE UNCHANGED vars
  BY <1>25 DEF ScratchIsCompared, OnlyPinnedBytes, vars
<1>26. QED
  BY <1>1, <1>2, <1>3, <1>4, <1>5, <1>6, <1>7, <1>8, <1>9, <1>10, <1>11, <1>12, <1>13,
     <1>14, <1>15, <1>16, <1>17, <1>18, <1>19, <1>20, <1>21, <1>22, <1>23, <1>24, <1>25 DEF
     Next, Work

\* A step that touches no zip, and leaves none half-way but a torn one.
LEMMA WholeElsewhere ==
    ASSUME AllOrNothing, lost' = lost, unpacked' = unpacked, torn \subseteq torn',
           run' = Nothing \/ run'.phase # "unpack",
           run # Nothing /\ run.phase = "unpack" => run.at \in torn'
    PROVE  AllOrNothing'
<1>1. \A i \in Ids : All(i, "none")' \/ All(i, "whole")' \/ i \in torn'
  BY DEF AllOrNothing, All
<1>2. QED
  BY <1>1 DEF AllOrNothing

\* A zip is unpacked from its first file to its last, or torn.
LEMMA WholeStep ==
    ASSUME TypeOK, AtItsPrereq, ScratchIsCompared, AllOrNothing, [Next]_vars
    PROVE  AllOrNothing'
<1>1. CASE Begin
  BY <1>1, Constants DEF AllOrNothing, All, AtItsPrereq, TypeOK, Run, Outside, Begin,
     EmptyZip, folder
<1>2. CASE Skip
  BY <1>2, Constants DEF AllOrNothing, All, AtItsPrereq, TypeOK, Run, Outside, Skip,
     AtPrereq, In, Advance, folder
<1>3. CASE NoDownload
  BY <1>3, Constants DEF AllOrNothing, All, AtItsPrereq, TypeOK, Run, Outside,
     NoDownload, AtPrereq, In, Failed, End, Advance, folder
<1>4. CASE AutoInstall
  BY <1>4, Constants DEF AllOrNothing, All, AtItsPrereq, TypeOK, Run, Outside,
     AutoInstall, AtPrereq, In, GoTo, folder
<1>5. CASE Fetch
  BY <1>5, Constants DEF AllOrNothing, All, AtItsPrereq, TypeOK, Run, Outside, Fetch,
     In, folder, history
<1>6. CASE FetchFails
  BY <1>6, Constants DEF AllOrNothing, All, AtItsPrereq, TypeOK, Run, Outside,
     FetchFails, In, Failed, End, Advance, folder
<1>7. CASE Mismatch
  BY <1>7, Constants DEF AllOrNothing, All, AtItsPrereq, TypeOK, Run, Outside, Mismatch,
     In, Failed, End, Advance, folder
<1>8. CASE OpenZip
  <2>1. run \in Run /\ run'.at = run.at /\ run'.phase = "unpack" /\ run'.entry = 1
        /\ run' # Nothing /\ run.phase # "unpack"
    BY <1>8, StillRuns DEF OpenZip, In, Run
  <2>2. UNCHANGED <<unpacked, lost, torn>>
    BY <1>8 DEF OpenZip, folder
  <2>3. \A i \in Ids : All(i, "none") \/ All(i, "whole") \/ i \in torn
    BY <2>1 DEF AllOrNothing
  <2>4. QED
    BY <2>1, <2>2, <2>3 DEF AllOrNothing, All
<1>9. CASE OpenFails
  BY <1>9, Constants DEF AllOrNothing, All, AtItsPrereq, TypeOK, Run, Outside,
     OpenFails, In, Failed, End, Advance, folder
<1>10. CASE CreateEntry
  <2>1. run \in Run /\ run' # Nothing /\ run'.at = run.at /\ run'.phase = run.phase
        /\ run.at \in Ids /\ run.phase = "unpack" /\ run.entry \in 1 .. Entries
        /\ run'.entry = run.entry
    BY <1>10, StillRuns, Constants DEF CreateEntry, In, Run
  <2>2. \A i \in Ids : i # run.at => unpacked'[i] = unpacked[i]
    BY <1>10, <2>1 DEF CreateEntry, Put, TypeOK
  <2>3. UNCHANGED <<lost, torn>>
    BY <1>10 DEF CreateEntry, history
  <2>4. \A n \in 1 .. Entries : n # run.entry => unpacked'[run.at][n] = unpacked[run.at][n]
    BY <1>10, <2>1 DEF CreateEntry, Put, TypeOK
  <2>6. \A n \in 1 .. Entries : n < run'.entry => unpacked'[run.at][n] = "whole"
    BY <2>1, <2>4, Constants DEF AllOrNothing
  <2>7. \A i \in Ids : \/ All(i, "none")' \/ All(i, "whole")' \/ i \in torn'
                      \/ run'.at = i
    BY <2>1, <2>2, <2>3 DEF AllOrNothing, All
  <2>8. QED
    BY <2>1, <2>3, <2>6, <2>7 DEF AllOrNothing
<1>11. CASE CopyEntry
  <2>1. run \in Run /\ run' # Nothing /\ run'.at = run.at /\ run'.phase = run.phase
        /\ run.at \in Ids /\ run.phase = "unpack" /\ run.entry \in 1 .. Entries
        /\ run'.entry = run.entry + 1
    BY <1>11, StillRuns, Constants DEF CopyEntry, In, Run
  <2>2. \A i \in Ids : i # run.at => unpacked'[i] = unpacked[i]
    BY <1>11, <2>1 DEF CopyEntry, Put, TypeOK
  <2>3. UNCHANGED <<lost, torn>>
    BY <1>11 DEF CopyEntry, history
  <2>4. \A n \in 1 .. Entries : n # run.entry => unpacked'[run.at][n] = unpacked[run.at][n]
    BY <1>11, <2>1 DEF CopyEntry, Put, TypeOK
  <2>5. unpacked'[run.at][run.entry] = "whole"
    <3>1. scratch = "pinned" /\ run.at \in Ids /\ run.entry \in 1 .. Entries
      BY <1>11, <2>1 DEF CopyEntry, In, ScratchIsCompared
    <3>2. QED
      BY <1>11, <3>1 DEF CopyEntry, Put, TypeOK
  <2>6. \A n \in 1 .. Entries : n < run'.entry => unpacked'[run.at][n] = "whole"
    BY <2>1, <2>4, <2>5, Constants DEF AllOrNothing
  <2>7. \A i \in Ids : \/ All(i, "none")' \/ All(i, "whole")' \/ i \in torn'
                      \/ run'.at = i
    BY <2>1, <2>2, <2>3 DEF AllOrNothing, All
  <2>8. QED
    BY <2>1, <2>3, <2>6, <2>7 DEF AllOrNothing
<1>12. CASE UnpackStops
  <2>1. run # Nothing /\ run.at \in Ids /\ Failed
    BY <1>12 DEF UnpackStops, In, AtItsPrereq
  <2>2. run' = Nothing \/ run'.phase # "unpack"
    BY <2>1, FailedPhase
  <2>3. unpacked' = unpacked /\ lost' = lost /\ torn' = torn \cup {run.at}
    BY <1>12 DEF UnpackStops, folder
  <2>4. QED
    BY <2>2, <2>3, WholeElsewhere
<1>13. CASE Unpacked
  <2>1. run \in Run /\ run' # Nothing /\ run'.phase = "recheck"
        /\ run.phase = "unpack" /\ run.entry > Entries /\ run.at \in Ids
    BY <1>13, GoToTypes DEF Unpacked, In, TypeOK, AtItsPrereq, Phases
  <2>2. UNCHANGED <<unpacked, lost>> /\ torn' = torn \ {run.at}
    BY <1>13 DEF Unpacked, folder
  <2>3. All(run.at, "whole")
    BY <2>1, Constants DEF AllOrNothing, All, Run
  <2>4. QED
    BY <2>1, <2>2, <2>3 DEF AllOrNothing, All
<1>14. CASE Execute
  BY <1>14, Constants DEF AllOrNothing, All, AtItsPrereq, TypeOK, Run, Outside, Execute,
     In, GoTo, folder
<1>15. CASE Recheck
  BY <1>15, Constants DEF AllOrNothing, All, AtItsPrereq, TypeOK, Run, Outside, Recheck,
     In, Failed, End, Advance, folder
<1>16. CASE PrereqsDone
  BY <1>16, Constants DEF AllOrNothing, All, AtItsPrereq, TypeOK, Run, Outside,
     PrereqsDone, In, GoTo, folder
<1>17. CASE Cancelled
  BY <1>17, Constants DEF AllOrNothing, All, AtItsPrereq, TypeOK, Run, Outside,
     Cancelled, In, End, folder
<1>18. CASE AppFails
  BY <1>18, Constants DEF AllOrNothing, All, AtItsPrereq, TypeOK, Run, Outside,
     AppFails, In, End
<1>19. CASE InstallApp
  BY <1>19, Constants DEF AllOrNothing, All, AtItsPrereq, TypeOK, Run, Outside,
     InstallApp, In, End
<1>20. CASE Executed
  <2>1. /\ run # Nothing /\ run.at \in Ids /\ run.phase = "install"
        /\ GoTo("recheck") \/ Failed
        /\ "recheck" \in Phases
    BY <1>20 DEF Executed, In, AtItsPrereq, Phases
  <2>2. run' = Nothing \/ run'.phase # "unpack"
    BY <2>1, FailedPhase, GoToTypes
  <2>3. unpacked' = unpacked /\ lost' = lost /\ torn' = torn
    BY <1>20 DEF Executed, folder
  <2>4. QED
    BY <2>1, <2>2, <2>3, WholeElsewhere
<1>21. CASE Uninstall
  <2>1. run = Nothing /\ run' = Nothing /\ lost' = lost
    BY <1>21, UninstallIs
  <2>2. ASSUME NEW i \in Ids
        PROVE  All(i, "none")' \/ All(i, "whole")' \/ i \in torn'
    <3>1. unpacked'[i] = EmptyZip \/ unpacked'[i] = unpacked[i] \/ i \in torn'
      BY <1>21 DEF Uninstall
    <3>2. CASE unpacked'[i] = EmptyZip
      BY <3>2 DEF All, EmptyZip
    <3>3. CASE unpacked'[i] = unpacked[i] /\ unpacked'[i] # EmptyZip
      BY <1>21, <2>1, <3>3 DEF Uninstall, AllOrNothing, All
    <3>4. QED
      BY <3>1, <3>2, <3>3
  <2>3. QED
    BY <2>1, <2>2 DEF AllOrNothing
<1>22. CASE Dies
  BY <1>22, Constants DEF AllOrNothing, All, AtItsPrereq, TypeOK, Run, Outside, Dies,
     End, folder
<1>23. CASE MachineChanges
  BY <1>23, Constants DEF AllOrNothing, All, AtItsPrereq, TypeOK, Run, Outside,
     MachineChanges, folder
<1>24. CASE UserPuts
  BY <1>24, Constants DEF AllOrNothing, All, AtItsPrereq, TypeOK, Run, Outside,
     UserPuts, folder
<1>25. CASE UNCHANGED vars
  BY <1>25 DEF AllOrNothing, All, vars
<1>26. QED
  BY <1>1, <1>2, <1>3, <1>4, <1>5, <1>6, <1>7, <1>8, <1>9, <1>10, <1>11, <1>12, <1>13,
     <1>14, <1>15, <1>16, <1>17, <1>18, <1>19, <1>20, <1>21, <1>22, <1>23, <1>24, <1>25 DEF
     Next, Work

\* Ownership is decided on a folder without files and kept.
LEMMA OwnedStep ==
    ASSUME TypeOK, AtItsPrereq, OwnedUnlessMixed, TypeOK', [Next]_vars
    PROVE  OwnedUnlessMixed'
<1>1. CASE Begin
  BY <1>1, Constants, EmptySame DEF OwnedUnlessMixed, AtItsPrereq, TypeOK, Run, Begin,
     OwnsDir, folder
<1>2. CASE Skip
  BY <1>2, AdvanceTypes, OwnedSame DEF Skip, AtPrereq, In, folder
<1>3. CASE NoDownload
  BY <1>3, OwnedFailed DEF NoDownload, AtPrereq, In, AtItsPrereq
<1>4. CASE AutoInstall
  BY <1>4, GoToTypes, OwnedSame DEF AutoInstall, AtPrereq, In, folder, Phases
<1>5. CASE Fetch
  <2>1. run \in Run /\ run' \in Run \cup {Nothing} /\ run # Nothing
    BY <1>5 DEF Fetch, In, TypeOK
  <2>2. run' # Nothing /\ run'.owns = run.owns
    BY <1>5, <2>1, StillRuns DEF Fetch, Run
  <2>3. QED
    BY <1>5, <2>1, <2>2, OwnedSame DEF Fetch, folder, history
<1>6. CASE FetchFails
  BY <1>6, OwnedFailed DEF FetchFails, AtPrereq, In, AtItsPrereq
<1>7. CASE Mismatch
  BY <1>7, OwnedFailed DEF Mismatch, AtPrereq, In, AtItsPrereq
<1>8. CASE OpenZip
  <2>1. run \in Run /\ run' \in Run \cup {Nothing} /\ run # Nothing
    BY <1>8 DEF OpenZip, In, TypeOK
  <2>2. run' # Nothing /\ run'.owns = run.owns
    BY <1>8, <2>1, StillRuns DEF OpenZip, Run
  <2>3. QED
    BY <1>8, <2>1, <2>2, OwnedSame DEF OpenZip, folder, history
<1>9. CASE OpenFails
  BY <1>9, OwnedFailed DEF OpenFails, AtPrereq, In, AtItsPrereq
<1>10. CASE CreateEntry
  <2>1. run \in Run /\ run' \in Run \cup {Nothing} /\ run # Nothing
    BY <1>10 DEF CreateEntry, In, TypeOK
  <2>2. run' # Nothing /\ run'.owns = run.owns
    BY <1>10, <2>1, StillRuns DEF CreateEntry, Run
  <2>3. QED
    BY <1>10, <2>1, <2>2, OwnedSame DEF CreateEntry, folder, history
<1>11. CASE CopyEntry
  <2>1. run \in Run /\ run' \in Run \cup {Nothing} /\ run # Nothing
    BY <1>11 DEF CopyEntry, In, TypeOK
  <2>2. run' # Nothing /\ run'.owns = run.owns
    BY <1>11, <2>1, StillRuns DEF CopyEntry, Run
  <2>3. QED
    BY <1>11, <2>1, <2>2, OwnedSame DEF CopyEntry, folder, history
<1>12. CASE UnpackStops
  BY <1>12, OwnedFailed DEF UnpackStops, AtPrereq, In, AtItsPrereq
<1>13. CASE Unpacked
  BY <1>13, GoToTypes, OwnedSame DEF Unpacked, AtPrereq, In, folder, Phases
<1>14. CASE Execute
  BY <1>14, GoToTypes, OwnedSame DEF Execute, AtPrereq, In, folder, Phases
<1>15. CASE Recheck
  <2>1. run # Nothing /\ run.at \in Ids /\ UNCHANGED folder
    BY <1>15 DEF Recheck, In, AtItsPrereq
  <2>2. CASE Advance
    BY <2>1, <2>2, AdvanceTypes, OwnedSame DEF folder
  <2>3. CASE Failed
    BY <2>1, <2>3, OwnedFailed
  <2>4. QED
    BY <1>15, <2>2, <2>3 DEF Recheck
<1>16. CASE PrereqsDone
  BY <1>16, GoToTypes, OwnedSame DEF PrereqsDone, AtPrereq, In, folder, Phases
<1>17. CASE Cancelled
  BY <1>17, Constants, EmptySame DEF OwnedUnlessMixed, AtItsPrereq, TypeOK, Run,
     Cancelled, In, End, LeavesFiles, folder
<1>18. CASE AppFails
  BY <1>18, Constants, EmptySame DEF OwnedUnlessMixed, AtItsPrereq, TypeOK, Run,
     AppFails, In, End, LeavesFiles
<1>19. CASE InstallApp
  BY <1>19, Constants, EmptySame DEF OwnedUnlessMixed, AtItsPrereq, TypeOK, Run,
     InstallApp, In, End, LeavesFiles
<1>20. CASE Executed
  <2>1. run # Nothing /\ run.at \in Ids /\ UNCHANGED folder
    BY <1>20 DEF Executed, In, AtItsPrereq
  <2>2. CASE GoTo("recheck")
    BY <2>1, <2>2, GoToTypes, OwnedSame DEF folder, Phases
  <2>3. CASE Failed
    BY <2>1, <2>3, OwnedFailed
  <2>4. QED
    BY <1>20, <2>2, <2>3 DEF Executed
<1>21. CASE Uninstall
  <2>1. /\ run' = Nothing /\ (guests' => guests) /\ record' \in {record, Nothing}
        /\ mixed' = IF record' = Nothing THEN ~FolderIsEmpty' ELSE mixed
    BY <1>21, UninstallIs DEF Uninstall
  <2>2. CASE record' = Nothing
    BY <2>1, <2>2 DEF OwnedUnlessMixed, FolderIsEmpty
  <2>3. CASE record' # Nothing
    BY <2>1, <2>3 DEF OwnedUnlessMixed
  <2>4. QED
    BY <2>2, <2>3
<1>22. CASE Dies
  BY <1>22, Constants, EmptySame DEF OwnedUnlessMixed, AtItsPrereq, TypeOK, Run, Dies,
     End, LeavesFiles, folder
<1>23. CASE MachineChanges
  BY <1>23, Constants, EmptySame DEF OwnedUnlessMixed, AtItsPrereq, TypeOK, Run,
     MachineChanges, folder
<1>24. CASE UserPuts
  BY <1>24, Constants, EmptySame DEF OwnedUnlessMixed, AtItsPrereq, TypeOK, Run,
     UserPuts, folder
<1>25. CASE UNCHANGED vars
  BY <1>25, EmptySame DEF OwnedUnlessMixed, vars
<1>26. QED
  BY <1>1, <1>2, <1>3, <1>4, <1>5, <1>6, <1>7, <1>8, <1>9, <1>10, <1>11, <1>12, <1>13,
     <1>14, <1>15, <1>16, <1>17, <1>18, <1>19, <1>20, <1>21, <1>22, <1>23, <1>24, <1>25 DEF
     Next, Work

\* A run that succeeds has the required zips whole, or torn before with their check_file.
LEMMA ResultStep ==
    ASSUME TypeOK, AtItsPrereq, PassedAreThere, AllOrNothing, WholeUnlessTorn, [Next]_vars
    PROVE  WholeUnlessTorn'
<1>1. CASE Begin
  <2>1. OwnsDir \in BOOLEAN
    BY DEF OwnsDir, FolderIsEmpty, TypeOK
  <2>2. run' \in Run
    BY <1>1, <2>1, Constants DEF Begin, Run, Phases, Bytes
  <2>3. QED
    BY <2>2, Constants DEF WholeUnlessTorn
<1>2. CASE Skip
  BY <1>2, AdvanceTypes DEF WholeUnlessTorn, Skip, AtPrereq, In
<1>3. CASE NoDownload
  <2>1. run # Nothing /\ run.at \in Ids
    BY <1>3 DEF NoDownload, AtPrereq, In, AtItsPrereq
  <2>2. run' # Nothing \/ verdict' = "prereq"
    BY <1>3, <2>1, AdvanceTypes, GoToTypes DEF NoDownload, Failed, End, Phases
  <2>3. QED
    BY <2>2 DEF WholeUnlessTorn
<1>4. CASE AutoInstall
  BY <1>4, GoToTypes DEF WholeUnlessTorn, AutoInstall, AtPrereq, In,
     Phases
<1>5. CASE Fetch
  BY <1>5, StillRuns DEF WholeUnlessTorn, Fetch
<1>6. CASE FetchFails
  <2>1. run # Nothing /\ run.at \in Ids
    BY <1>6 DEF FetchFails, AtPrereq, In, AtItsPrereq
  <2>2. run' # Nothing \/ verdict' = "prereq"
    BY <1>6, <2>1, AdvanceTypes, GoToTypes DEF FetchFails, Failed, End, Phases
  <2>3. QED
    BY <2>2 DEF WholeUnlessTorn
<1>7. CASE Mismatch
  <2>1. run # Nothing /\ run.at \in Ids
    BY <1>7 DEF Mismatch, AtPrereq, In, AtItsPrereq
  <2>2. run' # Nothing \/ verdict' = "prereq"
    BY <1>7, <2>1, AdvanceTypes, GoToTypes DEF Mismatch, Failed, End, Phases
  <2>3. QED
    BY <2>2 DEF WholeUnlessTorn
<1>8. CASE OpenZip
  BY <1>8, StillRuns DEF WholeUnlessTorn, OpenZip
<1>9. CASE OpenFails
  <2>1. run # Nothing /\ run.at \in Ids
    BY <1>9 DEF OpenFails, AtPrereq, In, AtItsPrereq
  <2>2. run' # Nothing \/ verdict' = "prereq"
    BY <1>9, <2>1, AdvanceTypes, GoToTypes DEF OpenFails, Failed, End, Phases
  <2>3. QED
    BY <2>2 DEF WholeUnlessTorn
<1>10. CASE CreateEntry
  BY <1>10, StillRuns DEF WholeUnlessTorn, CreateEntry
<1>11. CASE CopyEntry
  BY <1>11, StillRuns DEF WholeUnlessTorn, CopyEntry
<1>12. CASE UnpackStops
  <2>1. run # Nothing /\ run.at \in Ids
    BY <1>12 DEF UnpackStops, AtPrereq, In, AtItsPrereq
  <2>2. run' # Nothing \/ verdict' = "prereq"
    BY <1>12, <2>1, AdvanceTypes, GoToTypes DEF UnpackStops, Failed, End, Phases
  <2>3. QED
    BY <2>2 DEF WholeUnlessTorn
<1>13. CASE Unpacked
  BY <1>13, GoToTypes DEF WholeUnlessTorn, Unpacked, AtPrereq, In, Phases
<1>14. CASE Execute
  BY <1>14, GoToTypes DEF WholeUnlessTorn, Execute, AtPrereq, In, Phases
<1>15. CASE Recheck
  <2>1. run # Nothing /\ run.at \in Ids
    BY <1>15 DEF Recheck, AtPrereq, In, AtItsPrereq
  <2>2. run' # Nothing \/ verdict' = "prereq"
    BY <1>15, <2>1, AdvanceTypes, GoToTypes DEF Recheck, Failed, End, Phases
  <2>3. QED
    BY <2>2 DEF WholeUnlessTorn
<1>16. CASE PrereqsDone
  BY <1>16, GoToTypes DEF WholeUnlessTorn, PrereqsDone, AtPrereq, In,
     Phases
<1>17. CASE Cancelled
  BY <1>17 DEF WholeUnlessTorn, Cancelled, End
<1>18. CASE AppFails
  BY <1>18 DEF WholeUnlessTorn, AppFails, End
<1>19. CASE InstallApp
  <2>1. run # Nothing /\ run.phase = "app" /\ run.at = Len(Prereqs) + 1
    BY <1>19 DEF InstallApp, In, AtItsPrereq
  <2>2. ASSUME NEW i \in Ids, Prereqs[i].required, Prereqs[i].check = "inside"
        PROVE  /\ i \in torn \/ All(i, "whole")
               /\ unpacked[i][Prereqs[i].at] # "none"
    <3>1. i < run.at /\ i \notin lost
      BY <2>1, <2>2, Constants DEF AllOrNothing, Outside
    <3>2. unpacked[i][Prereqs[i].at] # "none"
      BY <2>1, <2>2, <3>1 DEF PassedAreThere, CheckIn
    <3>3. QED
      BY <2>1, <3>2, Constants DEF AllOrNothing, All
  <2>3. UNCHANGED <<unpacked, torn>> /\ verdict' = "ok"
    BY <1>19 DEF InstallApp, End
  <2>4. QED
    BY <2>2, <2>3 DEF WholeUnlessTorn, All
<1>20. CASE Executed
  <2>1. run # Nothing /\ run.at \in Ids
    BY <1>20 DEF Executed, AtPrereq, In, AtItsPrereq
  <2>2. run' # Nothing \/ verdict' = "prereq"
    BY <1>20, <2>1, AdvanceTypes, GoToTypes DEF Executed, Failed, End, Phases
  <2>3. QED
    BY <2>2 DEF WholeUnlessTorn
<1>21. CASE Uninstall
  BY <1>21, UninstallIs DEF WholeUnlessTorn
<1>22. CASE Dies
  BY <1>22 DEF WholeUnlessTorn, Dies, End
<1>23. CASE MachineChanges
  BY <1>23 DEF WholeUnlessTorn, MachineChanges, folder
<1>24. CASE UserPuts
  BY <1>24 DEF WholeUnlessTorn, UserPuts, folder
<1>25. CASE UNCHANGED vars
  BY <1>25 DEF WholeUnlessTorn, vars
<1>26. QED
  BY <1>1, <1>2, <1>3, <1>4, <1>5, <1>6, <1>7, <1>8, <1>9, <1>10, <1>11, <1>12, <1>13,
     <1>14, <1>15, <1>16, <1>17, <1>18, <1>19, <1>20, <1>21, <1>22, <1>23, <1>24, <1>25 DEF
     Next, Work

-----------------------------------------------------------------------------

IInv == /\ TypeOK /\ AtItsPrereq /\ PassedAreThere /\ ScratchIsCompared
        /\ OnlyPinnedBytes /\ AllOrNothing /\ OwnedUnlessMixed /\ WholeUnlessTorn

LEMMA InitInv == Init => IInv
<1>. SUFFICES ASSUME Init PROVE IInv
  OBVIOUS
<1>1. TypeOK
  <2>1. machine \in [Ids -> Machine]
    BY DEF Init
  <2>2. unpacked \in [Ids -> [1 .. Entries -> Contents]]
    BY DEF Init, EmptyZip, Contents
  <2>3. runs \in 0 .. MaxRuns
    BY Constants DEF Init
  <2>4. QED
    BY <2>1, <2>2, <2>3 DEF Init, TypeOK, Verdicts
<1>2. AtItsPrereq /\ PassedAreThere /\ ScratchIsCompared /\ OnlyPinnedBytes
  BY DEF Init, AtItsPrereq, PassedAreThere, ScratchIsCompared, OnlyPinnedBytes, EmptyZip
<1>3. AllOrNothing /\ OwnedUnlessMixed /\ WholeUnlessTorn
  BY DEF Init, AllOrNothing, All, EmptyZip, OwnedUnlessMixed, FolderIsEmpty,
         WholeUnlessTorn
<1>4. QED
  BY <1>1, <1>2, <1>3 DEF IInv

LEMMA NextInv == IInv /\ [Next]_vars => IInv'
  BY TypeStep, AtStep, PassedStep, PinnedStep, WholeStep, OwnedStep, ResultStep DEF IInv

LEMMA Inductive == Spec => []IInv
  BY InitInv, NextInv, PTL DEF Spec

\* The state of folder, machine and run stays typed.
THEOREM TypeCorrect == Spec => []TypeOK
<1>1. IInv => TypeOK
  BY DEF IInv
<1>2. QED
  BY <1>1, Inductive, PTL

\* For every list of prerequisites nothing is run or unpacked but what has the pinned hash:
\* what auto_install opens is the file it compared.
THEOREM PinnedSafety == Spec => []OnlyPinnedBytes
<1>1. IInv => OnlyPinnedBytes
  BY DEF IInv
<1>2. QED
  BY <1>1, Inductive, PTL

\* The application's files come after every required prerequisite was found to be there,
\* however long the list: no later one undoes an earlier one.
THEOREM RequiredSafety == Spec => []RequiredIsThere
<1>1. IInv => RequiredIsThere
  <2>. SUFFICES ASSUME IInv, In("app"), NEW i \in Ids, Prereqs[i].required
               PROVE  CheckIn(i) \/ i \in lost
    BY DEF RequiredIsThere
  <2>1. i < run.at
    BY Constants DEF IInv, AtItsPrereq, In
  <2>2. QED
    BY <2>1 DEF IInv, PassedAreThere, In
<1>2. QED
  BY <1>1, Inductive, PTL

\* What ensure_required and the extraction leave is a whole zip, or one that was torn once, by
\* an unpacking or an uninstall, and passes by its check_file.
THEOREM WholeSafety == Spec => []WholeUnlessTorn
<1>1. IInv => WholeUnlessTorn
  BY DEF IInv
<1>2. QED
  BY <1>1, Inductive, PTL

\* do_uninstall_full takes the zips with the folder it owns, and it owns every folder that
\* nobody, no unfinished run and no uninstall without its record left anything in, but one
\* too broad to own.
THEOREM UninstallSafety == Spec => UninstallTakesZips
<1>1. IInv /\ [Next]_vars =>
        [Uninstall /\ verdict' = "uninstalled"
            => mixed \/ broad \/ unpacked' = [i \in Ids |-> EmptyZip]]_vars
  <2>. SUFFICES ASSUME IInv, Uninstall, verdict' = "uninstalled", ~mixed, ~broad
               PROVE  unpacked' = [i \in Ids |-> EmptyZip]
    OBVIOUS
  <2>1. record = TRUE
    <3>1. run = Nothing /\ (app \/ record # Nothing)
      BY DEF Uninstall
    <3>2. QED
      BY <3>1 DEF IInv, OwnedUnlessMixed, FolderIsEmpty
  <2>2. RemoveFolder
    BY <2>1 DEF Uninstall
  <2>3. QED
    BY <2>2 DEF RemoveFolder
<1>2. QED
  BY <1>1, Inductive, PTL DEF Spec, UninstallTakesZips
=============================================================================
