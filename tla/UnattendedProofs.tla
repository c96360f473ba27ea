---------------------------- MODULE UnattendedProofs ---------------------------
(***************************************************************************)
(* Unattended runs, for any versions, setups and command lines: type       *)
(* correctness, what the exit code tells, what a run may touch, when a     *)
(* cancel still stops it, and that no run goes back behind the registered  *)
(* version.  All five follow from one inductive invariant, IInv, which     *)
(* says at each place of a run what is decided and what is done by then.   *)
(***************************************************************************)
EXTENDS Unattended, TLAPS

InstallPlaces == {"open", "prereqs", "close", "closed", "extract", "first",
                  "writing", "integrate"}
RemotePlaces == {"ask", "download", "apply", "applying", "settling"}
RemovePlaces == {"remove", "removing"}
Installs == {"Fresh", "Reinstall"}
Works == {"Fresh", "Reinstall", "UpdateRemote", "Uninstall"}

(* Each place of the job belongs to the plan that leads there.             *)
PlanOfPlace ==
  /\ pc \in InstallPlaces => plan \in Installs
  /\ pc \in RemotePlaces => plan = "UpdateRemote"
  /\ pc \in RemovePlaces => plan = "Uninstall"
  /\ pc \in {"choose", "rights", "space", "wait", "grace", "start", "window", "handoff"}
       => plan \in Works
  /\ pc \in {"package", "resolve"} => plan # "UpToDate"

(* Nothing is touched before the job, no file before the last question.    *)
WrittenWhen ==
  /\ pc \in {"package", "resolve", "choose", "rights", "space", "wait"} => touched = {}
  /\ pc \in {"writing", "integrate", "settling"} => "wrote" \in touched
  /\ "wrote" \in touched => pc \in {"writing", "integrate", "settling", "window",
                                    "handoff", "launch", "idle"}
  /\ "wrote" \notin touched => folder = before

(* Where the exit code is known to be Ok, the plan is carried out.         *)
Finished == pc \in {"handoff", "launch"} \/ (pc \in {"window", "idle"} /\ exit = "Ok")

OutcomeOfExit ==
  /\ pc = "integrate" => folder = setup.version
  /\ Finished /\ plan \in Installs => folder = setup.version
  /\ Finished /\ plan = "UpdateRemote" =>
       IF offered = Unknown THEN folder = before /\ "wrote" \notin touched
       ELSE folder = offered /\ Newer(offered)
  /\ Finished /\ plan = "Uninstall" =>
       folder = Empty \/ ("left" \in touched /\ ~ args.whole)
  /\ pc = "launch" \/ (pc = "idle" /\ exit = "Ok") =>
       (plan = "Fresh" => handoff) /\ (plan = "UpToDate" => touched = {})
  /\ pc = "window" => exit \notin Refusals
  /\ pc = "idle" /\ exit \in Refusals => touched = {}
  /\ pc \in {"window", "idle"} /\ exit = "Cancelled" => "wrote" \notin touched

(* Verified before it is resolved, consented to before rights are asked.   *)
Allowed ==
  /\ pc \notin {"idle", "package"} /\ args.mode # "uninstall" => Trusted(setup)
  /\ pc \notin {"idle", "package", "resolve", "choose"} /\ plan = "Fresh" => args.consents
  /\ TouchesOnlyWhatIsVerified

(* What resolve and offer_if_newer compared still holds when it is used.   *)
Ordered ==
  /\ recorded /\ pc \notin {"removing", "window", "handoff", "launch", "idle"}
       => registered = before
  /\ pc \notin {"idle", "package", "resolve", "window", "handoff", "launch"} =>
       /\ plan = "Fresh" => registered = NotInstalled
       /\ plan = "Reinstall" /\ ~ args.allowDowngrade => ~ Older(setup.version)
  /\ pc \in {"download", "apply", "applying", "settling"} =>
       offered \in Versions /\ Newer(offered)
  /\ pc \in {"package", "resolve", "choose", "rights", "space", "wait", "grace", "start",
             "ask"} => offered = Unknown

(* A close that was asked in time is still asked, and nothing is under way.*)
StoppedInTime == (inTime => cancel) /\ CloseInTimeWritesNothing

IInv == TypeOK /\ PlanOfPlace /\ WrittenWhen /\ OutcomeOfExit /\ Allowed /\ Ordered
        /\ StoppedInTime

--------------------------------------------------------------------------------
(* cli::resolve plans work or refuses: it is never left without an answer. *)
LEMMA ResolutionType ==
  Resolution \in {"Fresh", "Reinstall", "UpdateRemote", "UpToDate", "Uninstall",
                  "NotInstalled", "AlreadyInstalled", "Downgrade"}
BY DEF Resolution

(* The plan of each kind is made only where it is allowed.                 *)
LEMMA ResolutionMeaning ==
  ASSUME TypeOK
  PROVE  /\ Resolution = "Fresh" => registered = NotInstalled
         /\ Resolution = "Reinstall" /\ ~ args.allowDowngrade => ~ Older(setup.version)
BY ConstantsAssumption
   DEF Resolution, Older, Newer, TypeOK, Versions, SetupType, CommandLine, Validated, Modes

(* Closing the app changes the two processes and is remembered.            *)
LEMMA CloseAppEffect ==
  ASSUME TypeOK, CloseApp
  PROVE  /\ app' \in {"no", "running", "elevated"}
         /\ caller' \in {"gone", "app", "other"}
         /\ touched' = touched \/ touched' = touched \cup {"closed"}
BY DEF TypeOK, CloseApp

LEMMA InitIInv == Init => IInv
BY ConstantsAssumption
   DEF Init, IInv, TypeOK, PlanOfPlace, WrittenWhen, OutcomeOfExit, Allowed, Ordered,
       StoppedInTime, CloseInTimeWritesNothing, Finished, Installs, Refusals, TouchesOnlyWhatIsVerified, InstallPlaces,
       RemotePlaces, RemovePlaces, Places, Plans, Exits, Versions

LEMMA StepKeepsIInv == IInv /\ [Next]_vars => IInv'
<1> SUFFICES ASSUME IInv, [Next]_vars PROVE IInv'
  OBVIOUS
<1> USE ConstantsAssumption
        DEF IInv, TypeOK, PlanOfPlace, WrittenWhen, OutcomeOfExit, Allowed, Ordered,
            StoppedInTime, CloseInTimeWritesNothing, Finished, InstallPlaces, RemotePlaces, RemovePlaces, Installs, Works,
            TouchesOnlyWhatIsVerified, Places, Plans, Exits, Refusals, PackageErrors,
            machine, locals, begun, Goto, Return
<1>1. ASSUME NEW c \in CommandLines, NEW s \in Setups, Begin(c, s) PROVE IInv'
  <2>1. TypeOK'
    BY <1>1 DEF Begin
  <2>2. PlanOfPlace'
    BY <1>1 DEF Begin
  <2>3. WrittenWhen'
    BY <1>1 DEF Begin
  <2>4. OutcomeOfExit'
    BY <1>1 DEF Begin
  <2>5. Allowed'
    BY <1>1 DEF Begin
  <2>6. Ordered'
    BY <1>1 DEF Begin
  <2>7. StoppedInTime'
    BY <1>1 DEF Begin
  <2>8. QED
    BY <2>1, <2>2, <2>3, <2>4, <2>5, <2>6, <2>7
<1>2. CASE VerifyPackage
  BY <1>2 DEF VerifyPackage, Trusted, Older, Newer
<1>3. CASE Resolve
  <2>1. TypeOK'
    BY <1>3, ResolutionType, ResolutionMeaning DEF Resolve, Trusted, Older, Newer
  <2>2. PlanOfPlace'
    BY <1>3, ResolutionType, ResolutionMeaning DEF Resolve, Trusted, Older, Newer
  <2>3. WrittenWhen'
    BY <1>3, ResolutionType, ResolutionMeaning DEF Resolve, Trusted, Older, Newer
  <2>4. OutcomeOfExit'
    BY <1>3, ResolutionType, ResolutionMeaning DEF Resolve, Trusted, Older, Newer
  <2>5. Allowed'
    BY <1>3, ResolutionType, ResolutionMeaning DEF Resolve, Trusted, Older, Newer
  <2>6. Ordered'
    BY <1>3, ResolutionType, ResolutionMeaning DEF Resolve, Trusted, Older, Newer
  <2>7. StoppedInTime'
    BY <1>3, ResolutionType, ResolutionMeaning DEF Resolve, Trusted, Older, Newer
  <2>8. QED
    BY <2>1, <2>2, <2>3, <2>4, <2>5, <2>6, <2>7
<1>4. CASE Choose
  BY <1>4 DEF Choose, Trusted, Older, Newer
<1>5. CASE Rights
  <2>1. TypeOK'
    <3>1. pc' \in Places /\ exit' \in Exits
      BY <1>5 DEF Rights
    <3>2. elevated' \in BOOLEAN
      BY <1>5 DEF Rights
    <3>3. QED
      BY <1>5, <3>1, <3>2 DEF Rights
  <2>2. PlanOfPlace'
    BY <1>5 DEF Rights, Trusted, Older, Newer
  <2>3. WrittenWhen'
    BY <1>5 DEF Rights, Trusted, Older, Newer
  <2>4. OutcomeOfExit'
    BY <1>5 DEF Rights, Trusted, Older, Newer
  <2>5. Allowed'
    BY <1>5 DEF Rights, Trusted, Older, Newer
  <2>6. Ordered'
    BY <1>5 DEF Rights, Trusted, Older, Newer
  <2>7. StoppedInTime'
    BY <1>5 DEF Rights, Trusted, Older, Newer
  <2>8. QED
    BY <2>1, <2>2, <2>3, <2>4, <2>5, <2>6, <2>7
<1>6. CASE Space
  BY <1>6 DEF Space, Trusted, Older, Newer
<1>7. CASE WaitPid
  <2>1. TypeOK'
    <3>1. pc' \in Places /\ exit' \in Exits
      BY <1>7, CloseAppEffect DEF WaitPid
    <3>2. touched' \subseteq {"closed", "prereqs", "wrote", "left"}
      BY <1>7, CloseAppEffect DEF WaitPid
    <3>3. QED
      BY <1>7, <3>1, <3>2, CloseAppEffect DEF WaitPid
  <2>2. PlanOfPlace'
    BY <1>7, CloseAppEffect DEF WaitPid, Trusted, Older, Newer
  <2>3. WrittenWhen'
    BY <1>7, CloseAppEffect DEF WaitPid, Trusted, Older, Newer
  <2>4. OutcomeOfExit'
    BY <1>7, CloseAppEffect DEF WaitPid, Trusted, Older, Newer
  <2>5. Allowed'
    BY <1>7, CloseAppEffect DEF WaitPid, Trusted, Older, Newer
  <2>6. Ordered'
    BY <1>7, CloseAppEffect DEF WaitPid, Trusted, Older, Newer
  <2>7. StoppedInTime'
    BY <1>7, CloseAppEffect DEF WaitPid, Trusted, Older, Newer
  <2>8. QED
    BY <2>1, <2>2, <2>3, <2>4, <2>5, <2>6, <2>7
<1>8. CASE Grace
  BY <1>8 DEF Grace, EndJob, Trusted, Older, Newer
<1>9. CASE StartWork
  BY <1>9 DEF StartWork, Cancelled, EndJob, Trusted, Older, Newer
<1>10. CASE OpenPackage
  BY <1>10 DEF OpenPackage, EndJob, Trusted, Older, Newer
<1>11. CASE EnsurePrereqs
  <2>1. TypeOK'
    <3>1. pc' \in Places /\ exit' \in Exits
      BY <1>11 DEF EnsurePrereqs, Cancelled, EndJob
    <3>2. touched' \subseteq {"closed", "prereqs", "wrote", "left"}
      BY <1>11 DEF EnsurePrereqs, Cancelled, EndJob
    <3>3. QED
      BY <1>11, <3>1, <3>2 DEF EnsurePrereqs, Cancelled, EndJob
  <2>2. PlanOfPlace'
    BY <1>11 DEF EnsurePrereqs, Cancelled, EndJob, Trusted, Older, Newer
  <2>3. WrittenWhen'
    BY <1>11 DEF EnsurePrereqs, Cancelled, EndJob, Trusted, Older, Newer
  <2>4. OutcomeOfExit'
    BY <1>11 DEF EnsurePrereqs, Cancelled, EndJob, Trusted, Older, Newer
  <2>5. Allowed'
    BY <1>11 DEF EnsurePrereqs, Cancelled, EndJob, Trusted, Older, Newer
  <2>6. Ordered'
    BY <1>11 DEF EnsurePrereqs, Cancelled, EndJob, Trusted, Older, Newer
  <2>7. StoppedInTime'
    BY <1>11 DEF EnsurePrereqs, Cancelled, EndJob, Trusted, Older, Newer
  <2>8. QED
    BY <2>1, <2>2, <2>3, <2>4, <2>5, <2>6, <2>7
<1>12. CASE CloseBeforeInstall
  <2>1. TypeOK'
    <3>1. pc' \in Places /\ exit' \in Exits
      BY <1>12, CloseAppEffect DEF CloseBeforeInstall, Cancelled, EndJob
    <3>2. touched' \subseteq {"closed", "prereqs", "wrote", "left"}
      BY <1>12, CloseAppEffect DEF CloseBeforeInstall, Cancelled, EndJob
    <3>3. QED
      BY <1>12, <3>1, <3>2, CloseAppEffect DEF CloseBeforeInstall, Cancelled, EndJob
  <2>2. PlanOfPlace'
    BY <1>12, CloseAppEffect DEF CloseBeforeInstall, Cancelled, EndJob, Trusted, Older, Newer
  <2>3. WrittenWhen'
    BY <1>12, CloseAppEffect DEF CloseBeforeInstall, Cancelled, EndJob, Trusted, Older, Newer
  <2>4. OutcomeOfExit'
    BY <1>12, CloseAppEffect DEF CloseBeforeInstall, Cancelled, EndJob, Trusted, Older, Newer
  <2>5. Allowed'
    BY <1>12, CloseAppEffect DEF CloseBeforeInstall, Cancelled, EndJob, Trusted, Older, Newer
  <2>6. Ordered'
    BY <1>12, CloseAppEffect DEF CloseBeforeInstall, Cancelled, EndJob, Trusted, Older, Newer
  <2>7. StoppedInTime'
    BY <1>12, CloseAppEffect DEF CloseBeforeInstall, Cancelled, EndJob, Trusted, Older, Newer
  <2>8. QED
    BY <2>1, <2>2, <2>3, <2>4, <2>5, <2>6, <2>7
<1>13. CASE CheckClosed
  BY <1>13 DEF CheckClosed, EndJob, Trusted, Older, Newer
<1>14. CASE Extract
  <2>1. TypeOK'
    <3>1. pc' \in Places /\ exit' \in Exits
      BY <1>14 DEF Extract, Cancelled, EndJob
    <3>2. touched' \subseteq {"closed", "prereqs", "wrote", "left"}
      BY <1>14 DEF Extract, Cancelled, EndJob
    <3>3. QED
      BY <1>14, <3>1, <3>2 DEF Extract, Cancelled, EndJob
  <2>2. PlanOfPlace'
    BY <1>14 DEF Extract, Cancelled, EndJob, Trusted, Older, Newer
  <2>3. WrittenWhen'
    BY <1>14 DEF Extract, Cancelled, EndJob, Trusted, Older, Newer
  <2>4. OutcomeOfExit'
    BY <1>14 DEF Extract, Cancelled, EndJob, Trusted, Older, Newer
  <2>5. Allowed'
    BY <1>14 DEF Extract, Cancelled, EndJob, Trusted, Older, Newer
  <2>6. Ordered'
    BY <1>14 DEF Extract, Cancelled, EndJob, Trusted, Older, Newer
  <2>7. StoppedInTime'
    BY <1>14 DEF Extract, Cancelled, EndJob, Trusted, Older, Newer
  <2>8. QED
    BY <2>1, <2>2, <2>3, <2>4, <2>5, <2>6, <2>7
<1>15. CASE Write
  <2>1. TypeOK'
    BY <1>15 DEF Write, EndJob, SetupType, Trusted, Older, Newer
  <2>2. PlanOfPlace'
    BY <1>15 DEF Write, EndJob, SetupType, Trusted, Older, Newer
  <2>3. WrittenWhen'
    BY <1>15 DEF Write, EndJob, SetupType, Trusted, Older, Newer
  <2>4. OutcomeOfExit'
    BY <1>15 DEF Write, EndJob, SetupType, Trusted, Older, Newer
  <2>5. Allowed'
    BY <1>15 DEF Write, EndJob, SetupType, Trusted, Older, Newer
  <2>6. Ordered'
    BY <1>15 DEF Write, EndJob, SetupType, Trusted, Older, Newer
  <2>7. StoppedInTime'
    BY <1>15 DEF Write, EndJob, SetupType, Trusted, Older, Newer
  <2>8. QED
    BY <2>1, <2>2, <2>3, <2>4, <2>5, <2>6, <2>7
<1>16. CASE Integrate
  BY <1>16 DEF Integrate, EndJob, Trusted, Older, Newer, SetupType
<1>17. CASE AskRemote
  BY <1>17 DEF AskRemote, EndJob, Trusted, Older, Newer
<1>18. CASE Download
  BY <1>18 DEF Download, Cancelled, EndJob, Trusted, Older, Newer
<1>19. CASE ApplyRemote
  <2>1. TypeOK'
    <3>1. pc' \in Places /\ exit' \in Exits
      BY <1>19, CloseAppEffect DEF ApplyRemote, Cancelled, EndJob
    <3>2. touched' \subseteq {"closed", "prereqs", "wrote", "left"}
      BY <1>19, CloseAppEffect DEF ApplyRemote, Cancelled, EndJob
    <3>3. QED
      BY <1>19, <3>1, <3>2, CloseAppEffect DEF ApplyRemote, Cancelled, EndJob
  <2>2. PlanOfPlace'
    BY <1>19, CloseAppEffect DEF ApplyRemote, Cancelled, EndJob, Trusted, Older, Newer
  <2>3. WrittenWhen'
    BY <1>19, CloseAppEffect DEF ApplyRemote, Cancelled, EndJob, Trusted, Older, Newer
  <2>4. OutcomeOfExit'
    BY <1>19, CloseAppEffect DEF ApplyRemote, Cancelled, EndJob, Trusted, Older, Newer
  <2>5. Allowed'
    BY <1>19, CloseAppEffect DEF ApplyRemote, Cancelled, EndJob, Trusted, Older, Newer
  <2>6. Ordered'
    BY <1>19, CloseAppEffect DEF ApplyRemote, Cancelled, EndJob, Trusted, Older, Newer
  <2>7. StoppedInTime'
    BY <1>19, CloseAppEffect DEF ApplyRemote, Cancelled, EndJob, Trusted, Older, Newer
  <2>8. QED
    BY <2>1, <2>2, <2>3, <2>4, <2>5, <2>6, <2>7
<1>20. CASE Snapshot
  <2>1. TypeOK'
    <3>1. pc' \in Places /\ exit' \in Exits
      BY <1>20 DEF Snapshot, EndJob
    <3>2. touched' \subseteq {"closed", "prereqs", "wrote", "left"}
      BY <1>20 DEF Snapshot, EndJob
    <3>3. QED
      BY <1>20, <3>1, <3>2 DEF Snapshot, EndJob
  <2>2. PlanOfPlace'
    BY <1>20 DEF Snapshot, EndJob, Trusted, Older, Newer
  <2>3. WrittenWhen'
    BY <1>20 DEF Snapshot, EndJob, Trusted, Older, Newer
  <2>4. OutcomeOfExit'
    BY <1>20 DEF Snapshot, EndJob, Trusted, Older, Newer
  <2>5. Allowed'
    BY <1>20 DEF Snapshot, EndJob, Trusted, Older, Newer
  <2>6. Ordered'
    BY <1>20 DEF Snapshot, EndJob, Trusted, Older, Newer
  <2>7. StoppedInTime'
    BY <1>20 DEF Snapshot, EndJob, Trusted, Older, Newer
  <2>8. QED
    BY <2>1, <2>2, <2>3, <2>4, <2>5, <2>6, <2>7
<1>21. CASE Settle
  <2>1. TypeOK'
    <3>1. pc' \in Places /\ exit' \in Exits
      BY <1>21 DEF Settle, EndJob
    <3>2. folder' \in Versions \cup {Empty, Mixed}
      BY <1>21 DEF Settle, EndJob
    <3>3. QED
      BY <1>21, <3>1, <3>2 DEF Settle, EndJob
  <2>2. PlanOfPlace'
    BY <1>21 DEF Settle, EndJob, Trusted, Older, Newer
  <2>3. WrittenWhen'
    BY <1>21 DEF Settle, EndJob, Trusted, Older, Newer
  <2>4. OutcomeOfExit'
    BY <1>21 DEF Settle, EndJob, Trusted, Older, Newer
  <2>5. Allowed'
    BY <1>21 DEF Settle, EndJob, Trusted, Older, Newer
  <2>6. Ordered'
    BY <1>21 DEF Settle, EndJob, Trusted, Older, Newer
  <2>7. StoppedInTime'
    BY <1>21 DEF Settle, EndJob, Trusted, Older, Newer
  <2>8. QED
    BY <2>1, <2>2, <2>3, <2>4, <2>5, <2>6, <2>7
<1>22. CASE Unregister
  <2>1. TypeOK'
    <3>1. pc' \in Places /\ exit' \in Exits
      BY <1>22 DEF Unregister
    <3>2. registered' \in Versions \cup {NotInstalled, Unknown}
      BY <1>22 DEF Unregister
    <3>3. touched' \subseteq {"closed", "prereqs", "wrote", "left"}
      BY <1>22, CloseAppEffect DEF Unregister
    <3>4. QED
      BY <1>22, <3>1, <3>2, <3>3, CloseAppEffect DEF Unregister
  <2>2. PlanOfPlace'
    BY <1>22, CloseAppEffect DEF Unregister, Trusted, Older, Newer
  <2>3. WrittenWhen'
    BY <1>22, CloseAppEffect DEF Unregister, Trusted, Older, Newer
  <2>4. OutcomeOfExit'
    BY <1>22, CloseAppEffect DEF Unregister, Trusted, Older, Newer
  <2>5. Allowed'
    BY <1>22, CloseAppEffect DEF Unregister, Trusted, Older, Newer
  <2>6. Ordered'
    BY <1>22, CloseAppEffect DEF Unregister, Trusted, Older, Newer
  <2>7. StoppedInTime'
    BY <1>22, CloseAppEffect DEF Unregister, Trusted, Older, Newer
  <2>8. QED
    BY <2>1, <2>2, <2>3, <2>4, <2>5, <2>6, <2>7
<1>23. CASE Remove
  <2>1. TypeOK'
    <3>1. pc' \in Places /\ exit' \in Exits
      BY <1>23 DEF Remove, EndJob
    <3>2. registered' \in Versions \cup {NotInstalled, Unknown}
      BY <1>23 DEF Remove
    <3>3. folder' \in Versions \cup {Empty, Mixed}
      BY <1>23 DEF Remove
    <3>4. touched' \subseteq {"closed", "prereqs", "wrote", "left"}
      BY <1>23 DEF Remove
    <3>5. QED
      BY <1>23, <3>1, <3>2, <3>3, <3>4 DEF Remove
  <2>2. PlanOfPlace'
    BY <1>23 DEF Remove, EndJob, Trusted, Older, Newer
  <2>3. WrittenWhen'
    BY <1>23 DEF Remove, EndJob, Trusted, Older, Newer
  <2>4. OutcomeOfExit'
    BY <1>23 DEF Remove, EndJob, Trusted, Older, Newer
  <2>5. Allowed'
    BY <1>23 DEF Remove, EndJob, Trusted, Older, Newer
  <2>6. Ordered'
    BY <1>23 DEF Remove, EndJob, Trusted, Older, Newer
  <2>7. StoppedInTime'
    BY <1>23 DEF Remove, EndJob, Trusted, Older, Newer
  <2>8. QED
    BY <2>1, <2>2, <2>3, <2>4, <2>5, <2>6, <2>7
<1>24. CASE CloseWindow
  BY <1>24 DEF CloseWindow, Trusted, Older, Newer
<1>25. CASE WriteHandoff
  <2>1. TypeOK'
    <3>1. pc' \in Places /\ exit' \in Exits
      BY <1>25 DEF WriteHandoff
    <3>2. handoff' \in BOOLEAN
      BY <1>25 DEF WriteHandoff
    <3>3. QED
      BY <1>25, <3>1, <3>2 DEF WriteHandoff
  <2>2. PlanOfPlace'
    BY <1>25 DEF WriteHandoff, Trusted, Older, Newer
  <2>3. WrittenWhen'
    BY <1>25 DEF WriteHandoff, Trusted, Older, Newer
  <2>4. OutcomeOfExit'
    BY <1>25 DEF WriteHandoff, Trusted, Older, Newer
  <2>5. Allowed'
    BY <1>25 DEF WriteHandoff, Trusted, Older, Newer
  <2>6. Ordered'
    BY <1>25 DEF WriteHandoff, Trusted, Older, Newer
  <2>7. StoppedInTime'
    BY <1>25 DEF WriteHandoff, Trusted, Older, Newer
  <2>8. QED
    BY <2>1, <2>2, <2>3, <2>4, <2>5, <2>6, <2>7
<1>26. CASE Launch
  BY <1>26 DEF Launch, Trusted, Older, Newer
<1>27. CASE AskClose
  BY <1>27 DEF AskClose, LooksToCome, Trusted, Older, Newer
<1>28. CASE Die
  BY <1>28 DEF Die, Trusted, Older, Newer
<1>29. CASE StartApp \/ QuitApp \/ CallerExits
  <2>1. CASE StartApp
    BY <2>1 DEF StartApp, Trusted, Older, Newer
  <2>2. CASE QuitApp
    BY <2>2 DEF QuitApp, Trusted, Older, Newer
  <2>3. CASE CallerExits
    BY <2>3 DEF CallerExits, Trusted, Older, Newer
  <2>4. QED
    BY <1>29, <2>1, <2>2, <2>3
<1>30. CASE UNCHANGED vars
  BY <1>30 DEF vars, Trusted, Older, Newer
<1>31. CASE LastLook
  BY <1>31 DEF LastLook, Cancelled, EndJob, Trusted, Older, Newer
<1>32. QED
  BY <1>1, <1>2, <1>3, <1>4, <1>5, <1>6, <1>7, <1>8, <1>9, <1>10, <1>11, <1>12, <1>13,
     <1>14, <1>15, <1>16, <1>17, <1>18, <1>19, <1>20, <1>21, <1>22, <1>23, <1>24, <1>25,
     <1>26, <1>27, <1>28, <1>29, <1>30, <1>31
     DEF Next, Step

--------------------------------------------------------------------------------
LEMMA InvariantHolds == Spec => []IInv
<1> QED
  BY InitIInv, StepKeepsIInv, PTL DEF Spec

(***************************************************************************)
(* Type correctness: whatever stops a run, an offered version is one the   *)
(* publisher made and an exit code is one of the table.                    *)
(***************************************************************************)
THEOREM TypeCorrect == Spec => []TypeOK
<1>1. IInv => TypeOK
  BY DEF IInv
<1>2. QED
  BY <1>1, InvariantHolds, PTL

(***************************************************************************)
(* The exit code of run_inner means what its table says (cli.rs): Ok to    *)
(* the last step, handoff included, but that an uninstall may have passed  *)
(* over a file; a refusal touched nothing; Cancelled wrote none of the     *)
(* app's files.                                                            *)
(***************************************************************************)
THEOREM ExitsTellTheTruth == Spec => []ExitTellsTheTruth
<1>1. IInv => ExitTellsTheTruth
  BY DEF IInv, OutcomeOfExit, Finished, Installs, ExitTellsTheTruth
<1>2. QED
  BY <1>1, InvariantHolds, PTL

(***************************************************************************)
(* Nothing is closed, brought in or written for a package that was not     *)
(* verified or without the consent a fresh install asks for.               *)
(***************************************************************************)
THEOREM OnlyVerifiedTouches == Spec => []TouchesOnlyWhatIsVerified
<1>1. IInv => TouchesOnlyWhatIsVerified
  BY DEF IInv, Allowed
<1>2. QED
  BY <1>1, InvariantHolds, PTL

(***************************************************************************)
(* A close asked while a look at it is still to come (Hooks::check_cancel, *)
(* whose last call is in run_real_install, in remote_update, or before the *)
(* uninstall) always stops the run before it touches a file of the app.    *)
(***************************************************************************)
THEOREM CloseIsInTime == Spec => []CloseInTimeWritesNothing
<1>1. IInv => CloseInTimeWritesNothing
  BY DEF IInv, StoppedInTime
<1>2. QED
  BY <1>1, InvariantHolds, PTL

(***************************************************************************)
(* Where what is registered is what the folder holds when a run begins, no *)
(* run without --allow-downgrade leaves an older version in it, whatever   *)
(* failed or was tried again before.                                       *)
(***************************************************************************)
THEOREM NeverBehindTheRecord == Spec => NeverOlderThanRecorded
<1>1. IInv /\ [Next]_vars =>
        ((recorded /\ before \in Versions /\ ~ args.allowDowngrade
            /\ folder' # folder /\ folder' \in Versions) => folder' >= before)
  <2> SUFFICES ASSUME IInv, [Next]_vars, recorded, before \in Versions,
                      ~ args.allowDowngrade, folder' # folder, folder' \in Versions
               PROVE  folder' >= before
    OBVIOUS
  <2>1. CASE Write
    <3>1. folder' = setup.version /\ registered = before /\ plan \in Installs
      BY <2>1 DEF Write, IInv, Ordered, PlanOfPlace, InstallPlaces
    <3>2. ~ Older(setup.version)
      BY <2>1, <3>1, ConstantsAssumption DEF Write, IInv, Ordered, Installs, EndJob
    <3>3. QED
      BY <3>1, <3>2 DEF Older, Versions
  <2>2. CASE Settle
    <3>1. folder' \in {offered, before}
      BY <2>2, ConstantsAssumption DEF Settle
    <3>2. registered = before /\ Newer(offered) /\ offered \in Versions
      BY <2>2 DEF Settle, IInv, Ordered
    <3>3. QED
      BY <3>1, <3>2, ConstantsAssumption DEF Newer, Versions
  <2>3. ~ Extract /\ ~ Snapshot /\ ~ Remove
    BY ConstantsAssumption DEF Extract, Snapshot, Remove
  <2>4. ~ UNCHANGED vars /\ ~ \E c \in CommandLines, s \in Setups : Begin(c, s)
    BY DEF vars, machine, Begin
  <2>5. ~ (\/ VerifyPackage \/ Resolve \/ Choose \/ Rights \/ Space \/ WaitPid \/ Grace
           \/ StartWork \/ OpenPackage \/ EnsurePrereqs \/ CloseBeforeInstall
           \/ CheckClosed \/ LastLook \/ Integrate \/ AskRemote \/ Download \/ ApplyRemote
           \/ Unregister \/ CloseWindow \/ WriteHandoff \/ Launch
           \/ AskClose \/ Die \/ StartApp \/ QuitApp \/ CallerExits)
    BY DEF machine, VerifyPackage, Resolve, Choose, Rights, Space, WaitPid, Grace, StartWork,
           OpenPackage, EnsurePrereqs, CloseBeforeInstall, CheckClosed, LastLook, Integrate,
           AskRemote, Download, ApplyRemote, Unregister, CloseWindow, WriteHandoff,
           Launch, AskClose, Die, StartApp, QuitApp, CallerExits
  <2>6. QED
    BY <2>1, <2>2, <2>3, <2>4, <2>5 DEF Next, Step
<1>2. QED
  BY <1>1, InvariantHolds, PTL DEF Spec, NeverOlderThanRecorded
================================================================================
