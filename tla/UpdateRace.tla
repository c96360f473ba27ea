------------------------------ MODULE UpdateRace -------------------------------
(***************************************************************************)
(* Two updates of one install directory, in two processes: the maintenance *)
(* window and an unattended run, say.  Nothing in the code excludes them   *)
(* from each other: each is UpdateApply over the same disk, process A with *)
(* that module's own variables, process B with a second set of locals.     *)
(***************************************************************************)
EXTENDS UpdateApply

VARIABLES
  pcB, pkgB, todoB, failedB, resultB, baseB, pendingB, wholeB,   \* B's locals, as UpdateApply's
  overlapped   \* history: both were past the check of one leftover at once

localA == << pc, pkg, todo, failed, result, base, pending, whole >>
localB == << pcB, pkgB, todoB, failedB, resultB, baseB, pendingB, wholeB >>
raceVars == << disk, localA, localB, overlapped >>

B == INSTANCE UpdateApply
  WITH pc <- pcB, pkg <- pkgB, todo <- todoB, failed <- failedB, result <- resultB,
       base <- baseB, pending <- pendingB, whole <- wholeB

(* Past the test that `<name>.bak` does not exist, and not settled since.   *)
Started == {"create", "snapshot", "install", "wipe", "restore"} \cup Removing

RaceInit ==
  /\ Init
  /\ B!Init
  /\ overlapped = FALSE

Overlap == overlapped' = (overlapped \/ (pc' \in Started /\ pcB' \in Started))

StepA ==
  /\ Step \/ Crash \/ \E p \in Packages : Begin(p)
  /\ UNCHANGED localB
  /\ Overlap

StepB ==
  /\ B!Step \/ B!Crash \/ \E p \in Packages : B!Begin(p)
  /\ UNCHANGED localA
  /\ Overlap

RaceNext == StepA \/ StepB

RaceSpec == RaceInit /\ [][RaceNext]_raceVars

--------------------------------------------------------------------------------
(***************************************************************************)
(* As long as the two were never both past their check for a leftover      *)
(* snapshot, that check is all the exclusion they need: an unsettled update*)
(* of either keeps its snapshot whole, and a snapshot is deleted only when *)
(* the directory holds a whole version.                                    *)
(***************************************************************************)
SafeUnlessOverlapped ==
  ~ overlapped =>
    /\ SnapshotIntact /\ NothingLostWhileRemoving
    /\ B!SnapshotIntact /\ B!NothingLostWhileRemoving
================================================================================
