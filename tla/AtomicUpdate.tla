----------------------------- MODULE AtomicUpdate ------------------------------
(***************************************************************************)
(* What an update promises, with no mention of files being written one by  *)
(* one.  `view` is the installation a user can get back: it changes only   *)
(* when the whole new version is in, when an update is given up, or by the *)
(* user's own hand while nothing runs.  Dying at any point is `Stop`, and  *)
(* changes nothing.                                                        *)
(***************************************************************************)
CONSTANTS Files, Contents, Missing, Torn, Packages, NoPackage

VARIABLES
  view,       \* the installation, as it is or as it can be restored
  running,    \* an update is running
  pending     \* the package being written, if its writing is not settled

avars == << view, running, pending >>

Trees == [Files -> Contents \cup {Missing, Torn}]

Written(t, p) ==
  [f \in Files |-> IF p.archive[f] # Missing THEN p.archive[f] ELSE t[f]]

AInit ==
  /\ view \in Trees
  /\ running = FALSE
  /\ pending = NoPackage

Start ==
  /\ ~ running
  /\ running' = TRUE
  /\ UNCHANGED << view, pending >>

(* Only a package that passed every check begins to be written.            *)
BeginWriting(p) ==
  /\ running
  /\ pending = NoPackage
  /\ p.verified /\ p.accepted
  /\ pending' = p
  /\ UNCHANGED << view, running >>

(* The new version appears at once, and only if none of its entries was    *)
(* refused.                                                                *)
Commit ==
  /\ running
  /\ pending # NoPackage
  /\ \A f \in Files : pending.archive[f] # Missing => f \notin pending.bad
  /\ view' = Written(view, pending)
  /\ pending' = NoPackage
  /\ UNCHANGED running

(* Every file comes back.  A file the update added and could not delete    *)
(* may be left over: that much less than atomic it is.                     *)
GiveUp ==
  /\ running
  /\ pending # NoPackage
  /\ view' \in Trees
  /\ \A f \in Files : view[f] # Missing => view'[f] = view[f]
  /\ pending' = NoPackage
  /\ UNCHANGED running

Stop ==
  /\ running
  /\ running' = FALSE
  /\ UNCHANGED << view, pending >>

ByHand ==
  /\ ~ running
  /\ view' \in Trees
  /\ pending' \in {pending, NoPackage}
  /\ UNCHANGED running

ANext ==
  \/ Start \/ Commit \/ GiveUp \/ Stop \/ ByHand
  \/ \E p \in Packages : BeginWriting(p)

ASpec == AInit /\ [][ANext]_avars
================================================================================
