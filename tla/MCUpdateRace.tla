----------------------------- MODULE MCUpdateRace ------------------------------
(***************************************************************************)
(* Two processes apply the same good release to a directory of two files,  *)
(* one of which only the release has.                                      *)
(***************************************************************************)
EXTENDS UpdateRace

CONSTANTS app, extra, old, new

MCFiles == {app, extra}
MCContents == {old, new}

(* Nothing is claimed after an overlap: those states are not explored.       *)
NotOverlapped == ~ overlapped

MCPackages ==
  { [ verified |-> TRUE, accepted |-> TRUE,
      archive |-> [f \in MCFiles |-> new], bad |-> {} ] }
================================================================================
