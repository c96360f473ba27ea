---------------------------- MODULE MCUpdateApply ------------------------------
(***************************************************************************)
(* A small installation for TLC: the program, the user's data and a file   *)
(* only the new version has; a good package, one with an entry the install *)
(* pass refuses, and two that fail a check.                                *)
(***************************************************************************)
EXTENDS UpdateApply

CONSTANTS app, data, extra, old, new, link

MCFiles == {app, data, extra}
MCUserFiles == {data}
MCContents == {old, new}
MCLinks == {link}

MCEntries == [f \in MCFiles |-> IF f = data THEN Missing ELSE new]

Release == [verified |-> TRUE, accepted |-> TRUE, archive |-> MCEntries, bad |-> {}]

MCPackages ==
  { Release,
    [Release EXCEPT !.bad = {app}],
    [Release EXCEPT !.verified = FALSE],
    [Release EXCEPT !.accepted = FALSE] }
================================================================================
