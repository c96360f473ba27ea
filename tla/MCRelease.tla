------------------------------ MODULE MCRelease ------------------------------
(***************************************************************************)
(* Release with an installer.toml of each of two versions, two payloads    *)
(* and two commands side by side.                                          *)
(***************************************************************************)
EXTENDS Release, TLC

CONSTANTS c1, c2

MCVersionOf == (c1 :> 1) @@ (c2 :> 2)
Symmetry == Permutations(Jobs) \cup Permutations(Payloads)
=============================================================================
