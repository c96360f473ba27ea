---------------------------- MODULE MCMaintenance ----------------------------
(***************************************************************************)
(* Maintenance on a package of two files, of a required component and of an*)
(* optional one nothing selects, a shortcut the configuration asks for and *)
(* two versions.                                                           *)
(***************************************************************************)
EXTENDS Maintenance

MCFiles == {"exe", "data"}
MCCompOf == [f \in MCFiles |-> IF f = "exe" THEN "program" ELSE "tools"]
MCShortcuts == {"desktop"}
=============================================================================
