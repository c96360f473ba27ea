--------------------------- MODULE MCInstallFolder -----------------------------
(***************************************************************************)
(* Two apps: the package of one has a required and an optional component,  *)
(* the other's only an optional one, and they share a path.  `save` is in  *)
(* no package.  The folder is named after one app and narrow, or neither.  *)
(***************************************************************************)
EXTENDS InstallFolder, TLC

CONSTANTS exe, mods, save, A, B, main, extras

MCFiles == {exe, mods, save}
MCUserFiles == {mods, save}
MCComps == {main, extras}

Pack(app, required, exeComp, modsComp) ==
  [app |-> app, required |-> required,
   comp |-> (exe :> exeComp) @@ (mods :> modsComp) @@ (save :> NotPacked)]

MCSetups ==
  { Pack(A, {main}, main, extras),
    Pack(B, {}, NotPacked, extras) }

MCPlaces ==
  { [named |-> A, broad |-> FALSE],
    [named |-> Nobody, broad |-> TRUE] }
================================================================================
