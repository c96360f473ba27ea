------------------------------ MODULE MCUnattended -----------------------------
(***************************************************************************)
(* A setup of each version that verifies, and one without the signature it *)
(* requires; a command line of every mode, with and without what it may be *)
(* refused for.  Install, update and an uninstall run behind a window, the *)
(* others quiet.                                                           *)
(***************************************************************************)
EXTENDS Unattended

Good(v) == [version |-> v, trust |-> "verified", requireSignature |-> TRUE,
            update |-> TRUE]

MCSetups == { Good(1), Good(2), [Good(2) EXCEPT !.trust = "unsigned"] }

Line(m) == [mode |-> m, quiet |-> TRUE, wrong |-> "nothing", consents |-> FALSE,
            offline |-> FALSE, allowDowngrade |-> FALSE, launch |-> FALSE, waits |-> FALSE,
            whole |-> FALSE]

MCCommandLines ==
  { [Line("install") EXCEPT !.quiet = FALSE, !.consents = TRUE, !.launch = TRUE],
    Line("install"),
    [Line("update") EXCEPT !.quiet = FALSE, !.waits = TRUE, !.launch = TRUE],
    [Line("update") EXCEPT !.offline = TRUE],
    Line("repair"),
    [Line("repair") EXCEPT !.wrong = "dir"],
    [Line("modify") EXCEPT !.allowDowngrade = TRUE],
    [Line("modify") EXCEPT !.wrong = "choices"],
    [Line("uninstall") EXCEPT !.quiet = FALSE],
    [Line("uninstall") EXCEPT !.whole = TRUE] }
================================================================================
