------------------------------- MODULE MCPrereq -------------------------------
(***************************************************************************)
(* Prereq with a required zip of two files whose check_file is the first   *)
(* of them, a required command that has to be recent enough and comes with *)
(* an installer, a required program that cannot be downloaded and an       *)
(* optional zip whose check_file is its last.                              *)
(***************************************************************************)
EXTENDS Prereq

MCPrereqs == <<
    [check |-> "inside", at |-> 1, versioned |-> FALSE, kind |-> "zip",
     url |-> TRUE, required |-> TRUE],
    [check |-> "command", at |-> 1, versioned |-> TRUE, kind |-> "exe",
     url |-> TRUE, required |-> TRUE],
    [check |-> "machine", at |-> 1, versioned |-> FALSE, kind |-> "exe",
     url |-> FALSE, required |-> TRUE],
    [check |-> "inside", at |-> 2, versioned |-> FALSE, kind |-> "zip",
     url |-> TRUE, required |-> FALSE]>>
=============================================================================
