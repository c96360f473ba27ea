-------------------------------- MODULE Prereq --------------------------------
(***************************************************************************)
(* The prerequisites of an installation: ensure_required of prereq.rs goes *)
(* through the list in order, downloads what is wanted and missing, holds  *)
(* it against its pin, unpacks a zip into the installation's folder (one   *)
(* file after another) or runs an installer, and asks again whether it is  *)
(* there.  Around it is what run_real_install does with the folder: who    *)
(* owns it is decided before, the application's files and the record come  *)
(* after.                                                                  *)
(*                                                                         *)
(* Runs follow one another over the same folder and machine.  Every step   *)
(* may fail or be the last of its process, servers send any bytes, an      *)
(* installer may do anything and say anything, and people install, remove  *)
(* and replace programs whenever they like.                                *)
(***************************************************************************)
EXTENDS Integers, Sequences

CONSTANTS
    Prereqs,      \* installer.toml's [[prerequisite]]s, in order
    Entries,      \* how many files a zip holds
    MaxRuns,      \* bound: installs, repairs, modifies and uninstalls begun
    Nothing

Prerequisite == [check : {"none", "machine", "command", "inside"},
                 at : 1 .. Entries,        \* which file of the zip check_file names
                 versioned : BOOLEAN,      \* min_version, max_version
                 kind : {"exe", "zip"},
                 url : BOOLEAN,            \* validate: with a sha256
                 required : BOOLEAN]

ASSUME ConfigIsSane ==
    /\ Entries \in Nat \ {0}
    /\ MaxRuns \in Nat
    /\ Prereqs \in Seq(Prerequisite)

Ids == 1 .. Len(Prereqs)
Optional == {i \in Ids : ~Prereqs[i].required}
Outside == {i \in Ids : Prereqs[i].check \in {"machine", "command"}}

\* What the machine has of a program: nothing, one that is too old, too new or will not say
\* (probe_version), or the one wanted.
Machine == {"absent", "unfit", "good"}

\* What is not asked its version is there or not.
Programs(i) == IF Prereqs[i].versioned THEN Machine ELSE {"absent", "good"}

\* A file of a zip: not there, cut short, as the pinned archive has it, of other bytes.
Contents == {"none", "part", "whole", "foreign"}

VARIABLES
    machine,   \* of each prerequisite that is looked for outside the folder
    unpacked,  \* each zip's files in the folder
    app,       \* application files are in the folder
    guests,    \* somebody else's files are
    record,    \* uninstall-info.json: whether the install owns the folder
    broad,     \* the folder is one no install is given whole (too_broad_to_own)
    scratch,   \* what the private directory holds of the one being installed
    run,       \* the run at work, Nothing when none is
    runs,      \* how many were begun
    verdict,   \* how the last one ended
    \* For the properties:
    ran,       \* the bytes that were run or unpacked so far
    lost,      \* prerequisites somebody took away while a run was at work
    torn,      \* zips whose last unpacking stopped half-way, or an uninstall took in part
    mixed      \* the folder was given files the record does not know of

vars == <<machine, unpacked, app, guests, record, broad, scratch, run, runs, verdict,
          ran, lost, torn, mixed>>
folder == <<unpacked, app, guests, record, broad>>
history == <<ran, lost, torn, mixed>>

Bytes == {"pinned", "other"}
Phases == {"next", "fetch", "compare", "unpack", "install", "recheck", "app"}
Verdicts == {"none", "ok", "prereq", "cancelled", "failed", "died",
             "uninstalled",      \* everything the uninstall was to take is gone
             "incomplete"}       \* it passed over some of it, and says as much: nothing

Run == [at : 1 .. Len(Prereqs) + 1,       \* the prerequisite it is at
        phase : Phases,
        bytes : Bytes,                    \* what was downloaded, by its hash
        entry : 1 .. Entries + 1,         \* the zip's next file
        begun : BOOLEAN,                  \* it was created
        opted : SUBSET Optional,          \* the optional ones somebody ticked
        owns : BOOLEAN]

ASSUME NothingIsDistinct == Nothing \notin BOOLEAN /\ Nothing \notin Run

TypeOK ==
    /\ machine \in [Ids -> Machine]
    /\ unpacked \in [Ids -> [1 .. Entries -> Contents]]
    /\ app \in BOOLEAN /\ guests \in BOOLEAN
    /\ record \in BOOLEAN \cup {Nothing}
    /\ broad \in BOOLEAN
    /\ scratch \in Bytes \cup {"none", "part"}
    /\ run \in Run \cup {Nothing}
    /\ runs \in 0 .. MaxRuns
    /\ verdict \in Verdicts
    /\ ran \subseteq Bytes
    /\ lost \subseteq Ids
    /\ torn \subseteq Ids
    /\ mixed \in BOOLEAN

-----------------------------------------------------------------------------
(* The check *)

\* A registry key or a file of the machine exists, a command is on the PATH and of a fitting
\* version, a relative check_file exists in the folder; nothing to check is satisfied.
CheckIn(i) ==
    CASE Prereqs[i].check = "none" -> TRUE
      [] Prereqs[i].check = "machine" -> machine[i] # "absent"
      [] Prereqs[i].check = "command" ->
            IF Prereqs[i].versioned THEN machine[i] = "good" ELSE machine[i] # "absent"
      [] OTHER -> unpacked[i][Prereqs[i].at] # "none"

Wanted(i) == Prereqs[i].required \/ i \in run.opted

-----------------------------------------------------------------------------
(* A run begins *)

EmptyZip == [k \in 1 .. Entries |-> "none"]
FolderIsEmpty == ~app /\ ~guests /\ unpacked = [i \in Ids |-> EmptyZip]

\* owns_dir_before_install; the record itself is a file of the folder.
OwnsDir == IF record # Nothing THEN record ELSE FolderIsEmpty

Begin ==
    /\ run = Nothing
    /\ runs < MaxRuns
    /\ \E opted \in SUBSET Optional :
          run' = [at |-> 1, phase |-> "next", bytes |-> "other", entry |-> 1,
                  begun |-> FALSE, opted |-> opted, owns |-> OwnsDir]
    /\ runs' = runs + 1
    /\ scratch' = "none"               \* the private directory is made anew
    /\ lost' = {}
    /\ UNCHANGED <<machine, folder, verdict, ran, torn, mixed>>

\* It leaves the folder to a run that finds no record there.
LeavesFiles == record' = Nothing /\ ~FolderIsEmpty'

End(how) ==
    /\ run' = Nothing
    /\ verdict' = how
    /\ mixed' = (mixed \/ LeavesFiles)
    /\ UNCHANGED runs

-----------------------------------------------------------------------------
(* ensure_required *)

In(phase) == run # Nothing /\ run.phase = phase
GoTo(phase) ==
    /\ run' = [run EXCEPT !.phase = phase]
    /\ UNCHANGED <<runs, verdict, mixed>>

Advance ==
    /\ run' = [run EXCEPT !.at = @ + 1, !.phase = "next"]
    /\ UNCHANGED <<runs, verdict, mixed>>

\* A required one that cannot be had stops the run, an optional one is gone without.
Failed == IF Prereqs[run.at].required THEN End("prereq") ELSE Advance

AtPrereq == In("next") /\ run.at \in Ids

Skip ==
    /\ AtPrereq
    /\ ~Wanted(run.at) \/ CheckIn(run.at)
    /\ Advance
    /\ UNCHANGED <<machine, folder, scratch, ran, lost, torn>>

NoDownload ==
    /\ AtPrereq
    /\ Wanted(run.at) /\ ~CheckIn(run.at)
    /\ ~Prereqs[run.at].url
    /\ UNCHANGED <<machine, folder, scratch, ran, lost, torn>>
    /\ Failed

AutoInstall ==
    /\ AtPrereq
    /\ Wanted(run.at) /\ ~CheckIn(run.at)
    /\ Prereqs[run.at].url
    /\ GoTo("fetch")
    /\ UNCHANGED <<machine, folder, scratch, ran, lost, torn>>

\* A zip streams into the private directory, an installer into memory.
Fetch ==
    /\ In("fetch")
    /\ \E b \in Bytes :
          /\ run' = [run EXCEPT !.bytes = b, !.phase = "compare"]
          /\ scratch' = IF Prereqs[run.at].kind = "zip" THEN b ELSE scratch
    /\ UNCHANGED <<machine, folder, runs, verdict, history>>

\* discard, best effort.
Discard == scratch' \in {"none", scratch}

FetchFails ==
    /\ In("fetch")
    /\ scratch' \in IF Prereqs[run.at].kind = "zip" THEN {"none", "part"} ELSE {scratch}
    /\ UNCHANGED <<machine, folder, ran, lost, torn>>
    /\ Failed

Mismatch ==
    /\ In("compare")
    /\ run.bytes # "pinned"
    /\ Discard
    /\ UNCHANGED <<machine, folder, ran, lost, torn>>
    /\ Failed

\* A mutant: the archive is opened before its hash is looked at.
OpenUncompared ==
    /\ In("compare")
    /\ Prereqs[run.at].kind = "zip"
    /\ run' = [run EXCEPT !.phase = "unpack", !.entry = 1, !.begun = FALSE]
    /\ ran' = ran \cup {scratch}
    /\ UNCHANGED <<machine, folder, scratch, runs, verdict, lost, torn, mixed>>

OpenZip ==
    /\ In("compare")
    /\ run.bytes = "pinned"
    /\ Prereqs[run.at].kind = "zip"
    /\ run' = [run EXCEPT !.phase = "unpack", !.entry = 1, !.begun = FALSE]
    /\ ran' = ran \cup {scratch}
    /\ UNCHANGED <<machine, folder, scratch, runs, verdict, lost, torn, mixed>>

\* The file is opened again, read as a zip, and its folder made.
OpenFails ==
    /\ In("compare")
    /\ run.bytes = "pinned"
    /\ IF Prereqs[run.at].kind = "zip" THEN Discard ELSE scratch' \in {"none", "part"}
    /\ UNCHANGED <<machine, folder, ran, lost, torn>>
    /\ Failed

Put(c) == unpacked' = [unpacked EXCEPT ![run.at][run.entry] = c]

CreateEntry ==
    /\ In("unpack")
    /\ run.entry <= Entries /\ ~run.begun
    /\ Put("part")
    /\ run' = [run EXCEPT !.begun = TRUE]
    /\ UNCHANGED <<machine, app, guests, record, broad, scratch, runs, verdict, history>>

CopyEntry ==
    /\ In("unpack")
    /\ run.entry <= Entries /\ run.begun
    /\ Put(IF scratch = "pinned" THEN "whole" ELSE "foreign")
    /\ run' = [run EXCEPT !.begun = FALSE, !.entry = @ + 1]
    /\ UNCHANGED <<machine, app, guests, record, broad, scratch, runs, verdict, history>>

\* A mutant: what the unpacking says is dropped, the check decides.
UnpackStopsUnheard ==
    /\ In("unpack")
    /\ run.entry <= Entries
    /\ GoTo("recheck")
    /\ Discard
    /\ UNCHANGED <<machine, folder, ran, lost, torn>>

\* The disk, or an entry that would land elsewhere.
UnpackStops ==
    /\ In("unpack")
    /\ run.entry <= Entries
    /\ torn' = torn \cup {run.at}
    /\ Discard
    /\ UNCHANGED <<machine, folder, ran, lost>>
    /\ Failed

Unpacked ==
    /\ In("unpack")
    /\ run.entry > Entries
    /\ GoTo("recheck")
    /\ torn' = torn \ {run.at}
    /\ Discard
    /\ UNCHANGED <<machine, folder, ran, lost>>

\* What was hashed in memory is staged in the private directory, and that file is run.
Execute ==
    /\ In("compare")
    /\ run.bytes = "pinned"
    /\ Prereqs[run.at].kind = "exe"
    /\ scratch' = run.bytes
    /\ ran' = ran \cup {scratch'}
    /\ GoTo("install")
    /\ UNCHANGED <<machine, folder, lost, torn>>

\* Whatever it did: it is waited for as long as it takes.
Executed ==
    /\ In("install")
    /\ \E m \in Programs(run.at) : machine' = [machine EXCEPT ![run.at] = m]
    /\ Discard
    /\ UNCHANGED <<folder, ran, lost, torn>>
    /\ GoTo("recheck") \/ Failed

\* A mutant: the installer's word is taken.
RecheckTrusting ==
    /\ In("recheck")
    /\ Advance
    /\ UNCHANGED <<machine, folder, scratch, ran, lost, torn>>

Recheck ==
    /\ In("recheck")
    /\ UNCHANGED <<machine, folder, scratch, ran, lost, torn>>
    /\ IF CheckIn(run.at) THEN Advance ELSE Failed

PrereqsDone ==
    /\ In("next")
    /\ run.at = Len(Prereqs) + 1
    /\ GoTo("app")
    /\ UNCHANGED <<machine, folder, scratch, ran, lost, torn>>

-----------------------------------------------------------------------------
(* The rest of run_real_install *)

Cancelled ==
    /\ In("app")
    /\ UNCHANGED <<machine, folder, scratch, ran, lost, torn>>
    /\ End("cancelled")

\* The application is running, the folder cannot be made, an entry fails.
AppFails ==
    /\ In("app")
    /\ app' \in {app, TRUE}
    /\ UNCHANGED <<machine, unpacked, guests, record, broad, scratch, ran, lost, torn>>
    /\ End("failed")

\* A mutant: who owns the folder is asked when the record is written.
InstallAppOwning ==
    /\ In("app")
    /\ app' = TRUE
    /\ record' \in {OwnsDir, record, Nothing}
    /\ UNCHANGED <<machine, unpacked, guests, broad, scratch, ran, lost, torn>>
    /\ End("ok")

\* The files, then the record, which may be torn or not be written.
InstallApp ==
    /\ In("app")
    /\ app' = TRUE
    /\ record' \in {run.owns, record, Nothing}
    /\ UNCHANGED <<machine, unpacked, guests, broad, scratch, ran, lost, torn>>
    /\ End("ok")

\* Everything in it; or, when the setup runs from there, all but itself, passing over what
\* cannot be deleted, with the rest left to a script; or up to the first error.
RemoveFolder ==
    \/ /\ unpacked' = [i \in Ids |-> EmptyZip]
       /\ app' = FALSE /\ guests' = FALSE /\ record' = Nothing
       /\ verdict' = "uninstalled"
    \/ /\ \E kept \in SUBSET {f \in Ids \X (1 .. Entries) : unpacked[f[1]][f[2]] # "none"} :
             unpacked' = [i \in Ids |-> [k \in 1 .. Entries |->
                            IF <<i, k>> \in kept THEN unpacked[i][k] ELSE "none"]]
       /\ app' \in {app, FALSE} /\ guests' \in {guests, FALSE} /\ record' \in {record, Nothing}
       /\ verdict' \in {"incomplete", "failed"}

\* The application's files and the record, each unless it cannot be deleted. No zip is listed.
RemoveListed ==
    /\ app' \in {app, FALSE} /\ record' \in {record, Nothing}
    /\ verdict' = IF app' \/ record' # Nothing THEN "incomplete" ELSE "uninstalled"
    /\ UNCHANGED <<unpacked, guests>>

\* do_uninstall_full, without a record too: the list is the package's then.
Uninstall ==
    /\ run = Nothing
    /\ runs < MaxRuns
    /\ runs' = runs + 1
    /\ app \/ record # Nothing
    /\ IF record = TRUE /\ ~broad THEN RemoveFolder ELSE RemoveListed
    /\ torn' = {i \in Ids : /\ unpacked'[i] # EmptyZip
                            /\ i \in torn \/ unpacked'[i] # unpacked[i]}
    /\ mixed' = IF record' = Nothing THEN ~FolderIsEmpty' ELSE mixed
    /\ UNCHANGED <<machine, broad, scratch, run, ran, lost>>

-----------------------------------------------------------------------------
(* What else happens *)

Dies ==
    /\ run # Nothing
    /\ torn' = IF run.phase = "unpack" THEN torn \cup {run.at} ELSE torn
    /\ UNCHANGED <<machine, folder, scratch, ran, lost>>
    /\ End("died")

\* Somebody installs, replaces or removes a program.
MachineChanges ==
    /\ \E i \in Outside : \E m \in Programs(i) :
          /\ machine[i] # m
          /\ machine' = [machine EXCEPT ![i] = m]
          /\ lost' = IF m = "good" \/ run = Nothing THEN lost ELSE lost \cup {i}
    /\ UNCHANGED <<folder, scratch, run, runs, verdict, ran, torn, mixed>>

\* Somebody puts a file of theirs into the folder.
UserPuts ==
    /\ ~guests
    /\ guests' = TRUE
    /\ mixed' = TRUE
    /\ UNCHANGED <<machine, unpacked, app, record, broad, scratch, run, runs, verdict, ran,
                   lost, torn>>

Init ==
    /\ machine \in {f \in [Ids -> Machine] :
                      \A i \in Ids : f[i] \in IF i \in Outside THEN Programs(i) ELSE {"absent"}}
    /\ unpacked = [i \in Ids |-> EmptyZip]
    /\ app = FALSE
    /\ guests = FALSE
    /\ record = Nothing
    /\ broad \in BOOLEAN
    /\ scratch = "none"
    /\ run = Nothing
    /\ runs = 0
    /\ verdict = "none"
    /\ ran = {} /\ lost = {} /\ torn = {} /\ mixed = FALSE

\* The steps the code takes without waiting for anybody: every request has its timeout.
Work ==
    \/ Skip \/ NoDownload \/ AutoInstall \/ Fetch \/ FetchFails \/ Mismatch
    \/ OpenZip \/ OpenFails \/ CreateEntry \/ CopyEntry \/ UnpackStops \/ Unpacked
    \/ Execute \/ Recheck \/ PrereqsDone \/ Cancelled \/ AppFails \/ InstallApp

Next ==
    \/ Begin \/ Work \/ Executed \/ Uninstall
    \/ Dies \/ MachineChanges \/ UserPuts

Spec == Init /\ [][Next]_vars

-----------------------------------------------------------------------------
(* Properties *)

\* Nothing is run, and nothing lies in the folder, but bytes of the publisher's pin, whatever
\* the servers sent and at whatever prerequisite: "there is exactly one place a
\* prerequisite's bytes are verified" (prereq.rs).
OnlyPinnedBytes ==
    /\ ran \subseteq {"pinned"}
    /\ \A i \in Ids, k \in 1 .. Entries : unpacked[i][k] # "foreign"

\* When the application's turn comes every required prerequisite is there, in a version that
\* fits, but those somebody took away meanwhile: what an installer said does not count.
RequiredIsThere ==
    In("app") => \A i \in Ids : Prereqs[i].required => CheckIn(i) \/ i \in lost

\* After an installation that succeeded every required zip is there whole, but one that was
\* taken for installed by its check_file alone: its unpacking had stopped half-way once, or an
\* uninstall had passed over some of its files (main.rs:2348-2362), with the check_file among
\* those that stayed. Torn without it, it was unpacked again.
WholeUnlessTorn ==
    verdict = "ok" /\ run = Nothing
        => \A i \in Ids : Prereqs[i].required /\ Prereqs[i].check = "inside"
              => \/ \A k \in 1 .. Entries : unpacked[i][k] = "whole"
                 \/ i \in torn /\ unpacked[i][Prereqs[i].at] # "none"

\* An uninstall that passes over nothing takes the zips with it, which no record lists, unless
\* the folder is too broad to be taken whole (uninstall.rs:147) or was given files its record
\* does not know of: by its user, by a run that ended before its record, or by an uninstall
\* that left some and took the record.
UninstallTakesZips ==
    [][Uninstall /\ verdict' = "uninstalled"
          => mixed \/ broad \/ unpacked' = [i \in Ids |-> EmptyZip]]_vars
=============================================================================
