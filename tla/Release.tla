------------------------------- MODULE Release -------------------------------
(***************************************************************************)
(* A release on its publisher's disk: `bpkg pack`, `sign`, `build`,        *)
(* `update-manifest`, `resign-manifest` and `verify-manifest --setup` over *)
(* one installer.toml, one .bpkg, one setup and one update.json, and       *)
(* `install` and `extract` of that .bpkg.  Each command opens its files by *)
(* path, some of them more than once, and holds no lock: several run side  *)
(* by side, in any order, and each may fail or be killed between two steps.*)
(*                                                                         *)
(* A file is created first and filled then: in between, and when its       *)
(* writer stops there, it is Torn.  A reader that overlaps a writer gets   *)
(* what was there before or after, or Torn.  Signatures and SHA-256 are    *)
(* taken as unforgeable: a package says whose signature verifies over it,  *)
(* and its hash is the package.                                            *)
(***************************************************************************)
EXTENDS Integers, FiniteSets

CONSTANTS
    Configs, Versions, VersionOf,   \* texts of installer.toml; the version each one names
    Payloads,                       \* what the application's folder may hold
    Keys,                           \* publishers' key pairs
    Jobs,                           \* bound: commands at work side by side
    MaxCommands,                    \* bound: commands begun, and accidents
    Nobody, Nothing, Torn

ASSUME ConstantsAreSane ==
    /\ VersionOf \in [Configs -> Versions]
    /\ MaxCommands \in Nat
    /\ Nobody \notin Keys

Package == [version : Versions,
            lists : Payloads,               \* the payload its manifest has the hashes of
            payload : Payloads,
            signed : BOOLEAN,               \* FLAG_SIGNED
            by : Keys \cup {Nobody}]        \* whose signature verifies over these bytes
Setup == [config : Configs, package : Package \cup {Torn}]
Manifest == [by : Keys, version : Versions, config : Configs, package : Package \cup {Torn}]

ASSUME ValuesAreDistinct ==
    /\ Torn \notin Package \cup Setup \cup Manifest
    /\ Nothing \notin Package \cup Setup \cup Manifest \cup Configs \cup {Torn}

VARIABLES
    config,     \* installer.toml
    package, setup, manifest,
    job,        \* the command each process runs, Nothing when none
    commands,   \* how many were begun
    \* For the properties:
    signed,     \* what was signed with which key
    mixed       \* manifests whose package was replaced while they were made

vars == <<config, package, setup, manifest, job, commands, signed, mixed>>
files == <<config, package, setup, manifest>>
history == <<signed, mixed>>

Commands == {"pack", "sign", "build", "update-manifest", "resign-manifest",
             "verify-manifest", "install", "extract"}
Places == {"collect", "payload", "open", "verify", "config", "compare", "ok", "read", "land",
           "create", "fill"}

Job == [cmd : Commands, at : Places,
        key : Keys \cup {Nobody},               \* --key
        config : Configs \cup {Nothing},        \* installer.toml as it was read
        bytes : Package \cup {Torn, Nothing},   \* the .bpkg as fs::read gave it
        head : Package \cup {Nothing},          \* header and manifest, read by open
        kept : Package \cup {Nothing},          \* the bytes that verified
        payload : Payloads \cup {Nothing},      \* the archive, read for the files
        found : Setup \cup {Nothing},           \* what read_embedded found in the setup
        out : Package \cup Setup \cup Manifest \cup {Nothing}]  \* what it writes, or checks

TypeOK ==
    /\ config \in Configs
    /\ package \in Package \cup {Torn, Nothing}
    /\ setup \in Setup \cup {Torn, Nothing}
    /\ manifest \in Manifest \cup {Torn, Nothing}
    /\ job \in [Jobs -> Job \cup {Nothing}]
    /\ commands \in 0 .. MaxCommands
    /\ signed \subseteq [key : Keys, version : Versions, lists : Payloads, payload : Payloads]
    /\ mixed \subseteq Manifest

-----------------------------------------------------------------------------
(* A command begins, goes on, ends *)

Fresh(cmd, at, key) ==
    [cmd |-> cmd, at |-> at, key |-> key, config |-> Nothing, bytes |-> Nothing,
     head |-> Nothing, kept |-> Nothing, payload |-> Nothing,
     found |-> Nothing, out |-> Nothing]

Begin(j, b) ==
    /\ job[j] = Nothing
    /\ commands < MaxCommands
    /\ job' = [job EXCEPT ![j] = b]
    /\ commands' = commands + 1

At(j, place) == job[j] # Nothing /\ job[j].at = place
Go(j, b) == job' = [job EXCEPT ![j] = b] /\ UNCHANGED commands
Done(j) == job' = [job EXCEPT ![j] = Nothing] /\ UNCHANGED commands

\* Every refusal, read or write error, and the process killed: nothing is cleaned up.
Fails(j) ==
    /\ job[j] # Nothing
    /\ Done(j)
    /\ UNCHANGED <<files, history>>

-----------------------------------------------------------------------------
(* Reading a package *)

\* from_bytes, the lengths against the file's, the manifest's JSON.
OpenPackage(j) ==
    /\ At(j, "open")
    /\ package \in Package
    /\ Go(j, [job[j] EXCEPT !.head = package,
                            !.at = IF job[j].key = Nobody THEN "read" ELSE "verify"])
    /\ UNCHANGED <<files, history>>

\* The header and the manifest, which lists the files with their hashes.
Head(p) == [version |-> p.version, lists |-> p.lists, signed |-> p.signed]

AfterVerify(cmd) == IF cmd = "update-manifest" THEN "config" ELSE "read"

\* The whole file is read again; what verified is kept.
VerifySignature(j) ==
    /\ At(j, "verify")
    /\ job[j].head.signed
    /\ package \in Package
    /\ Head(package) = Head(job[j].head)
    /\ package.by = job[j].key
    /\ Go(j, [job[j] EXCEPT !.kept = package, !.at = AfterVerify(job[j].cmd)])
    /\ UNCHANGED <<files, history>>

ReadArchiveFromFile(j) ==
    /\ At(j, "read")
    /\ package \in Package
    /\ Go(j, [job[j] EXCEPT !.payload = package.payload, !.at = "land"])
    /\ UNCHANGED <<files, history>>

\* From the bytes that verified, whatever the path holds now; from the file without a key.
ReadArchive(j) ==
    /\ At(j, "read")
    /\ \/ /\ job[j].kept # Nothing
          /\ Go(j, [job[j] EXCEPT !.payload = job[j].kept.payload, !.at = "land"])
       \/ /\ job[j].kept = Nothing
          /\ package \in Package
          /\ Go(j, [job[j] EXCEPT !.payload = package.payload, !.at = "land"])
    /\ UNCHANGED <<files, history>>

-----------------------------------------------------------------------------
(* Writing a file *)

\* What the command writes becomes v.
Put(j, v) ==
    CASE job[j].cmd \in {"pack", "sign"} ->
            package' = v /\ UNCHANGED <<config, setup, manifest>>
      [] job[j].cmd = "build" ->
            setup' = v /\ UNCHANGED <<config, package, manifest>>
      [] OTHER ->
            manifest' = v /\ UNCHANGED <<config, package, setup>>

\* File::create, or fs::write's own.
Create(j) ==
    /\ At(j, "create")
    /\ Put(j, Torn)
    /\ Go(j, [job[j] EXCEPT !.at = "fill"])
    /\ UNCHANGED history

Fill(j) ==
    /\ At(j, "fill")
    /\ Put(j, job[j].out)
    /\ Done(j)
    /\ UNCHANGED history

-----------------------------------------------------------------------------
(* The publisher's commands *)

\* installer.toml is read, then the folder: one file after another, changing or not.
Pack(j) ==
    /\ Begin(j, [Fresh("pack", "collect", Nobody) EXCEPT !.config = config])
    /\ UNCHANGED <<files, history>>

PackFiles(j) ==
    /\ At(j, "collect")
    /\ \E p \in Payloads :
          Go(j, [job[j] EXCEPT !.at = "create",
                    !.out = [version |-> VersionOf[job[j].config], lists |-> p, payload |-> p,
                             signed |-> FALSE, by |-> Nobody]])
    /\ UNCHANGED <<files, history>>

\* A package is signed once, as it is: nothing looks into its payload.
Sign(j, k) ==
    /\ package \in Package
    /\ ~package.signed
    /\ LET p == [package EXCEPT !.signed = TRUE, !.by = k] IN
          /\ Begin(j, [Fresh("sign", "create", k) EXCEPT !.out = p])
          /\ signed' = signed \cup {[key |-> k, version |-> p.version, lists |-> p.lists,
                                     payload |-> p.payload]}
    /\ UNCHANGED <<files, mixed>>

\* installer.toml has to parse; the package is taken as bytes.
Build(j) ==
    /\ Begin(j, [Fresh("build", "payload", Nobody) EXCEPT !.config = config])
    /\ UNCHANGED <<files, history>>

Stamp(j) ==
    /\ At(j, "payload")
    /\ package # Nothing
    /\ Go(j, [job[j] EXCEPT !.at = "create",
                            !.out = [config |-> job[j].config, package |-> package]])
    /\ UNCHANGED <<files, history>>

\* The bytes the manifest names are read here, and the package is opened after that.
UpdateManifest(j, k) ==
    /\ package # Nothing
    /\ Begin(j, [Fresh("update-manifest", "open", k) EXCEPT !.bytes = package])
    /\ UNCHANGED <<files, history>>

Named(j) == [by |-> job[j].key, version |-> job[j].head.version, config |-> config,
             package |-> job[j].bytes]

NameAnyConfig(j) ==
    /\ At(j, "config")
    /\ Go(j, [job[j] EXCEPT !.at = "create", !.out = Named(j)])
    /\ mixed' = IF job[j].bytes = job[j].kept THEN mixed ELSE mixed \cup {Named(j)}
    /\ UNCHANGED <<files, signed>>

\* installer.toml has to be of the package's app and release.
NameConfig(j) ==
    /\ At(j, "config")
    /\ VersionOf[config] = job[j].head.version
    /\ Go(j, [job[j] EXCEPT !.at = "create", !.out = Named(j)])
    /\ mixed' = IF job[j].bytes = job[j].kept THEN mixed ELSE mixed \cup {Named(j)}
    /\ UNCHANGED <<files, signed>>

\* The same body under a later date: UpdateOffer has the dates.
ResignManifest(j, k) ==
    /\ manifest \in Manifest
    /\ manifest.by = k
    /\ Begin(j, [Fresh("resign-manifest", "create", k) EXCEPT !.out = manifest])
    /\ UNCHANGED <<files, history>>

VerifyManifest(j, k) ==
    /\ manifest \in Manifest
    /\ manifest.by = k
    /\ Begin(j, [Fresh("verify-manifest", "compare", k) EXCEPT !.out = manifest])
    /\ UNCHANGED <<files, history>>

CheckSetupConfig(j) ==
    /\ At(j, "compare")
    /\ setup \in Setup
    /\ setup.config = job[j].out.config
    /\ Go(j, [job[j] EXCEPT !.found = setup, !.at = "ok"])
    /\ UNCHANGED <<files, history>>

\* read_embedded finds no trailer in a torn setup.
CheckSetup(j) ==
    /\ At(j, "compare")
    /\ setup \in Setup
    /\ setup.config = job[j].out.config
    /\ setup.package = job[j].out.package
    /\ Go(j, [job[j] EXCEPT !.found = setup, !.at = "ok"])
    /\ UNCHANGED <<files, history>>

\* "OK": the setup carries exactly this release's installer.toml and package.
SayOk(j) ==
    /\ At(j, "ok")
    /\ Done(j)
    /\ UNCHANGED <<files, history>>

-----------------------------------------------------------------------------
(* Installing from the package *)

Install(j, cmd, k) ==
    /\ Begin(j, Fresh(cmd, "open", k))
    /\ UNCHANGED <<files, history>>

\* install_with_progress holds each file against its hash in the manifest; extract does not.
Land(j) ==
    /\ At(j, "land")
    /\ job[j].cmd = "install" => job[j].payload = job[j].head.lists
    /\ Done(j)
    /\ UNCHANGED <<files, history>>

-----------------------------------------------------------------------------
(* What else happens to the files *)

EditConfig ==
    /\ config' \in Configs \ {config}
    /\ UNCHANGED <<package, setup, manifest, job, commands, history>>

\* A bad disk, a transfer: the payload is another one, and no signature verifies.
Damage ==
    /\ package \in Package
    /\ commands < MaxCommands
    /\ \E p \in Payloads \ {package.payload} :
          package' = [package EXCEPT !.payload = p, !.by = Nobody]
    /\ commands' = commands + 1
    /\ UNCHANGED <<config, setup, manifest, job, history>>

-----------------------------------------------------------------------------

Init ==
    /\ config \in Configs
    /\ package = Nothing /\ setup = Nothing /\ manifest = Nothing
    /\ job = [j \in Jobs |-> Nothing]
    /\ commands = 0
    /\ signed = {} /\ mixed = {}

Starts(j) ==
    \/ Pack(j) \/ Build(j)
    \/ \E k \in Keys : \/ Sign(j, k) \/ UpdateManifest(j, k)
                       \/ ResignManifest(j, k) \/ VerifyManifest(j, k)
    \/ \E k \in Keys \cup {Nobody}, cmd \in {"install", "extract"} : Install(j, cmd, k)

Continues(j) ==
    \/ PackFiles(j) \/ Stamp(j)
    \/ OpenPackage(j) \/ VerifySignature(j) \/ ReadArchive(j)
    \/ NameConfig(j) \/ CheckSetup(j) \/ SayOk(j) \/ Land(j)
    \/ Create(j) \/ Fill(j)

Next ==
    \/ \E j \in Jobs : Starts(j) \/ Continues(j) \/ Fails(j)
    \/ EditConfig
    \/ Damage

Spec == Init /\ [][Next]_vars

-----------------------------------------------------------------------------
(* Properties *)

\* With --key, what install and extract write, and the version they show, were signed
\* together with that key, whatever became of the file between open, verify_signature and
\* the reading of the archive (Package::verified).
SignedIsInstalled ==
    \A j \in Jobs : (At(j, "land") /\ job[j].key # Nobody) =>
        [key |-> job[j].key, version |-> job[j].head.version, lists |-> job[j].head.lists,
         payload |-> job[j].payload] \in signed

\* A manifest and a setup that verify-manifest says OK of are of one release: the version
\* announced is the one the setup's installer.toml registers, even when other commands ran
\* between the two.
AcceptedAgrees ==
    \A j \in Jobs : At(j, "ok") =>
        VersionOf[job[j].found.config] = job[j].out.version

\* The setup's package is whole, carries the version announced and the signature of the key
\* that vouches for it: clients that pin the key install it. The exception is a package that
\* is replaced between the two times update-manifest reads it.
AcceptedIsSigned ==
    \A j \in Jobs : (At(j, "ok") /\ job[j].out \notin mixed) =>
        LET p == job[j].found.package IN
        /\ p \in Package
        /\ p.version = job[j].out.version
        /\ [key |-> job[j].key, version |-> p.version, lists |-> p.lists,
            payload |-> p.payload] \in signed
=============================================================================
