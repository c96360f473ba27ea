---------------------------- MODULE ReleaseProofs ----------------------------
(***************************************************************************)
(* Release for any number of commands at work, keys, versions and          *)
(* payloads.  The argument: a signature that verifies was made over these  *)
(* bytes; what a command keeps verified, is of the head it opened and is   *)
(* what it reads on from; and a manifest names the version of the config   *)
(* it hashes and of the package it kept, which is the one whose bytes it   *)
(* names unless the file was replaced in between.                          *)
(***************************************************************************)
EXTENDS Release, TLAPS

Signed(k, p) == [key |-> k, version |-> p.version, lists |-> p.lists, payload |-> p.payload]

\* Who signs a package signed it.
Backed(p, s) == (p \in Package /\ p.by # Nobody) => Signed(p.by, p) \in s

\* What a manifest promises.
Honest(m, s, x) ==
    /\ VersionOf[m.config] = m.version
    /\ m \notin x => /\ m.package \in Package
                     /\ m.package.version = m.version
                     /\ Signed(m.by, m.package) \in s

PlacesOf ==
    [cmd \in Commands |->
        CASE cmd = "pack" -> {"collect", "create", "fill"}
          [] cmd = "build" -> {"payload", "create", "fill"}
          [] cmd \in {"sign", "resign-manifest"} -> {"create", "fill"}
          [] cmd = "update-manifest" -> {"open", "verify", "config", "create", "fill"}
          [] cmd = "verify-manifest" -> {"compare", "ok"}
          [] OTHER -> {"open", "verify", "read", "land"}]

\* The job has what its place needs.
HasInputs(b) ==
    /\ b.at \in PlacesOf[b.cmd]
    /\ b.cmd \in {"sign", "update-manifest", "resign-manifest", "verify-manifest"} =>
          b.key \in Keys
    /\ b.at \in {"collect", "payload"} => b.config \in Configs
    /\ b.at \in {"verify", "config", "read", "land"} => b.head \in Package
    /\ b.at = "verify" => b.key \in Keys
    /\ b.at = "open" => b.kept = Nothing
    /\ b.cmd = "update-manifest" => b.bytes # Nothing
    /\ (b.at = "config" \/ (b.at \in {"read", "land"} /\ b.key # Nobody)) => b.kept # Nothing

\* What it kept is what it opened, and signed.
KeptIsSigned(b, s) ==
    b.kept # Nothing =>
        /\ b.key \in Keys
        /\ b.kept.version = b.head.version
        /\ b.kept.lists = b.head.lists
        /\ Signed(b.key, b.kept) \in s
        /\ b.at = "land" => b.payload = b.kept.payload

\* What it is about to write, or checks, is of its kind and true.
OutIsTrue(b, s, x) ==
    /\ (b.at \in {"create", "fill"} /\ b.cmd \in {"pack", "sign"}) =>
          b.out \in Package /\ Backed(b.out, s)
    /\ (b.at \in {"create", "fill"} /\ b.cmd = "build") => b.out \in Setup
    /\ (b.at \in {"create", "fill", "compare", "ok"}
          /\ b.cmd \in {"update-manifest", "resign-manifest", "verify-manifest"}) =>
          b.out \in Manifest /\ b.out.by = b.key /\ Honest(b.out, s, x)
    /\ b.at = "ok" => /\ b.found \in Setup
                      /\ b.found.config = b.out.config
                      /\ b.found.package = b.out.package

JobOk(b, s, x) == /\ b \in Job
                  /\ HasInputs(b)
                  /\ KeptIsSigned(b, s)
                  /\ OutIsTrue(b, s, x)

JobsOk == \A j \in Jobs : job[j] = Nothing \/ JobOk(job[j], signed, mixed)
PackageOk == Backed(package, signed)
ManifestOk == manifest \in Manifest => Honest(manifest, signed, mixed)

IInv == TypeOK /\ JobsOk /\ PackageOk /\ ManifestOk

-----------------------------------------------------------------------------
(* Lemmas *)

LEMMA Distinct ==
    /\ Torn \notin Package /\ Torn \notin Setup /\ Torn \notin Manifest
    /\ Nothing \notin Package /\ Nothing \notin Setup /\ Nothing \notin Manifest
    /\ Nothing # Torn /\ Nothing \notin Configs
    /\ Nobody \notin Keys
    /\ VersionOf \in [Configs -> Versions]
PROOF BY ConstantsAreSane, ValuesAreDistinct

\* What was signed and what is excepted only grow.
LEMMA StillOk ==
    ASSUME NEW s, NEW s2, s \subseteq s2, NEW x, NEW x2, x \subseteq x2, NEW b, JobOk(b, s, x)
    PROVE  JobOk(b, s2, x2)
PROOF
  <1>1. KeptIsSigned(b, s2)
    BY DEF JobOk, KeptIsSigned
  <1>2. OutIsTrue(b, s2, x2)
    BY DEF JobOk, OutIsTrue, Backed, Honest
  <1> QED BY <1>1, <1>2 DEF JobOk

\* One job changes.
LEMMA OneJob ==
    ASSUME IInv, NEW j \in Jobs, NEW b,
           job' = [job EXCEPT ![j] = b],
           signed \subseteq signed', mixed \subseteq mixed',
           b = Nothing \/ JobOk(b, signed', mixed')
    PROVE  JobsOk' /\ job' \in [Jobs -> Job \cup {Nothing}]
PROOF
  <1>1. job \in [Jobs -> Job \cup {Nothing}]
    BY DEF IInv, TypeOK
  <1>2. b \in Job \cup {Nothing}
    BY DEF JobOk
  <1>3. \A i \in Jobs : job'[i] = IF i = j THEN b ELSE job[i]
    BY <1>1
  <1>4. ASSUME NEW i \in Jobs, i # j PROVE job[i] = Nothing \/ JobOk(job[i], signed', mixed')
    BY <1>4, StillOk DEF IInv, JobsOk
  <1>5. \A i \in Jobs : job'[i] = Nothing \/ JobOk(job'[i], signed', mixed')
    BY <1>3, <1>4
  <1> QED BY <1>1, <1>2, <1>5 DEF JobsOk

\* A step that leaves the files alone, and one job with it.
LEMMA FilesStand ==
    ASSUME IInv, UNCHANGED <<files>>, UNCHANGED signed, mixed \subseteq mixed'
    PROVE  PackageOk' /\ ManifestOk'
PROOF BY DEF IInv, files, PackageOk, ManifestOk, Honest, Backed

LEMMA JobTypes ==
    ASSUME IInv, NEW j \in Jobs, job[j] # Nothing
    PROVE  job[j] \in Job /\ JobOk(job[j], signed, mixed)
PROOF BY DEF IInv, JobsOk, JobOk

LEMMA InitInv == Init => IInv
PROOF
  <1> SUFFICES ASSUME Init PROVE IInv
    OBVIOUS
  <1>1. TypeOK
    BY Distinct, ConstantsAreSane DEF Init, TypeOK
  <1>2. JobsOk
    BY DEF Init, JobsOk
  <1>3. PackageOk /\ ManifestOk
    BY Distinct DEF Init, PackageOk, ManifestOk, Backed
  <1> QED BY <1>1, <1>2, <1>3 DEF IInv

-----------------------------------------------------------------------------
(* A command begins *)

LEMMA FreshIsJob ==
    ASSUME NEW cmd \in Commands, NEW at \in Places, NEW k \in Keys \cup {Nobody}
    PROVE  Fresh(cmd, at, k) \in Job
PROOF BY DEF Fresh, Job

\* A step that only begins a command.
LEMMA Begins ==
    ASSUME IInv, NEW j \in Jobs, NEW b, Begin(j, b), UNCHANGED <<files, mixed>>,
           signed \subseteq signed',
           signed' \subseteq [key : Keys, version : Versions, lists : Payloads,
                             payload : Payloads],
           JobOk(b, signed', mixed)
    PROVE  IInv'
PROOF
  <1>1. job' = [job EXCEPT ![j] = b] /\ commands < MaxCommands /\ commands' = commands + 1
    BY DEF Begin
  <1>2. JobsOk' /\ job' \in [Jobs -> Job \cup {Nothing}]
    BY <1>1, OneJob
  <1>3. commands' \in 0 .. MaxCommands
    BY <1>1, ConstantsAreSane DEF IInv, TypeOK
  <1>4. TypeOK'
    BY <1>2, <1>3 DEF IInv, TypeOK, files
  <1>5. PackageOk' /\ ManifestOk'
    BY DEF IInv, files, PackageOk, ManifestOk, Honest, Backed
  <1> QED BY <1>2, <1>4, <1>5 DEF IInv

\* A step that only takes a command on.
LEMMA GoesOn ==
    ASSUME IInv, NEW j \in Jobs, NEW b, Go(j, b), UNCHANGED <<files, history>>,
           b = Nothing \/ JobOk(b, signed, mixed)
    PROVE  IInv'
PROOF
  <1>1. job' = [job EXCEPT ![j] = b] /\ commands' = commands
    BY DEF Go
  <1>2. JobsOk' /\ job' \in [Jobs -> Job \cup {Nothing}]
    BY <1>1, OneJob DEF history
  <1>3. TypeOK'
    BY <1>1, <1>2 DEF IInv, TypeOK, files, history
  <1>4. PackageOk' /\ ManifestOk'
    BY FilesStand DEF history
  <1> QED BY <1>2, <1>3, <1>4 DEF IInv

LEMMA DoneGoesOn == \A j \in Jobs : Done(j) <=> Go(j, Nothing)
PROOF BY DEF Done, Go

-----------------------------------------------------------------------------
(* Every step keeps the invariant *)

LEMMA StartsKeep ==
    ASSUME IInv, NEW j \in Jobs, Starts(j)
    PROVE  IInv'
PROOF
  <1> USE Distinct
  <1>1. signed \subseteq [key : Keys, version : Versions, lists : Payloads,
                         payload : Payloads]
    BY DEF IInv, TypeOK
  <1>2. CASE Pack(j)
    <2> DEFINE b == [Fresh("pack", "collect", Nobody) EXCEPT !.config = config]
    <2>1. b \in Job
      BY DEF Fresh, Job, Commands, Places, IInv, TypeOK
    <2>2. JobOk(b, signed, mixed)
      BY <2>1 DEF JobOk, HasInputs, PlacesOf, KeptIsSigned, OutIsTrue, Fresh, Commands,
                  IInv, TypeOK
    <2> QED BY <1>1, <1>2, <2>2, Begins DEF Pack, history
  <1>3. CASE Build(j)
    <2> DEFINE b == [Fresh("build", "payload", Nobody) EXCEPT !.config = config]
    <2>1. b \in Job
      BY DEF Fresh, Job, Commands, Places, IInv, TypeOK
    <2>2. JobOk(b, signed, mixed)
      BY <2>1 DEF JobOk, HasInputs, PlacesOf, KeptIsSigned, OutIsTrue, Fresh, Commands,
                  IInv, TypeOK
    <2> QED BY <1>1, <1>3, <2>2, Begins DEF Build, history
  <1>4. ASSUME NEW k \in Keys, Sign(j, k) PROVE IInv'
    <2> DEFINE p == [package EXCEPT !.signed = TRUE, !.by = k]
               b == [Fresh("sign", "create", k) EXCEPT !.out = p]
    <2>1. p \in Package /\ p.by = k /\ signed' = signed \cup {Signed(k, p)}
          /\ Begin(j, b) /\ UNCHANGED <<files, mixed>>
      BY <1>4 DEF Sign, Package, Signed
    <2>2. b \in Job
      BY <2>1 DEF Fresh, Job, Commands, Places
    <2>3. Signed(k, p) \in [key : Keys, version : Versions, lists : Payloads,
                           payload : Payloads]
      BY <2>1 DEF Signed, Package
    <2>4. JobOk(b, signed', mixed)
      <3>1. HasInputs(b)
        BY <2>2 DEF HasInputs, PlacesOf, Fresh, Commands
      <3>2. KeptIsSigned(b, signed')
        BY <2>2 DEF KeptIsSigned, Fresh
      <3>3. b.out = p /\ b.cmd = "sign" /\ b.at = "create"
        BY DEF Fresh
      <3>4. Backed(p, signed')
        BY <2>1 DEF Backed
      <3>5. OutIsTrue(b, signed', mixed)
        BY <3>3, <3>4, <2>1 DEF OutIsTrue
      <3> QED BY <2>2, <3>1, <3>2, <3>5 DEF JobOk
    <2> HIDE DEF p, b
    <2> QED BY <1>1, <2>1, <2>3, <2>4, Begins
  <1>5. ASSUME NEW k \in Keys, UpdateManifest(j, k) PROVE IInv'
    <2> DEFINE b == [Fresh("update-manifest", "open", k) EXCEPT !.bytes = package]
    <2>1. b \in Job
      BY <1>5 DEF Fresh, Job, Commands, Places, IInv, TypeOK
    <2>2. JobOk(b, signed, mixed)
      BY <1>5, <2>1 DEF UpdateManifest, JobOk, HasInputs, PlacesOf, KeptIsSigned, OutIsTrue,
                        Fresh, Commands
    <2> QED BY <1>1, <1>5, <2>2, Begins DEF UpdateManifest, history
  <1>6. ASSUME NEW k \in Keys, ResignManifest(j, k) PROVE IInv'
    <2> DEFINE b == [Fresh("resign-manifest", "create", k) EXCEPT !.out = manifest]
    <2>1. b \in Job
      BY <1>6 DEF ResignManifest, Fresh, Job, Commands, Places
    <2>2. manifest \in Manifest /\ manifest.by = k /\ Honest(manifest, signed, mixed)
      BY <1>6 DEF ResignManifest, IInv, ManifestOk
    <2>3. JobOk(b, signed, mixed)
      BY <2>1, <2>2 DEF JobOk, HasInputs, PlacesOf, KeptIsSigned, OutIsTrue, Fresh, Commands
    <2> QED BY <1>1, <1>6, <2>3, Begins DEF ResignManifest, history
  <1>7. ASSUME NEW k \in Keys, VerifyManifest(j, k) PROVE IInv'
    <2> DEFINE b == [Fresh("verify-manifest", "compare", k) EXCEPT !.out = manifest]
    <2>1. b \in Job
      BY <1>7 DEF VerifyManifest, Fresh, Job, Commands, Places
    <2>2. manifest \in Manifest /\ manifest.by = k /\ Honest(manifest, signed, mixed)
      BY <1>7 DEF VerifyManifest, IInv, ManifestOk
    <2>3. JobOk(b, signed, mixed)
      BY <2>1, <2>2 DEF JobOk, HasInputs, PlacesOf, KeptIsSigned, OutIsTrue, Fresh, Commands
    <2> QED BY <1>1, <1>7, <2>3, Begins DEF VerifyManifest, history
  <1>8. ASSUME NEW k \in Keys \cup {Nobody}, NEW cmd \in {"install", "extract"},
               Install(j, cmd, k)
        PROVE IInv'
    <2>1. Fresh(cmd, "open", k) \in Job
      BY FreshIsJob DEF Commands, Places
    <2>2. JobOk(Fresh(cmd, "open", k), signed, mixed)
      BY <2>1 DEF JobOk, HasInputs, PlacesOf, KeptIsSigned, OutIsTrue, Fresh, Commands
    <2> QED BY <1>1, <1>8, <2>2, Begins DEF Install, history
  <1> QED BY <1>2, <1>3, <1>4, <1>5, <1>6, <1>7, <1>8 DEF Starts

\* A file is written: what lands in it is Torn or what the command has to write.
LEMMA Puts ==
    ASSUME IInv, NEW j \in Jobs, job[j] # Nothing, job[j].at \in {"create", "fill"},
           NEW v, v = Torn \/ v = job[j].out, Put(j, v), NEW b, Go(j, b), UNCHANGED history,
           b = Nothing \/ JobOk(b, signed, mixed)
    PROVE  IInv'
PROOF
  <1> USE Distinct
  <1>1. JobOk(job[j], signed, mixed)
    BY JobTypes
  <1>2. job' = [job EXCEPT ![j] = b] /\ commands' = commands
        /\ signed' = signed /\ mixed' = mixed
    BY DEF Go, history
  <1>3. JobsOk' /\ job' \in [Jobs -> Job \cup {Nothing}]
    BY <1>2, OneJob
  <1>4. CASE job[j].cmd \in {"pack", "sign"}
    <2>1. package' = v /\ config' = config /\ setup' = setup /\ manifest' = manifest
      BY <1>4 DEF Put
    <2>2. package' = Torn \/ (package' \in Package /\ Backed(package', signed))
      BY <1>1, <1>4, <2>1 DEF JobOk, OutIsTrue
    <2>3. TypeOK'
      BY <1>2, <1>3, <2>1, <2>2 DEF IInv, TypeOK
    <2>4. PackageOk' /\ ManifestOk'
      BY <1>2, <2>1, <2>2 DEF IInv, PackageOk, ManifestOk, Honest, Backed
    <2> QED BY <1>3, <2>3, <2>4 DEF IInv
  <1>5. CASE job[j].cmd = "build"
    <2>1. setup' = v /\ config' = config /\ package' = package /\ manifest' = manifest
      BY <1>5 DEF Put
    <2>2. setup' \in Setup \cup {Torn, Nothing}
      BY <1>1, <1>5, <2>1 DEF JobOk, OutIsTrue
    <2>3. TypeOK'
      BY <1>2, <1>3, <2>1, <2>2 DEF IInv, TypeOK
    <2>4. PackageOk' /\ ManifestOk'
      BY <1>2, <2>1 DEF IInv, PackageOk, ManifestOk, Honest, Backed
    <2> QED BY <1>3, <2>3, <2>4 DEF IInv
  <1>6. CASE job[j].cmd \notin {"pack", "sign", "build"}
    <2>1. manifest' = v /\ config' = config /\ package' = package /\ setup' = setup
      BY <1>6 DEF Put
    <2>2. job[j].cmd \in {"update-manifest", "resign-manifest"}
      BY <1>1, <1>6 DEF JobOk, HasInputs, PlacesOf, Job, Commands
    <2>3. manifest' = Torn \/ (manifest' \in Manifest /\ Honest(manifest', signed, mixed))
      BY <1>1, <2>1, <2>2 DEF JobOk, OutIsTrue
    <2>4. TypeOK'
      BY <1>2, <1>3, <2>1, <2>3 DEF IInv, TypeOK
    <2>5. PackageOk' /\ ManifestOk'
      BY <1>2, <2>1, <2>3 DEF IInv, PackageOk, ManifestOk, Honest, Backed
    <2> QED BY <1>3, <2>4, <2>5 DEF IInv
  <1> QED BY <1>4, <1>5, <1>6

\* A job stays a job when one of its fields is given a value of its kind.
LEMMA JobEdits ==
    ASSUME NEW r \in Job, NEW place \in Places
    PROVE  /\ [r EXCEPT !.at = place] \in Job
           /\ \A o \in Package : [r EXCEPT !.at = place, !.out = o] \in Job
           /\ \A o \in Setup : [r EXCEPT !.at = place, !.out = o] \in Job
           /\ \A o \in Manifest : [r EXCEPT !.at = place, !.out = o] \in Job
           /\ \A h \in Package : [r EXCEPT !.head = h, !.at = place] \in Job
           /\ \A k \in Package : [r EXCEPT !.kept = k, !.at = place] \in Job
           /\ \A p \in Payloads : [r EXCEPT !.payload = p, !.at = place] \in Job
           /\ \A f \in Setup : [r EXCEPT !.found = f, !.at = place] \in Job
PROOF
  <1>1. [r EXCEPT !.at = place] \in Job
    BY DEF Job
  <1>2. \A o \in Package : [r EXCEPT !.at = place, !.out = o] \in Job
    BY DEF Job
  <1>3. \A o \in Setup : [r EXCEPT !.at = place, !.out = o] \in Job
    BY DEF Job
  <1>4. \A o \in Manifest : [r EXCEPT !.at = place, !.out = o] \in Job
    BY DEF Job
  <1>5. \A h \in Package : [r EXCEPT !.head = h, !.at = place] \in Job
    BY DEF Job
  <1>6. \A k \in Package : [r EXCEPT !.kept = k, !.at = place] \in Job
    BY DEF Job
  <1>7. \A p \in Payloads : [r EXCEPT !.payload = p, !.at = place] \in Job
    BY DEF Job
  <1>8. \A f \in Setup : [r EXCEPT !.found = f, !.at = place] \in Job
    BY DEF Job
  <1> QED BY <1>1, <1>2, <1>3, <1>4, <1>5, <1>6, <1>7, <1>8, Zenon

LEMMA ContinuesKeep ==
    ASSUME IInv, NEW j \in Jobs, Continues(j)
    PROVE  IInv'
PROOF
  <1> USE Distinct
  <1>0. ASSUME job[j] # Nothing
        PROVE  job[j] \in Job /\ HasInputs(job[j]) /\ KeptIsSigned(job[j], signed)
               /\ OutIsTrue(job[j], signed, mixed)
    BY <1>0, JobTypes DEF JobOk
  <1>1. CASE PackFiles(j)
    <2>1. PICK p \in Payloads :
            Go(j, [job[j] EXCEPT !.at = "create",
                      !.out = [version |-> VersionOf[job[j].config], lists |-> p,
                               payload |-> p, signed |-> FALSE, by |-> Nobody]])
      BY <1>1 DEF PackFiles
    <2> DEFINE q == [version |-> VersionOf[job[j].config], lists |-> p,
                     payload |-> p, signed |-> FALSE, by |-> Nobody]
               b == [job[j] EXCEPT !.at = "create", !.out = q]
    <2>2. job[j] # Nothing /\ job[j].at = "collect"
      BY <1>1 DEF PackFiles, At
    <2>3. job[j].cmd = "pack" /\ job[j].config \in Configs
      BY <1>0, <2>2 DEF HasInputs, PlacesOf, Job, Commands
    <2>4. q \in Package /\ Backed(q, signed)
      BY <2>3 DEF Package, Backed
    <2> HIDE DEF q
    <2>5. b \in Job /\ b.at = "create" /\ b.cmd = "pack" /\ b.out = q /\ b.kept = job[j].kept
          /\ b.key = job[j].key /\ b.head = job[j].head /\ b.bytes = job[j].bytes
      <3>1. "create" \in Places
        BY DEF Places
      <3>2. b \in Job
        BY <1>0, <2>2, <2>4, <3>1, JobEdits
      <3> QED BY <1>0, <2>2, <2>3, <3>2 DEF Job
    <2>6. JobOk(b, signed, mixed)
      BY <1>0, <2>2, <2>4, <2>5 DEF JobOk, HasInputs, PlacesOf, KeptIsSigned, OutIsTrue, Commands
    <2> QED BY <1>1, <2>1, <2>6, GoesOn DEF PackFiles, q
  <1>2. CASE Stamp(j)
    <2> DEFINE q == [config |-> job[j].config, package |-> package]
               b == [job[j] EXCEPT !.at = "create", !.out = q]
    <2>2. job[j] # Nothing /\ job[j].at = "payload" /\ package # Nothing
      BY <1>2 DEF Stamp, At
    <2>3. job[j].cmd = "build" /\ job[j].config \in Configs
      BY <1>0, <2>2 DEF HasInputs, PlacesOf, Job, Commands
    <2>4. q \in Setup
      BY <2>2, <2>3 DEF Setup, IInv, TypeOK
    <2> HIDE DEF q
    <2>5. b \in Job /\ b.at = "create" /\ b.cmd = "build" /\ b.out = q /\ b.kept = job[j].kept
          /\ b.key = job[j].key /\ b.head = job[j].head /\ b.bytes = job[j].bytes
      <3>1. "create" \in Places
        BY DEF Places
      <3>2. b \in Job
        BY <1>0, <2>2, <2>4, <3>1, JobEdits
      <3> QED BY <1>0, <2>2, <2>3, <3>2 DEF Job
    <2>6. JobOk(b, signed, mixed)
      BY <1>0, <2>2, <2>4, <2>5 DEF JobOk, HasInputs, PlacesOf, KeptIsSigned, OutIsTrue, Commands
    <2> QED BY <1>2, <2>6, GoesOn DEF Stamp, q
  <1>3. CASE OpenPackage(j)
    <2> DEFINE b == [job[j] EXCEPT !.head = package,
                                   !.at = IF job[j].key = Nobody THEN "read" ELSE "verify"]
    <2>2. job[j] # Nothing /\ job[j].at = "open" /\ package \in Package /\ Go(j, b)
          /\ UNCHANGED <<files, history>>
      BY <1>3 DEF OpenPackage, At
    <2>3. job[j].cmd \in {"update-manifest", "install", "extract"}
      BY <1>0, <2>2 DEF HasInputs, PlacesOf, Job, Commands
    <2>4. b \in Job /\ b.cmd = job[j].cmd /\ b.kept = job[j].kept /\ b.head = package
          /\ b.key = job[j].key /\ b.bytes = job[j].bytes
          /\ (b.key = Nobody => b.at = "read") /\ (b.key # Nobody => b.at = "verify")
      <3>1. (IF job[j].key = Nobody THEN "read" ELSE "verify") \in Places
        BY DEF Places
      <3>2. b \in Job
        BY <1>0, <2>2, <3>1, JobEdits
      <3> QED BY <1>0, <2>2, <3>2 DEF Job
    <2>5. b.kept = Nothing
      BY <1>0, <2>2, <2>4 DEF HasInputs
    <2> HIDE DEF b
    <2>6. b.at \in {"read", "verify"} /\ (b.cmd = "update-manifest" => b.at = "verify")
          /\ b.key \in Keys \cup {Nobody} /\ (b.cmd = "update-manifest" => b.bytes # Nothing)
          /\ (b.cmd = "update-manifest" => b.key \in Keys)
      BY <1>0, <2>2, <2>3, <2>4 DEF HasInputs, Job
    <2>7. HasInputs(b)
      BY <2>2, <2>3, <2>4, <2>5, <2>6 DEF HasInputs, PlacesOf, Commands
    <2>8. KeptIsSigned(b, signed) /\ OutIsTrue(b, signed, mixed)
      BY <2>5, <2>6 DEF KeptIsSigned, OutIsTrue
    <2> QED BY <2>2, <2>4, <2>7, <2>8, GoesOn DEF JobOk
  <1>4. CASE VerifySignature(j)
    <2> DEFINE b == [job[j] EXCEPT !.kept = package, !.at = AfterVerify(job[j].cmd)]
    <2>2. job[j] # Nothing /\ job[j].at = "verify" /\ package \in Package /\ Go(j, b)
          /\ UNCHANGED <<files, history>> /\ package.by = job[j].key
          /\ Head(package) = Head(job[j].head)
      BY <1>4 DEF VerifySignature, At
    <2>3. /\ job[j].cmd \in {"update-manifest", "install", "extract"}
          /\ job[j].key \in Keys /\ job[j].head \in Package
      BY <1>0, <2>2 DEF HasInputs, PlacesOf, Job, Commands
    <2>4. b \in Job /\ b.cmd = job[j].cmd /\ b.kept = package /\ b.head = job[j].head
          /\ b.key = job[j].key /\ b.bytes = job[j].bytes
          /\ b.at = AfterVerify(b.cmd)
      <3>1. AfterVerify(job[j].cmd) \in Places
        BY DEF AfterVerify, Places
      <3> HIDE DEF AfterVerify
      <3>2. b \in Job
        BY <1>0, <2>2, <3>1, JobEdits
      <3> QED BY <1>0, <2>2, <3>2 DEF Job
    <2>5. b.kept.version = b.head.version /\ b.kept.lists = b.head.lists
      BY <2>2, <2>4 DEF Head
    <2>6. Signed(b.key, b.kept) \in signed
      BY <2>2, <2>3, <2>4 DEF IInv, PackageOk, Backed
    <2>7. HasInputs(b)
      BY <1>0, <2>2, <2>3, <2>4 DEF HasInputs, PlacesOf, Commands, AfterVerify
    <2>8. KeptIsSigned(b, signed)
      BY <2>3, <2>4, <2>5, <2>6 DEF KeptIsSigned, AfterVerify
    <2>9. OutIsTrue(b, signed, mixed)
      BY <2>4 DEF OutIsTrue, AfterVerify
    <2>10. JobOk(b, signed, mixed)
      BY <2>4, <2>7, <2>8, <2>9 DEF JobOk
    <2> HIDE DEF b
    <2> QED BY <2>2, <2>10, GoesOn
  <1>5. CASE ReadArchive(j)
    <2>1. PICK p \in Payloads :
             /\ Go(j, [job[j] EXCEPT !.payload = p, !.at = "land"])
             /\ job[j].kept # Nothing => p = job[j].kept.payload
      <3>1. job[j].kept # Nothing => job[j].kept.payload \in Payloads
        BY <1>0, <1>5 DEF ReadArchive, At, Job, Package
      <3>2. package \in Package => package.payload \in Payloads
        BY DEF Package
      <3> QED BY <1>5, <3>1, <3>2 DEF ReadArchive
    <2> DEFINE b == [job[j] EXCEPT !.payload = p, !.at = "land"]
    <2>2. job[j] # Nothing /\ job[j].at = "read" /\ UNCHANGED <<files, history>>
      BY <1>5 DEF ReadArchive, At
    <2>3. job[j].cmd \in {"install", "extract"} /\ job[j].head \in Package
      BY <1>0, <2>2 DEF HasInputs, PlacesOf, Job, Commands
    <2>4. b \in Job /\ b.cmd = job[j].cmd /\ b.kept = job[j].kept /\ b.head = job[j].head
          /\ b.key = job[j].key /\ b.payload = p /\ b.at = "land"
      <3>1. "land" \in Places
        BY DEF Places
      <3>2. b \in Job
        BY <1>0, <2>2, <3>1, JobEdits
      <3> QED BY <1>0, <2>2, <3>2 DEF Job
    <2>5. HasInputs(b)
      BY <1>0, <2>2, <2>3, <2>4 DEF HasInputs, PlacesOf, Commands
    <2>6. KeptIsSigned(b, signed)
      BY <1>0, <2>1, <2>2, <2>4 DEF KeptIsSigned
    <2>7. OutIsTrue(b, signed, mixed)
      BY <2>3, <2>4 DEF OutIsTrue
    <2>8. JobOk(b, signed, mixed)
      BY <2>4, <2>5, <2>6, <2>7 DEF JobOk
    <2>9. Go(j, b)
      BY <2>1
    <2> HIDE DEF b
    <2> QED BY <2>2, <2>8, <2>9, GoesOn
  <1>6. CASE NameConfig(j)
    <2> DEFINE b == [job[j] EXCEPT !.at = "create", !.out = Named(j)]
    <2>1. job[j] # Nothing /\ job[j].at = "config" /\ Go(j, b) /\ UNCHANGED <<files, signed>>
          /\ VersionOf[config] = job[j].head.version
          /\ mixed' = IF job[j].bytes = job[j].kept THEN mixed ELSE mixed \cup {Named(j)}
      BY <1>6 DEF NameConfig, At
    <2>2. /\ job[j].cmd = "update-manifest" /\ job[j].key \in Keys
          /\ job[j].head \in Package /\ job[j].bytes \in Package \cup {Torn}
          /\ job[j].kept # Nothing /\ job[j].kept \in Package
      BY <1>0, <2>1 DEF HasInputs, PlacesOf, Job, Commands
    <2>3. /\ Named(j) \in Manifest /\ Named(j).by = job[j].key /\ Named(j).config = config
          /\ Named(j).version = job[j].head.version /\ Named(j).package = job[j].bytes
      BY <2>2 DEF Named, Manifest, Package, IInv, TypeOK
    <2>4. Honest(Named(j), signed, mixed')
      <3>1. CASE job[j].bytes = job[j].kept
        <4>1. /\ job[j].kept.version = job[j].head.version
              /\ Signed(job[j].key, job[j].kept) \in signed
          BY <1>0, <2>1, <2>2 DEF KeptIsSigned
        <4> QED BY <2>1, <2>2, <2>3, <3>1, <4>1 DEF Honest
      <3>2. CASE job[j].bytes # job[j].kept
        BY <2>1, <2>3, <3>2 DEF Honest
      <3> QED BY <3>1, <3>2
    <2>5. b \in Job /\ b.cmd = "update-manifest" /\ b.kept = job[j].kept
          /\ b.head = job[j].head /\ b.key = job[j].key /\ b.out = Named(j)
          /\ b.at = "create" /\ b.bytes = job[j].bytes
      <3>1. "create" \in Places
        BY DEF Places
      <3>2. b \in Job
        BY <1>0, <2>1, <2>3, <3>1, JobEdits
      <3> QED BY <1>0, <2>1, <2>2, <3>2 DEF Job
    <2> HIDE DEF b
    <2>6. HasInputs(b)
      BY <2>2, <2>5 DEF HasInputs, PlacesOf, Commands
    <2>7. KeptIsSigned(b, signed)
      BY <1>0, <2>1, <2>5 DEF KeptIsSigned
    <2>8. OutIsTrue(b, signed, mixed')
      BY <2>3, <2>4, <2>5 DEF OutIsTrue
    <2>9. JobOk(b, signed', mixed')
      BY <2>1, <2>5, <2>6, <2>7, <2>8 DEF JobOk
    <2>10. job' = [job EXCEPT ![j] = b] /\ commands' = commands /\ mixed \subseteq mixed'
           /\ mixed' \subseteq Manifest
      BY <2>1, <2>3 DEF Go, IInv, TypeOK
    <2>11. JobsOk' /\ job' \in [Jobs -> Job \cup {Nothing}]
      BY <2>1, <2>9, <2>10, OneJob
    <2>12. TypeOK'
      BY <2>1, <2>10, <2>11 DEF IInv, TypeOK, files
    <2>13. PackageOk' /\ ManifestOk'
      BY <2>1, <2>10, FilesStand
    <2> QED BY <2>11, <2>12, <2>13 DEF IInv
  <1>7. CASE CheckSetup(j)
    <2> DEFINE b == [job[j] EXCEPT !.found = setup, !.at = "ok"]
    <2>1. job[j] # Nothing /\ job[j].at = "compare" /\ Go(j, b) /\ UNCHANGED <<files, history>>
          /\ setup \in Setup /\ setup.config = job[j].out.config
          /\ setup.package = job[j].out.package
      BY <1>7 DEF CheckSetup, At
    <2>2. job[j].cmd = "verify-manifest"
      BY <1>0, <2>1 DEF HasInputs, PlacesOf, Job, Commands
    <2>3. b \in Job /\ b.cmd = job[j].cmd /\ b.kept = job[j].kept /\ b.head = job[j].head
          /\ b.key = job[j].key /\ b.out = job[j].out /\ b.at = "ok" /\ b.found = setup
          /\ b.bytes = job[j].bytes
      <3>1. "ok" \in Places
        BY DEF Places
      <3>2. b \in Job
        BY <1>0, <2>1, <3>1, JobEdits
      <3> QED BY <1>0, <2>1, <3>2 DEF Job
    <2> HIDE DEF b
    <2>4. b.at \in PlacesOf[b.cmd]
      BY <2>2, <2>3 DEF PlacesOf, Commands
    <2>5. HasInputs(b)
      BY <1>0, <2>1, <2>2, <2>3, <2>4 DEF HasInputs
    <2>6. KeptIsSigned(b, signed)
      BY <1>0, <2>1, <2>3 DEF KeptIsSigned
    <2>7. OutIsTrue(b, signed, mixed)
      BY <1>0, <2>1, <2>2, <2>3 DEF OutIsTrue
    <2>8. JobOk(b, signed, mixed)
      BY <2>3, <2>5, <2>6, <2>7 DEF JobOk
    <2> QED BY <2>1, <2>8, GoesOn
  <1>8. CASE SayOk(j)
    BY <1>8, DoneGoesOn, GoesOn DEF SayOk
  <1>9. CASE Land(j)
    BY <1>9, DoneGoesOn, GoesOn DEF Land
  <1>10. CASE Create(j)
    <2> DEFINE b == [job[j] EXCEPT !.at = "fill"]
    <2>1. job[j] # Nothing /\ job[j].at = "create" /\ Go(j, b) /\ Put(j, Torn)
          /\ UNCHANGED history
      BY <1>10 DEF Create, At
    <2>2. b \in Job /\ b.cmd = job[j].cmd /\ b.kept = job[j].kept /\ b.head = job[j].head
          /\ b.key = job[j].key /\ b.out = job[j].out /\ b.at = "fill"
          /\ b.bytes = job[j].bytes
      <3>1. "fill" \in Places
        BY DEF Places
      <3>2. b \in Job
        BY <1>0, <2>1, <3>1, JobEdits
      <3> QED BY <1>0, <2>1, <3>2 DEF Job
    <2> HIDE DEF b
    <2>3. HasInputs(b)
      BY <1>0, <2>1, <2>2 DEF HasInputs, PlacesOf, Job, Commands
    <2>4. JobOk(b, signed, mixed)
      BY <1>0, <2>1, <2>2, <2>3 DEF JobOk, KeptIsSigned, OutIsTrue
    <2> QED BY <2>1, <2>4, Puts
  <1>11. CASE Fill(j)
    <2>1. job[j] # Nothing /\ job[j].at = "fill" /\ Put(j, job[j].out)
          /\ Go(j, Nothing) /\ UNCHANGED history
      BY <1>11, DoneGoesOn DEF Fill, At
    <2> QED BY <2>1, Puts
  <1> QED BY <1>1, <1>2, <1>3, <1>4, <1>5, <1>6, <1>7, <1>8, <1>9, <1>10, <1>11 DEF Continues

LEMMA StepKeeps == IInv /\ [Next]_vars => IInv'
PROOF
  <1> USE Distinct
  <1> SUFFICES ASSUME IInv, [Next]_vars PROVE IInv'
    OBVIOUS
  <1>1. ASSUME NEW j \in Jobs, Starts(j) PROVE IInv'
    BY <1>1, StartsKeep
  <1>2. ASSUME NEW j \in Jobs, Continues(j) PROVE IInv'
    BY <1>2, ContinuesKeep
  <1>3. ASSUME NEW j \in Jobs, Fails(j) PROVE IInv'
    BY <1>3, DoneGoesOn, GoesOn DEF Fails
  <1>4. CASE EditConfig
    <2>1. TypeOK'
      BY <1>4 DEF EditConfig, IInv, TypeOK, history
    <2>2. JobsOk' /\ PackageOk' /\ ManifestOk'
      BY <1>4 DEF EditConfig, IInv, JobsOk, PackageOk, ManifestOk, Honest, Backed, history
    <2> QED BY <2>1, <2>2 DEF IInv
  <1>5. CASE Damage
    <2>1. PICK p \in Payloads : package' = [package EXCEPT !.payload = p, !.by = Nobody]
      BY <1>5 DEF Damage
    <2>2. package' \in Package /\ package'.by = Nobody
      BY <1>5, <2>1 DEF Damage, Package
    <2>3. commands' \in 0 .. MaxCommands
      BY <1>5, ConstantsAreSane DEF Damage, IInv, TypeOK
    <2>4. TypeOK'
      BY <1>5, <2>2, <2>3 DEF Damage, IInv, TypeOK, history
    <2>5. JobsOk' /\ ManifestOk'
      BY <1>5 DEF Damage, IInv, JobsOk, ManifestOk, Honest, history
    <2>6. PackageOk'
      BY <2>2 DEF PackageOk, Backed
    <2> QED BY <2>4, <2>5, <2>6 DEF IInv
  <1>6. CASE UNCHANGED vars
    BY <1>6 DEF IInv, TypeOK, JobsOk, PackageOk, ManifestOk, Honest, Backed, vars
  <1> QED BY <1>1, <1>2, <1>3, <1>4, <1>5, <1>6 DEF Next

LEMMA Inductive == Spec => []IInv
PROOF BY InitInv, StepKeeps, PTL DEF Spec

-----------------------------------------------------------------------------
(* Theorems *)

\* The files, the jobs and the history stay what they are declared to be.
THEOREM TypeCorrect == Spec => []TypeOK
PROOF
  <1>1. IInv => TypeOK
    BY DEF IInv
  <1> QED BY <1>1, Inductive, PTL

\* Whatever becomes of the file between its reads, an install or an extract with a key yields
\* what was signed with it (Package::verified).
THEOREM SignedSafety == Spec => []SignedIsInstalled
PROOF
  <1>1. IInv => SignedIsInstalled
    <2> SUFFICES ASSUME IInv, NEW j \in Jobs, At(j, "land"), job[j].key # Nobody
                 PROVE  [key |-> job[j].key, version |-> job[j].head.version,
                         lists |-> job[j].head.lists, payload |-> job[j].payload] \in signed
      BY DEF SignedIsInstalled
    <2>1. HasInputs(job[j]) /\ KeptIsSigned(job[j], signed) /\ job[j].at = "land"
      BY JobTypes DEF At, JobOk
    <2>2. job[j].kept # Nothing
      BY <2>1 DEF HasInputs
    <2> QED BY <2>1, <2>2 DEF KeptIsSigned, Signed
  <1> QED BY <1>1, Inductive, PTL

\* What verify-manifest says OK of announces the version its installer.toml registers,
\* however many commands ran in between.
THEOREM AgreementSafety == Spec => []AcceptedAgrees
PROOF
  <1>1. IInv => AcceptedAgrees
    BY JobTypes, Distinct DEF AcceptedAgrees, At, JobOk, OutIsTrue, Honest, HasInputs, PlacesOf,
                              Job, Commands
  <1> QED BY <1>1, Inductive, PTL

\* And its package is whole, of that version and signed by that key, unless it was replaced
\* while the manifest was made.
THEOREM AcceptedSafety == Spec => []AcceptedIsSigned
PROOF
  <1>1. IInv => AcceptedIsSigned
    <2> SUFFICES ASSUME IInv, NEW j \in Jobs, At(j, "ok"), job[j].out \notin mixed
                 PROVE  /\ job[j].found.package \in Package
                        /\ job[j].found.package.version = job[j].out.version
                        /\ Signed(job[j].key, job[j].found.package) \in signed
      BY DEF AcceptedIsSigned, Signed
    <2>1. HasInputs(job[j]) /\ OutIsTrue(job[j], signed, mixed) /\ job[j].at = "ok"
          /\ job[j] \in Job
      BY JobTypes DEF At, JobOk
    <2>2. job[j].cmd = "verify-manifest"
      BY <2>1 DEF HasInputs, PlacesOf, Job, Commands
    <2> QED BY <2>1, <2>2 DEF OutIsTrue, Honest
  <1> QED BY <1>1, Inductive, PTL
=============================================================================
