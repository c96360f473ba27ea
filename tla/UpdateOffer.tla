------------------------------ MODULE UpdateOffer ------------------------------
(***************************************************************************)
(* Which release a remote update installs: the publisher signs update.json *)
(* and re-signs it before it expires, hosts serve some copy of it, and a   *)
(* client with a pinned key reads every source, keeps the newest manifest  *)
(* its policy lets through, downloads the package from some mirror, checks *)
(* it against the manifest and applies it (UpdateApply, here in one step). *)
(*                                                                         *)
(* A version is a number: version.rs makes one of every version string.    *)
(* A package's SHA-256 is the package.  A day is the unit of time.         *)
(***************************************************************************)
EXTENDS Integers

CONSTANTS
  NumSources,         \* how many manifest_urls installer.toml lists
  AppId, OtherApp,    \* the app, and another one of the same publisher
  PinnedKey, OtherKey,
  None,
  MaxValidity,        \* MANIFEST_MAX_VALIDITY_DAYS
  ValidDays,          \* validities a publisher may ask sign_manifest for
  MigrationAcceptsUnsigned,
  MaxVersion,         \* bound: releases the publisher makes
  MaxDay              \* bound: days the model runs for

ASSUME ConstantsAssumption ==
  /\ NumSources \in Nat
  /\ MaxValidity \in Nat \ {0}
  /\ MaxVersion \in Nat \ {0}
  /\ MaxDay \in Nat /\ MaxDay >= MaxValidity
  /\ ValidDays \subseteq Int
  /\ MigrationAcceptsUnsigned \in BOOLEAN
  /\ AppId # OtherApp
  /\ PinnedKey # OtherKey

Versions == 1 .. MaxVersion
Days == 0 .. MaxDay

(* build: the same release packed twice gives two packages.                *)
Package == [app : {AppId, OtherApp}, version : Versions, build : {1, 2},
            key : {PinnedKey, OtherKey}]

Release(v) == [app |-> AppId, version |-> v, build |-> 1, key |-> PinnedKey]

(* A document with `signed` and `signature`; one without; what is no       *)
(* manifest at all (unreachable, not JSON) is None.                        *)
SignedDoc(key, app, v, issued, expires) ==
  [signed |-> TRUE, key |-> key, app |-> app, version |-> v,
   sha256 |-> Release(v), issued |-> issued, expires |-> expires]
UnsignedDoc(v) == [signed |-> FALSE, version |-> v]

(* Documents other than those this publisher signs for this app with       *)
(* sign_manifest: another key's, another app's, one valid for too long.    *)
StrayDocs ==
  { SignedDoc(OtherKey, AppId, MaxVersion, 0, MaxValidity),
    SignedDoc(PinnedKey, OtherApp, MaxVersion, 0, MaxValidity),
    SignedDoc(PinnedKey, AppId, 1, 0, MaxDay + 1) }
  \cup {UnsignedDoc(v) : v \in Versions}

(* What parse_manifest makes of one: the package's hash, if it is named.   *)
Manifest ==
  [version : Versions, sha256 : {None} \cup Package,
   trust : {"verified", "unsigned-accepted"}]

ASSUME NoneAssumption == None \notin Days /\ None \notin Package /\ None \notin Manifest

VARIABLES
  now,
  latest,       \* the publisher's latest release
  releasedOn,   \* history: the day each release came out
  signedDocs,   \* every update.json the publisher ever signed
  installed,    \* the release whose files are in the install directory
  recorded,     \* the version the OS has on record (Apps & Features, receipt)
  record,       \* uninstall-info.json: by an engine before signed manifests or after
  pc,           \* the client
  cur,          \* the version it read when it started
  unread,       \* how many sources it has not read yet
  best,         \* the newest manifest so far
  accepted,     \* the manifests it let through in this check (ok_count counts them)
  bytes         \* the package it downloaded

publisher == << latest, releasedOn, signedDocs >>
machine == << installed, recorded, record >>
client == << pc, cur, unread, best, accepted, bytes >>
vars == << now, publisher, machine, client >>

Newer(a, b) == a > b

Init ==
  /\ now = 0
  /\ latest = 1
  /\ releasedOn = [v \in Versions |-> IF v = 1 THEN 0 ELSE None]
  /\ signedDocs = {}
  /\ installed = 1
  /\ recorded = 1
  /\ record \in {"legacy", "marked"}
  /\ pc = "idle"
  /\ cur = 1
  /\ unread = 0
  /\ best = None
  /\ accepted = {}
  /\ bytes = None

--------------------------------------------------------------------------------
(* sign_manifest refuses a validity out of 1 .. MaxValidity.               *)
Sign(v, days) ==
  /\ days \in 1 .. MaxValidity
  /\ signedDocs' = signedDocs \cup {SignedDoc(PinnedKey, AppId, v, now, now + days)}

Publish(days) ==
  /\ latest < MaxVersion
  /\ latest' = latest + 1
  /\ releasedOn' = [releasedOn EXCEPT ![latest + 1] = now]
  /\ Sign(latest + 1, days)
  /\ UNCHANGED << now, machine, client >>

(* resign_manifest, the weekly job: the current manifest again, with fresh *)
(* dates, expired or not.                                                  *)
Resign(days) ==
  /\ Sign(latest, days)
  /\ UNCHANGED << now, latest, releasedOn, machine, client >>

(* A check does not take days; downloading and applying may.               *)
Tick ==
  /\ now < MaxDay
  /\ pc # "checking"
  /\ now' = now + 1
  /\ UNCHANGED << publisher, machine, client >>

--------------------------------------------------------------------------------
(* parse_manifest with a key: the manifest, or None for a refusal.         *)
AcceptUnsigned == MigrationAcceptsUnsigned /\ record = "legacy"

(* Mutant: a manifest may be valid for any length of time.                 *)
SignedBodyOkAnyLength(doc) ==
  /\ doc.key = PinnedKey
  /\ doc.app = AppId
  /\ doc.issued < doc.expires
  /\ now < doc.expires

SignedBodyOk(doc) ==
  /\ doc.key = PinnedKey
  /\ doc.app = AppId
  /\ doc.issued < doc.expires
  /\ doc.expires - doc.issued <= MaxValidity
  /\ now < doc.expires

Parsed(doc) ==
  IF doc = None THEN None
  ELSE IF doc.signed
    THEN IF SignedBodyOk(doc)
           THEN [version |-> doc.version, sha256 |-> doc.sha256, trust |-> "verified"]
           ELSE None
    ELSE IF AcceptUnsigned
           THEN [version |-> doc.version, sha256 |-> None, trust |-> "unsigned-accepted"]
           ELSE None

(* The client starts: it reads the version on record, once.                *)
Open ==
  /\ pc = "idle"
  /\ pc' = "checking"
  /\ cur' = recorded
  /\ unread' = NumSources
  /\ best' = None
  /\ accepted' = {}
  /\ bytes' = None
  /\ UNCHANGED << now, publisher, machine >>

(* Mutant: the last manifest read wins, whatever its version.              *)
FetchManifestLastWins(doc) ==
  /\ pc = "checking"
  /\ unread > 0
  /\ unread' = unread - 1
  /\ LET m == Parsed(doc) IN
       IF m = None
         THEN UNCHANGED << best, accepted >>
         ELSE accepted' = accepted \cup {m} /\ best' = m
  /\ UNCHANGED << now, publisher, machine, pc, cur, bytes >>

(* check_remote_multi, one source, which serves the current copy, an old   *)
(* one, something else or nothing: the highest version of the sources that *)
(* pass, the first of equals; a failed source is passed over.              *)
FetchManifest(doc) ==
  /\ pc = "checking"
  /\ unread > 0
  /\ unread' = unread - 1
  /\ LET m == Parsed(doc) IN
       IF m = None
         THEN UNCHANGED << best, accepted >>
         ELSE /\ accepted' = accepted \cup {m}
              /\ best' = IF best = None THEN m
                         ELSE IF Newer(m.version, best.version) THEN m ELSE best
  /\ UNCHANGED << now, publisher, machine, pc, cur, bytes >>

AllFailed ==
  /\ pc = "checking"
  /\ unread = 0
  /\ accepted = {}
  /\ pc' = "failed"
  /\ UNCHANGED << now, publisher, machine, cur, unread, best, accepted, bytes >>

(* offer_if_newer                                                          *)
OfferIfNewer ==
  /\ pc = "checking"
  /\ unread = 0
  /\ accepted # {}
  /\ pc' = IF Newer(best.version, cur) THEN "offered" ELSE "uptodate"
  /\ UNCHANGED << now, publisher, machine, cur, unread, best, accepted, bytes >>

(* download_update: the package itself or a delta, from the first mirror   *)
(* that answers, whatever it answers.                                      *)
Download(b) ==
  /\ pc = "offered"
  /\ bytes' = b
  /\ pc' = "downloaded"
  /\ UNCHANGED << now, publisher, machine, cur, unread, best, accepted >>

DownloadFails ==
  /\ pc = "offered"
  /\ pc' = "failed"
  /\ UNCHANGED << now, publisher, machine, cur, unread, best, accepted, bytes >>

(* Mutant: the package is not compared with the manifest's hash.           *)
HashIgnored == TRUE

(* apply_downloaded: the manifest's hash, the package's signature, then    *)
(* check_offered.                                                          *)
HashMatches == best.sha256 # None => bytes = best.sha256
CheckOffered ==
  /\ bytes.app = AppId
  /\ bytes.version = best.version
  /\ Newer(bytes.version, cur)
PackageAccepted == HashMatches /\ bytes.key = PinnedKey /\ CheckOffered

Reject ==
  /\ pc = "downloaded"
  /\ ~ PackageAccepted
  /\ pc' = "failed"
  /\ UNCHANGED << now, publisher, machine, cur, unread, best, accepted, bytes >>

Apply ==
  /\ pc = "downloaded"
  /\ PackageAccepted
  /\ installed' = bytes.version
  /\ pc' = "applied"
  /\ UNCHANGED << now, publisher, recorded, record, cur, unread, best, accepted, bytes >>

(* apply_checked failed and was rolled back (UpdateApply).                 *)
ApplyFails ==
  /\ pc = "downloaded"
  /\ PackageAccepted
  /\ pc' = "failed"
  /\ UNCHANGED << now, publisher, machine, cur, unread, best, accepted, bytes >>

(* record_update: the mark of signed manifests enters uninstall-info.json. *)
(* The version on record is not touched.  A write that fails is not told.  *)
RecordUpdate ==
  /\ pc = "applied"
  /\ record' \in {record, "marked"}
  /\ pc' = "updated"
  /\ UNCHANGED << now, publisher, installed, recorded, cur, unread, best, accepted, bytes >>

(* The process ends, by itself or not, at any point.                       *)
Quit ==
  /\ pc # "idle"
  /\ pc' = "idle"
  /\ bytes' = None
  /\ best' = None
  /\ unread' = 0
  /\ accepted' = {}
  /\ UNCHANGED << now, publisher, machine, cur >>

(* A setup of release v is run, from another process: Update, or Repair,   *)
(* which the window offers whatever the versions are.  Either rewrites the *)
(* whole record.                                                           *)
RunSetup(v) ==
  /\ v <= latest
  /\ installed' = v
  /\ recorded' = v
  /\ record' = "marked"
  /\ UNCHANGED << now, publisher, client >>

--------------------------------------------------------------------------------
ClientStep ==
  \/ \E doc \in signedDocs \cup StrayDocs \cup {None} : FetchManifest(doc)
  \/ AllFailed \/ OfferIfNewer
  \/ DownloadFails \/ Reject \/ Apply \/ ApplyFails \/ RecordUpdate \/ Quit
  \/ \E b \in Package : Download(b)

Next ==
  \/ ClientStep
  \/ Open
  \/ \E d \in ValidDays : Publish(d) \/ Resign(d)
  \/ Tick
  \/ \E v \in Versions : RunSetup(v)

Spec == Init /\ [][Next]_vars

--------------------------------------------------------------------------------
Doc ==
  [signed : {TRUE}, key : {PinnedKey, OtherKey}, app : {AppId, OtherApp},
   version : Versions, sha256 : Package, issued : Days, expires : Int]

TypeOK ==
  /\ now \in Days
  /\ latest \in Versions
  /\ releasedOn \in [Versions -> Days \cup {None}]
  /\ signedDocs \subseteq Doc
  /\ installed \in Versions /\ recorded \in Versions
  /\ record \in {"legacy", "marked"}
  /\ pc \in {"idle", "checking", "failed", "uptodate", "offered", "downloaded",
              "applied", "updated"}
  /\ cur \in Versions
  /\ unread \in 0 .. NumSources
  /\ best \in Manifest \cup {None}
  /\ accepted \subseteq Manifest
  /\ bytes \in Package \cup {None}

(***************************************************************************)
(* docs/UPDATES.md, "What the signed manifest still cannot stop": whoever  *)
(* controls the hosts can withhold a release for no longer than a          *)
(* manifest's validity.  A client told "up to date" by a verified manifest *)
(* misses no newer release that has been out for that long.                *)
(***************************************************************************)
FreezeIsBounded ==
  [][pc = "checking" /\ pc' = "uptodate" /\ best.trust = "verified" =>
       \A v \in Versions :
         releasedOn[v] # None /\ now - releasedOn[v] >= MaxValidity => ~ Newer(v, cur)]_vars

(***************************************************************************)
(* What a verified manifest installs is byte for byte the package of a     *)
(* release the publisher announced in a manifest it signed, newer than the *)
(* version the client started from, whatever hosts and mirrors serve.      *)
(***************************************************************************)
OnlyAnnouncedReleases ==
  pc \in {"applied", "updated"} /\ best.trust = "verified" =>
    /\ bytes = Release(best.version)
    /\ best.version <= latest
    /\ Newer(best.version, cur)
    /\ \E d \in signedDocs : d.version = best.version

(***************************************************************************)
(* With several sources, the newest manifest that passes wins: a dead or   *)
(* refused source neither hides it nor turns the check into a failure.     *)
(***************************************************************************)
NewestValidWins ==
  /\ pc \in {"uptodate", "offered", "downloaded", "applied", "updated"} =>
       best \in accepted /\ \A m \in accepted : ~ Newer(m.version, best.version)
  /\ pc = "uptodate" => \A m \in accepted : ~ Newer(m.version, cur)

(***************************************************************************)
(* update.rs:370-373: "a (verified) manifest is offered only when its      *)
(* version is newer than the installed one".  Stated for a client whose    *)
(* reading of the record is current.                                       *)
(***************************************************************************)
OfferedIsNewerThanInstalled ==
  pc = "offered" /\ cur = recorded /\ best.trust = "verified" =>
    Newer(best.version, installed)
================================================================================
