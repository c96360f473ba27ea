--------------------------- MODULE UpdateOfferProofs ---------------------------
(***************************************************************************)
(* Which releases a remote update installs, for every number of sources    *)
(* and releases, every validity and every stretch of days.                 *)
(***************************************************************************)
EXTENDS UpdateOffer, TLAPS

(* What the publisher signed: its own releases, dated by the day, none for *)
(* longer than the limit; no document dated after a release names an older *)
(* one.                                                                    *)
Signed(d) ==
  /\ d.sha256 = Release(d.version)
  /\ d.version <= latest
  /\ d.issued <= now
  /\ \A v \in Versions :
       releasedOn[v] # None /\ releasedOn[v] < d.issued => v <= d.version

PublisherInv ==
  /\ \A d \in signedDocs : Signed(d)
  /\ \A v \in Versions : releasedOn[v] # None => v <= latest /\ releasedOn[v] <= now

(* A verified manifest stands for a document the publisher signed, which   *)
(* has not expired while the check runs.                                   *)
Announced(m) ==
  /\ m.sha256 = Release(m.version)
  /\ \E d \in signedDocs :
       /\ d.version = m.version
       /\ pc = "checking" => now < d.expires /\ d.expires - d.issued <= MaxValidity

ClientInv ==
  /\ \A m \in accepted : m.trust = "verified" => Announced(m)
  /\ IF accepted = {} THEN best = None
     ELSE best \in accepted /\ \A m \in accepted : m.version <= best.version
  /\ pc \in {"offered", "uptodate", "downloaded", "applied", "updated"} => accepted # {}
  /\ pc = "uptodate" => best.version <= cur
  /\ pc = "downloaded" => bytes \in Package
  /\ pc \in {"applied", "updated"} => bytes \in Package /\ PackageAccepted

IInv == TypeOK /\ PublisherInv /\ ClientInv

--------------------------------------------------------------------------------
(***************************************************************************)
(* The package of a release, and a manifest of it, are typed.              *)
(***************************************************************************)
LEMMA ReleaseTypes ==
  ASSUME NEW v \in Versions
  PROVE  Release(v) \in Package
BY DEF Release, Package

(***************************************************************************)
(* What parse_manifest lets through: a verified manifest is one of the     *)
(* publisher's, within its dates.                                          *)
(***************************************************************************)
LEMMA ParsedIsAnnounced ==
  ASSUME TypeOK, PublisherInv,
         NEW doc \in signedDocs \cup StrayDocs \cup {None}, Parsed(doc) # None
  PROVE  /\ Parsed(doc) \in Manifest
         /\ Parsed(doc).trust = "verified" =>
              /\ doc \in signedDocs
              /\ Parsed(doc).version = doc.version
              /\ Parsed(doc).sha256 = Release(doc.version)
              /\ now < doc.expires /\ doc.expires - doc.issued <= MaxValidity
<1> USE ConstantsAssumption, NoneAssumption
<1>1. doc # None
  BY DEF Parsed
<1>2. CASE doc \in signedDocs
  <2>1. doc.signed /\ doc.version \in Versions /\ doc.sha256 \in Package
    BY <1>2 DEF TypeOK, Doc
  <2>2. SignedBodyOk(doc)
    BY <1>1, <2>1 DEF Parsed
  <2>3. Parsed(doc) = [version |-> doc.version, sha256 |-> doc.sha256, trust |-> "verified"]
    BY <1>1, <2>1, <2>2 DEF Parsed
  <2>4. doc.sha256 = Release(doc.version)
    BY <1>2 DEF PublisherInv, Signed
  <2> QED  BY <1>2, <2>1, <2>2, <2>3, <2>4 DEF SignedBodyOk, Manifest
<1>3. CASE \E v \in Versions : doc = UnsignedDoc(v)
  <2>1. PICK v \in Versions : doc = UnsignedDoc(v)
    BY <1>3
  <2>2. Parsed(doc) = [version |-> v, sha256 |-> None, trust |-> "unsigned-accepted"]
    BY <1>1, <2>1 DEF Parsed, UnsignedDoc
  <2> QED  BY <2>2 DEF Manifest
<1>4. CASE doc \in StrayDocs /\ ~ \E v \in Versions : doc = UnsignedDoc(v)
  <2>1. \/ doc = SignedDoc(OtherKey, AppId, MaxVersion, 0, MaxValidity)
        \/ doc = SignedDoc(PinnedKey, OtherApp, MaxVersion, 0, MaxValidity)
        \/ doc = SignedDoc(PinnedKey, AppId, 1, 0, MaxDay + 1)
    BY <1>4 DEF StrayDocs
  <2>2. doc.signed
    BY <2>1 DEF SignedDoc
  <2>3. ~ SignedBodyOk(doc)
    BY <2>1 DEF SignedDoc, SignedBodyOk
  <2> QED  BY <1>1, <2>2, <2>3 DEF Parsed
<1> QED  BY <1>1, <1>2, <1>3, <1>4

--------------------------------------------------------------------------------
(* The first run of the window, before anything was fetched, satisfies the
   strengthening: nothing was announced, fetched or installed yet. *)
LEMMA InitEstablishes == Init => IInv
<1> SUFFICES ASSUME Init PROVE IInv
  OBVIOUS
<1> USE ConstantsAssumption, NoneAssumption
<1>1. TypeOK
  BY DEF Init, TypeOK, Versions, Days
<1>2. PublisherInv
  BY DEF Init, PublisherInv, Signed, Versions, Days
<1>3. ClientInv
  BY DEF Init, ClientInv
<1> QED  BY <1>1, <1>2, <1>3 DEF IInv

(***************************************************************************)
(* The publisher signs a typed document, and its own dates stay in order.  *)
(***************************************************************************)
LEMMA SignKeeps ==
  ASSUME TypeOK, PublisherInv, NEW v \in Versions, NEW days \in ValidDays, Sign(v, days),
         now' = now, latest' = v, v >= latest,
         releasedOn' = releasedOn \/ (v > latest /\ releasedOn' = [releasedOn EXCEPT ![v] = now])
  PROVE  PublisherInv' /\ signedDocs' \subseteq Doc
<1> USE ConstantsAssumption, NoneAssumption DEF TypeOK, Versions, Days
<1> DEFINE new == SignedDoc(PinnedKey, AppId, v, now, now + days)
<1>1. signedDocs' = signedDocs \cup {new}
  BY DEF Sign
<1>2. /\ new.signed = TRUE /\ new.key = PinnedKey /\ new.app = AppId /\ new.version = v
      /\ new.sha256 = Release(v) /\ new.issued = now /\ new.expires = now + days
      /\ new \in Doc
  BY ReleaseTypes DEF SignedDoc, Doc
<1>3. \A u \in Versions : releasedOn'[u] # None => u <= latest' /\ releasedOn'[u] <= now'
  BY DEF PublisherInv
<1>4. ASSUME NEW d \in signedDocs, NEW u \in Versions,
             releasedOn'[u] # None, releasedOn'[u] < d.issued
      PROVE  u <= d.version
  <2>1. d.issued <= now /\ d.issued \in Nat /\ Signed(d)
    <3>1. Signed(d)
      BY DEF PublisherInv
    <3>2. d.issued \in Days
      BY DEF Doc
    <3> QED  BY <3>1, <3>2 DEF Signed
  <2>2. releasedOn'[u] = releasedOn[u] \/ releasedOn'[u] = now
    OBVIOUS
  <2>3. releasedOn'[u] # now
    BY <1>4, <2>1
  <2> QED  BY <1>4, <2>1, <2>2, <2>3 DEF Signed
<1>5. ASSUME NEW d \in signedDocs PROVE Signed(d)'
  <2>1. /\ d.sha256 = Release(d.version) /\ d.version <= latest /\ d.issued <= now
        /\ d.version \in Versions
    BY DEF PublisherInv, Signed, Doc
  <2>2. d.version <= latest' /\ d.issued <= now'
    BY <2>1
  <2> QED  BY <1>4, <2>1, <2>2 DEF Signed, Release
<1>6. Signed(new)'
  BY <1>2, <1>3 DEF Signed, Release
<1> QED  BY <1>1, <1>2, <1>3, <1>5, <1>6 DEF PublisherInv

(***************************************************************************)
(* The client's claims do not depend on what the publisher signs later.    *)
(***************************************************************************)
LEMMA ClientInvStable ==
  ASSUME ClientInv, signedDocs \subseteq signedDocs', pc' = pc, cur' = cur, best' = best,
         accepted' = accepted, bytes' = bytes, pc = "checking" => now' = now
  PROVE  ClientInv'
<1>1. \A m \in accepted : Announced(m) => Announced(m)'
  BY DEF Announced, Release
<1>2. PackageAccepted => PackageAccepted'
  BY DEF PackageAccepted, HashMatches, CheckOffered
<1> QED  BY <1>1, <1>2 DEF ClientInv

(***************************************************************************)
(* So do claims about manifests while the client only moves on.            *)
(***************************************************************************)
LEMMA AnnouncedStable ==
  ASSUME ClientInv, signedDocs' = signedDocs, accepted' = accepted, now' = now,
         pc' = "checking" => pc = "checking"
  PROVE  \A m \in accepted' : m.trust = "verified" => Announced(m)'
BY DEF ClientInv, Announced, Release

(***************************************************************************)
(* Every step keeps the invariant.                                         *)
(***************************************************************************)
LEMMA StepPreserves == IInv /\ [Next]_vars => IInv'
<1> SUFFICES ASSUME IInv, [Next]_vars PROVE IInv'
  OBVIOUS
<1> USE ConstantsAssumption, NoneAssumption DEF IInv
<1>1. ASSUME NEW days \in ValidDays, Publish(days) PROVE IInv'
  <2>1. PublisherInv' /\ signedDocs' \subseteq Doc
    <3>1. latest + 1 \in Versions /\ latest + 1 > latest
      BY <1>1 DEF Publish, TypeOK, Versions
    <3>2. Sign(latest + 1, days) /\ now' = now /\ latest' = latest + 1
      BY <1>1 DEF Publish
    <3>3. releasedOn' = [releasedOn EXCEPT ![latest + 1] = now]
      BY <1>1 DEF Publish
    <3>4. latest + 1 >= latest
      BY DEF TypeOK, Versions
    <3> HIDE DEF IInv
    <3>5. TypeOK /\ PublisherInv
      BY DEF IInv
    <3> QED  BY <3>1, <3>2, <3>3, <3>4, <3>5, SignKeeps
  <2>2. TypeOK'
    BY <1>1, <2>1 DEF Publish, TypeOK, Versions, machine, client
  <2>3. ClientInv'
    BY <1>1, ClientInvStable DEF Publish, Sign, client
  <2> QED  BY <2>1, <2>2, <2>3
<1>2. ASSUME NEW days \in ValidDays, Resign(days) PROVE IInv'
  <2>1. PublisherInv' /\ signedDocs' \subseteq Doc
    BY <1>2, SignKeeps DEF Resign, TypeOK, Versions
  <2>2. TypeOK'
    BY <1>2, <2>1 DEF Resign, TypeOK, machine, client
  <2>3. ClientInv'
    BY <1>2, ClientInvStable DEF Resign, Sign, client
  <2> QED  BY <2>1, <2>2, <2>3
<1>3. CASE Tick
  <2>1. TypeOK'
    BY <1>3 DEF Tick, TypeOK, Days, publisher, machine, client
  <2>2. PublisherInv'
    <3>1. /\ signedDocs' = signedDocs /\ releasedOn' = releasedOn /\ latest' = latest
          /\ now' = now + 1 /\ now \in Nat
      BY <1>3 DEF Tick, TypeOK, Days, publisher
    <3>2. \A d \in signedDocs : Signed(d)'
      <4> SUFFICES ASSUME NEW d \in signedDocs PROVE Signed(d)'
        OBVIOUS
      <4>1. Signed(d)
        BY DEF PublisherInv
      <4>2. d.issued \in Nat
        <5>1. d \in Doc
          BY DEF TypeOK
        <5> QED  BY <5>1 DEF Doc, Days
      <4>3. d.issued <= now'
        BY <3>1, <4>1, <4>2 DEF Signed
      <4> QED  BY <3>1, <4>1, <4>3 DEF Signed, Release
    <3>3. \A v \in Versions : releasedOn[v] # None => releasedOn[v] \in Nat
      BY DEF TypeOK, Days
    <3> QED  BY <3>1, <3>2, <3>3 DEF PublisherInv
  <2>3. ClientInv'
    BY <1>3, ClientInvStable DEF Tick, publisher, client
  <2> QED  BY <2>1, <2>2, <2>3
<1>4. ASSUME UNCHANGED << now, publisher >> PROVE PublisherInv'
  BY <1>4 DEF PublisherInv, Signed, Release, publisher
<1>5. ASSUME UNCHANGED << now, publisher >>, pc' # "checking", UNCHANGED accepted
      PROVE  \A m \in accepted' : m.trust = "verified" => Announced(m)'
  BY <1>5, AnnouncedStable DEF publisher
<1>6. CASE Open
  <2>1. TypeOK'
    BY <1>6 DEF Open, TypeOK, publisher, machine
  <2>2. ClientInv'
    BY <1>6 DEF Open, ClientInv
  <2> QED  BY <1>4, <1>6, <2>1, <2>2 DEF Open
<1>7. ASSUME NEW doc \in signedDocs \cup StrayDocs \cup {None}, FetchManifest(doc) PROVE IInv'
  <2> DEFINE m == Parsed(doc)
  <2>0. UNCHANGED << now, publisher, machine, pc, cur, bytes >> /\ pc = "checking"
    BY <1>7 DEF FetchManifest
  <2>1. unread' \in 0 .. NumSources
    BY <1>7 DEF FetchManifest, TypeOK
  <2>2. CASE m = None
    <3>1. UNCHANGED << best, accepted >>
      BY <1>7, <2>2 DEF FetchManifest
    <3>2. TypeOK'
      BY <2>0, <2>1, <3>1 DEF TypeOK, publisher, machine
    <3>3. ClientInv'
      BY <2>0, <3>1, ClientInvStable DEF publisher
    <3> QED  BY <1>4, <2>0, <3>2, <3>3
  <2>3. CASE m # None
    <3>1. m \in Manifest
      BY <2>3, ParsedIsAnnounced
    <3>2. /\ accepted' = accepted \cup {m}
          /\ best' = IF best = None THEN m
                     ELSE IF Newer(m.version, best.version) THEN m ELSE best
      BY <1>7, <2>3 DEF FetchManifest
    <3>3. TypeOK'
      BY <2>0, <2>1, <3>1, <3>2 DEF TypeOK, publisher, machine
    <3>4. ASSUME NEW n, n = m, n.trust = "verified" PROVE Announced(n)'
      <4>1. /\ doc \in signedDocs /\ n.version = doc.version /\ n.sha256 = Release(doc.version)
            /\ now < doc.expires /\ doc.expires - doc.issued <= MaxValidity
        BY <2>3, <3>4, ParsedIsAnnounced
      <4>2. signedDocs' = signedDocs /\ now' = now
        BY <2>0 DEF publisher
      <4> QED  BY <4>1, <4>2 DEF Announced, Release
    <3>5. \A n \in accepted : n.trust = "verified" => Announced(n)'
      BY <2>0 DEF ClientInv, Announced, Release, publisher
    <3>6. best' \in accepted' /\ \A n \in accepted' : n.version <= best'.version
      <4>1. \A n \in Manifest : n.version \in Int
        BY DEF Manifest, Versions
      <4>2. \A n \in accepted : n.version \in Int
        BY <4>1 DEF TypeOK
      <4>3. CASE best = None
        <5>1. accepted = {}
          BY <4>3 DEF ClientInv, TypeOK
        <5> HIDE DEF m
        <5>2. accepted' = {m} /\ best' = m
          BY <3>2, <4>3, <5>1
        <5>3. m.version \in Int
          BY <3>1, <4>1
        <5> QED  BY <5>2, <5>3
      <4>4. CASE best # None
        <5>1. best \in accepted /\ \A n \in accepted : n.version <= best.version
          BY <4>4 DEF ClientInv
        <5> QED  BY <3>1, <3>2, <4>1, <4>2, <4>4, <5>1 DEF Newer
      <4> QED  BY <4>3, <4>4
    <3>7. \A n \in accepted' : n.trust = "verified" => Announced(n)'
      BY <3>2, <3>4, <3>5
    <3>8. ClientInv'
      BY <2>0, <3>6, <3>7 DEF ClientInv
    <3> QED  BY <1>4, <2>0, <3>3, <3>8
  <2> QED  BY <2>2, <2>3
<1>8. CASE AllFailed
  <2>1. TypeOK'
    BY <1>8 DEF AllFailed, TypeOK, publisher, machine
  <2>2. ClientInv'
    BY <1>5, <1>8 DEF AllFailed, ClientInv
  <2> QED  BY <1>4, <1>8, <2>1, <2>2 DEF AllFailed
<1>9. CASE OfferIfNewer
  <2>1. TypeOK'
    BY <1>9 DEF OfferIfNewer, TypeOK, publisher, machine
  <2>2. best \in Manifest /\ best.version \in Int /\ cur \in Int
    BY <1>9 DEF OfferIfNewer, ClientInv, TypeOK, Manifest, Versions
  <2>3. pc' \in {"offered", "uptodate"} /\ (pc' = "uptodate" => best.version <= cur)
    BY <1>9, <2>2 DEF OfferIfNewer, Newer
  <2>4. ClientInv'
    BY <1>5, <1>9, <2>3 DEF OfferIfNewer, ClientInv
  <2> QED  BY <1>4, <1>9, <2>1, <2>4 DEF OfferIfNewer
<1>10. ASSUME NEW b \in Package, Download(b) PROVE IInv'
  <2>1. TypeOK'
    BY <1>10 DEF Download, TypeOK, publisher, machine
  <2>2. ClientInv'
    BY <1>5, <1>10 DEF Download, ClientInv
  <2> QED  BY <1>4, <1>10, <2>1, <2>2 DEF Download
<1>11. CASE DownloadFails \/ Reject \/ ApplyFails
  <2>1. pc' = "failed" /\ UNCHANGED << now, publisher, machine, cur, unread, best, accepted, bytes >>
    BY <1>11 DEF DownloadFails, Reject, ApplyFails
  <2>2. TypeOK'
    BY <2>1 DEF TypeOK, publisher, machine
  <2>3. ClientInv'
    BY <1>5, <2>1 DEF ClientInv
  <2> QED  BY <1>4, <2>1, <2>2, <2>3
<1>12. CASE Apply
  <2>1. bytes \in Package /\ PackageAccepted
    BY <1>12 DEF Apply, ClientInv
  <2>2. TypeOK'
    BY <1>12, <2>1 DEF Apply, TypeOK, Package, publisher
  <2>3. ClientInv'
    <3>1. PackageAccepted'
      BY <1>12, <2>1 DEF Apply, PackageAccepted, HashMatches, CheckOffered
    <3> QED  BY <1>5, <1>12, <2>1, <3>1 DEF Apply, ClientInv
  <2> QED  BY <1>4, <1>12, <2>2, <2>3 DEF Apply
<1>13. CASE RecordUpdate
  <2>1. TypeOK'
    BY <1>13 DEF RecordUpdate, TypeOK, publisher
  <2>2. ClientInv'
    <3>1. bytes \in Package /\ PackageAccepted
      BY <1>13 DEF RecordUpdate, ClientInv
    <3>2. PackageAccepted'
      BY <1>13, <3>1 DEF RecordUpdate, PackageAccepted, HashMatches, CheckOffered
    <3> QED  BY <1>5, <1>13, <3>1, <3>2 DEF RecordUpdate, ClientInv
  <2> QED  BY <1>4, <1>13, <2>1, <2>2 DEF RecordUpdate
<1>14. CASE Quit
  <2>1. TypeOK'
    BY <1>14 DEF Quit, TypeOK, publisher, machine
  <2>2. ClientInv'
    BY <1>14 DEF Quit, ClientInv
  <2> QED  BY <1>4, <1>14, <2>1, <2>2 DEF Quit
<1>15. ASSUME NEW v \in Versions, RunSetup(v) PROVE IInv'
  <2>1. TypeOK'
    BY <1>15 DEF RunSetup, TypeOK, publisher, client
  <2>2. ClientInv'
    BY <1>15, ClientInvStable DEF RunSetup, publisher, client
  <2> QED  BY <1>4, <1>15, <2>1, <2>2 DEF RunSetup
<1>16. CASE UNCHANGED vars
  <2>1. TypeOK'
    BY <1>16 DEF vars, TypeOK, publisher, machine, client
  <2>2. ClientInv'
    BY <1>16, ClientInvStable DEF vars, publisher, client
  <2> QED  BY <1>4, <1>16, <2>1, <2>2 DEF vars
<1> QED
  BY <1>1, <1>2, <1>3, <1>6, <1>7, <1>8, <1>9, <1>10, <1>11, <1>12, <1>13, <1>14,
     <1>15, <1>16 DEF Next, ClientStep

--------------------------------------------------------------------------------
(***************************************************************************)
(* The inductive invariant holds of every reachable state.                 *)
(***************************************************************************)
THEOREM Invariance == Spec => []IInv
BY InitEstablishes, StepPreserves, PTL DEF Spec

(***************************************************************************)
(* Type correctness of the update offer.                                   *)
(***************************************************************************)
THEOREM TypeCorrect == Spec => []TypeOK
<1>1. IInv => TypeOK
  BY DEF IInv
<1> QED  BY Invariance, <1>1, PTL

(***************************************************************************)
(* What a verified manifest installs is a release the publisher announced, *)
(* newer than the version the client started from.                         *)
(***************************************************************************)
THEOREM AnnouncedSafety == Spec => []OnlyAnnouncedReleases
<1>1. IInv => OnlyAnnouncedReleases
  <2> SUFFICES ASSUME IInv, pc \in {"applied", "updated"}, best.trust = "verified"
               PROVE  /\ bytes = Release(best.version)
                      /\ best.version <= latest
                      /\ Newer(best.version, cur)
                      /\ \E d \in signedDocs : d.version = best.version
    BY DEF OnlyAnnouncedReleases
  <2>1. best \in accepted /\ Announced(best) /\ PackageAccepted
    BY DEF IInv, ClientInv
  <2>2. best.version \in Versions
    BY <2>1 DEF IInv, TypeOK, Manifest
  <2>3. best.sha256 # None
    BY <2>1, <2>2, ReleaseTypes, NoneAssumption DEF Announced
  <2>4. bytes = Release(best.version) /\ Newer(best.version, cur)
    BY <2>1, <2>3 DEF Announced, PackageAccepted, HashMatches, CheckOffered
  <2>5. \E d \in signedDocs : d.version = best.version
    BY <2>1 DEF Announced
  <2> QED  BY <2>4, <2>5 DEF IInv, PublisherInv, Signed
<1> QED  BY Invariance, <1>1, PTL

(***************************************************************************)
(* The newest of the manifests let through wins.                           *)
(***************************************************************************)
THEOREM NewestSafety == Spec => []NewestValidWins
<1>1. IInv => NewestValidWins
  <2> SUFFICES ASSUME IInv PROVE NewestValidWins
    OBVIOUS
  <2>1. ASSUME pc \in {"uptodate", "offered", "downloaded", "applied", "updated"}
        PROVE  best \in accepted /\ \A m \in accepted : m.version <= best.version
    BY <2>1 DEF IInv, ClientInv
  <2>2. \A m \in accepted : m.version \in Int
    BY DEF IInv, TypeOK, Manifest, Versions
  <2>3. cur \in Int
    BY DEF IInv, TypeOK, Versions
  <2>4. pc = "uptodate" => best.version <= cur
    BY DEF IInv, ClientInv
  <2> QED  BY <2>1, <2>2, <2>3, <2>4 DEF NewestValidWins, Newer
<1> QED  BY Invariance, <1>1, PTL

(***************************************************************************)
(* A client told "up to date" by a verified manifest misses no release     *)
(* older than a manifest's validity.                                       *)
(***************************************************************************)
LEMMA StepBoundsFreeze ==
  ASSUME IInv, [Next]_vars, pc = "checking", pc' = "uptodate", best.trust = "verified",
         NEW v \in Versions, releasedOn[v] # None, now - releasedOn[v] >= MaxValidity
  PROVE  ~ Newer(v, cur)
<1> USE ConstantsAssumption, NoneAssumption DEF IInv
<1>1. OfferIfNewer
  BY DEF Next, ClientStep, Open, FetchManifest, AllFailed, Download, DownloadFails, Reject,
         Apply, ApplyFails, RecordUpdate, Quit, Publish, Resign, Tick, RunSetup, vars, client
<1>2. best \in accepted /\ Announced(best)
  BY <1>1 DEF OfferIfNewer, ClientInv
<1>3. PICK d \in signedDocs :
        d.version = best.version /\ now < d.expires /\ d.expires - d.issued <= MaxValidity
  BY <1>2 DEF Announced
<1>4. d \in Doc
  BY DEF TypeOK
<1>5. d.issued \in Int /\ d.expires \in Int /\ d.version \in Int
  BY <1>4 DEF Doc, Days, Versions
<1>6. now \in Int /\ releasedOn[v] \in Int /\ cur \in Int /\ v \in Int
  BY DEF TypeOK, Days, Versions
<1>7. releasedOn[v] < d.issued
  BY <1>3, <1>5, <1>6
<1>8. Signed(d)
  BY DEF PublisherInv
<1>9. v <= d.version
  BY <1>7, <1>8 DEF Signed
<1>10. ~ (best.version > cur)
  BY <1>1 DEF OfferIfNewer, Newer
<1> QED  BY <1>3, <1>5, <1>6, <1>9, <1>10 DEF Newer

(***************************************************************************)
(* Withholding a release works for no longer than a manifest's validity.   *)
(***************************************************************************)
THEOREM FreezeSafety == Spec => FreezeIsBounded
<1>1. IInv /\ [Next]_vars =>
        [pc = "checking" /\ pc' = "uptodate" /\ best.trust = "verified" =>
           \A v \in Versions :
             releasedOn[v] # None /\ now - releasedOn[v] >= MaxValidity => ~ Newer(v, cur)]_vars
  BY StepBoundsFreeze
<1> QED  BY Invariance, <1>1, PTL DEF Spec, FreezeIsBounded
================================================================================
