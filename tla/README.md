# A verification of BetterInstaller

BetterInstaller packs an application into a `.bpkg` and into a setup program that installs,
modifies, repairs, updates and removes it. This directory holds TLA+ modules translated from
its Rust source, the TLC configurations that check them on small instances, and the proofs,
checked by TLAPS, of what holds for every instance. `PROJECT.json` maps every definition to the
lines it models, and lists the runs, the hazards, the mutants and the theorems.

Run one configuration with `tlc -config MCUpdateApply.cfg MCUpdateApply.tla`, one proof module
with `tlapm UpdateApplyProofs.tla`.

## The system

| Component | Source | State it keeps | What makes it correct | Modules |
|---|---|---|---|---|
| Update transaction | `bpkg-core/src/update.rs` `apply_checked`, `copy_dir`, `restore_dir`, `wipe_dir_contents`, `remove_path` | the install directory, the sibling snapshot `<name>.bak` | whatever call fails and wherever the process dies, a whole version can be got back; what is reported is true | `UpdateApply`, `UpdateRace` |
| Update offer | `update.rs` `sign_manifest` to `check_offered`, `main.rs` `apply_remote_update` | signed `update.json`, the clock, the version and the mark on record | only an announced release, the newest, not withheld for ever | `UpdateOffer` |
| Install record and ownership | `installer/src/uninstall.rs` | `uninstall-info.json` in the install folder | the uninstall deletes the app's files, all of them, and nobody else's | `InstallFolder` |
| Install and uninstall run | `installer/src/main.rs` `run_real_install`, `do_system_integration`, `do_uninstall_full` | the folder, shortcuts, the entry in the list of programs, a detached self-delete script | as above, through stopped runs and failed writes | `InstallFolder`, `Maintenance`, `Prereq`, `Unattended` |
| Unattended run | `unattended.rs`, `cli.rs`, `procs.rs` | one job, its worker thread, its progress window, the app's processes | nothing changes before every check; a cancel is obeyed while a look at it is to come, and never after; the exit code says what happened | `Unattended` |
| First-install window | `main.rs` `run_gui` | the page, the answers, acceptances, the language, a worker, the hand-off | what the app is handed is what was answered and accepted | `Wizard`, over `Answers` and `Translations` |
| Maintenance window | `main.rs` `run_gui`, `spawn_reinstall`, `on_update_app` | the record and versions read when it opened, the background check's answer, a worker | an Update is the one shown; shortcuts and versions follow the record | `Maintenance` |
| Prerequisites | `prereq.rs`, `tmp.rs`, `net.rs` download | what the machine has, what was unpacked | nothing runs whose hash was not compared; what is required is there | `Prereq` |
| Options and presets | `config.rs` | none: rules on answers | one decision, whoever asks | `Answers` |
| Translations | `i18n.rs` | layered catalogues | the engine words the verdict on a package | `Translations` |
| Package, embedding, packaging CLI | `package/*.rs`, `embed.rs`, `bpkg-cli` | `.bpkg`, setup, `update.json`, `installer.toml` on a disk | what is accepted is one signed release | `Release` |
| Version reading | `version.rs` | none | an order, so that "newer" has one meaning | none; versions are numbers |
| Markup, CI, examples | `ui/`, the rest | none | layout and data | none |

How they interact: the windows and the unattended run are front ends of `run_real_install`,
`apply_remote_update` and `do_uninstall_full`. `apply_remote_update` calls
`update::apply_downloaded`, which calls the update transaction, and then `record_update`.
`run_real_install` reads the record, brings the prerequisites in, closes the app, extracts the
package, and leaves the record to `do_system_integration`. The record is read again by the next
run, of whatever version, weeks later; that, the snapshot folder and the entry in the list of
programs are the memory the runs share. Nothing locks any of it. On the publisher's side the
commands of `bpkg` share files by path in the same way.

Hard behaviour: a crash or an error between any two file operations; two processes on one
folder or one package; documents replayed, lost or replaced by hosts; a record carried from run to
run; a window that goes by what it read long ago; an answer that was given before a preset, a
language or a document changed; a detached script that outlives its process; a cancel that races
the worker. `PROJECT.json` "hazards" lists each at its line.

## The modules

### AtomicUpdate, UpdateApply, UpdateRace

`UpdateApply` is `apply_checked` with every helper it calls. `pc` is the place in the code:
`check` (the refusals, 618-636), `leftover` (643), `copy` (`copy_dir`), `install`
(`install_with_progress`, one archive entry a step), `wipe`, `restore`, and `remove`
(`remove_path`, called from three places; `Outcome` says what the call returns after). A step is
one system call that changes the disk or one decision. Every call may fail where the code has an
error path, a write may be cut short (`Torn`), and `Crash` may come between any two: what survives
is `install`, `backup`, `hasBackup` and `links`. `UserEdit`, `RestoreByHand` and `DeleteByHand`
are the user, between updates, doing what the error messages say. `whole` is history: the last
version the directory held whole, with the user's changes since. Over a leftover snapshot
`ResultTellsTheTruth` does not repeat the message (`update.rs:645-649` calls it "the install as it
was", which a copy or a removal cut short by a crash is not); it says what is true: it is the install as
it was, or the directory has a whole version of its own and the snapshot may be deleted.

`AtomicUpdate` is the promise: there is one `view`, it moves from version to version at once, and
giving up brings back every file. `UpdateApply` implements it with the refinement mapping

- `view` is the snapshot while the update that took it is unsettled, the directory otherwise;
- `running` is `pc # "idle"`; `pending` is a history variable.

`UpdateRace` is two updates of one directory: process A is `UpdateApply` itself, process B a second
instance of it over the same disk with locals of its own: the window's and the unattended one, with only
`backup.exists()` between them.

### UpdateOffer

The publisher (`Sign`, `Publish`, `Resign`), the hosts (each fetch returns any document the
publisher ever signed, a stray one, or none), the mirrors (any package) and the client (`Open`,
one `FetchManifest` per source, `OfferIfNewer`, `Download`, `Apply`, `RecordUpdate`, `Quit`,
`RunSetup`). Versions are numbers, a package's SHA-256 is the package, a day is the unit of time.
Ed25519 and SHA-256 are taken as unforgeable. The publisher re-signs its latest release only.

### InstallFolder

One folder that may hold files of the user's and of two apps, its record, and the runs over it:
`BeginInstall` decides who owns the folder before anything lands in it, `Extract`, `Drop`,
`Integrate` are the rest of `run_real_install`; `ExtractStops`, `RecordFails` and `InstallDies`
its failures; `RemoteUpdate` and `RecordUpdate`; `Uninstall` from inside and from outside the
folder and the detached `SelfDelete`. `UserPut` is the user, at any time. A remote update's files
come all at once, which is what `UpdateApply` shows. One process runs at a time. It starts from an
empty folder or from what an engine before the record's `owns_dir` and `files` keys left.
`guests` are the user's files that were there when the folder's ownership was decided (by the first install
that found no record), `overtaken` says
that an install began between an uninstall and its delayed script; both are history.
`UserFilesStay` is about every step that deletes a file of the user's: it names the four ways there are
(`UserFilesGoOnlyAs`), so that there is no other. Files saved into an owned folder after the decision go
with it, and a later install does not decide again.

### Unattended

One machine and the unattended runs on it, one after the other: `Begin` is a process start, the
actions up to `Space` are `run_inner` before its job (each early return is a `Return` with its exit
code), `WaitPid` to `Settle` and `Unregister`, `Remove` are the worker (`Job::run` and what it calls
of `main.rs`), `CloseWindow`, `WriteHandoff` and `Launch` the rest. The last look at the cancel
(`LastLook`) and the first file (`Extract`) are two steps: the window may be closed in between, and the
install goes on. `Remove` has the three removals of `do_uninstall_full`: one that stops with an error
(a folder the record owns, the setup run from elsewhere: `whole` of the command line), two that pass
over what they cannot delete. `pc` names the place. The folder is
one value, the version in it or `Mixed`: `UpdateApply` and `InstallFolder` have the files. Beside the
run act the window (`AskClose` sets `cancel`, which `Cancelled` reads where `check_cancel` is called),
the app (`StartApp`, `QuitApp`, and an elevated copy), the process given as `--wait-pid`, and death.
The elevated copy of the setup is the same command line begun again with `elevated` set.
`before`, `recorded`, `inTime` (a close was asked while a look at it was to come: `LooksToCome`) and
`touched` are history, for the properties. The configuration is one that
`validate_security` loads: a key that cannot be read is not among the setups.

### Answers, Translations, Wizard

`Answers` has the rules of `config.rs` as operators: `EffectiveValue` (a card decides what it gives,
a child of a parent that is off is off), `GovernedBy`, what the options page shows (`Shown`) and does
(`SetBool`, `PickCard`, `ResetStep`), what `handoff::build` writes (`Build`), which prerequisites the
options bring in, and what a command line that names some answers comes to (`UnattendedChoices`,
`MustBeNamed`). `ConfigLoaded` is what `validate_all` lets through. `Translations` has the fallback
chain, which catalogue words a key, and the file chosen for a legal document. The iterators the code
filters and searches with are `Kept`, a recursive function, and `FirstIn`, a least index, and a tag has a
number of `Parts`, so that what they compute can be proved.

`Wizard` is the first install over the two: the steps (`BuildFlow`), their gates (`MayLeave`, kept in
`canProceed` as `render` keeps it, so that it can be stale), the callbacks that change an answer, an
acceptance, the language or the kind of install, `Install` with its worker, and the picker on the last
page, which rewrites the hand-off. `mode` is the window or a command line. `ticked` and `refused` are
history: the file on screen when a document was ticked, and what the person last said no to. A group's
step is apart from the others (`StepsAreApart`) and every option on the page belongs to one
(`GroupsAreDeclared`: `config.rs:730-733`, and the nameless group of `build_flow`).

`validate_all` lets products through for which some of these rules do not go well together. They are not
assumed away: a theorem that needs more of the product says so.

| Hypothesis | What goes wrong without it |
|---|---|
| `AutoSetsNothing`: no preset has the value `auto` | `on_install` replaces `auto` after the cards were picked (`main.rs:1474`), so another card, or none, decides what is installed: `NoMeansNo`; a command line does so after it settled what to ask and what to bring in: `OffUnlessNamed`, `PrereqsFollowHandoff` |
| `FinalIsFree`: no card sets the option asked again at the end | the picker's value is in the file and not in the answers' reading: `HandoffIsTheAnswers` |
| `AsksAfterTheTerms`: a required choice or an `always_ask` group exists | the terms are the last step and Install stands on the first of several documents: `EveryDocumentWasTicked` |
| `RequiredChoicesAreWhole`: a required choice that a preset sets, or that may be `auto`, has a card for every value | Customize, or the language in the place of `auto`, leaves a value no card shows: `RequiredAnswered` |
| `PresetsSettle`, a preset has no parent | the parent's switch erases the choice, and its default card may turn on what the picked one turned off: `NoMeansNo` |
| `PresetsSettle`, a boolean preset has no custom card | `pick_card` copies nothing for a boolean (`main.rs:3165-3213`), so what the other card turned off falls back to its default: `NoMeansNo` |
| `PresetsSettle`, what sets a finer choice sets its parent | the parent stays on the page, is switched off, and the card still turns the finer choice on: `NoMeansNo` |
| `PresetsSettle`, a card other than the custom one settles all its preset ever sets | the next card says nothing of what the last one turned off: `NoMeansNo` |

Each line was seen in a counterexample for a variant of `MCWizard`'s product that lacks just this. That
product has them all (`ProductIsPlain`, evaluated in its runs), as has `examples/bmm/installer.toml`.

### Maintenance

One installation and what is done to it over its life: `NewWindow` is what the window reads when it
opens and goes by from then on, `RemoteFound` the background check's answer, `Click...` the buttons,
`Command...` unattended runs beside an open window. A run goes through the phases of `job.phase`:
`Extract`, `DropComponents`, `Integrate`, `WriteRecord` for the setup's own package, `Download`, `Apply`,
`RecordUpdate` for a remote update, `Unregister`, `Remove` for an uninstall. Every step may fail
(`ExtractStops`, the outcomes in `Integrate` and `WriteRecord`), be left out or be the last
(`Dies`); `DeleteFolder` is somebody with a file manager. The files have versions, so that a mixture
shows, and belong to components: an Install and a modify take the chosen ones, the window's Repair and
Update the ones that are ticked when it opens (`Preset`), a command's repair and update those on record
(`InstalledComponents`), a remote update all; no component at all stands for all (`Selected`). `astray`, `takenOut`, `behind`, `unrecorded` and `asked` are history: each names one way in
which record, shortcuts and files may come apart, so that the properties can say there is no other.
`behind` is the set of files that the last run to register did not take, or that changed since;
`RegisteredIsOnDisk` is about the others.

### Prereq

`ensure_required` with `check_in`, `auto_install`, the streaming download and `extract_zip_from`, one
file of an archive a step, over several runs that share the folder and the machine; what
`run_real_install` does around it (the folder's ownership before, the files and the record after) and
the uninstall, which removes the folder whole (`RemoveFolder`: all of it, or all but what it could not
delete) or what is listed (`RemoveListed`), as it does of a folder too broad to own (`broad`,
`uninstall.rs:147-166`). `torn` are the zips that a stopped unpacking or a partial uninstall left in
part. `run` is the run and its place, `scratch` the private directory's file, which is
written by the download and opened again after it was compared. A server answers anything, an
installer does anything and says anything, people change the machine.

### Release

The publisher's disk: `pack`, `sign`, `build`, `update-manifest`, `resign-manifest`,
`verify-manifest --setup`, and `install` and `extract`, as processes (`job`) that open files by path.
`Create` and `Fill` are the two halves of every write, so that a reader may meet a `Torn` file, and a
process that `Fails` between the two leaves one. `EditConfig` is the publisher, `Damage` a bad
transfer. A package's bytes are its version, the payload its manifest lists, the payload it has and
whose signature verifies. `signed` and `mixed` are history.

## The runs

| Run | Question | Instance |
|---|---|---|
| `UpdateApply` | does the snapshot protocol hold through every failure and crash, and implement `AtomicUpdate`? | three files (program, user data, one only the new version has), one nested link, a good package, one with a bad entry, two refused; any number of updates |
| `UpdateRace` | is `backup.exists()` enough for two processes that do not overlap past it? | two files, one package |
| `UpdateOffer` | what can be installed, whatever hosts and mirrors serve? | two sources, two releases, five days, validity two days |
| `UpdateOfferInstalled` (violated) | is what is offered newer than what is installed? | same |
| `InstallFolder` | do ownership and the file list stay true over any sequence of runs, and in which ways does a file of the user's go? | two apps sharing a path, three paths, two components, a folder named after the app and one too broad to own |
| `Unattended` | is the exit code true, is nothing touched unverified, does a close asked in time leave the files alone, is a run never behind the record, does it end? | two versions, two setups that verify and one without its signature, ten command lines of five modes |
| `Wizard` | is what the app is handed what was answered and accepted? | six options (a preset and its card, a child, a select, a swatch), two documents, three languages, both modes; 109,732 states |
| `WizardTerms` (violated) | is every document accepted when the install starts? | same |
| `Maintenance` | do shortcuts, versions and files follow record and window? does the window come back? | two files of a required and an optional component, one shortcut, two versions, an app that is absent or installed, two runs; 826,494 states |
| `MaintenanceFinish` (violated) | does Finish start this installation? | two folders, two runs |
| `Prereq` | is what is unpacked pinned, what is required there, what was unpacked removed? | four prerequisites (two zips of two files, an installer, one that cannot be downloaded), three runs, uninstalls counted; 2,025,504 states |
| `Release` | is what is installed or accepted one signed release? | two versions of `installer.toml`, two payloads, one key, two commands at a time, six commands and accidents; 3,238,002 states |

Why the bounds are enough. The update's loops treat every file alike and look at no two files
together, so the cases are: a file of both versions, of the old one, of the new one, of the
user's; three files and the packages above have them all, and the proofs cover any number.
Two sources are what "the newest of several" needs; five days with a validity of two let a
manifest be issued, replayed, re-signed and expire with a newer release in between. In
`InstallFolder` two apps are what inheriting a record needs, and the three paths are one of a
required component, one of an optional component of both apps, one no package has.
`Unattended` compares versions in pairs only, and each command line adds one reason to refuse.
`Wizard` has one option of each rule in `Answers`, and a document that exists in one language only.
`Maintenance` starts from an app that is absent or from one installed with any components and shortcuts,
so that two runs are what an older window needs to write over a newer record; two files are what a
mixture needs. In `Prereq` the check file of one zip is its first and of the other its last
entry, which is when half an archive is and is not taken for a whole one; three runs are an install, an
uninstall that takes only part, and the install that meets what it left. In `Release` the longest story that matters is pack, sign, update-manifest, build,
verify-manifest and one command that interferes: six.

`MCUpdateRace.cfg` has the constraint `NotOverlapped`: past an overlap nothing is claimed (two
processes then share one `.bak`, and one deletes it under the other). Deadlock is checked in every
run. `MCRelease.cfg` has the symmetry of commands and payloads; the run has no liveness property.

Type correctness is proved for every module and run again for some only.

Fairness. `FairSpec` of `UpdateApply` and `Unattended` is weak fairness of `Step`, of `Maintenance` that
of `Work`: the code of a running update, run or worker, which is one thread that the operating system
schedules; nothing is assumed of the user, of the app, of crashes or of the outcome of a call. It
does assume that each call comes back: the waits have timeouts (`--wait-timeout`, 5 s, 15 s for a
failed window), a prerequisite's installer and the UAC prompt are taken to end. Under it
`EveryUpdateReturns`, `EveryRunExits` and `WindowComesBack`. For `Prereq`, whose subject includes
an installer that never ends (`prereq.rs:178`), nothing is claimed.

## The proofs

- `UpdateApplyProofs`: type correctness, the four safety properties and the refinement, for any set
  of files, links and packages. The invariant `IInv` has one conjunct per loop: what `copy_dir` has
  copied so far is equal to the directory, what `restore_dir` has put back is equal to the
  snapshot, and so on; without them the step that ends a loop could not conclude. The refinement is
  one lemma per step, most of them stutters. `RaceSafety` is about `UpdateRace`. Its `RaceInv`: as long as
  they never overlapped, each process keeps what its own loops rely on, and while one is past the check
  the other is not and has nothing pending. So a step of either is a step of one update (`SafeStep`), and
  the other either stood still on the disk (`QuietA`, `QuietB`) or has nothing on it to lose (`BystanderA`,
  `BystanderB`). Nothing of the run's constraint is assumed.
- `UpdateOfferProofs`: `PublisherInv` (every document signed names a release on its day and lives at
  most `MaxValidity` days) and `ClientInv` (what each fetched, chosen and downloaded thing was checked
  for). `ConstantsAssumption` bounds the days and versions; any value of the bounds will do.
- `InstallFolderProofs`: `GuestsUnclaimed` (no listed file is one of the guests), `FilesListed` (the running
  install's list covers what it wrote) and `Covered`, over any apps, files, components and setups.
  `UserFileSafety` goes through every action that changes a file: only four can take one of the user's.
- `UnattendedProofs`: `IInv` says at each place of a run which plan leads there, what may have been
  touched by then, and what was compared; the last is needed because the version `resolve` compared
  with must still be the registered one when the last file is written.
- `WizardProofs`: type correctness and the eight safety properties, for every product: any options,
  cards, groups, documents and languages. What the helpers compute comes first: `Kept` filters, `FirstIn`
  finds the least, a tag narrows to its prefixes and every chain holds the fallback (by induction on sets
  of naturals, from `WFMin`). Then, property by property, with the invariant each needed:
  - receipts: the overall answer to the terms is `on` only while every flag is (`OnMeansAll`), a flag is up
    only for the file that was ticked (`FlagsAreOfTheTexts`), no text changes once the hand-off is written.
    That no preset, reset or parent touches that answer (`LegalStandsAlone`) follows from `ConfigLoaded`;
  - the verdict's words: the language is a known one (`LangKnown`), whose chain ends in the engine's;
  - types (`Typed`), which need the place to stay in a flow that changes under it (`InFlow`);
  - the hand-off, with `FinalIsFree`: where one can be (`HandoffPlaces`) and that the copy in the window is
    the answers while the file may be one picker behind (`HandoffHeld`);
  - prerequisites, with `AutoSetsNothing`: every hand-off written or to be written has on what was
    fetched (`FetchedForHandoff`), whether `auto` was replaced before (window) or after (command line);
  - what a command line sends, with `AutoSetsNothing`: `Commanded` keeps `MustBeNamed` empty from the
    refusals to the hand-off;
  - the terms, with `AsksAfterTheTerms`: every document behind the place was ticked, and the one on screen
    when its Next is enabled (`TickedBehind`), through changes of language, of the type and Back;
  - required choices, with `RequiredChoicesAreWhole`: a group behind is answered, or ahead once more
    (`ChoicesBehind`): Reset and a change of type put it there, Customize does not undo it;
  - no means no, with `AutoSetsNothing` and `PresetsSettle`: what is refused is off in the answers, on disk
    and in the window (`Refusals`); one lemma per act: `SwitchRefuses`, `CardRefuses`, `CustomizeRefuses`,
    `ResetRefuses`.
- `MaintenanceProofs`: type correctness and the five safety properties for any files, shortcuts,
  versions and runs. `ShortcutsAreAccounted` has a clause for each of the two phases in which the
  record is behind the system on purpose; `JobIsTrue` carries what `UpdateNeverGoesBack` needs from
  the click to the last file.
- `PrereqProofs`: type correctness and the four safety properties for every list of prerequisites and
  archives of any size. `ScratchIsCompared` ties the file that is opened to the bytes that were
  hashed, `AllOrNothing` says a zip is absent, whole, torn on record or being unpacked, and
  `PassedAreThere` is the loop invariant of `ensure_required`.
- `ReleaseProofs`: type correctness and the three safety properties for any number of commands, keys,
  versions and payloads. `KeptIsSigned` ties what is read on from to what verified, `Honest` says what
  a manifest promises, on disk and in the hands of every command.

The inductive invariants of `UpdateRace` and `Wizard` were model-checked on their instances as well.

Only model-checked: `EveryUpdateReturns`, `EveryRunExits` and `WindowComesBack` (liveness and `ENABLED`
are out of the prover's reach), and everything violated. Every safety and action property of every
passing run is a theorem, as is the refinement. What a recursive function computes is proved where a
theorem needs it (`Kept`, `Narrowed`), by induction on sets: the library's induction theorems take an
operator, which the installed provers cannot instantiate.

## What the code does that its words do not say

`PROJECT.json` "findings" has three, each with its run. Seen while modelling, without a run of their own:

Updates.
- A rollback deletes the links nested in the directory (`update.rs:765`); `docs/UPDATES.md:19-20` has
  them left in place.
- A leftover snapshot may be a partial one, of a crash in `copy_dir` or `remove_path`, where the message
  calls it the install "as it was before it" and has it restored (`update.rs:645-649`).
- Two updates that both pass `backup.exists()` share one `.bak`; one deletes what the other says it kept
  (`update.rs:644`, 682).
- A remote update installs every component (`update.rs:521`), where `docs/UPDATER-SETUP.md:227-228` has
  it keep the install's.
- A manifest's expiry is checked when it is fetched, and it may be applied days later (`main.rs:1742`).
- A failed write of the mark that a signed manifest was seen is not noticed (`uninstall.rs:118`).

Folder and record.
- Who owns a folder is decided by the first install and copied from record to record (`uninstall.rs:42`):
  files saved there since go with it, a second install or a repair in between or not, where
  `docs/platform-windows.md:64-67` has a folder "that already held files" keep them: the first clause of
  `UserFilesGoOnlyAs`.
- An uninstall that cannot delete some files exits 0 when it runs from the folder or works from a list
  (`main.rs:2263` with `remove_dir_except` 2348-2362, 2270), and 1 when it removes an owned folder from
  outside (2267): the last clauses of `ExitTellsTheTruth`. `cli.rs:57-60` calls 0 success.
- A second app installed into the folder inherits its ownership and list (`uninstall.rs:43`;
  `docs/platform-windows.md:64-67`).
- A file of a dropped component that cannot be deleted leaves the record all the same (`main.rs:2135`);
  the first run over a record without a list forgets what the earlier run installed
  (`uninstall.rs:74`); the self-delete script removes a folder that was installed into again
  (`main.rs:2334`); an uninstall that fails is not found by the next one (`main.rs:2244`), and one
  without a record unregisters nothing (`main.rs:2240`).
- The record is written in place (`main.rs:2213`); a fresh install that fails half-way leaves its files
  (`main.rs:2098`, `GUIDE.md:513`).
- A modify with fewer shortcuts leaves the others in place and takes them off the record
  (`main.rs:2168`, 2202), where the comment has it "reverse exactly what was done" (2162-2163);
  `EveryShortcutIsOnRecord` excludes them as `takenOut`.
- Repair puts back the version of the setup that was copied in, older than a remote update
  (`main.rs:1684`, `GUIDE.md:456`).
- The window's Repair and Update take the components ticked when it opens, the required and the default
  ones (`main.rs:1240-1246`, 1398), and register the setup's version: a component chosen beyond them
  stays at the version it had, and is dropped from the record (2154). `RegisteredIsOnDisk` leaves
  its files out.

Unattended.
- A fresh install whose hand-off failed cannot be tried again (exit 9, `unattended.rs:574`); a running
  app makes a remote update or an uninstall exit 1 and not 7 (`unattended.rs:1083`, `main.rs:2251`); an
  elevated copy is not counted (`main.rs:2306`, `GUIDE.md:524-525`).
- The closed app may be started again between its closing and the first file (`main.rs:2060`).
- With no required component `--preset minimal` installs everything (`main.rs:2089`, `GUIDE.md:476`), and
  a modify to it then deletes the components it has just written as the dropped ones (2119-2136).
- Closed between the last look at the cancel and the first file (`main.rs:2094`-2096), the window's run
  goes on: what `CloseInTimeWritesNothing` leaves out.
- An update over an installation whose version is not known is never refused as a downgrade.

Prerequisites.
- A required zip whose unpacking stopped half-way counts as present in the next run when its check file
  came first (`prereq.rs:33-42`, `GUIDE.md:228-229`), and so does one of which an uninstall could not delete
  the check file: the `torn` of `WholeUnlessTorn`.
- After a first install that failed past its zip the retry does not own the folder (`uninstall.rs:50`);
  a zip's files are on no list (`AUDIT-SEPT24.md:78-80`): the `mixed` of `UninstallTakesZips`. They stay as
  well in a folder too broad to be removed whole (`uninstall.rs:147`): its `broad`.

Options: the table above, of the products `validate_all` accepts for which the rules clash.

Packaging.
- `update-manifest` hashes the bytes it read before it opened and verified the package
  (`bpkg-cli/src/main.rs:346-351`): a package replaced in between is named by the manifest all
  the same, though "it must be one this key signed" (349). `AcceptedIsSigned` excludes it as `mixed`.
- `bpkg extract` holds no file against the manifest (`reader.rs:289`), where the warning of
  `gate_signature` says each is verified; `install_with_progress` does not miss an entry the archive
  lacks (`reader.rs:283`).

## What is not modelled, and why

Bytes, text and calls to the system: the arithmetic of `sign.rs`, `delta.rs`, `embed.rs` and `format.rs`,
the parsing in `config.rs`, `i18n.rs` and `version.rs`, the platform backends, the markup, the CLI's
printing. Their outcomes appear as choices. The protocol handler follows the record as the shortcuts
do. Browsing for a folder and the component ticks of the first install appear as the folder and the components
a run is given. The maintenance page shows no ticks.

## Plan

1. done: every module above and its proofs.
2. `Version` and `Selection`: pure operators. `cmp_version` is a total preorder, compared with a
   reference definition; `chosen_components`, `installed_components` and the window's ticks agree.
3. `Handoff`: `write_atomic` against a reader and a crash; key generation and the delta commands.
4. Refinement: `InstallFolder`'s `RemoteUpdate` and `Maintenance`'s `Apply` by `UpdateApply`, `Unattended`'s
   folder by `InstallFolder`'s, each with its mapping.
5. Proofs: of those refinements, and of what `Version` and `Selection` compute.
