------------------------------- MODULE Wizard -------------------------------
(***************************************************************************)
(* A fresh install as the person meets it: the steps of the window, the    *)
(* terms, the answers, the hand-off file the app reads at its first start, *)
(* the files, and the picker on the last page (installer/src/main.rs,      *)
(* run_gui) - or the same install from a command line (unattended.rs).     *)
(*                                                                         *)
(* Left out: the look of the pages, the folder field, the components and   *)
(* shortcuts (InstallFolder), and run_real_install, which here succeeds or *)
(* fails (Unattended, Package).  The product has its hand-off enabled.     *)
(***************************************************************************)
EXTENDS Integers, Sequences, Answers, Translations

CONSTANTS
    Groups,        \* the groups that have an option, in display order
    AlwaysAsk,     \* the groups a Recommended install shows all the same
    FinalOption,   \* the swatch offered again at the end
    Tracked,       \* the documents the app keeps consents for
    FlagFor,       \* the flag that accepts a document on the command line
    GivenSets,     \* the answers --set and --telemetry may name
    Absent         \* no hand-off

ASSUME GivenAreNameable == GivenSets \subseteq Nameable
ASSUME StepsAreApart ==
    Groups \in Seq(Range(Groups)) /\ {"welcome", "legal", "location"} \cap Range(Groups) = {}
ASSUME GroupsAreDeclared == \A o \in Visible : DisplayGroup(o) \in Range(Groups)
ASSUME FinalIsASwatch == FinalOption \in Visible /\ Kind[FinalOption] = "swatch"

VARIABLES
    mode,          \* "window" or "command"
    readable,      \* the package may be read: its signature is not known to be broken
    page, cur, custom,      \* the page, the step and the install type picked
    lang, docs, li,         \* the language, its legal documents and the one on screen
    accepted,      \* a flag per document
    answers,       \* `chosen`
    canProceed,    \* whether Next or Install may be pressed
    job,           \* run_real_install
    disk,          \* the hand-off file
    held,          \* `written_handoff`, what the picker would rewrite
    fetched,       \* the options whose prerequisite the install brings in
    success,
    finalVisible, finalValue,
    named,         \* what the command line of an unattended run names
    flags,         \* its --accept flags
    ticked,        \* history: the file that was on screen when document i was ticked
    refused        \* history: the options the person's last act turned off

choiceVars == <<answers, accepted, ticked, refused>>
placeVars == <<page, cur, custom, li, canProceed>>
textVars == <<lang, docs>>
endVars == <<job, disk, held, fetched, success, finalVisible, finalValue>>
givenVars == <<mode, readable, named, flags>>
vars == <<choiceVars, placeVars, textVars, endVars, givenVars>>

-----------------------------------------------------------------------------
(* The steps.  A group is its own step.                                    *)

\* Mutant: a Recommended install asks only what is marked always_ask.
MustAnswerNever(g) == FALSE

MustAnswer(g) ==
    \E o \in Visible \cap Required :
        DisplayGroup(o) = g /\ Cards[o] # {} /\ Kind[o] # "license"

BuildFlow(c, count) ==
    <<"welcome">>
    \o (IF count > 0 THEN <<"legal">> ELSE <<>>)
    \o (IF c THEN <<"location">> ELSE <<>>)
    \o Kept(Groups, {g \in Range(Groups) : c \/ g \in AlwaysAsk \/ MustAnswer(g)})

\* Of a product, as in Answers: some step always follows the terms, ...
AsksAfterTheTerms ==
    \/ Range(Groups) \cap AlwaysAsk # {}
    \/ \E o \in Visible \cap Required : Cards[o] # {} /\ Kind[o] # "license"

\* ... and no card sets the option that is asked again.
FinalIsFree == \A p \in Options : \A v \in Cards[p] : Gives[p][v][FinalOption] = Nothing

Flow == BuildFlow(custom, Len(docs))
Step == Flow[cur]
LastStep == cur = Len(Flow)

\* Mutant: the first document's tick opens them all.
MayLeaveOnce(step, i, acc, a) ==
    CASE step = "legal" -> acc[1]
      [] step \in {"welcome", "location"} -> TRUE
      [] OTHER -> GroupAnswered(step, a) /\ ComputeCanProceed(a)

\* render: may this step be left?
MayLeave(step, i, acc, a) ==
    CASE step = "legal" -> acc[i]
      [] step \in {"welcome", "location"} -> TRUE
      [] OTHER -> GroupAnswered(step, a) /\ ComputeCanProceed(a)

AnyValue == {"off"} \cup UNION {ValuesOf[o] \cup {Default[o]} : o \in Options}
Handoffs == [values : [Options -> AnyValue], consents : SUBSET Packaged]

TypeOK ==
    /\ mode \in {"window", "command"} /\ readable \in BOOLEAN
    /\ page \in {"steps", "command", "progress", "done", "closed"}
    /\ cur \in Nat \ {0} /\ li \in Nat \ {0}
    /\ custom \in BOOLEAN /\ canProceed \in BOOLEAN
    /\ lang \in Langs
    /\ accepted \in [DOMAIN docs -> BOOLEAN]
    /\ Answered(answers)
    /\ job \in {"none", "running", "ok", "failed"}
    /\ {disk, held} \subseteq Handoffs \cup {Absent}
    /\ fetched \subseteq Installs
    /\ success \in BOOLEAN /\ finalVisible \in BOOLEAN
    /\ refused \subseteq Options

Init ==
    /\ mode \in {"window", "command"}
    /\ readable \in BOOLEAN /\ (mode = "command" => readable)
    /\ lang \in Langs
    /\ docs = LoadLegalDocs(lang, readable)
    /\ accepted = [i \in DOMAIN docs |-> FALSE]
    /\ ticked = [i \in DOMAIN docs |-> NoFile]
    /\ answers \in GivenSets
    /\ named = (IF mode = "command" THEN answers ELSE NoAnswers)
    /\ flags \in SUBSET {FlagFor[f] : f \in Packaged} /\ (mode = "window" => flags = {})
    /\ page = (IF mode = "window" THEN "steps" ELSE "command")
    /\ cur = 1 /\ li = 1 /\ custom = FALSE /\ canProceed = TRUE
    /\ job = "none" /\ disk = Absent /\ held = Absent /\ fetched = {}
    /\ success = FALSE /\ finalVisible = FALSE /\ finalValue = Default[FinalOption]
    /\ refused = {}

-----------------------------------------------------------------------------
(* Moving through the steps.                                               *)

MoveTo(c, i) ==
    /\ cur' = c /\ li' = i
    /\ canProceed' = MayLeave(Flow[c], i, accepted, answers)
    /\ UNCHANGED <<page, custom, choiceVars, textVars, endVars, givenVars>>

\* The terms page through their documents before they are left.
GoNext ==
    /\ page = "steps" /\ canProceed /\ ~LastStep
    /\ IF Step = "legal" /\ li < Len(docs)
       THEN MoveTo(cur, li + 1)
       ELSE MoveTo(cur + 1, IF Flow[cur + 1] = "legal" THEN 1 ELSE li)

GoBack ==
    /\ page = "steps" /\ cur > 1
    /\ IF Step = "legal" /\ li > 1
       THEN MoveTo(cur, li - 1)
       ELSE MoveTo(cur - 1, IF Flow[cur - 1] = "legal" THEN Len(docs) ELSE li)

ModePicked(c) ==
    /\ page = "steps" /\ Step = "welcome"
    /\ custom' = c
    /\ canProceed' = TRUE
    /\ UNCHANGED <<page, cur, li, choiceVars, textVars, endVars, givenVars>>

-----------------------------------------------------------------------------
(* The terms.                                                              *)

LegalAcceptToggled(v) ==
    /\ page = "steps" /\ Step = "legal"
    /\ accepted' = [accepted EXCEPT ![li] = v]
    /\ ticked' = [ticked EXCEPT ![li] = IF v THEN docs[li] ELSE NoFile]
    /\ answers' = [answers EXCEPT ![Legal] =
                      IF \A i \in DOMAIN docs : accepted'[i] THEN "on" ELSE "off"]
    /\ canProceed' = v
    /\ UNCHANGED <<refused, page, cur, custom, li, textVars, endVars, givenVars>>

\* Mutant: an acceptance is kept when the text changes.
ReloadKeeping(fresh) ==
    /\ docs' = IF DOMAIN fresh = DOMAIN docs THEN fresh ELSE docs
    /\ UNCHANGED <<accepted, answers>>

\* apply_language: a document whose file changed has to be accepted again - where there
\* are as many of them as before; otherwise the old texts stay on screen.
Reload(fresh) ==
    IF DOMAIN fresh = DOMAIN docs
    THEN /\ docs' = fresh
         /\ accepted' = [i \in DOMAIN docs |-> accepted[i] /\ fresh[i] = docs[i]]
         /\ answers' = IF answers[Legal] = Unanswered THEN answers
                       ELSE [answers EXCEPT ![Legal] =
                                IF \A i \in DOMAIN docs : accepted'[i] THEN "on" ELSE "off"]
    ELSE UNCHANGED <<docs, accepted, answers>>

LanguagePicked(l) ==
    /\ page = "steps" /\ l \in Available(readable)
    /\ lang' = l
    /\ Reload(LoadLegalDocs(l, readable))
    /\ canProceed' = MayLeave(Step, li, accepted', answers')
    /\ UNCHANGED <<ticked, refused, page, cur, custom, li, endVars, givenVars>>

-----------------------------------------------------------------------------
(* The options of a group's step.  `refused` follows what each act says no *)
(* to: an option and what refines it go together.                          *)

OnScreen(o) == o \in Visible /\ DisplayGroup(o) = Step /\ Shown(o, answers)
WithChildren(S) == S \cup ChildrenOf(S)

Answer1(a, r) ==
    /\ answers' = a
    /\ refused' = r
    /\ UNCHANGED <<accepted, ticked, page, cur, custom, li, textVars, endVars, givenVars>>

Rendered(a) == canProceed' = MayLeave(Step, li, accepted, a)

Switched(o, v) ==
    IF v = "off" THEN refused \cup WithChildren({o}) ELSE refused \ WithChildren({o})

OptionBoolChanged(o, v) ==
    /\ page = "steps" /\ OnScreen(o)
    /\ Kind[o] \in {"bool", "license"} /\ Cards[o] = {} /\ v \in {"on", "off"}
    /\ LET a == SetBool(answers, o, v)
       IN  Answer1(a, Switched(o, v)) /\ Rendered(a)

\* What a card says of the options it sets; the custom card leaves them as they are.
CardSays(p, v) ==
    LET before == IF Kind[p] = "bool" THEN Switched(p, v) ELSE refused
        ons  == {o \in Options : Gives[p][v][o] = "on"}
        offs == {o \in Options : Gives[p][v][o] = "off"}
    IN  IF v = CustomCard[p] THEN before
        ELSE (before \ WithChildren(ons)) \cup (WithChildren(offs) \ ons)

OptionCardPicked(p, v) ==
    /\ page = "steps" /\ OnScreen(p) /\ v \in Cards[p]
    /\ LET a == PickCard(answers, p, v)
       IN  Answer1(a, CardSays(p, v)) /\ Rendered(a)

\* A dropdown or a tile: nothing is rendered again.
OptionSelectChanged(o, v) ==
    /\ page = "steps" /\ OnScreen(o)
    /\ Kind[o] \in {"select", "swatch"} /\ Cards[o] = {} /\ v \in ValuesOf[o]
    /\ Answer1([answers EXCEPT ![o] = v], refused)
    /\ UNCHANGED canProceed

\* Back to the defaults of this step, and of what its presets decide.
ResetOptions ==
    /\ page = "steps" /\ Step \in Range(Groups)
    /\ LET a    == ResetStep(answers, Step)
           here == {o \in Visible : DisplayGroup(o) = Step}
       IN  /\ Answer1(a, refused \ UNION {{o} \cup GovernedBy(o) : o \in here})
           /\ Rendered(a)

-----------------------------------------------------------------------------
(* Install.                                                                *)

\* Mutant: whether or not the select has that value.
ResolveAutoSelectsAnyway(a) ==
    [o \in Options |-> IF Kind[o] = "select" /\ Own(o, a) = "auto"
                       THEN ResolveAmong(lang, ValuesOf[o]) ELSE a[o]]

\* A select still on "auto" takes the language of the window, if it has that value.
ResolveAutoSelects(a) ==
    [o \in Options |->
        IF /\ Kind[o] = "select" /\ Own(o, a) = "auto"
           /\ ResolveAmong(lang, ValuesOf[o]) # NoTag
        THEN ResolveAmong(lang, ValuesOf[o]) ELSE a[o]]

Receipts == {docs[i] : i \in DOMAIN docs} \cap Tracked

HandoffOf(a) ==
    [values |-> Build(a),
     consents |-> IF a[Legal] = "on" THEN Receipts ELSE {}]

Install(written) ==
    /\ page = "steps" /\ LastStep /\ canProceed
    /\ LET a == ResolveAutoSelects(answers)
       IN  /\ answers' = a
           /\ disk' = IF written THEN HandoffOf(a) ELSE disk
           /\ held' = IF written THEN HandoffOf(a) ELSE held
           /\ fetched' = PrereqsChosen(a)
           /\ finalValue' = IF a[FinalOption] # Unanswered THEN a[FinalOption] ELSE finalValue
    /\ page' = "progress" /\ job' = "running"
    /\ UNCHANGED <<accepted, ticked, refused, cur, custom, li, canProceed, textVars,
                   success, finalVisible, givenVars>>

\* The end of run_real_install in the window.  It refuses a package whose signature is broken.
WorkerEnds(ok) ==
    /\ page = "progress" /\ mode = "window" /\ (ok => readable)
    /\ job' = IF ok THEN "ok" ELSE "failed"
    /\ page' = "done"
    /\ success' = (ok /\ held # Absent)
    /\ finalVisible' = (ok /\ held # Absent)
    /\ UNCHANGED <<choiceVars, cur, custom, li, canProceed, textVars, disk, held, fetched,
                   finalValue, givenVars>>

-----------------------------------------------------------------------------
(* The last page.                                                          *)

FinalPicked(v) ==
    /\ page = "done" /\ finalVisible /\ v \in ValuesOf[FinalOption]
    /\ finalValue' = v
    /\ UNCHANGED <<choiceVars, placeVars, textVars, job, disk, held, fetched, success,
                   finalVisible, givenVars>>

\* Mutant: the hand-off is rewritten as it was.
FinalApplyStale(written) ==
    /\ page = "done" /\ finalVisible
    /\ answers' = [answers EXCEPT ![FinalOption] = finalValue]
    /\ finalVisible' = FALSE
    /\ UNCHANGED <<accepted, ticked, refused, placeVars, textVars, job, disk, held, fetched,
                   success, finalValue, givenVars>>

FinalApply(written) ==
    /\ page = "done" /\ finalVisible
    /\ answers' = [answers EXCEPT ![FinalOption] = finalValue]
    /\ held' = [held EXCEPT !.values[FinalOption] = finalValue]
    /\ disk' = IF written THEN held' ELSE disk
    /\ finalVisible' = FALSE
    /\ UNCHANGED <<accepted, ticked, refused, placeVars, textVars, job, fetched, success,
                   finalValue, givenVars>>

FinalSkip ==
    /\ page = "done" /\ finalVisible
    /\ finalVisible' = FALSE
    /\ UNCHANGED <<choiceVars, placeVars, textVars, job, disk, held, fetched, success,
                   finalValue, givenVars>>

\* Finish, or the cross of the title bar at any time: the process ends, the worker with it.
Close ==
    /\ mode = "window" /\ page # "closed"
    /\ page' = "closed"
    /\ UNCHANGED <<choiceVars, cur, custom, li, canProceed, textVars, endVars, givenVars>>

-----------------------------------------------------------------------------
(* The command line.                                                       *)

MissingConsents == {FlagFor[docs[i]] : i \in DOMAIN docs} \ flags

CommandRefused ==
    /\ page = "command"
    /\ MustBeNamed(named) # {} \/ MissingConsents # {}
    /\ page' = "closed"
    /\ UNCHANGED <<choiceVars, cur, custom, li, canProceed, textVars, endVars, givenVars>>

CommandInstalls ==
    /\ page = "command"
    /\ MustBeNamed(named) = {} /\ MissingConsents = {}
    /\ LET a == [UnattendedChoices(named) EXCEPT
                    ![Legal] = IF Legal \in Required THEN "on" ELSE @]
       IN  answers' = a /\ fetched' = PrereqsChosen(a)
    /\ page' = "progress" /\ job' = "running"
    /\ UNCHANGED <<accepted, ticked, refused, cur, custom, li, canProceed, textVars, disk,
                   held, success, finalVisible, finalValue, givenVars>>

\* Here the hand-off is written last, and only when the files are there.
CommandEnds(ok, written) ==
    /\ page = "progress" /\ mode = "command"
    /\ job' = IF ok THEN "ok" ELSE "failed"
    /\ answers' = IF ok THEN ResolveAutoSelects(answers) ELSE answers
    /\ disk' = IF ok /\ written THEN HandoffOf(answers') ELSE disk
    /\ success' = (ok /\ written)
    /\ page' = "closed"
    /\ UNCHANGED <<accepted, ticked, refused, cur, custom, li, canProceed, textVars, held,
                   fetched, finalVisible, finalValue, givenVars>>

Ended == page = "closed" /\ UNCHANGED vars

-----------------------------------------------------------------------------
Answering ==
    \/ \E o \in Options, v \in {"on", "off"} : OptionBoolChanged(o, v)
    \/ \E o \in Options : \E v \in Cards[o] : OptionCardPicked(o, v)
    \/ \E o \in Options : \E v \in ValuesOf[o] : OptionSelectChanged(o, v)
    \/ ResetOptions

Worker ==
    \/ \E ok \in BOOLEAN : WorkerEnds(ok)
    \/ \E ok, written \in BOOLEAN : CommandEnds(ok, written)

Next ==
    \/ GoNext
    \/ GoBack
    \/ \E c \in BOOLEAN : ModePicked(c)
    \/ \E v \in BOOLEAN : LegalAcceptToggled(v)
    \/ \E l \in Langs : LanguagePicked(l)
    \/ Answering
    \/ \E written \in BOOLEAN : Install(written)
    \/ \E v \in ValuesOf[FinalOption] : FinalPicked(v)
    \/ \E written \in BOOLEAN : FinalApply(written)
    \/ FinalSkip
    \/ Close
    \/ CommandRefused
    \/ CommandInstalls
    \/ Worker
    \/ Ended

Spec == Init /\ [][Next]_vars

-----------------------------------------------------------------------------
(***************************************************************************)
(* The consent receipts the app finds are of the texts the person ticked,  *)
(* the very files, in the language they were read in; on the command line, *)
(* of documents whose flag was given.  Switching the language, paging back *)
(* and forth and unticking happen in between (handoff.rs:44-60).           *)
(***************************************************************************)
ReceiptsAreOfAcceptedTexts ==
    disk # Absent /\ disk.consents # {} =>
        \A i \in DOMAIN docs :
            IF mode = "window" THEN ticked[i] = docs[i] ELSE FlagFor[docs[i]] \in flags

(***************************************************************************)
(* No install starts over a document the person never ticked, in whatever  *)
(* language it was shown then (main.rs, refresh_legal: "Each document must *)
(* be accepted before its Next is enabled").  It needs a step after the    *)
(* terms: on the last step Install takes the place of Next on every one of *)
(* the documents.                                                          *)
(***************************************************************************)
EveryDocumentWasTicked ==
    page \in {"progress", "done"} /\ mode = "window" => \A i \in DOMAIN docs : ticked[i] # NoFile

(***************************************************************************)
(* What the person's last act turned off stays off in the hand-off: by a   *)
(* card, by its own switch, or with the option it refines, through resets, *)
(* other cards, "Customize" and the steps a Recommended install leaves out *)
(* (config.rs: "that is what makes 'Essential only' mean essential only"). *)
(***************************************************************************)
NoMeansNo ==
    disk # Absent /\ mode = "window" =>
        \A o \in refused : Kind[o] = "bool" => disk.values[o] # "on"

(***************************************************************************)
(* Install is reached only with every required choice made, whichever way  *)
(* the person went: back, with Reset on an earlier step, and with the type *)
(* of the install changed (main.rs, group_answered).                       *)
(***************************************************************************)
RequiredAnswered ==
    page \in {"progress", "done"} /\ mode = "window" =>
        \A p \in Visible \cap Required : Cards[p] # {} => PickedCard(p, answers) # Nothing

(***************************************************************************)
(* The hand-off is the answers as they stand, the picker's included once   *)
(* it was applied; a save of the picker that failed leaves the earlier one *)
(* whole (main.rs:1200, "Rewrite the handoff in place").                   *)
(***************************************************************************)
HandoffIsTheAnswers ==
    disk # Absent =>
        /\ \E v \in Answer[FinalOption] :
              disk.values = Build([answers EXCEPT ![FinalOption] = v])
        /\ finalVisible \/ page = "progress" \/ disk = held => disk.values = Build(answers)

(***************************************************************************)
(* The prerequisites an install brings in are those of the options the     *)
(* hand-off reports as on: one decision, not the same one asked twice      *)
(* (main.rs:1265).  The window computes the two together, a command line   *)
(* before and after the install.                                           *)
(***************************************************************************)
PrereqsFollowHandoff ==
    disk # Absent => fetched = {o \in Installs : disk.values[o] = "on"}

(***************************************************************************)
(* Unattended, nothing that sends data is on unless the command line named *)
(* it, the option it refines, or a card that sets one of the two           *)
(* (unattended.rs:788-794).                                                *)
(***************************************************************************)
NamedOn(o) ==
    \/ named[o] = "on"
    \/ \E p \in Options : named[p] \in Cards[p] /\ Gives[p][named[p]][o] = "on"

OffUnlessNamed ==
    disk # Absent /\ mode = "command" =>
        \A o \in SendsData : Kind[o] = "bool" /\ disk.values[o] = "on" =>
            NamedOn(o) \/ (Parent[o] # Nothing /\ NamedOn(Parent[o]))

(***************************************************************************)
(* In every language of the picker and with every package that is read,    *)
(* the installer's verdict on the package is worded by the engine          *)
(* (i18n.rs:52-62).                                                        *)
(***************************************************************************)
EngineWordsTheVerdict == \A k \in EngineOnly : Lookup(lang, k, readable) = "engine"

(***************************************************************************)
(* main.rs:1511-1513 of the receipts: "The license step cannot be passed   *)
(* without accepting each one, so reaching here IS the acceptance".        *)
(***************************************************************************)
TermsAcceptedBeforeInstall ==
    page = "progress" /\ mode = "window" => \A i \in DOMAIN docs : accepted[i]
=============================================================================
