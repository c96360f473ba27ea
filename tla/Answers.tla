------------------------------ MODULE Answers ------------------------------
(***************************************************************************)
(* What the answers to a product's [[setup_option]]s amount to: the rules  *)
(* of bpkg-core's config.rs that the options page, the hand-off and the    *)
(* prerequisites share, and the two ways of giving answers, in the window  *)
(* and on the command line.                                                *)
(*                                                                         *)
(* A value is a string; a boolean answer is "on" or "off".  The answers    *)
(* (`chosen` in the code) give every option a value or Unanswered.         *)
(***************************************************************************)
EXTENDS Sequences, FiniteSets

CONSTANTS
    Options,      \* the ids of the setup options
    Kind,         \* [Options -> {"bool", "select", "swatch", "license"}]
    ValuesOf,     \* the values an option can take
    Default,      \* its declared default
    Parent,       \* the option it refines, or Nothing
    Group,        \* the group it is declared under
    Cards,        \* the values that are shown as cards
    CustomCard,   \* the card that reveals the finer choices, or Nothing
    Gives,        \* Gives[p][v][o]: what card v of p sets o to, or Nothing
    Required,     \* options with required = true
    SendsData,    \* options with sends_data = true
    Legal,        \* the license option that has documents
    Installs      \* bool options that bring a prerequisite in

Unanswered == "unanswered"
Nothing == "nothing"

Visible == Options \ {Legal}
\* Customizing writes down what an option came to, a default too, whatever it is.
Answer == [o \in Options |-> ValuesOf[o] \cup {Default[o], Unanswered}]
Answered(a) == \A o \in Options : a[o] \in Answer[o]

ChildrenOf(S) == {c \in Options : Parent[c] \in S}
Preset(p) == \E v \in Cards[p], o \in Options : Gives[p][v][o] # Nothing

-----------------------------------------------------------------------------
(* What InstallerConfig::validate_all makes of the options before anything *)
(* is shown.                                                               *)

LinksAreValid == \A o \in Installs : o \in Options /\ Kind[o] = "bool"

ParentsAreValid ==
    \A o \in Options : Parent[o] # Nothing =>
        /\ Kind[o] = "bool"
        /\ Parent[o] \in Options \ {o}
        /\ Kind[Parent[o]] = "bool"
        /\ Parent[Parent[o]] = Nothing

CardsAreValid ==
    \A p \in Options :
        /\ Cards[p] # {} => Kind[p] \in {"bool", "select"}
        /\ Cards[p] \subseteq ValuesOf[p]
        /\ \A v \in Cards[p], o \in Options : Gives[p][v][o] # Nothing =>
              /\ v # CustomCard[p]
              /\ o # p /\ Kind[o] # "license" /\ ~Preset(o)
              /\ Gives[p][v][o] \in ValuesOf[o]
              /\ \A q \in Options : \A w \in Cards[q] : Gives[q][w][o] # Nothing => q = p

ASSUME ConfigLoaded ==
    /\ Nothing \notin Options
    /\ Required \cup SendsData \subseteq Options
    /\ Legal \in Options /\ Kind[Legal] = "license"
    /\ \A o \in Options : /\ Unanswered \notin ValuesOf[o]
                          /\ Nothing \notin ValuesOf[o]
                          /\ Kind[o] \in {"bool", "license"} => ValuesOf[o] = {"on", "off"}
    /\ LinksAreValid
    /\ ParentsAreValid
    /\ CardsAreValid

-----------------------------------------------------------------------------
Own(o, a) == IF a[o] # Unanswered THEN a[o] ELSE Default[o]

\* The card picked on p, or Nothing.
PickedCard(p, a) == IF Own(p, a) \in Cards[p] THEN Own(p, a) ELSE Nothing

\* The presets whose picked card decides o.
Deciding(o, a) ==
    {p \in Options \ {o} : /\ PickedCard(p, a) # Nothing
                           /\ Gives[p][PickedCard(p, a)][o] # Nothing}

\* Mutant: the answer given before the card wins.
TopValueAnswerFirst(o, a) ==
    IF a[o] = Unanswered /\ Deciding(o, a) # {}
    THEN LET p == CHOOSE p \in Deciding(o, a) : TRUE
         IN  Gives[p][PickedCard(p, a)][o]
    ELSE Own(o, a)

TopValue(o, a) ==
    IF Deciding(o, a) # {}
    THEN LET p == CHOOSE p \in Deciding(o, a) : TRUE
         IN  Gives[p][PickedCard(p, a)][o]
    ELSE Own(o, a)

EffectiveValue(o, a) ==
    IF /\ Deciding(o, a) = {}
       /\ Parent[o] # Nothing
       /\ TopValue(Parent[o], a) # "on"
    THEN "off"
    ELSE TopValue(o, a)

GovernedBy(p) ==
    LET direct == {o \in Options : \E v \in Cards[p] : Gives[p][v][o] # Nothing}
    IN  direct \cup ChildrenOf(direct)

DisplayGroup(o) == IF Parent[o] # Nothing THEN Group[Parent[o]] ELSE Group[o]

\* The rows of the options page that can be answered: a child only under a parent that is
\* on, an option a preset governs only under that preset's custom card.
Shown(o, a) ==
    /\ Parent[o] # Nothing => EffectiveValue(Parent[o], a) = "on"
    /\ \A p \in Options \ {o} : Preset(p) /\ o \in GovernedBy(p) =>
          PickedCard(p, a) # Nothing /\ PickedCard(p, a) = CustomCard[p]

-----------------------------------------------------------------------------
(* What validate_all lets through although some of the rules below do not  *)
(* go well with it; a property that needs one of these says so.            *)

MayBeAuto(o) == Kind[o] = "select" /\ "auto" \in ValuesOf[o] \cup {Default[o]}

\* No preset can be "auto", which is replaced late.
AutoSetsNothing == \A p \in Options : Preset(p) => ~MayBeAuto(p)

\* A preset is no finer choice itself, and Customize is a card of a select.  A card but
\* that one settles all its preset ever sets: itself, or by switching the parent off.
PresetsSettle ==
    \A p \in Options : Preset(p) =>
        /\ Parent[p] = Nothing
        /\ Kind[p] = "bool" => CustomCard[p] = Nothing
        /\ \A o \in Options : (\E v \in Cards[p] : Gives[p][v][o] # Nothing) =>
              /\ Parent[o] # Nothing => \E v \in Cards[p] : Gives[p][v][Parent[o]] # Nothing
              /\ \A v \in Cards[p] \ {CustomCard[p]} :
                    \/ Gives[p][v][o] # Nothing
                    \/ Parent[o] # Nothing /\ Gives[p][v][Parent[o]] = "off"

\* A required choice that may come to a value nobody picked, by a preset or in the place of
\* "auto", has a card for every value.
RequiredChoicesAreWhole ==
    \A o \in Required :
        MayBeAuto(o) \/ (\E p \in Options : Preset(p) /\ o \in GovernedBy(p)) =>
            Cards[o] \in {{}, ValuesOf[o]}

-----------------------------------------------------------------------------
SetBool(a, o, v) ==
    [x \in Options |-> CASE x = o -> v
                         [] x # o /\ Parent[x] = o -> Unanswered
                         [] OTHER -> a[x]]

\* Picking the custom card first copies what the card picked before it gave.
PickCard(a, p, v) ==
    IF Kind[p] = "bool" THEN SetBool(a, p, v)
    ELSE LET seeded == IF v = CustomCard[p] /\ PickedCard(p, a) # v
                       THEN GovernedBy(p) ELSE {}
         IN  [x \in Options |-> CASE x = p -> v
                                  [] x # p /\ x \in seeded -> EffectiveValue(x, a)
                                  [] OTHER -> a[x]]

ResetStep(a, g) ==
    [x \in Options |-> IF x \in Visible /\ DisplayGroup(x) = g THEN Unanswered ELSE a[x]]

GroupAnswered(g, a) ==
    \A o \in Visible \cap Required :
        DisplayGroup(o) = g /\ Cards[o] # {} => PickedCard(o, a) # Nothing

\* A license option without documents is a row of the page, and has to be ticked.
ComputeCanProceed(a) ==
    \A o \in Visible \cap Required : Kind[o] = "license" => a[o] = "on"

\* What handoff::build writes for every option.
Build(a) == [o \in Options |-> EffectiveValue(o, a)]

\* Mutant: the answer itself is looked at, not what it comes to.
PrereqsChosenByAnswer(a) == {o \in Installs : Own(o, a) = "on"}

PrereqsChosen(a) == {o \in Installs : EffectiveValue(o, a) = "on"}

-----------------------------------------------------------------------------
(* The command line.  `named` holds what --set and --telemetry name.       *)

NoAnswers == [o \in Options |-> Unanswered]
Nameable == {a \in [Options -> (UNION {ValuesOf[o] : o \in Options}) \cup {Unanswered}] :
                \A o \in Options :
                    a[o] \in IF Kind[o] = "license" THEN {Unanswered}
                            ELSE ValuesOf[o] \cup {Unanswered}}

\* Mutant: the declared defaults of the window hold here too.
UnattendedChoicesDefaulted(named) == named

\* Every data-sending switch nobody named is off, save a child of a parent named on.
UnattendedChoices(named) ==
    [o \in Options |->
        IF /\ o \in SendsData /\ Kind[o] = "bool" /\ named[o] = Unanswered
           /\ ~(Parent[o] # Nothing /\ named[Parent[o]] = "on")
        THEN "off" ELSE named[o]]

\* The choices that must be named: their default card would turn a data-sending option on.
MustBeNamed(named) ==
    {p \in Options :
        /\ named[p] = Unanswered
        /\ PickedCard(p, UnattendedChoices(named)) # Nothing
        /\ \E o \in SendsData : Gives[p][PickedCard(p, UnattendedChoices(named))][o] = "on"}
=============================================================================
