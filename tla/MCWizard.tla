------------------------------ MODULE MCWizard ------------------------------
(***************************************************************************)
(* A product in the manner of examples/bmm/installer.toml: a privacy       *)
(* choice of three cards without a default, a data-sending option with a   *)
(* finer one under it that brings a prerequisite in, a language of two     *)
(* cards, "auto" one of them, and a theme that is asked again at the end; terms in two languages and a      *)
(* privacy policy in one.                                                  *)
(***************************************************************************)
EXTENDS Wizard

MCOptions == {"language", "theme", "legal", "choice", "telemetry", "recorder"}
MCValues == {"on", "off", "auto", "fr", "light", "dark", "essential", "all", "custom"}

ByOption(choice, language, theme, other) ==
    [o \in MCOptions |-> CASE o = "choice" -> choice
                           [] o = "language" -> language
                           [] o = "theme" -> theme
                           [] OTHER -> other]

MCKind == [ByOption("select", "select", "swatch", "bool") EXCEPT !["legal"] = "license"]
MCValuesOf == ByOption({"essential", "all", "custom"}, {"auto", "fr"}, {"light", "dark"},
                      {"on", "off"})
MCDefault == [ByOption("", "auto", "light", "on") EXCEPT !["legal"] = "off"]
MCParent == [[o \in MCOptions |-> "nothing"] EXCEPT !["recorder"] = "telemetry"]
MCGroup == ByOption("privacy", "look", "look", "privacy")
MCCards == ByOption({"essential", "all", "custom"}, {"auto", "fr"}, {}, {})
MCCustomCard == ByOption("custom", "nothing", "nothing", "nothing")

Sets(p, v, o) ==
    CASE p = "choice" /\ v = "essential" /\ o = "telemetry" -> "off"
      [] p = "choice" /\ v = "all" /\ o \in {"telemetry", "recorder"} -> "on"
      [] OTHER -> "nothing"
MCGives == [p \in MCOptions |-> [v \in MCValues |-> [o \in MCOptions |-> Sets(p, v, o)]]]

MCGroups == <<"look", "privacy">>
MCGivenSets == {NoAnswers, [NoAnswers EXCEPT !["choice"] = "all"],
                [NoAnswers EXCEPT !["telemetry"] = "on"],
                [NoAnswers EXCEPT !["choice"] = "custom", !["recorder"] = "on"]}

MCLangs == {"en", "fr", "fr-CH"}
MCParts == [l \in MCLangs |-> IF l = "fr-CH" THEN 2 ELSE 1]
MCShorter == [l \in {"fr-CH"} |-> "fr"]
MCKeys == {"signature.unsigned", "ui.next"}
MCEngineHas == [l \in MCLangs |-> IF l = "en" THEN MCKeys ELSE {}]
MCProductHas == [l \in MCLangs |-> IF l = "fr" THEN MCKeys ELSE {}]
MCDocuments == <<"TOS.md", "PRIVACY.md">>
MCVersions ==
    [l \in MCLangs |-> IF l = "fr" THEN <<<<"TOS_FR.md">>, <<"PRIVACY_FR.md">>>>
                                   ELSE <<<<>>, <<>>>>]
MCPackaged == {"TOS.md", "PRIVACY.md", "TOS_FR.md"}
MCFlagFor == [f \in MCPackaged |-> IF f = "PRIVACY.md" THEN "--accept-privacy"
                                                       ELSE "--accept-terms"]

\* What some of the theorems ask of a product, this one has.
ASSUME ProductIsPlain ==
    /\ AutoSetsNothing /\ PresetsSettle /\ RequiredChoicesAreWhole
    /\ AsksAfterTheTerms /\ FinalIsFree
=============================================================================
