---------------------------- MODULE Translations ----------------------------
(***************************************************************************)
(* The installer's languages (bpkg-core's i18n.rs) and what follows them:  *)
(* who words a string, and which file of the package is shown for a legal  *)
(* document.  A catalogue is the set of keys it has a string for; a string *)
(* is who worded it, "engine" or "product".                                *)
(***************************************************************************)
EXTENDS Integers, Sequences, SequencesExt

CONSTANTS
    Langs,        \* language tags
    Fallback,     \* "en", in which the engine's catalogue is complete
    Parts,        \* how many parts, between hyphens, a tag has
    Shorter,      \* the tag without its last part
    Keys,
    EngineOnly,   \* the keys in which the installer speaks about the package
    EngineHas,    \* [Langs -> SUBSET Keys]: the catalogues in the binary
    ProductHas,   \* [Langs -> SUBSET Keys]: the catalogues in the package
    Documents,    \* the legal option's documents, in order
    Versions,     \* Versions[l][i]: the names document i may have in l, in order
    Packaged      \* the files the package has

NoTag == "none"
NoFile == "nothing"

ASSUME LanguagesLoaded ==
    /\ Fallback \in Langs /\ EngineOnly \subseteq Keys
    /\ EngineHas[Fallback] = Keys
    /\ \A l \in Langs :
          /\ Parts[l] \in Nat \ {0}
          /\ Parts[l] > 1 => Shorter[l] \in Langs /\ Parts[Shorter[l]] = Parts[l] - 1
    /\ NoTag \notin Langs
    /\ NoFile \notin Packaged
    /\ Documents \in Seq(Range(Documents))

-----------------------------------------------------------------------------
(* Iterators, over a set of values (a filter by recursion, as SelectSeq, but a function).  *)

\* filter: the elements of s that are in S, in order.
Kept(s, S) ==
    LET kept[i \in 0 .. Len(s)] ==
          IF i = 0 THEN <<>>
          ELSE IF s[i] \in S THEN Append(kept[i - 1], s[i]) ELSE kept[i - 1]
    IN  kept[Len(s)]

\* find: the first element of s that is in S, or none.
FirstIn(s, S, none) ==
    LET at == {i \in DOMAIN s : s[i] \in S}
    IN  IF at = {} THEN none ELSE s[Min(at)]

-----------------------------------------------------------------------------
\* The tag and what is left of it as parts are cut off its end.
Narrowed(l) ==
    LET cut[i \in 1 .. Parts[l]] == IF i = 1 THEN l ELSE Shorter[cut[i - 1]]
    IN  cut

FallbackChain(l) ==
    IF Fallback \in Range(Narrowed(l)) THEN Narrowed(l) ELSE Append(Narrowed(l), Fallback)

\* Mutant: a product's catalogue is layered in as it is.
AcceptedAll(l) == ProductHas[l]

\* add_catalog: the product's string wins, save where only the engine may speak.
Accepted(l) == ProductHas[l] \ EngineOnly

WordedBy(l, k, products) ==
    CASE products /\ k \in Accepted(l) -> "product"
      [] ~(products /\ k \in Accepted(l)) /\ k \in EngineHas[l] -> "engine"
      [] OTHER -> "nobody"

\* The first language of the chain that has a string for k answers.
Lookup(l, k, products) ==
    FirstIn([i \in DOMAIN FallbackChain(l) |-> WordedBy(FallbackChain(l)[i], k, products)],
            {"engine", "product"}, "nobody")

\* The languages in the picker.
Available(products) ==
    {l \in Langs : EngineHas[l] # {} \/ (products /\ ProductHas[l] # {})}

\* The first tag of l's chain among the values an option can take.
ResolveAmong(l, values) == FirstIn(FallbackChain(l), values, NoTag)

-----------------------------------------------------------------------------
LegalCandidates(i, l) ==
    FlattenSeq([j \in DOMAIN FallbackChain(l) |->
                  LET c == FallbackChain(l)[j]
                  IN  IF c = Fallback THEN <<Documents[i]>> ELSE Versions[c][i]])

FileShown(i, l) == FirstIn(LegalCandidates(i, l), Packaged, NoFile)

\* A document of which the package has no version at all is left out.
LoadLegalDocs(l, mayRead) ==
    IF mayRead THEN Kept([i \in DOMAIN Documents |-> FileShown(i, l)], Packaged) ELSE <<>>
=============================================================================
