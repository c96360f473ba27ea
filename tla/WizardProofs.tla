---------------------------- MODULE WizardProofs ----------------------------
(***************************************************************************)
(* What the hand-off, the prerequisites and the terms come to, for every   *)
(* product: whatever its options, cards, groups, languages and documents.  *)
(*                                                                         *)
(* First what the helpers compute (a filter, a search, a tag cut down, by  *)
(* induction on sets of naturals), then one section per property, each     *)
(* with its invariant: the receipts, the language, the types, the          *)
(* hand-off, the prerequisites, what a command line sends, the terms, the  *)
(* required choices, and last that no means no.  A theorem that needs more *)
(* of a product than validate_all asks says so (AutoSetsNothing,           *)
(* PresetsSettle, RequiredChoicesAreWhole, AsksAfterTheTerms, FinalIsFree).*)
(***************************************************************************)
EXTENDS Wizard, WellFoundedInduction, TLAPS

USE DEF choiceVars, placeVars, textVars, endVars, givenVars

-----------------------------------------------------------------------------
(* Sequences and recursion.  Induction on the naturals, first for sets.    *)

\* What holds of zero and of every next number holds of them all.
LEMMA SetInduction ==
    ASSUME NEW S, 0 \in S, \A n \in Nat : n \in S => n + 1 \in S
    PROVE  \A n \in Nat : n \in S
PROOF
  <1> DEFINE T == {n \in Nat : n \notin S}
             R == OpToRel(<, Nat)
  <1>1. SUFFICES ASSUME T # {} PROVE FALSE
    OBVIOUS
  <1>2. IsWellFoundedOn(R, Nat)
    BY NatLessThanWellFounded
  <1>3. T \subseteq Nat
    OBVIOUS
  <1> HIDE DEF R
  <1>4. PICK x \in T : \A y \in T : ~(<<y, x>> \in R)
    <2>1. \E x \in T : \A y \in T : ~(<<y, x>> \in R)
      BY <1>1, <1>2, <1>3, WFMin
    <2> QED BY <2>1
  <1>5. \A y \in T : ~(y < x)
    BY <1>4 DEF R, OpToRel
  <1>6. x # 0 /\ x \in Nat /\ x - 1 \in Nat
    OBVIOUS
  <1>7. x - 1 \notin T
    BY <1>5, <1>6
  <1> QED BY <1>6, <1>7

\* A set of naturals has a least element, which Min picks.
LEMMA MinIsLeast ==
    ASSUME NEW T, T \subseteq Nat, T # {}
    PROVE  Min(T) \in T /\ \A n \in T : Min(T) <= n
PROOF
  <1> DEFINE S == {n \in Nat : \A m \in T : n < m}
  <1>1. \E m \in T : \A n \in T : m <= n
    <2> SUFFICES ASSUME \A m \in T : \E n \in T : ~(m <= n) PROVE FALSE
      OBVIOUS
    <2>1. CASE 0 \in T
      BY <2>1
    <2>2. CASE 0 \notin T
      <3>1. 0 \in S
        BY <2>2
      <3>2. ASSUME NEW n \in Nat, n \in S PROVE n + 1 \in S
        <4>1. \A m \in T : n + 1 <= m
          BY <3>2
        <4>2. n + 1 \notin T
          BY <4>1
        <4> QED BY <4>1, <4>2
      <3> HIDE DEF S
      <3>3. \A n \in Nat : n \in S
        BY <3>1, <3>2, SetInduction
      <3>4. PICK m \in T : m \in Nat
        OBVIOUS
      <3> QED BY <3>3, <3>4 DEF S
    <2> QED BY <2>1, <2>2
  <1> QED BY <1>1 DEF Min

\* find returns what it found: an element of the sequence that is in S, and the first.
LEMMA FirstInFinds ==
    ASSUME NEW s, NEW n \in Nat, DOMAIN s = 1 .. n, NEW S, NEW none
    PROVE  /\ FirstIn(s, S, none) \in S \cup {none}
           /\ (\E i \in DOMAIN s : s[i] \in S) => FirstIn(s, S, none) \in S
           /\ (\A i \in DOMAIN s : s[i] \notin S) => FirstIn(s, S, none) = none
           /\ FirstIn(s, S, none) # none =>
                \E i \in DOMAIN s : s[i] \in S /\ FirstIn(s, S, none) = s[i]
PROOF
  <1> DEFINE at == {i \in DOMAIN s : s[i] \in S}
  <1>1. CASE at = {}
    BY <1>1 DEF FirstIn
  <1>2. CASE at # {}
    <2>0. at \subseteq Nat
      OBVIOUS
    <2>1. Min(at) \in at
      <3> HIDE DEF at
      <3> QED BY <1>2, <2>0, MinIsLeast
    <2>2. FirstIn(s, S, none) = s[Min(at)]
      BY <1>2 DEF FirstIn
    <2> HIDE DEF at
    <2>3. s[Min(at)] \in S /\ Min(at) \in DOMAIN s
      BY <2>1 DEF at
    <2> QED BY <2>2, <2>3
  <1> QED BY <1>1, <1>2

\* What is defined from each value to the next, up to n ...
Follows(f, n, T, t0, step) ==
    /\ f \in [0 .. n -> T]
    /\ f[0] = t0
    /\ \A i \in 1 .. n : f[i] = step[<<i, f[i - 1]>>]

\* ... exists.
LEMMA Recursion ==
    ASSUME NEW n \in Nat, NEW T, NEW t0 \in T, NEW step \in [Nat \X T -> T]
    PROVE  \E f : Follows(f, n, T, t0, step)
PROOF
  <1> DEFINE Upto(m) == \E f : Follows(f, m, T, t0, step)
             S == {m \in Nat : Upto(m)}
  <1>1. 0 \in S
    <2> DEFINE g == [i \in 0 .. 0 |-> t0]
    <2>1. g \in [0 .. 0 -> T] /\ g[0] = t0
      OBVIOUS
    <2>2. \A i \in 1 .. 0 : g[i] = step[<<i, g[i - 1]>>]
      OBVIOUS
    <2> HIDE DEF g
    <2>3. Upto(0)
      BY <2>1, <2>2 DEF Follows
    <2> QED BY <2>3
  <1>2. ASSUME NEW m \in Nat, m \in S PROVE m + 1 \in S
    <2>0. PICK f : Follows(f, m, T, t0, step)
      BY <1>2
    <2>1. f \in [0 .. m -> T] /\ f[0] = t0 /\ \A i \in 1 .. m : f[i] = step[<<i, f[i - 1]>>]
      BY <2>0 DEF Follows
    <2> DEFINE g == [i \in 0 .. m + 1 |-> IF i <= m THEN f[i] ELSE step[<<m + 1, f[m]>>]]
    <2>2. step[<<m + 1, f[m]>>] \in T
      BY <2>1
    <2>3. g \in [0 .. m + 1 -> T]
      BY <2>1, <2>2
    <2>4. g[0] = t0
      BY <2>1
    <2>5. ASSUME NEW i \in 1 .. m + 1 PROVE g[i] = step[<<i, g[i - 1]>>]
      <3>1. CASE i <= m
        BY <2>1, <3>1
      <3>2. CASE i = m + 1
        BY <3>2
      <3> QED BY <3>1, <3>2
    <2> HIDE DEF g
    <2>6. Upto(m + 1)
      BY <2>3, <2>4, <2>5 DEF Follows
    <2> QED BY <2>6
  <1>3. n \in S
    <2> HIDE DEF S
    <2> QED BY <1>1, <1>2, SetInduction
  <1> QED BY <1>3

\* filter goes through the sequence ...
Keeping(k, s, n, S) ==
    /\ k = [i \in 0 .. n |-> k[i]]
    /\ k[0] = <<>>
    /\ \A i \in 1 .. n : k[i] = IF s[i] \in S THEN Append(k[i - 1], s[i]) ELSE k[i - 1]

\* ... from nothing kept.
LEMMA KeptRuns ==
    ASSUME NEW s, NEW n \in Nat, Len(s) = n, DOMAIN s = 1 .. n, NEW S
    PROVE  \E k : Keeping(k, s, n, S) /\ Kept(s, S) = k[n]
PROOF
  <1> DEFINE step == [p \in Nat \X Seq(S) |->
                        IF s[p[1]] \in S THEN Append(p[2], s[p[1]]) ELSE p[2]]
             IsKept(k) == k = [i \in 0 .. Len(s) |->
                                 IF i = 0 THEN <<>>
                                 ELSE IF s[i] \in S THEN Append(k[i - 1], s[i]) ELSE k[i - 1]]
             kept == CHOOSE k : IsKept(k)
  <1>1. step \in [Nat \X Seq(S) -> Seq(S)]
    <2> SUFFICES ASSUME NEW p \in Nat \X Seq(S)
                 PROVE  (IF s[p[1]] \in S THEN Append(p[2], s[p[1]]) ELSE p[2]) \in Seq(S)
      OBVIOUS
    <2>1. p[2] \in Seq(S)
      OBVIOUS
    <2>2. ASSUME s[p[1]] \in S PROVE Append(p[2], s[p[1]]) \in Seq(S)
      BY <2>1, <2>2
    <2> QED BY <2>1, <2>2
  <1>2. \A i \in Nat, q \in Seq(S) :
           step[<<i, q>>] = IF s[i] \in S THEN Append(q, s[i]) ELSE q
    OBVIOUS
  <1> HIDE DEF step
  <1>3. PICK f : Follows(f, n, Seq(S), <<>>, step)
    <2>1. <<>> \in Seq(S)
      OBVIOUS
    <2> QED BY <1>1, <2>1, Recursion
  <1>4. \A i \in 1 .. n : f[i] = IF s[i] \in S THEN Append(f[i - 1], s[i]) ELSE f[i - 1]
    <2> TAKE i \in 1 .. n
    <2>1. f[i] = step[<<i, f[i - 1]>>] /\ i \in Nat /\ f[i - 1] \in Seq(S)
      BY <1>3 DEF Follows
    <2> QED BY <1>2, <2>1
  <1>5. IsKept(f)
    <2>1. \A i \in 0 .. n : f[i] = IF i = 0 THEN <<>>
                                   ELSE IF s[i] \in S THEN Append(f[i - 1], s[i]) ELSE f[i - 1]
      <3> TAKE i \in 0 .. n
      <3>1. CASE i = 0
        BY <1>3, <3>1 DEF Follows
      <3>2. CASE i # 0
        BY <1>4, <3>2
      <3> QED BY <3>1, <3>2
    <2> QED BY <1>3, <2>1 DEF Follows
  <1>6. IsKept(kept)
    <2> HIDE DEF IsKept
    <2> QED BY <1>5
  <1>7. Kept(s, S) = kept[n]
    BY DEF Kept
  <1> HIDE DEF kept
  <1> DEFINE F == [i \in 0 .. n |->
                     IF i = 0 THEN <<>>
                     ELSE IF s[i] \in S THEN Append(kept[i - 1], s[i]) ELSE kept[i - 1]]
  <1>8. kept = F
    BY <1>6
  <1>9. /\ F = [i \in 0 .. n |-> F[i]]
        /\ F[0] = <<>>
        /\ \A i \in 1 .. n : F[i] = IF s[i] \in S THEN Append(kept[i - 1], s[i]) ELSE kept[i - 1]
    OBVIOUS
  <1> HIDE DEF F
  <1>10. Keeping(kept, s, n, S)
    BY <1>8, <1>9 DEF Keeping
  <1> QED BY <1>7, <1>10

\* Appending keeps what was there and adds one.
LEMMA Appended ==
    ASSUME NEW S, NEW q \in Seq(S), NEW e \in S
    PROVE  /\ Append(q, e) \in Seq(S)
           /\ DOMAIN q = 1 .. Len(q) /\ Len(q) \in Nat
           /\ DOMAIN Append(q, e) = 1 .. Len(q) + 1
           /\ \A j \in 1 .. Len(q) : Append(q, e)[j] = q[j]
           /\ Append(q, e)[Len(q) + 1] = e
PROOF OBVIOUS

\* filter keeps only what is in S, and all of it.
Filtered(k, s, n, S) ==
    /\ k \in Seq(S)
    /\ \A i \in 1 .. n : s[i] \in S => \E j \in DOMAIN k : k[j] = s[i]

\* What Kept returns is such a sequence.
LEMMA KeptFilters ==
    ASSUME NEW s, NEW n \in Nat, Len(s) = n, DOMAIN s = 1 .. n, NEW S
    PROVE  Filtered(Kept(s, S), s, n, S)
PROOF
  <1>0. PICK k : Keeping(k, s, n, S) /\ Kept(s, S) = k[n]
    BY KeptRuns
  <1>1. /\ k = [i \in 0 .. n |-> k[i]]
        /\ k[0] = <<>>
        /\ \A i \in 1 .. n : k[i] = IF s[i] \in S THEN Append(k[i - 1], s[i]) ELSE k[i - 1]
    BY <1>0 DEF Keeping
  <1> DEFINE Good(m) ==
                /\ k[m] \in Seq(S)
                /\ \A i \in 1 .. m : s[i] \in S => \E j \in DOMAIN k[m] : k[m][j] = s[i]
             G == {m \in Nat : m <= n => Good(m)}
  <1> HIDE DEF Good
  <1>2. Good(0)
    <2>1. k[0] = <<>>
      BY <1>1
    <2>2. <<>> \in Seq(S)
      OBVIOUS
    <2>3. \A i \in 1 .. 0 : FALSE
      OBVIOUS
    <2> QED BY <2>1, <2>2, <2>3 DEF Good
  <1>3. ASSUME NEW m \in Nat, m + 1 <= n, Good(m) PROVE Good(m + 1)
    <2> DEFINE q == k[m]
               e == s[m + 1]
    <2>1. m + 1 \in 1 .. n /\ (m + 1) - 1 = m
      BY <1>3
    <2>2. k[m + 1] = IF e \in S THEN Append(q, e) ELSE q
      BY <1>1, <2>1
    <2>3. /\ q \in Seq(S)
          /\ \A i \in 1 .. m : s[i] \in S => \E j \in DOMAIN q : q[j] = s[i]
      BY <1>3 DEF Good
    <2>4. s[m + 1] = e
      OBVIOUS
    <2> HIDE DEF q, e
    <2>5. CASE e \notin S
      <3>1. k[m + 1] = q
        BY <2>2, <2>5
      <3>2. \A i \in 1 .. m + 1 : i \in 1 .. m \/ i = m + 1
        OBVIOUS
      <3>3. \A i \in 1 .. m : i \in 1 .. m + 1
        OBVIOUS
      <3> QED BY <2>3, <2>4, <2>5, <3>1, <3>2, <3>3 DEF Good
    <2>6. CASE e \in S
      <3> DEFINE r == Append(q, e)
      <3>1. k[m + 1] = r
        BY <2>2, <2>6
      <3>2. /\ r \in Seq(S)
            /\ DOMAIN q = 1 .. Len(q) /\ Len(q) \in Nat
            /\ DOMAIN r = 1 .. Len(q) + 1
            /\ \A j \in 1 .. Len(q) : r[j] = q[j]
            /\ r[Len(q) + 1] = e
        BY <2>3, <2>6, Appended
      <3> HIDE DEF r
      <3>3. ASSUME NEW i \in 1 .. m + 1, s[i] \in S PROVE \E j \in DOMAIN r : r[j] = s[i]
        <4>1. CASE i = m + 1
          <5> Len(q) + 1 \in DOMAIN r
            BY <3>2
          <5> QED BY <2>4, <3>2, <4>1
        <4>2. CASE i \in 1 .. m
          <5>1. PICK j \in DOMAIN q : q[j] = s[i]
            BY <2>3, <3>3, <4>2
          <5>2. j \in DOMAIN r /\ r[j] = q[j]
            BY <3>2
          <5> QED BY <5>1, <5>2
        <4> QED BY <4>1, <4>2
      <3> QED BY <3>1, <3>2, <3>3 DEF Good
    <2> QED BY <2>5, <2>6
  <1>4. 0 \in G
    BY <1>2
  <1>5. ASSUME NEW m \in Nat, m \in G PROVE m + 1 \in G
    BY <1>3, <1>5
  <1>6. n \in G
    <2> HIDE DEF G
    <2> QED BY <1>4, <1>5, SetInduction
  <1>7. Good(n)
    BY <1>6
  <1> QED BY <1>0, <1>7 DEF Good, Filtered

-----------------------------------------------------------------------------
(* Languages and documents.                                                *)

\* Cutting a tag down goes on to its first part.
LEMMA NarrowedIsThere ==
    ASSUME NEW l \in Langs
    PROVE  /\ Parts[l] \in Nat \ {0}
           /\ DOMAIN Narrowed(l) = 1 .. Parts[l]
           /\ Narrowed(l) = [i \in 1 .. Parts[l] |-> Narrowed(l)[i]]
PROOF
  <1> DEFINE n == Parts[l] - 1
             step == [p \in Nat \X Langs |-> IF Parts[p[2]] > 1 THEN Shorter[p[2]] ELSE p[2]]
             IsCut(c) == c = [i \in 1 .. Parts[l] |-> IF i = 1 THEN l ELSE Shorter[c[i - 1]]]
             cut == CHOOSE c : IsCut(c)
  <1>1. /\ Parts[l] \in Nat \ {0} /\ n \in Nat
        /\ \A q \in Langs : Parts[q] > 1 => Shorter[q] \in Langs /\ Parts[Shorter[q]] = Parts[q] - 1
    BY LanguagesLoaded
  <1>2. step \in [Nat \X Langs -> Langs]
    BY <1>1
  <1>3. \A i \in Nat, q \in Langs : step[<<i, q>>] = IF Parts[q] > 1 THEN Shorter[q] ELSE q
    OBVIOUS
  <1> HIDE DEF step
  <1>4. PICK f : Follows(f, n, Langs, l, step)
    <2> HIDE DEF n
    <2> QED BY <1>1, <1>2, Recursion
  <1>5. /\ f \in [0 .. n -> Langs] /\ f[0] = l
        /\ \A i \in 1 .. n : f[i] = step[<<i, f[i - 1]>>]
    BY <1>4 DEF Follows
  <1> DEFINE G == {i \in Nat : i <= n => Parts[f[i]] = Parts[l] - i}
  <1>6. 0 \in G
    BY <1>5, <1>1
  <1>7. ASSUME NEW i \in Nat, i \in G PROVE i + 1 \in G
    <2> SUFFICES ASSUME i + 1 <= n PROVE Parts[f[i + 1]] = Parts[l] - (i + 1)
      OBVIOUS
    <2>1. Parts[f[i]] = Parts[l] - i
      BY <1>7, <1>1
    <2>2. i + 1 \in 1 .. n /\ (i + 1) - 1 = i /\ i \in 0 .. n
      BY <1>1
    <2>3. f[i] \in Langs /\ Parts[f[i]] > 1
      BY <1>1, <1>5, <2>1, <2>2
    <2>4. f[i + 1] = Shorter[f[i]]
      <3>1. f[i + 1] = step[<<i + 1, f[i]>>]
        BY <1>5, <2>2
      <3> QED BY <1>3, <2>3, <3>1
    <2> QED BY <1>1, <2>1, <2>3, <2>4
  <1>8. \A i \in Nat : i \in G
    <2> HIDE DEF G
    <2> QED BY <1>6, <1>7, SetInduction
  <1>9. \A i \in 1 .. n : f[i] = Shorter[f[i - 1]]
    <2> TAKE i \in 1 .. n
    <2>1. i - 1 \in Nat /\ i - 1 <= n /\ i - 1 \in 0 .. n /\ i \in Nat
      BY <1>1
    <2>2. Parts[f[i - 1]] = Parts[l] - (i - 1)
      BY <1>8, <2>1
    <2>3. f[i - 1] \in Langs /\ Parts[f[i - 1]] > 1
      BY <1>1, <1>5, <2>1, <2>2
    <2> QED BY <1>3, <1>5, <2>1, <2>3
  <1> DEFINE c == [i \in 1 .. Parts[l] |-> f[i - 1]]
  <1>10. IsCut(c)
    <2>1. \A i \in 1 .. Parts[l] : f[i - 1] = IF i = 1 THEN l ELSE Shorter[c[i - 1]]
      <3> TAKE i \in 1 .. Parts[l]
      <3>1. CASE i = 1
        BY <1>5, <3>1
      <3>2. CASE i # 1
        <4>1. i - 1 \in 1 .. n /\ i - 1 \in 1 .. Parts[l]
          BY <1>1, <3>2
        <4>2. c[i - 1] = f[(i - 1) - 1]
          BY <4>1
        <4> QED BY <1>9, <3>2, <4>1, <4>2
      <3> QED BY <3>1, <3>2
    <2> QED BY <2>1
  <1>11. IsCut(cut)
    <2> HIDE DEF IsCut
    <2> QED BY <1>10
  <1>12. Narrowed(l) = cut
    BY DEF Narrowed
  <1> HIDE DEF cut
  <1>13. DOMAIN cut = 1 .. Parts[l] /\ cut = [i \in 1 .. Parts[l] |-> cut[i]]
    <2> DEFINE F == [i \in 1 .. Parts[l] |-> IF i = 1 THEN l ELSE Shorter[cut[i - 1]]]
    <2>1. cut = F
      BY <1>11
    <2>2. DOMAIN F = 1 .. Parts[l] /\ F = [i \in 1 .. Parts[l] |-> F[i]]
      OBVIOUS
    <2> HIDE DEF F
    <2> QED BY <2>1, <2>2
  <1> QED BY <1>1, <1>12, <1>13

\* The chain of a language ends in the fallback, if it did not have it before.
LEMMA ChainHasFallback ==
    ASSUME NEW l \in Langs
    PROVE  /\ \E n \in Nat : DOMAIN FallbackChain(l) = 1 .. n
           /\ \E i \in DOMAIN FallbackChain(l) : FallbackChain(l)[i] = Fallback
PROOF
  <1> DEFINE s == Narrowed(l)
             n == Parts[l]
  <1>1. n \in Nat /\ DOMAIN s = 1 .. n /\ s = [i \in 1 .. n |-> s[i]]
    BY NarrowedIsThere
  <1>2. CASE Fallback \in Range(s)
    BY <1>1, <1>2 DEF FallbackChain, Range
  <1>3. CASE Fallback \notin Range(s)
    <2>1. FallbackChain(l) = Append(s, Fallback)
      BY <1>3 DEF FallbackChain
    <2> HIDE DEF s, n
    <2>2. s \in Seq(Range(s))
      <3>1. \A i \in 1 .. n : s[i] \in Range(s)
        BY <1>1 DEF Range
      <3> QED BY <1>1, <3>1
    <2>3. Len(s) = n
      BY <1>1, <2>2
    <2>4. DOMAIN Append(s, Fallback) = 1 .. n + 1 /\ Append(s, Fallback)[n + 1] = Fallback
      BY <1>1, <2>2, <2>3
    <2> QED BY <1>1, <2>1, <2>4
  <1> QED BY <1>2, <1>3

\* The documents on screen are files the package has.
LEMMA DocumentsArePackaged ==
    ASSUME NEW l, NEW mayRead
    PROVE  LoadLegalDocs(l, mayRead) \in Seq(Packaged)
PROOF
  <1> DEFINE s == [i \in DOMAIN Documents |-> FileShown(i, l)]
             n == Len(Documents)
  <1>1. n \in Nat /\ DOMAIN Documents = 1 .. n
    BY LanguagesLoaded
  <1>2. DOMAIN s = 1 .. n /\ Len(s) = n
    BY <1>1
  <1>3. Kept(s, Packaged) \in Seq(Packaged)
    <2> HIDE DEF s, n
    <2> QED BY <1>1, <1>2, KeptFilters DEF Filtered
  <1>4. <<>> \in Seq(Packaged)
    OBVIOUS
  <1> QED BY <1>3, <1>4 DEF LoadLegalDocs

-----------------------------------------------------------------------------
(* The receipts are of the texts that were ticked: the overall answer is   *)
(* on only while every flag is, a flag is up only for the very file on     *)
(* screen when it was ticked, and no text changes once the hand-off is     *)
(* written.                                                                *)

\* The answers give every option something.
HasAnswers == answers = [o \in Options |-> answers[o]]

\* The variables the receipts rest on have their shape.
Shape ==
    /\ mode \in {"window", "command"}
    /\ HasAnswers
    /\ accepted = [i \in DOMAIN docs |-> accepted[i]]
    /\ ticked = [i \in DOMAIN docs |-> ticked[i]]
    /\ \A i \in DOMAIN docs : accepted[i] \in BOOLEAN

\* Each page belongs to its way of installing; a command line has its consents.
PagesOfModes ==
    /\ page \in {"steps", "done"} => mode = "window"
    /\ page = "command" => mode = "command"
    /\ mode = "command" /\ page = "progress" => MissingConsents = {}

\* A flag is up for the text that is on screen.
FlagsAreOfTheTexts ==
    mode = "window" => \A i \in DOMAIN docs : accepted[i] => ticked[i] = docs[i]

\* The overall answer is on only while every flag is.
OnMeansAll ==
    mode = "window" /\ answers[Legal] = "on" => \A i \in DOMAIN docs : accepted[i]

\* What the receipts of a hand-off need.
Backed(h) ==
    h # Absent /\ h.consents # {} =>
        \A i \in DOMAIN docs :
            IF mode = "window" THEN ticked[i] = docs[i] ELSE FlagFor[docs[i]] \in flags

\* The picker has a hand-off to rewrite.
HandoffsAreRecords ==
    /\ \A h \in {disk, held} : h # Absent => h = [values |-> h.values, consents |-> h.consents]
    /\ finalVisible => held # Absent /\ page \in {"done", "closed"}

\* Nothing is written before Install.
WrittenAfterTheSteps == page = "steps" => disk = Absent /\ held = Absent

\* What is inductive.
IInv ==
    /\ Shape
    /\ PagesOfModes
    /\ FlagsAreOfTheTexts
    /\ OnMeansAll
    /\ Backed(disk)
    /\ Backed(held)
    /\ HandoffsAreRecords
    /\ WrittenAfterTheSteps

-----------------------------------------------------------------------------
(* No rule about options touches the answer to the terms.                  *)

\* No option decides the terms, and they decide none.
LEMMA LegalStandsAlone ==
    /\ Legal \in Options /\ Kind[Legal] = "license"
    /\ Parent[Legal] = Nothing /\ Nothing \notin Options
    /\ \A p \in Options : Legal \notin GovernedBy(p)
PROOF
  <1>1. Legal \in Options /\ Kind[Legal] = "license" /\ Nothing \notin Options
    BY ConfigLoaded
  <1>2. Parent[Legal] = Nothing
    BY <1>1, ConfigLoaded DEF ParentsAreValid
  <1>3. ASSUME NEW p \in Options, NEW v \in Cards[p], Gives[p][v][Legal] # Nothing
        PROVE  FALSE
    BY <1>1, <1>3, ConfigLoaded DEF CardsAreValid
  <1>4. \A p \in Options : Legal \notin GovernedBy(p)
    <2>1. SUFFICES ASSUME NEW p \in Options, Legal \in GovernedBy(p) PROVE FALSE
      OBVIOUS
    <2>2. DEFINE direct == {o \in Options : \E v \in Cards[p] : Gives[p][v][o] # Nothing}
    <2>3. Legal \notin direct
      BY <1>3
    <2>4. Legal \notin ChildrenOf(direct)
      BY <1>1, <1>2 DEF ChildrenOf
    <2> QED BY <2>1, <2>3, <2>4 DEF GovernedBy
  <1> QED BY <1>1, <1>2, <1>4

\* Throwing a switch leaves the terms alone, ...
LEMMA SetBoolLeavesLegal ==
    ASSUME NEW a, NEW o \in Visible, NEW v
    PROVE  /\ SetBool(a, o, v)[Legal] = a[Legal]
           /\ SetBool(a, o, v) = [x \in Options |-> SetBool(a, o, v)[x]]
PROOF BY LegalStandsAlone DEF SetBool, Visible

\* ... so does picking a card, ...
LEMMA PickCardLeavesLegal ==
    ASSUME NEW a, NEW p \in Visible, NEW v
    PROVE  /\ PickCard(a, p, v)[Legal] = a[Legal]
           /\ PickCard(a, p, v) = [x \in Options |-> PickCard(a, p, v)[x]]
PROOF
  <1>1. CASE Kind[p] = "bool"
    BY <1>1, SetBoolLeavesLegal DEF PickCard
  <1>2. CASE Kind[p] # "bool"
    <2>1. p \in Options /\ p # Legal /\ Legal \notin GovernedBy(p)
      BY LegalStandsAlone DEF Visible
    <2> QED BY <1>2, <2>1, LegalStandsAlone DEF PickCard
  <1> QED BY <1>1, <1>2

\* ... so does Reset, ...
LEMMA ResetLeavesLegal ==
    ASSUME NEW a, NEW g
    PROVE  /\ ResetStep(a, g)[Legal] = a[Legal]
           /\ ResetStep(a, g) = [x \in Options |-> ResetStep(a, g)[x]]
PROOF BY LegalStandsAlone DEF ResetStep, Visible

\* ... and so does replacing "auto".
LEMMA ResolveLeavesLegal ==
    ASSUME NEW a
    PROVE  /\ ResolveAutoSelects(a)[Legal] = a[Legal]
           /\ ResolveAutoSelects(a) = [x \in Options |-> ResolveAutoSelects(a)[x]]
PROOF BY LegalStandsAlone DEF ResolveAutoSelects

-----------------------------------------------------------------------------
\* No one has ticked or written anything at the start.
LEMMA InitHolds == Init => IInv
PROOF
  <1> SUFFICES ASSUME Init PROVE IInv
    OBVIOUS
  <1>1. /\ answers \in GivenSets /\ GivenSets \subseteq Nameable
    BY GivenAreNameable DEF Init
  <1>2. HasAnswers /\ answers[Legal] = Unanswered
    BY <1>1, LegalStandsAlone DEF Nameable, HasAnswers
  <1>3. Shape
    BY <1>2 DEF Init, Shape
  <1>4. PagesOfModes /\ FlagsAreOfTheTexts /\ WrittenAfterTheSteps
    BY DEF Init, PagesOfModes, FlagsAreOfTheTexts, WrittenAfterTheSteps
  <1>5. OnMeansAll
    BY <1>2 DEF OnMeansAll, Unanswered
  <1>6. Backed(disk) /\ Backed(held)
    BY DEF Init, Backed
  <1>7. HandoffsAreRecords
    BY DEF Init, HandoffsAreRecords
  <1> QED BY <1>3, <1>4, <1>5, <1>6, <1>7 DEF IInv

\* A step that leaves the texts, the flags and the hand-off alone keeps the invariant as
\* long as the answer to the terms and the place it is in allow it.
LEMMA Framed ==
    ASSUME IInv,
           UNCHANGED <<mode, flags, docs, accepted, ticked, disk, held>>,
           HasAnswers', answers'[Legal] = answers[Legal],
           PagesOfModes', WrittenAfterTheSteps', HandoffsAreRecords'
    PROVE  IInv'
PROOF
  <1>1. Shape' /\ FlagsAreOfTheTexts' /\ OnMeansAll'
    BY DEF IInv, Shape, FlagsAreOfTheTexts, OnMeansAll
  <1>2. Backed(disk)' /\ Backed(held)'
    BY DEF IInv, Backed
  <1> QED BY <1>1, <1>2 DEF IInv

-----------------------------------------------------------------------------
\* Every step keeps it.
LEMMA StepHolds == IInv /\ [Next]_vars => IInv'
PROOF
  <1> SUFFICES ASSUME IInv, [Next]_vars PROVE IInv'
    OBVIOUS
  <1> USE DEF PagesOfModes, WrittenAfterTheSteps, HandoffsAreRecords, HasAnswers, Shape, MissingConsents
  <1> DEFINE Calm == /\ UNCHANGED <<mode, flags, docs, accepted, ticked, disk, held, page, finalVisible>>
                     /\ HasAnswers' /\ answers'[Legal] = answers[Legal]
  <1>0. ASSUME Calm PROVE IInv'
    BY <1>0, Framed DEF IInv
  <1>1. CASE GoNext
    BY <1>0, <1>1 DEF GoNext, MoveTo, IInv
  <1>2. CASE GoBack
    BY <1>0, <1>2 DEF GoBack, MoveTo, IInv
  <1>3. ASSUME NEW c \in BOOLEAN, ModePicked(c) PROVE IInv'
    BY <1>0, <1>3 DEF ModePicked, IInv
  <1>4. ASSUME NEW v \in BOOLEAN, LegalAcceptToggled(v) PROVE IInv'
    <2>1. PICK on : /\ answers' = [answers EXCEPT ![Legal] = on]
                    /\ on = "on" => \A i \in DOMAIN docs : accepted'[i]
      <3>1. answers' = [answers EXCEPT ![Legal] =
                          IF \A i \in DOMAIN docs : accepted'[i] THEN "on" ELSE "off"]
        BY <1>4 DEF LegalAcceptToggled
      <3>2. CASE \A i \in DOMAIN docs : accepted'[i]
        BY <3>1, <3>2
      <3>3. CASE ~\A i \in DOMAIN docs : accepted'[i]
        <4>1. answers' = [answers EXCEPT ![Legal] = "off"]
          BY <3>1, <3>3
        <4>2. "off" # "on"
          OBVIOUS
        <4> WITNESS "off"
        <4> QED BY <4>1, <4>2
      <3> QED BY <3>2, <3>3
    <2>2. /\ UNCHANGED <<mode, flags, docs, page, disk, held, finalVisible>> /\ page = "steps"
          /\ accepted' = [accepted EXCEPT ![li] = v]
          /\ ticked' = [ticked EXCEPT ![li] = IF v THEN docs[li] ELSE NoFile]
      BY <1>4 DEF LegalAcceptToggled
    <2>3. Shape'
      BY <2>1, <2>2 DEF IInv
    <2>4. FlagsAreOfTheTexts'
      BY <2>2 DEF IInv, FlagsAreOfTheTexts
    <2>5. OnMeansAll'
      BY <2>1, <2>2, LegalStandsAlone DEF IInv, OnMeansAll
    <2>6. Backed(disk)' /\ Backed(held)' /\ PagesOfModes' /\ WrittenAfterTheSteps'
         /\ HandoffsAreRecords'
      BY <2>2 DEF IInv, Backed
    <2> QED BY <2>3, <2>4, <2>5, <2>6 DEF IInv
  <1>5. ASSUME NEW l \in Langs, LanguagePicked(l) PROVE IInv'
    <2> DEFINE fresh == LoadLegalDocs(l, readable)
    <2>1. /\ UNCHANGED <<mode, flags, page, disk, held, ticked, finalVisible>> /\ page = "steps"
          /\ Reload(fresh)
      BY <1>5 DEF LanguagePicked
    <2>2. /\ PagesOfModes' /\ WrittenAfterTheSteps' /\ HandoffsAreRecords'
          /\ Backed(disk)' /\ Backed(held)'
      BY <2>1 DEF IInv, Backed
    <2>3. CASE DOMAIN fresh # DOMAIN docs
      <3>1. UNCHANGED <<docs, accepted, answers>>
        BY <2>1, <2>3 DEF Reload
      <3> QED BY <1>0, <2>1, <3>1 DEF IInv
    <2>4. CASE DOMAIN fresh = DOMAIN docs
      <3>1. /\ docs' = fresh
            /\ accepted' = [i \in DOMAIN docs |-> accepted[i] /\ fresh[i] = docs[i]]
            /\ answers' = IF answers[Legal] = Unanswered THEN answers
                          ELSE [answers EXCEPT ![Legal] =
                             IF \A i \in DOMAIN docs : accepted'[i] THEN "on" ELSE "off"]
        BY <2>1, <2>4 DEF Reload
      <3>2. Shape'
        BY <2>1, <2>4, <3>1 DEF IInv
      <3>3. FlagsAreOfTheTexts'
        BY <2>1, <2>4, <3>1 DEF IInv, FlagsAreOfTheTexts
      <3>4. OnMeansAll'
        BY <2>1, <2>4, <3>1, LegalStandsAlone DEF IInv, OnMeansAll, Unanswered
      <3> QED BY <2>2, <3>2, <3>3, <3>4 DEF IInv
    <2> QED BY <2>3, <2>4
  <1>6. CASE Answering
    <2>1. ASSUME NEW o \in Options, NEW v \in {"on", "off"}, OptionBoolChanged(o, v)
          PROVE  IInv'
      BY <1>0, <2>1, SetBoolLeavesLegal DEF OptionBoolChanged, OnScreen, Answer1
    <2>2. ASSUME NEW p \in Options, NEW v \in Cards[p], OptionCardPicked(p, v)
          PROVE  IInv'
      BY <1>0, <2>2, PickCardLeavesLegal DEF OptionCardPicked, OnScreen, Answer1
    <2>3. ASSUME NEW o \in Options, NEW v \in ValuesOf[o], OptionSelectChanged(o, v)
          PROVE  IInv'
      <3>1. /\ UNCHANGED <<mode, flags, docs, accepted, ticked, disk, held, page, finalVisible>>
            /\ answers' = [answers EXCEPT ![o] = v] /\ o # Legal
        BY <2>3 DEF OptionSelectChanged, OnScreen, Answer1, Visible
      <3> QED BY <1>0, <3>1, LegalStandsAlone DEF IInv
    <2>4. ASSUME ResetOptions PROVE IInv'
      BY <1>0, <2>4, ResetLeavesLegal DEF ResetOptions, Answer1
    <2> QED BY <1>6, <2>1, <2>2, <2>3, <2>4 DEF Answering
  <1>7. ASSUME NEW written \in BOOLEAN, Install(written) PROVE IInv'
    <2> DEFINE a == ResolveAutoSelects(answers)
    <2>1. /\ page = "steps" /\ mode = "window" /\ page' = "progress" /\ answers' = a
          /\ UNCHANGED <<mode, flags, docs, accepted, ticked, finalVisible>>
      BY <1>7 DEF Install, IInv
    <2>2. a[Legal] = answers[Legal] /\ a = [x \in Options |-> a[x]]
      BY ResolveLeavesLegal
    <2>3. disk' \in {HandoffOf(a), disk} /\ held' \in {HandoffOf(a), held}
      BY <1>7 DEF Install
    <2>4. HandoffOf(a).consents # {} => \A i \in DOMAIN docs : ticked[i] = docs[i]
      BY <2>1, <2>2 DEF HandoffOf, IInv, OnMeansAll, FlagsAreOfTheTexts
    <2>5. Backed(disk)' /\ Backed(held)'
      BY <2>1, <2>3, <2>4 DEF IInv, Backed
    <2>6. Shape' /\ PagesOfModes' /\ WrittenAfterTheSteps'
      BY <2>1, <2>2 DEF IInv
    <2>8. HandoffsAreRecords'
      BY <2>1, <2>3 DEF IInv, HandoffOf
    <2>7. FlagsAreOfTheTexts' /\ OnMeansAll'
      BY <2>1, <2>2 DEF IInv, FlagsAreOfTheTexts, OnMeansAll
    <2> QED BY <2>5, <2>6, <2>7, <2>8 DEF IInv
  <1>8. CASE Worker
    <2>1. ASSUME NEW ok \in BOOLEAN, WorkerEnds(ok) PROVE IInv'
      BY <2>1, Framed DEF WorkerEnds, IInv
    <2>2. ASSUME NEW ok \in BOOLEAN, NEW written \in BOOLEAN, CommandEnds(ok, written)
          PROVE  IInv'
      <3>1. /\ mode = "command" /\ page = "progress" /\ page' = "closed"
            /\ UNCHANGED <<mode, flags, docs, accepted, ticked, held, finalVisible>>
            /\ answers' \in {answers, ResolveAutoSelects(answers)}
            /\ disk' \in {disk, HandoffOf(answers')}
        BY <2>2 DEF CommandEnds
      <3>2. \A i \in DOMAIN docs : FlagFor[docs[i]] \in flags
        BY <3>1 DEF IInv
      <3>3. Backed(disk)' /\ Backed(held)'
        BY <3>1, <3>2 DEF IInv, Backed
      <3>4. Shape' /\ PagesOfModes' /\ WrittenAfterTheSteps' /\ HandoffsAreRecords'
        BY <3>1, ResolveLeavesLegal DEF IInv, HandoffOf
      <3>5. FlagsAreOfTheTexts' /\ OnMeansAll'
        BY <3>1 DEF IInv, FlagsAreOfTheTexts, OnMeansAll
      <3> QED BY <3>3, <3>4, <3>5 DEF IInv
    <2> QED BY <1>8, <2>1, <2>2 DEF Worker
  <1>9. ASSUME NEW v \in ValuesOf[FinalOption], FinalPicked(v) PROVE IInv'
    BY <1>0, <1>9 DEF FinalPicked, IInv
  <1>10. ASSUME NEW written \in BOOLEAN, FinalApply(written) PROVE IInv'
    <2>1. /\ page = "done" /\ mode = "window"
          /\ UNCHANGED <<mode, flags, docs, accepted, ticked, page>>
          /\ answers' = [answers EXCEPT ![FinalOption] = finalValue]
          /\ held' = [held EXCEPT !.values[FinalOption] = finalValue]
          /\ disk' \in {disk, held'}
      BY <1>10 DEF FinalApply, IInv
    <2>2. FinalOption \in Options /\ FinalOption # Legal
      BY FinalIsASwatch DEF Visible
    <2>3. HasAnswers' /\ answers'[Legal] = answers[Legal]
      BY <2>1, <2>2, LegalStandsAlone DEF IInv
    <2>4. held = [values |-> held.values, consents |-> held.consents]
      BY <1>10 DEF FinalApply, IInv
    <2>5. held' = [values |-> [held.values EXCEPT ![FinalOption] = finalValue],
                   consents |-> held.consents]
      BY <2>1, <2>4
    <2>6. Backed(disk)' /\ Backed(held)'
      <3>1. held # Absent
        BY <1>10 DEF FinalApply, IInv
      <3>2. held'.consents = held.consents
        BY <2>5
      <3> QED BY <2>1, <3>1, <3>2 DEF IInv, Backed
    <2>7. HandoffsAreRecords'
      BY <1>10, <2>1, <2>5 DEF IInv, FinalApply
    <2>8. Shape' /\ PagesOfModes' /\ WrittenAfterTheSteps'
      BY <2>1, <2>3 DEF IInv
    <2>9. FlagsAreOfTheTexts' /\ OnMeansAll'
      BY <2>1, <2>3 DEF IInv, FlagsAreOfTheTexts, OnMeansAll
    <2> QED BY <2>6, <2>7, <2>8, <2>9 DEF IInv
  <1>11. CASE FinalSkip
    BY <1>11, Framed DEF FinalSkip, IInv
  <1>12. CASE Close
    BY <1>12, Framed DEF Close, IInv
  <1>13. CASE CommandRefused
    BY <1>13, Framed DEF CommandRefused, IInv
  <1>14. CASE CommandInstalls
    <2>1. /\ mode = "command" /\ page' = "progress" /\ MissingConsents' = {}
          /\ ~finalVisible
          /\ UNCHANGED <<mode, flags, docs, accepted, ticked, disk, held, finalVisible>>
      BY <1>14 DEF CommandInstalls, IInv
    <2>2. HasAnswers'
      BY <1>14 DEF CommandInstalls, UnattendedChoices
    <2> QED BY <2>1, <2>2 DEF IInv, FlagsAreOfTheTexts, OnMeansAll, Backed
  <1>15. CASE Ended \/ UNCHANGED vars
    BY <1>0, <1>15 DEF Ended, vars, IInv
  <1> QED
    BY <1>1, <1>2, <1>3, <1>4, <1>5, <1>6, <1>7, <1>8, <1>9, <1>10, <1>11, <1>12, <1>13,
       <1>14, <1>15 DEF Next

\* The receipts of the hand-off are of the texts that were ticked, or whose flag was given.
THEOREM ReceiptsAreTrue == Spec => []ReceiptsAreOfAcceptedTexts
PROOF
  <1>1. IInv => ReceiptsAreOfAcceptedTexts
    BY DEF IInv, Backed, ReceiptsAreOfAcceptedTexts
  <1> QED BY <1>1, InitHolds, StepHolds, PTL DEF Spec

-----------------------------------------------------------------------------
(* The language of the window is one of the installer's.                   *)

\* The language of the window is one of the languages.
LangKnown == lang \in Langs

\* The picker offers no other language.
LEMMA LanguageStays ==
    /\ Init => LangKnown
    /\ LangKnown /\ [Next]_vars => LangKnown'
PROOF
  <1>1. Init => LangKnown
    BY DEF Init, LangKnown
  <1>2. ASSUME LangKnown, [Next]_vars PROVE LangKnown'
    <2>0. ASSUME UNCHANGED lang PROVE LangKnown'
      BY <1>2, <2>0 DEF LangKnown
    <2>1. CASE GoNext \/ GoBack
      BY <2>0, <2>1 DEF GoNext, GoBack, MoveTo
    <2>2. CASE \E c \in BOOLEAN : ModePicked(c)
      BY <2>0, <2>2 DEF ModePicked
    <2>3. CASE \E v \in BOOLEAN : LegalAcceptToggled(v)
      BY <2>0, <2>3 DEF LegalAcceptToggled
    <2>4. CASE \E l \in Langs : LanguagePicked(l)
      BY <2>4 DEF LanguagePicked, LangKnown
    <2>5. CASE Answering
      BY <2>0, <2>5 DEF Answering, OptionBoolChanged, OptionCardPicked, OptionSelectChanged,
                        ResetOptions, Answer1
    <2>6. CASE \E written \in BOOLEAN : Install(written)
      BY <2>0, <2>6 DEF Install
    <2>7. CASE \E v \in ValuesOf[FinalOption] : FinalPicked(v)
      BY <2>0, <2>7 DEF FinalPicked
    <2>8. CASE \E written \in BOOLEAN : FinalApply(written)
      BY <2>0, <2>8 DEF FinalApply
    <2>9. CASE FinalSkip \/ Close \/ CommandRefused \/ CommandInstalls
      BY <2>0, <2>9 DEF FinalSkip, Close, CommandRefused, CommandInstalls
    <2>10. CASE Worker
      BY <2>0, <2>10 DEF Worker, WorkerEnds, CommandEnds
    <2>11. CASE Ended \/ UNCHANGED vars
      BY <2>0, <2>11 DEF Ended, vars
    <2> QED BY <1>2, <2>1, <2>2, <2>3, <2>4, <2>5, <2>6, <2>7, <2>8, <2>9, <2>10, <2>11 DEF Next
  <1> QED BY <1>1, <1>2

\* Whatever the package's catalogues have, the chain of a language finds the engine's words.
LEMMA EngineAnswers ==
    ASSUME NEW l \in Langs, NEW k \in EngineOnly, NEW products
    PROVE  Lookup(l, k, products) = "engine"
PROOF
  <1> DEFINE chain == FallbackChain(l)
             words == [i \in DOMAIN chain |-> WordedBy(chain[i], k, products)]
             S == {"engine", "product"}
  <1>1. PICK n \in Nat : DOMAIN chain = 1 .. n
    BY ChainHasFallback
  <1>2. PICK f \in DOMAIN chain : chain[f] = Fallback
    BY ChainHasFallback
  <1>3. ASSUME NEW c PROVE WordedBy(c, k, products) # "product"
    BY DEF WordedBy, Accepted
  <1>4. WordedBy(Fallback, k, products) = "engine"
    BY LanguagesLoaded DEF WordedBy, Accepted
  <1> HIDE DEF chain
  <1>5. /\ DOMAIN words = 1 .. n
        /\ \A i \in DOMAIN words : words[i] # "product"
        /\ f \in DOMAIN words /\ words[f] = "engine"
    BY <1>1, <1>2, <1>3, <1>4
  <1> HIDE DEF words
  <1>6. FirstIn(words, S, "nobody") \in S
    BY <1>5, FirstInFinds
  <1>7. \E i \in DOMAIN words : FirstIn(words, S, "nobody") = words[i]
    <2>1. "nobody" \notin S
      OBVIOUS
    <2> QED BY <1>5, <1>6, <2>1, FirstInFinds
  <1>8. FirstIn(words, S, "nobody") = "engine"
    BY <1>5, <1>6, <1>7
  <1> QED BY <1>8 DEF Lookup, words, chain

\* In every language of the picker, whatever a package's catalogues have, the words of the
\* installer's verdict on it come from the engine (i18n.rs, lookup over the fallback chain).
THEOREM VerdictIsTheEngines == Spec => []EngineWordsTheVerdict
PROOF
  <1>1. LangKnown => EngineWordsTheVerdict
    BY EngineAnswers DEF LangKnown, EngineWordsTheVerdict
  <1> QED BY <1>1, LanguageStays, PTL DEF Spec

-----------------------------------------------------------------------------
(* The steps of the window.                                                *)

\* The groups that have a step.
Asked(c) == {g \in Range(Groups) : c \/ g \in AlwaysAsk \/ MustAnswer(g)}

\* The steps before the groups' own.
Opening(c, n) == <<"welcome">> \o (IF n > 0 THEN <<"legal">> ELSE <<>>)
                               \o (IF c THEN <<"location">> ELSE <<>>)

\* What is in two sequences put together.
LEMMA Joined ==
    ASSUME NEW S, NEW p \in Seq(S), NEW q \in Seq(S)
    PROVE  /\ p \o q \in Seq(S)
           /\ Len(p) \in Nat /\ Len(q) \in Nat /\ Len(p \o q) = Len(p) + Len(q)
           /\ \A i \in 1 .. Len(p \o q) :
                 (p \o q)[i] = IF i <= Len(p) THEN p[i] ELSE q[i - Len(p)]
PROOF OBVIOUS

\* Welcome first, the terms second if there are any, the folder last.
LEMMA OpeningShape ==
    ASSUME NEW c \in BOOLEAN, NEW n \in Nat
    PROVE  /\ Opening(c, n) \in Seq({"welcome", "legal", "location"})
           /\ Len(Opening(c, n)) \in Nat \ {0}
           /\ n > 0 => Len(Opening(c, n)) > 1
           /\ \A i \in 1 .. Len(Opening(c, n)) :
                 Opening(c, n)[i] = CASE i = 1 -> "welcome"
                                      [] i = 2 /\ n > 0 -> "legal"
                                      [] OTHER -> "location"
PROOF
  <1> DEFINE H == {"welcome", "legal", "location"}
             w == <<"welcome">>
             l == IF n > 0 THEN <<"legal">> ELSE <<>>
             p == IF c THEN <<"location">> ELSE <<>>
  <1>1. w \in Seq(H) /\ Len(w) = 1 /\ w[1] = "welcome"
    OBVIOUS
  <1>2. l \in Seq(H) /\ Len(l) = (IF n > 0 THEN 1 ELSE 0) /\ (n > 0 => l[1] = "legal")
    <2>1. CASE n > 0
      BY <2>1
    <2>2. CASE n = 0
      BY <2>2
    <2> QED BY <2>1, <2>2
  <1>3. p \in Seq(H) /\ Len(p) = (IF c THEN 1 ELSE 0) /\ (c => p[1] = "location")
    <2>1. CASE c
      BY <2>1
    <2>2. CASE ~c
      BY <2>2
    <2> QED BY <2>1, <2>2
  <1>4. Opening(c, n) = (w \o l) \o p
    BY DEF Opening
  <1> HIDE DEF w, l, p, H
  <1> DEFINE wl == w \o l
             wlp == wl \o p
  <1>5. /\ wl \in Seq(H) /\ Len(wl) = Len(w) + Len(l)
        /\ \A i \in 1 .. Len(wl) : wl[i] = IF i <= Len(w) THEN w[i] ELSE l[i - Len(w)]
    BY <1>1, <1>2, Joined
  <1>6. Len(wl) = (IF n > 0 THEN 2 ELSE 1) /\ wl[1] = "welcome" /\ (n > 0 => wl[2] = "legal")
    <2> HIDE DEF wl
    <2>1. CASE n > 0
      BY <1>1, <1>2, <1>5, <2>1
    <2>2. CASE n = 0
      BY <1>1, <1>2, <1>5, <2>2
    <2> QED BY <2>1, <2>2
  <1> HIDE DEF wl
  <1>7. /\ wlp \in Seq(H) /\ Len(wlp) = Len(wl) + Len(p)
        /\ \A i \in 1 .. Len(wlp) : wlp[i] = IF i <= Len(wl) THEN wl[i] ELSE p[i - Len(wl)]
    <2>1. wl \in Seq(H) /\ p \in Seq(H)
      BY <1>3, <1>5
    <2> QED BY <2>1, Joined
  <1> HIDE DEF wlp
  <1>8. ASSUME NEW i \in 1 .. Len(wlp)
        PROVE  wlp[i] = CASE i = 1 -> "welcome"
                          [] i = 2 /\ n > 0 -> "legal"
                          [] OTHER -> "location"
    <2>1. CASE n > 0
      BY <1>3, <1>6, <1>7, <2>1
    <2>2. CASE n = 0
      BY <1>3, <1>6, <1>7, <2>2
    <2> QED BY <2>1, <2>2
  <1>9. Len(wlp) \in Nat \ {0} /\ (n > 0 => Len(wlp) > 1)
    BY <1>3, <1>6, <1>7
  <1>10. Opening(c, n) = wlp
    BY <1>4 DEF wl, wlp
  <1> QED BY <1>7, <1>8, <1>9, <1>10 DEF H

\* The terms come second, the groups that are asked come last, and all of them.
LEMMA FlowShape ==
    ASSUME NEW c \in BOOLEAN, NEW n \in Nat
    PROVE  /\ Len(BuildFlow(c, n)) \in Nat \ {0}
           /\ n > 0 => Len(BuildFlow(c, n)) > 1
           /\ \A i \in 1 .. Len(BuildFlow(c, n)) :
                 /\ BuildFlow(c, n)[i] \in {"welcome", "legal", "location"} \cup Asked(c)
                 /\ BuildFlow(c, n)[i] = "welcome" <=> i = 1
                 /\ BuildFlow(c, n)[i] = "legal" <=> i = 2 /\ n > 0
           /\ \A g \in Asked(c) : \E i \in 1 .. Len(BuildFlow(c, n)) : BuildFlow(c, n)[i] = g
PROOF
  <1> DEFINE h == Opening(c, n)
             k == Kept(Groups, Asked(c))
             H == {"welcome", "legal", "location"}
             f == h \o k
  <1>1. BuildFlow(c, n) = f
    BY DEF BuildFlow, Opening, Asked
  <1>2. /\ Len(Groups) \in Nat /\ DOMAIN Groups = 1 .. Len(Groups)
        /\ H \cap Asked(c) = {}
        /\ \A g \in Asked(c) : \E i \in 1 .. Len(Groups) : Groups[i] = g
    <2>1. H \cap Range(Groups) = {} /\ Groups \in Seq(Range(Groups))
      BY StepsAreApart
    <2>2. \A g \in Range(Groups) : \E i \in DOMAIN Groups : Groups[i] = g
      BY DEF Range
    <2>3. Asked(c) \subseteq Range(Groups)
      BY DEF Asked
    <2>4. Len(Groups) \in Nat /\ DOMAIN Groups = 1 .. Len(Groups)
      BY <2>1
    <2> QED BY <2>1, <2>2, <2>3, <2>4
  <1>3. /\ k \in Seq(Asked(c))
        /\ \A i \in 1 .. Len(Groups) : Groups[i] \in Asked(c) => \E j \in DOMAIN k : k[j] = Groups[i]
    <2>1. Filtered(k, Groups, Len(Groups), Asked(c))
      BY <1>2, KeptFilters
    <2> HIDE DEF k
    <2> QED BY <2>1 DEF Filtered
  <1>4. /\ h \in Seq(H) /\ Len(h) \in Nat \ {0} /\ (n > 0 => Len(h) > 1)
        /\ \A i \in 1 .. Len(h) : h[i] = CASE i = 1 -> "welcome"
                                           [] i = 2 /\ n > 0 -> "legal"
                                           [] OTHER -> "location"
    BY OpeningShape
  <1> HIDE DEF k, h
  <1>5. /\ Len(f) = Len(h) + Len(k) /\ Len(k) \in Nat /\ DOMAIN k = 1 .. Len(k)
        /\ \A i \in 1 .. Len(f) : f[i] = IF i <= Len(h) THEN h[i] ELSE k[i - Len(h)]
    BY <1>3, <1>4
  <1> HIDE DEF f
  <1>6. ASSUME NEW i \in 1 .. Len(f)
        PROVE  /\ f[i] \in H \cup Asked(c)
               /\ f[i] = "welcome" <=> i = 1
               /\ f[i] = "legal" <=> i = 2 /\ n > 0
    <2>1. CASE i <= Len(h)
      <3>1. f[i] = h[i] /\ i \in 1 .. Len(h)
        BY <1>4, <1>5, <2>1
      <3>2. h[i] = CASE i = 1 -> "welcome" [] i = 2 /\ n > 0 -> "legal" [] OTHER -> "location"
        BY <1>4, <3>1
      <3> QED BY <3>1, <3>2
    <2>2. CASE i > Len(h)
      <3>1. f[i] = k[i - Len(h)] /\ i - Len(h) \in 1 .. Len(k)
        BY <1>4, <1>5, <2>2
      <3>2. f[i] \in Asked(c)
        BY <1>3, <3>1
      <3> QED BY <1>2, <1>4, <2>2, <3>2
    <2> QED BY <1>4, <2>1, <2>2
  <1>7. ASSUME NEW g \in Asked(c) PROVE \E i \in 1 .. Len(f) : f[i] = g
    <2>1. PICK m \in 1 .. Len(Groups) : Groups[m] = g
      BY <1>2
    <2>2. PICK j \in 1 .. Len(k) : k[j] = g
      BY <1>3, <1>5, <2>1
    <2>3. Len(h) + j \in 1 .. Len(f) /\ ~(Len(h) + j <= Len(h)) /\ (Len(h) + j) - Len(h) = j
      BY <1>4, <1>5
    <2>4. f[Len(h) + j] = g
      BY <1>5, <2>2, <2>3
    <2> QED BY <2>3, <2>4
  <1>8. Len(f) \in Nat \ {0} /\ (n > 0 => Len(f) > 1)
    BY <1>4, <1>5
  <1> QED BY <1>1, <1>6, <1>7, <1>8

-----------------------------------------------------------------------------
(* Where the window is, in its flow.                                       *)

\* The place is in the flow, and the document among the documents.
InFlow ==
    /\ custom \in BOOLEAN
    /\ docs \in Seq(Packaged)
    /\ cur \in 1 .. Len(Flow)
    /\ li \in Nat \ {0}
    /\ Step = "legal" => li \in 1 .. Len(docs)

\* What the documents and the flow are like.
LEMMA FlowNow ==
    ASSUME InFlow
    PROVE  /\ Len(docs) \in Nat /\ DOMAIN docs = 1 .. Len(docs)
           /\ \A c \in BOOLEAN : Len(BuildFlow(c, Len(docs))) \in Nat \ {0}
           /\ Len(docs) > 0 => Len(Flow) > 1
           /\ \A i \in 1 .. Len(Flow) :
                 /\ Flow[i] \in {"welcome", "legal", "location"} \cup Asked(custom)
                 /\ Flow[i] = "welcome" <=> i = 1
                 /\ Flow[i] = "legal" <=> i = 2 /\ Len(docs) > 0
PROOF
  <1>1. Len(docs) \in Nat /\ DOMAIN docs = 1 .. Len(docs) /\ custom \in BOOLEAN
    BY DEF InFlow
  <1> QED BY <1>1, FlowShape DEF Flow

\* The window opens on its welcome.
LEMMA InFlowInit == Init => InFlow
PROOF
  <1> SUFFICES ASSUME Init PROVE InFlow
    OBVIOUS
  <1>1. docs \in Seq(Packaged) /\ custom = FALSE /\ cur = 1 /\ li = 1
    BY DocumentsArePackaged DEF Init
  <1>2. Len(docs) \in Nat
    BY <1>1
  <1>3. Len(Flow) \in Nat \ {0} /\ Flow[1] = "welcome"
    <2> DEFINE f == BuildFlow(FALSE, Len(docs))
    <2>1. Flow = f
      BY <1>1 DEF Flow
    <2>2. /\ Len(f) \in Nat \ {0}
          /\ \A i \in 1 .. Len(f) : f[i] = "welcome" <=> i = 1
      BY <1>2, FlowShape
    <2> HIDE DEF f
    <2>3. 1 \in 1 .. Len(f)
      BY <2>2
    <2> QED BY <2>1, <2>2, <2>3
  <1>4. Step = "welcome"
    BY <1>1, <1>3 DEF Step
  <1>5. cur \in 1 .. Len(Flow)
    BY <1>1, <1>3
  <1>6. li \in Nat \ {0} /\ ~(Step = "legal")
    BY <1>1, <1>4
  <1>7. custom \in BOOLEAN
    BY Zenon DEF Init
  <1> QED BY <1>1, <1>5, <1>6, <1>7, Zenon DEF InFlow

\* Paging, a new type of install and a new language stay in the flow.
LEMMA InFlowStep == InFlow /\ [Next]_vars => InFlow'
PROOF
  <1> SUFFICES ASSUME InFlow, [Next]_vars PROVE InFlow'
    OBVIOUS
  <1>0. ASSUME UNCHANGED <<docs, cur, custom, li>> PROVE InFlow'
    BY <1>0 DEF InFlow, Flow, Step
  <1> DEFINE n == Len(docs)
  <1>f. /\ n \in Nat /\ DOMAIN docs = 1 .. n
        /\ \A c \in BOOLEAN : Len(BuildFlow(c, n)) \in Nat \ {0}
        /\ n > 0 => Len(Flow) > 1
        /\ \A i \in 1 .. Len(Flow) : /\ Flow[i] = "welcome" <=> i = 1
                                     /\ Flow[i] = "legal" <=> i = 2 /\ n > 0
    BY FlowNow
  <1>g. Len(Flow) \in Nat
    BY <1>f DEF Flow, InFlow
  <1>1. CASE GoNext \/ GoBack
    <2>1. UNCHANGED <<docs, custom>> /\ Flow' = Flow
      BY <1>1 DEF GoNext, GoBack, MoveTo, Flow
    <2>2. \/ cur' = cur /\ li' \in {li + 1, li - 1} /\ Step = "legal" /\ li' \in 1 .. n
          \/ /\ cur' \in 1 .. Len(Flow)
             /\ li' = IF Flow[cur'] = "legal" THEN li' ELSE li
             /\ Flow[cur'] = "legal" => li' \in {1, n}
      <3>1. CASE GoNext
        <4>1. CASE Step = "legal" /\ li < Len(docs)
          <5>1. cur' = cur /\ li' = li + 1 /\ li \in Nat
            BY <3>1, <4>1 DEF GoNext, MoveTo, InFlow
          <5>2. li' \in 1 .. n
            BY <1>f, <4>1, <5>1
          <5> QED BY <4>1, <5>1, <5>2, Zenon
        <4>2. CASE ~(Step = "legal" /\ li < Len(docs))
          <5>1. /\ cur' = cur + 1 /\ cur # Len(Flow)
                /\ li' = IF Flow[cur + 1] = "legal" THEN 1 ELSE li
            BY <3>1, <4>2 DEF GoNext, MoveTo, LastStep
          <5> QED BY <1>g, <5>1 DEF InFlow
        <4> QED BY <4>1, <4>2
      <3>2. CASE GoBack
        <4>1. CASE Step = "legal" /\ li > 1
          BY <1>f, <3>2, <4>1 DEF GoBack, MoveTo, InFlow
        <4>2. CASE ~(Step = "legal" /\ li > 1)
          <5>1. /\ cur' = cur - 1 /\ cur > 1
                /\ li' = IF Flow[cur - 1] = "legal" THEN Len(docs) ELSE li
            BY <3>2, <4>2 DEF GoBack, MoveTo
          <5> QED BY <1>g, <5>1 DEF InFlow
        <4> QED BY <4>1, <4>2
      <3> QED BY <1>1, <3>1, <3>2
    <2>3. CASE cur' = cur /\ li' \in {li + 1, li - 1} /\ Step = "legal" /\ li' \in 1 .. n
      BY <2>1, <2>3, <1>f DEF InFlow, Step
    <2>4. CASE /\ cur' \in 1 .. Len(Flow)
               /\ li' = IF Flow[cur'] = "legal" THEN li' ELSE li
               /\ Flow[cur'] = "legal" => li' \in {1, n}
      <3>1. Flow[cur'] = "legal" => n > 0 /\ li' \in 1 .. n
        BY <1>f, <2>4
      <3>2. li' \in Nat \ {0}
        BY <1>f, <2>4, <3>1 DEF InFlow
      <3> QED BY <2>1, <2>4, <3>1, <3>2 DEF InFlow, Step
    <2> QED BY <2>2, <2>3, <2>4
  <1>2. ASSUME NEW c \in BOOLEAN, ModePicked(c) PROVE InFlow'
    <2>1. UNCHANGED <<docs, cur, li>> /\ custom' = c /\ Step = "welcome"
      BY <1>2 DEF ModePicked
    <2>2. cur = 1
      BY <1>f, <2>1 DEF Step, InFlow
    <2>3. Flow' = BuildFlow(c, n)
      BY <2>1 DEF Flow
    <2>4. Len(BuildFlow(c, n)) \in Nat \ {0} /\ BuildFlow(c, n)[1] # "legal"
      BY <1>f, FlowShape
    <2> QED BY <2>1, <2>2, <2>3, <2>4 DEF InFlow, Step
  <1>3. CASE \E v \in BOOLEAN : LegalAcceptToggled(v)
    BY <1>0, <1>3 DEF LegalAcceptToggled
  <1>4. ASSUME NEW l \in Langs, LanguagePicked(l) PROVE InFlow'
    <2> DEFINE fresh == LoadLegalDocs(l, readable)
    <2>1. UNCHANGED <<cur, custom, li>> /\ Reload(fresh)
      BY <1>4 DEF LanguagePicked
    <2>2. CASE DOMAIN fresh = DOMAIN docs
      <3>1. docs' = fresh /\ fresh \in Seq(Packaged)
        BY <2>1, <2>2, DocumentsArePackaged DEF Reload
      <3>2. Len(docs') = n
        BY <2>2, <3>1, <1>f
      <3>3. Flow' = Flow
        BY <2>1, <3>2 DEF Flow
      <3> QED BY <2>1, <3>1, <3>2, <3>3 DEF InFlow, Step
    <2>3. CASE DOMAIN fresh # DOMAIN docs
      BY <1>0, <2>1, <2>3 DEF Reload
    <2> QED BY <2>2, <2>3
  <1>5. CASE Answering
    BY <1>0, <1>5 DEF Answering, OptionBoolChanged, OptionCardPicked, OptionSelectChanged,
                      ResetOptions, Answer1
  <1>6. CASE \E written \in BOOLEAN : Install(written)
    BY <1>0, <1>6 DEF Install
  <1>7. CASE \E v \in ValuesOf[FinalOption] : FinalPicked(v)
    BY <1>0, <1>7 DEF FinalPicked
  <1>8. CASE \E written \in BOOLEAN : FinalApply(written)
    BY <1>0, <1>8 DEF FinalApply
  <1>9. CASE FinalSkip \/ Close \/ CommandRefused \/ CommandInstalls
    BY <1>0, <1>9 DEF FinalSkip, Close, CommandRefused, CommandInstalls
  <1>10. CASE Worker
    BY <1>0, <1>10 DEF Worker, WorkerEnds, CommandEnds
  <1>11. CASE Ended \/ UNCHANGED vars
    BY <1>0, <1>11 DEF Ended, vars
  <1> QED BY <1>1, <1>2, <1>3, <1>4, <1>5, <1>6, <1>7, <1>8, <1>9, <1>10, <1>11 DEF Next

-----------------------------------------------------------------------------
(* What the answers are.                                                   *)

\* An option comes to a value it can take, or to its default.
Taken(o) == ValuesOf[o] \cup {Default[o]}

\* Its own answer, ...
LEMMA OwnIsTaken ==
    ASSUME NEW a, Answered(a), NEW o \in Options
    PROVE  Own(o, a) \in Taken(o)
PROOF
  <1>1. a[o] \in ValuesOf[o] \cup {Default[o], Unanswered}
    BY DEF Answered, Answer
  <1> QED BY <1>1 DEF Own, Taken

\* ... a picked card is one of the cards, ...
LEMMA PickedIsACard ==
    ASSUME NEW p, NEW a, PickedCard(p, a) # Nothing
    PROVE  PickedCard(p, a) = Own(p, a) /\ PickedCard(p, a) \in Cards[p]
PROOF BY DEF PickedCard

\* ... and what it comes to by cards and parents.
LEMMA EffectiveIsTaken ==
    ASSUME NEW a, Answered(a), NEW o \in Options
    PROVE  EffectiveValue(o, a) \in Taken(o)
PROOF
  <1>1. TopValue(o, a) \in Taken(o)
    <2>1. CASE Deciding(o, a) # {}
      <3> DEFINE q == CHOOSE q \in Deciding(o, a) : TRUE
      <3>1. q \in Deciding(o, a)
        BY <2>1
      <3>2. TopValue(o, a) = Gives[q][PickedCard(q, a)][o]
        BY <2>1 DEF TopValue
      <3> HIDE DEF q
      <3>3. /\ q \in Options /\ PickedCard(q, a) \in Cards[q]
            /\ Gives[q][PickedCard(q, a)][o] # Nothing
        BY <3>1, PickedIsACard DEF Deciding
      <3>4. Gives[q][PickedCard(q, a)][o] \in ValuesOf[o]
        BY <3>3, ConfigLoaded DEF CardsAreValid
      <3> QED BY <3>2, <3>4 DEF Taken
    <2>2. CASE Deciding(o, a) = {}
      BY <2>2, OwnIsTaken DEF TopValue
    <2> QED BY <2>1, <2>2
  <1>2. CASE /\ Deciding(o, a) = {}
             /\ Parent[o] # Nothing
             /\ TopValue(Parent[o], a) # "on"
    <2>1. EffectiveValue(o, a) = "off"
      BY <1>2 DEF EffectiveValue
    <2>2. "off" \in ValuesOf[o]
      BY <1>2, ConfigLoaded DEF ParentsAreValid
    <2> QED BY <2>1, <2>2 DEF Taken
  <1>3. CASE ~(/\ Deciding(o, a) = {}
               /\ Parent[o] # Nothing
               /\ TopValue(Parent[o], a) # "on")
    <2>1. EffectiveValue(o, a) = TopValue(o, a)
      BY <1>3 DEF EffectiveValue
    <2> QED BY <1>1, <2>1
  <1> QED BY <1>2, <1>3

\* A hand-off gives every option a value there is.
LEMMA HandoffIsTyped ==
    ASSUME NEW a, Answered(a), InFlow
    PROVE  HandoffOf(a) \in Handoffs
PROOF
  <1>1. Build(a) \in [Options -> AnyValue]
    <2>1. \A o \in Options : EffectiveValue(o, a) \in AnyValue
      <3> TAKE o \in Options
      <3>1. EffectiveValue(o, a) \in Taken(o)
        BY EffectiveIsTaken
      <3> QED BY <3>1 DEF AnyValue, Taken
    <2> QED BY <2>1 DEF Build
  <1>2. Receipts \in SUBSET Packaged
    BY DEF Receipts, InFlow
  <1>3. (IF a[Legal] = "on" THEN Receipts ELSE {}) \in SUBSET Packaged
    BY <1>2
  <1> QED BY <1>1, <1>3 DEF HandoffOf, Handoffs

-----------------------------------------------------------------------------
(* Every way of answering gives answers.                                   *)

\* A switch, ...
LEMMA SetBoolAnswers ==
    ASSUME NEW a, Answered(a), NEW o \in Options, NEW v \in ValuesOf[o]
    PROVE  Answered(SetBool(a, o, v))
PROOF
  <1> SUFFICES ASSUME NEW x \in Options PROVE SetBool(a, o, v)[x] \in Answer[x]
    BY DEF Answered
  <1>1. SetBool(a, o, v)[x] \in {a[x], Unanswered} \/ (x = o /\ SetBool(a, o, v)[x] = v)
    BY DEF SetBool
  <1>2. a[x] \in Answer[x] /\ Unanswered \in Answer[x] /\ (x = o => v \in Answer[x])
    BY DEF Answered, Answer
  <1> QED BY <1>1, <1>2

\* ... a card, ...
LEMMA PickCardAnswers ==
    ASSUME NEW a, Answered(a), NEW p \in Options, NEW v \in Cards[p]
    PROVE  Answered(PickCard(a, p, v))
PROOF
  <1>1. v \in ValuesOf[p]
    BY ConfigLoaded DEF CardsAreValid
  <1>2. CASE Kind[p] = "bool"
    BY <1>1, <1>2, SetBoolAnswers DEF PickCard
  <1>3. CASE Kind[p] # "bool"
    <2> SUFFICES ASSUME NEW x \in Options PROVE PickCard(a, p, v)[x] \in Answer[x]
      BY DEF Answered
    <2>1. PickCard(a, p, v)[x] \in {a[x], EffectiveValue(x, a)} \/ (x = p /\ PickCard(a, p, v)[x] = v)
      BY <1>3 DEF PickCard
    <2>2. a[x] \in Answer[x] /\ Taken(x) \subseteq Answer[x]
      BY DEF Answered, Answer, Taken
    <2>3. EffectiveValue(x, a) \in Answer[x]
      BY <2>2, EffectiveIsTaken
    <2> QED BY <1>1, <2>1, <2>2, <2>3 DEF Taken
  <1> QED BY <1>2, <1>3

\* ... Reset, ...
LEMMA ResetAnswers ==
    ASSUME NEW a, Answered(a), NEW g
    PROVE  Answered(ResetStep(a, g))
PROOF BY DEF Answered, Answer, ResetStep

\* ... the language put in for "auto", ...
LEMMA ResolvedIsAValue ==
    ASSUME NEW l \in Langs, NEW V
    PROVE  ResolveAmong(l, V) \in V \cup {NoTag}
PROOF
  <1>1. PICK n \in Nat : DOMAIN FallbackChain(l) = 1 .. n
    BY ChainHasFallback
  <1> QED BY <1>1, FirstInFinds DEF ResolveAmong

\* ... for every select, ...
LEMMA ResolveAnswers ==
    ASSUME NEW a, Answered(a), lang \in Langs
    PROVE  Answered(ResolveAutoSelects(a))
PROOF
  <1> SUFFICES ASSUME NEW x \in Options PROVE ResolveAutoSelects(a)[x] \in Answer[x]
    BY DEF Answered
  <1>1. a[x] \in Answer[x] /\ ValuesOf[x] \subseteq Answer[x]
    BY DEF Answered, Answer
  <1>2. ResolveAmong(lang, ValuesOf[x]) \in ValuesOf[x] \cup {NoTag}
    BY ResolvedIsAValue
  <1> QED BY <1>1, <1>2 DEF ResolveAutoSelects

\* ... and what the command line names.
LEMMA NamedAnswers ==
    ASSUME NEW a \in Nameable
    PROVE  Answered(a) /\ Answered(UnattendedChoices(a))
PROOF
  <1>1. \A o \in Options : a[o] \in Answer[o]
    BY DEF Nameable, Answer
  <1>2. ASSUME NEW o \in Options PROVE UnattendedChoices(a)[o] \in Answer[o]
    <2>1. Kind[o] = "bool" => "off" \in Answer[o]
      BY ConfigLoaded DEF Answer
    <2> QED BY <1>1, <2>1 DEF UnattendedChoices
  <1> QED BY <1>1, <1>2 DEF Answered

-----------------------------------------------------------------------------
(* The types.                                                              *)

\* What the type invariant says, in parts: the simple variables, ...
Scalars ==
    /\ mode \in {"window", "command"} /\ readable \in BOOLEAN
    /\ page \in {"steps", "command", "progress", "done", "closed"}
    /\ canProceed \in BOOLEAN
    /\ lang \in Langs
    /\ job \in {"none", "running", "ok", "failed"}
    /\ success \in BOOLEAN /\ finalVisible \in BOOLEAN

\* ... the answers, ...
AnswersTyped ==
    /\ Answered(answers)
    /\ named \in Nameable
    /\ finalValue \in Taken(FinalOption)

\* ... the ticks, ...
Flags == accepted \in [DOMAIN docs -> BOOLEAN]

\* ... and what is written.
Written ==
    /\ {disk, held} \subseteq Handoffs \cup {Absent}
    /\ fetched \subseteq Installs
    /\ refused \subseteq Options

\* The inductive type invariant.
Typed == Scalars /\ AnswersTyped /\ Flags /\ Written /\ InFlow

\* It is the type invariant of the runs.
LEMMA TypedIsTypeOK == Typed => TypeOK
PROOF
  <1> SUFFICES ASSUME Typed PROVE TypeOK
    OBVIOUS
  <1>1. cur \in Nat \ {0} /\ li \in Nat \ {0} /\ custom \in BOOLEAN
    <2>1. InFlow
      BY DEF Typed
    <2>2. Len(Flow) \in Nat
      BY <2>1, FlowNow DEF Flow, InFlow
    <2> QED BY <2>1, <2>2 DEF InFlow
  <1>2. Scalars /\ AnswersTyped /\ Flags /\ Written
    BY DEF Typed
  <1> QED BY <1>1, <1>2, Zenon DEF TypeOK, Scalars, AnswersTyped, Flags, Written

\* Whether a step may be left is a Boolean.
LEMMA MayLeaveIsBoolean ==
    ASSUME NEW step, NEW i, NEW acc, NEW a, step = "legal" => acc[i] \in BOOLEAN
    PROVE  MayLeave(step, i, acc, a) \in BOOLEAN
PROOF
  <1>1. CASE step = "legal"
    BY <1>1 DEF MayLeave
  <1>2. CASE step \in {"welcome", "location"}
    BY <1>2 DEF MayLeave
  <1>3. CASE step \notin {"legal", "welcome", "location"}
    BY <1>3 DEF MayLeave
  <1> QED BY <1>1, <1>2, <1>3

\* Leaving the step on screen, whatever the answers are by then.
LEMMA LeavingIsBoolean ==
    ASSUME InFlow, NEW acc \in [DOMAIN docs -> BOOLEAN], NEW a
    PROVE  MayLeave(Step, li, acc, a) \in BOOLEAN
PROOF
  <1>1. Step = "legal" => li \in DOMAIN docs
    BY DEF InFlow
  <1> QED BY <1>1, MayLeaveIsBoolean

\* The option that is asked again is one, and no switch.
LEMMA FinalIsAnOption == FinalOption \in Options /\ Kind[FinalOption] \notin {"bool", "license"}
PROOF BY FinalIsASwatch DEF Visible

\* The terms are accepted or they are not.
LEMMA LegalTakesOnAndOff == ValuesOf[Legal] = {"on", "off"} /\ Legal \in Options
PROOF BY ConfigLoaded

\* Answering the terms gives answers.
LEMMA LegalAnswers ==
    ASSUME NEW a, Answered(a), NEW on \in {"on", "off"}
    PROVE  Answered([a EXCEPT ![Legal] = on])
PROOF
  <1>1. \A o \in Options :
           [a EXCEPT ![Legal] = on][o] \in {a[o]} \cup (IF o = Legal THEN {on} ELSE {})
    OBVIOUS
  <1> QED BY <1>1, LegalTakesOnAndOff DEF Answered, Answer

\* The types hold at the start.
LEMMA TypedInit == Init => Typed
PROOF
  <1> SUFFICES ASSUME Init PROVE Typed
    OBVIOUS
  <1>1. answers \in Nameable /\ NoAnswers \in Nameable
    <2>1. \A o \in Options : NoAnswers[o] = Unanswered
      BY DEF NoAnswers
    <2>2. NoAnswers \in [Options -> (UNION {ValuesOf[o] : o \in Options}) \cup {Unanswered}]
      BY DEF NoAnswers
    <2> QED BY <2>1, <2>2, GivenAreNameable DEF Init, Nameable
  <1>2. AnswersTyped
    BY <1>1, NamedAnswers DEF Init, AnswersTyped, Taken
  <1>3. Flags
    BY DEF Init, Flags
  <1>4. Written
    BY DEF Init, Written
  <1>5. Scalars
    BY Zenon DEF Init, Scalars
  <1> QED BY <1>2, <1>3, <1>4, <1>5, InFlowInit DEF Typed

\* Every step keeps the types.
LEMMA TypedStep == IInv /\ Typed /\ [Next]_vars => Typed'
PROOF
  <1> SUFFICES ASSUME IInv, Typed, [Next]_vars PROVE Typed'
    OBVIOUS
  <1>0. InFlow /\ InFlow' /\ Scalars /\ AnswersTyped /\ Flags /\ Written
    BY InFlowStep DEF Typed
  <1>f. ASSUME UNCHANGED <<docs, accepted>> PROVE Flags'
    BY <1>0, <1>f DEF Flags
  <1>c. ASSUME UNCHANGED <<answers, named, finalValue>> PROVE AnswersTyped'
    BY <1>0, <1>c DEF AnswersTyped
  <1>w. ASSUME UNCHANGED <<disk, held, fetched, refused>> PROVE Written'
    BY <1>0, <1>w DEF Written
  <1>s. ASSUME UNCHANGED <<mode, readable, page, canProceed, lang, job, success, finalVisible>>
        PROVE  Scalars'
    BY <1>0, <1>s DEF Scalars
  <1>1. CASE GoNext \/ GoBack
    <2>1. /\ UNCHANGED <<mode, readable, page, custom, choiceVars, textVars, endVars, givenVars>>
          /\ canProceed' = MayLeave(Flow[cur'], li', accepted, answers)
      BY <1>1 DEF GoNext, GoBack, MoveTo
    <2>2. Flow[cur'] = Step'
      BY <2>1 DEF Step, Flow
    <2>3. canProceed' \in BOOLEAN
      <3>1. (Step = "legal" => li \in DOMAIN docs)'
        BY <1>0 DEF InFlow
      <3>2. Step' = "legal" => accepted[li'] \in BOOLEAN
        BY <1>0, <2>1, <3>1 DEF Flags
      <3>3. MayLeave(Step', li', accepted, answers) \in BOOLEAN
        BY <3>2, MayLeaveIsBoolean
      <3> QED BY <2>1, <2>2, <3>3
    <2>4. Scalars'
      BY <1>0, <2>1, <2>3 DEF Scalars
    <2> QED BY <1>0, <1>f, <1>c, <1>w, <2>1, <2>4 DEF Typed
  <1>2. ASSUME NEW c \in BOOLEAN, ModePicked(c) PROVE Typed'
    <2>1. Scalars'
      BY <1>0, <1>2 DEF ModePicked, Scalars
    <2> QED BY <1>0, <1>f, <1>c, <1>w, <1>2, <2>1 DEF Typed, ModePicked
  <1>3. ASSUME NEW v \in BOOLEAN, LegalAcceptToggled(v) PROVE Typed'
    <2>1. Scalars'
      BY <1>0, <1>3 DEF LegalAcceptToggled, Scalars
    <2>2. AnswersTyped'
      <3>1. PICK on \in {"on", "off"} : answers' = [answers EXCEPT ![Legal] = on]
        BY <1>3 DEF LegalAcceptToggled
      <3>2. UNCHANGED <<named, finalValue>>
        BY <1>3 DEF LegalAcceptToggled
      <3>3. Answered(answers')
        BY <1>0, <3>1, LegalAnswers DEF AnswersTyped
      <3> QED BY <1>0, <3>2, <3>3 DEF AnswersTyped
    <2>3. Flags'
      BY <1>0, <1>3 DEF LegalAcceptToggled, Flags
    <2> QED BY <1>0, <1>w, <1>3, <2>1, <2>2, <2>3 DEF Typed, LegalAcceptToggled
  <1>4. ASSUME NEW l \in Langs, LanguagePicked(l) PROVE Typed'
    <2> DEFINE fresh == LoadLegalDocs(l, readable)
    <2>1. /\ UNCHANGED <<ticked, refused, page, cur, custom, li, endVars, givenVars>>
          /\ Reload(fresh) /\ lang' = l
          /\ canProceed' = MayLeave(Step, li, accepted', answers')
      BY <1>4 DEF LanguagePicked
    <2>2. Flags'
      <3>1. CASE DOMAIN fresh = DOMAIN docs
        <4>1. docs' = fresh /\ accepted' = [i \in DOMAIN docs |-> accepted[i] /\ fresh[i] = docs[i]]
          BY <2>1, <3>1 DEF Reload
        <4>2. \A i \in DOMAIN docs : (accepted[i] /\ fresh[i] = docs[i]) \in BOOLEAN
          OBVIOUS
        <4> QED BY <3>1, <4>1, <4>2 DEF Flags
      <3>2. CASE DOMAIN fresh # DOMAIN docs
        BY <1>f, <2>1, <3>2 DEF Reload
      <3> QED BY <3>1, <3>2
    <2>3. AnswersTyped'
      <3>1. \/ answers' = answers
            \/ \E on \in {"on", "off"} : answers' = [answers EXCEPT ![Legal] = on]
        BY <2>1 DEF Reload
      <3>3. Answered(answers')
        BY <1>0, <3>1, LegalAnswers DEF AnswersTyped
      <3> QED BY <1>0, <2>1, <3>3 DEF AnswersTyped
    <2>4. DOMAIN docs' = DOMAIN docs
      BY <2>1 DEF Reload
    <2>5. Scalars'
      <3>1. canProceed' \in BOOLEAN
        BY <1>0, <2>1, <2>2, <2>4, LeavingIsBoolean DEF Flags
      <3> QED BY <1>0, <2>1, <3>1 DEF Scalars
    <2> QED BY <1>0, <1>w, <2>1, <2>2, <2>3, <2>5 DEF Typed
  <1>5. CASE Answering
    <2>1. /\ UNCHANGED <<accepted, ticked, page, cur, custom, li, textVars, endVars, givenVars>>
          /\ canProceed' \in {canProceed, MayLeave(Step, li, accepted, answers')}
      BY <1>5 DEF Answering, OptionBoolChanged, OptionCardPicked, OptionSelectChanged,
                  ResetOptions, Answer1, Rendered
    <2>2. Scalars'
      <3>1. MayLeave(Step, li, accepted, answers') \in BOOLEAN
        BY <1>0, LeavingIsBoolean DEF Flags
      <3>2. canProceed' \in BOOLEAN
        BY <1>0, <2>1, <3>1 DEF Scalars
      <3> QED BY <1>0, <2>1, <3>2 DEF Scalars
    <2>3. Answered(answers') /\ refused' \subseteq Options
      <3>0. Answered(answers) /\ refused \subseteq Options
        BY <1>0 DEF AnswersTyped, Written
      <3>1. ASSUME NEW o \in Options, NEW v \in {"on", "off"}, OptionBoolChanged(o, v)
            PROVE  Answered(answers') /\ refused' \subseteq Options
        <4>1. answers' = SetBool(answers, o, v) /\ refused' = Switched(o, v) /\ v \in ValuesOf[o]
          BY <3>1, ConfigLoaded DEF OptionBoolChanged, Answer1
        <4> QED BY <3>0, <4>1, SetBoolAnswers DEF Switched, WithChildren, ChildrenOf
      <3>2. ASSUME NEW p \in Options, NEW v \in Cards[p], OptionCardPicked(p, v)
            PROVE  Answered(answers') /\ refused' \subseteq Options
        <4>1. answers' = PickCard(answers, p, v) /\ refused' = CardSays(p, v)
          BY <3>2 DEF OptionCardPicked, Answer1
        <4>2. CardSays(p, v) \subseteq Options
          BY <3>0 DEF CardSays, Switched, WithChildren, ChildrenOf
        <4> QED BY <3>0, <4>1, <4>2, PickCardAnswers
      <3>3. ASSUME NEW o \in Options, NEW v \in ValuesOf[o], OptionSelectChanged(o, v)
            PROVE  Answered(answers') /\ refused' \subseteq Options
        <4>1. answers' = [answers EXCEPT ![o] = v] /\ refused' = refused
          BY <3>3 DEF OptionSelectChanged, Answer1
        <4> QED BY <3>0, <4>1 DEF Answered, Answer
      <3>4. ASSUME ResetOptions PROVE Answered(answers') /\ refused' \subseteq Options
        <4>1. answers' = ResetStep(answers, Step) /\ refused' \subseteq refused
          BY <3>4 DEF ResetOptions, Answer1
        <4> QED BY <3>0, <4>1, ResetAnswers
      <3> QED BY <1>5, <3>1, <3>2, <3>3, <3>4 DEF Answering
    <2>4. AnswersTyped' /\ Written'
      BY <1>0, <2>1, <2>3 DEF AnswersTyped, Written
    <2> QED BY <1>0, <1>f, <2>1, <2>2, <2>4 DEF Typed
  <1>6. ASSUME NEW written \in BOOLEAN, Install(written) PROVE Typed'
    <2> DEFINE a == ResolveAutoSelects(answers)
    <2>1. Answered(a)
      BY <1>0, ResolveAnswers DEF AnswersTyped, Scalars
    <2>2. HandoffOf(a) \in Handoffs
      BY <1>0, <2>1, HandoffIsTyped
    <2>3. Scalars'
      BY <1>0, <1>6 DEF Install, Scalars
    <2>4. AnswersTyped'
      <3>1. a[FinalOption] \in Answer[FinalOption]
        BY <2>1, FinalIsAnOption DEF Answered
      <3>2. answers' = a /\ named' = named
            /\ finalValue' = IF a[FinalOption] # Unanswered THEN a[FinalOption] ELSE finalValue
        BY <1>6 DEF Install
      <3> HIDE DEF a
      <3> QED BY <1>0, <2>1, <3>1, <3>2, FinalIsAnOption DEF AnswersTyped, Answer, Taken
    <2>5. Written'
      <3>1. disk' \in {disk, HandoffOf(a)} /\ held' \in {held, HandoffOf(a)} /\ refused' = refused
            /\ fetched' = PrereqsChosen(a)
        BY <1>6 DEF Install
      <3>2. PrereqsChosen(a) \subseteq Installs
        BY DEF PrereqsChosen
      <3> HIDE DEF a
      <3> QED BY <1>0, <2>2, <3>1, <3>2 DEF Written
    <2> QED BY <1>0, <1>f, <1>6, <2>3, <2>4, <2>5 DEF Typed, Install
  <1>7. CASE Worker
    <2>1. ASSUME NEW ok \in BOOLEAN, WorkerEnds(ok) PROVE Typed'
      <3>1. Scalars'
        BY <1>0, <2>1 DEF WorkerEnds, Scalars
      <3> QED BY <1>0, <1>f, <1>c, <1>w, <2>1, <3>1 DEF Typed, WorkerEnds
    <2>2. ASSUME NEW ok \in BOOLEAN, NEW written \in BOOLEAN, CommandEnds(ok, written)
          PROVE  Typed'
      <3>1. Scalars'
        BY <1>0, <2>2 DEF CommandEnds, Scalars
      <3>2. answers' \in {answers, ResolveAutoSelects(answers)}
            /\ disk' \in {disk, HandoffOf(answers')}
            /\ UNCHANGED <<named, finalValue, held, fetched, refused, docs, accepted>>
        BY <2>2 DEF CommandEnds
      <3>3. Answered(answers')
        BY <1>0, <3>2, ResolveAnswers DEF AnswersTyped, Scalars
      <3>4. HandoffOf(answers') \in Handoffs
        BY <1>0, <3>3, HandoffIsTyped
      <3>5. AnswersTyped' /\ Written'
        BY <1>0, <3>2, <3>3, <3>4 DEF AnswersTyped, Written
      <3> QED BY <1>0, <1>f, <3>1, <3>2, <3>5 DEF Typed
    <2> QED BY <1>7, <2>1, <2>2 DEF Worker
  <1>8. ASSUME NEW v \in ValuesOf[FinalOption], FinalPicked(v) PROVE Typed'
    <2>1. AnswersTyped' /\ Scalars'
      BY <1>0, <1>8 DEF FinalPicked, AnswersTyped, Taken, Scalars
    <2> QED BY <1>0, <1>f, <1>w, <1>8, <2>1 DEF Typed, FinalPicked
  <1>9. ASSUME NEW written \in BOOLEAN, FinalApply(written) PROVE Typed'
    <2>1. Scalars'
      BY <1>0, <1>9 DEF FinalApply, Scalars
    <2>2. /\ answers' = [answers EXCEPT ![FinalOption] = finalValue]
          /\ held' = [held EXCEPT !.values[FinalOption] = finalValue]
          /\ disk' \in {disk, held'}
          /\ UNCHANGED <<named, finalValue, fetched, refused, docs, accepted>>
      BY <1>9 DEF FinalApply
    <2>3. AnswersTyped'
      BY <1>0, <2>2 DEF AnswersTyped, Answered, Answer, Taken
    <2>4. held \in Handoffs
      BY <1>0, <1>9 DEF Written, FinalApply, IInv, HandoffsAreRecords
    <2>5. finalValue \in AnyValue
      BY <1>0, FinalIsAnOption DEF AnswersTyped, Taken, AnyValue
    <2>6. held' \in Handoffs
      BY <2>2, <2>4, <2>5 DEF Handoffs
    <2>7. Written'
      BY <1>0, <2>2, <2>6 DEF Written
    <2> QED BY <1>0, <1>f, <2>1, <2>2, <2>3, <2>7 DEF Typed
  <1>10. CASE FinalSkip \/ Close \/ CommandRefused
    <2>1. Scalars'
      BY <1>0, <1>10 DEF FinalSkip, Close, CommandRefused, Scalars
    <2> QED BY <1>0, <1>f, <1>c, <1>w, <1>10, <2>1 DEF Typed, FinalSkip, Close, CommandRefused
  <1>11. CASE CommandInstalls
    <2>1. Scalars'
      BY <1>0, <1>11 DEF CommandInstalls, Scalars
    <2>2. /\ \/ answers' = UnattendedChoices(named)
             \/ answers' = [UnattendedChoices(named) EXCEPT ![Legal] = "on"]
          /\ fetched' \subseteq Installs
          /\ UNCHANGED <<named, finalValue, disk, held, refused, docs, accepted>>
      <3>1. [UnattendedChoices(named) EXCEPT ![Legal] = @] = UnattendedChoices(named)
        BY DEF UnattendedChoices
      <3> QED BY <1>11, <3>1 DEF CommandInstalls, PrereqsChosen
    <2>3. Answered(UnattendedChoices(named))
      BY <1>0, NamedAnswers DEF AnswersTyped
    <2>4. Answered(answers')
      <3>1. \A x \in Options :
               answers'[x] \in {UnattendedChoices(named)[x]} \cup (IF x = Legal THEN {"on"} ELSE {})
        BY <2>2 DEF UnattendedChoices
      <3> QED BY <2>3, <3>1, LegalTakesOnAndOff DEF Answered, Answer
    <2>5. AnswersTyped' /\ Written'
      BY <1>0, <2>2, <2>4 DEF AnswersTyped, Written
    <2> QED BY <1>0, <1>f, <2>1, <2>2, <2>5 DEF Typed
  <1>12. CASE Ended \/ UNCHANGED vars
    <2>1. UNCHANGED vars
      BY <1>12 DEF Ended
    <2> QED BY <1>0, <1>f, <1>c, <1>w, <1>s, <2>1 DEF Typed, vars
  <1> QED BY <1>1, <1>2, <1>3, <1>4, <1>5, <1>6, <1>7, <1>8, <1>9, <1>10, <1>11, <1>12 DEF Next

\* Whatever is pressed in run_gui, and on the command line, every variable keeps its type:
\* the answers give every option a value it can take, its default or none, the hand-off is
\* of such values, the place is a step and the flags are the documents'.
THEOREM WindowTypes == Spec => []TypeOK
PROOF BY InitHolds, StepHolds, TypedInit, TypedStep, TypedIsTypeOK, PTL DEF Spec

-----------------------------------------------------------------------------
(* What an option comes to depends on its own answer, on those of the      *)
(* presets that may set it, and on its parent's.                           *)

\* A card of p sets o.
MaySet(p, o) == \E v \in Cards[p] : Gives[p][v][o] # Nothing

\* No preset of o has another card.
SameCards(a, b, o) == \A p \in Options \ {o} : MaySet(p, o) => PickedCard(p, a) = PickedCard(p, b)

\* A preset that decides an option has a card picked that may set it.
LEMMA DecidingMaySet ==
    ASSUME NEW a, NEW o, NEW p \in Deciding(o, a)
    PROVE  p \in Options \ {o} /\ MaySet(p, o) /\ PickedCard(p, a) \in Cards[p]
PROOF BY PickedIsACard DEF Deciding, MaySet

\* The same cards and the same answer come to the same value, ...
LEMMA SameTop ==
    ASSUME NEW a, NEW b, NEW o, SameCards(a, b, o), Own(o, a) = Own(o, b)
    PROVE  Deciding(o, a) = Deciding(o, b) /\ TopValue(o, a) = TopValue(o, b)
PROOF
  <1>1. ASSUME NEW p \in Options \ {o}
        PROVE  p \in Deciding(o, a) <=> p \in Deciding(o, b)
    <2>1. CASE MaySet(p, o)
      <3>1. PickedCard(p, a) = PickedCard(p, b)
        BY <2>1 DEF SameCards
      <3> QED BY <3>1 DEF Deciding
    <2>2. CASE ~MaySet(p, o)
      BY <2>2, DecidingMaySet
    <2> QED BY <2>1, <2>2
  <1>2. Deciding(o, a) = Deciding(o, b)
    BY <1>1 DEF Deciding
  <1>3. CASE Deciding(o, a) = {}
    BY <1>2, <1>3 DEF TopValue
  <1>4. CASE Deciding(o, a) # {}
    <2> DEFINE q == CHOOSE q \in Deciding(o, a) : TRUE
    <2>1. q \in Deciding(o, a)
      BY <1>4
    <2>2. TopValue(o, a) = Gives[q][PickedCard(q, a)][o]
      BY <1>4 DEF TopValue
    <2>3. TopValue(o, b) = Gives[q][PickedCard(q, b)][o]
      BY <1>2, <1>4 DEF TopValue
    <2> HIDE DEF q
    <2>4. PickedCard(q, a) = PickedCard(q, b)
      BY <2>1, DecidingMaySet DEF SameCards
    <2> QED BY <1>2, <2>2, <2>3, <2>4
  <1> QED BY <1>2, <1>3, <1>4

\* ... and with the same parent to the same effect.
LEMMA SameEffect ==
    ASSUME NEW a, NEW b, NEW o,
           SameCards(a, b, o), Own(o, a) = Own(o, b),
           Parent[o] # Nothing => SameCards(a, b, Parent[o]) /\ Own(Parent[o], a) = Own(Parent[o], b)
    PROVE  EffectiveValue(o, a) = EffectiveValue(o, b)
PROOF
  <1>1. Deciding(o, a) = Deciding(o, b) /\ TopValue(o, a) = TopValue(o, b)
    BY SameTop
  <1>2. CASE Parent[o] = Nothing
    BY <1>1, <1>2 DEF EffectiveValue
  <1>3. CASE Parent[o] # Nothing
    <2>1. TopValue(Parent[o], a) = TopValue(Parent[o], b)
      BY <1>3, SameTop
    <2> QED BY <1>1, <1>3, <2>1 DEF EffectiveValue
  <1> QED BY <1>2, <1>3

\* An option with cards is a bool or a select.
LEMMA CardsAreOfKinds ==
    ASSUME NEW p \in Options, Kind[p] \notin {"bool", "select"}
    PROVE  Cards[p] = {} /\ \A a : PickedCard(p, a) = Nothing
PROOF BY ConfigLoaded DEF CardsAreValid, PickedCard

\* A parent is a bool without a parent.
LEMMA ParentsAreBools ==
    ASSUME NEW o \in Options, Parent[o] # Nothing
    PROVE  /\ Kind[o] = "bool" /\ Parent[o] \in Options \ {o}
           /\ Kind[Parent[o]] = "bool" /\ Parent[Parent[o]] = Nothing
PROOF BY ConfigLoaded DEF ParentsAreValid

\* Changing what is no bool and has no cards changes no bool and no card.
LEMMA OnlyItself ==
    ASSUME NEW a, NEW b, NEW x \in Options, Kind[x] # "bool", Cards[x] = {},
           \A o \in Options \ {x} : Own(o, a) = Own(o, b)
    PROVE  /\ \A p \in Options : PickedCard(p, a) = PickedCard(p, b)
           /\ \A o \in Options \ {x} : EffectiveValue(o, a) = EffectiveValue(o, b)
PROOF
  <1>1. ASSUME NEW p \in Options PROVE PickedCard(p, a) = PickedCard(p, b)
    BY DEF PickedCard
  <1>2. ASSUME NEW o \in Options \ {x} PROVE EffectiveValue(o, a) = EffectiveValue(o, b)
    <2>1. SameCards(a, b, o) /\ SameCards(a, b, Parent[o]) /\ Own(o, a) = Own(o, b)
      BY <1>1 DEF SameCards
    <2>2. Parent[o] # Nothing => Own(Parent[o], a) = Own(Parent[o], b)
      BY ParentsAreBools
    <2> QED BY <2>1, <2>2, SameEffect
  <1> QED BY <1>1, <1>2

\* Answering the terms changes no other option.
LEMMA OnlyLegal ==
    ASSUME NEW a, NEW b, \A o \in Options \ {Legal} : a[o] = b[o]
    PROVE  /\ \A p \in Options : PickedCard(p, a) = PickedCard(p, b)
           /\ \A o \in Options \ {Legal} : EffectiveValue(o, a) = EffectiveValue(o, b)
PROOF
  <1>1. Legal \in Options /\ Kind[Legal] = "license" /\ Cards[Legal] = {}
    BY LegalStandsAlone, CardsAreOfKinds
  <1>2. \A o \in Options \ {Legal} : Own(o, a) = Own(o, b)
    BY DEF Own
  <1> QED BY <1>1, <1>2, OnlyItself

\* Replacing "auto" by a language moves no preset's card and switches nothing.
LEMMA ResolveKeepsSwitches ==
    ASSUME AutoSetsNothing, NEW a, Answered(a)
    PROVE  \A o \in Options : Kind[o] = "bool" =>
              EffectiveValue(o, ResolveAutoSelects(a)) = EffectiveValue(o, a)
PROOF
  <1> DEFINE b == ResolveAutoSelects(a)
  <1>1. ASSUME NEW o \in Options, Kind[o] = "bool" PROVE Own(o, b) = Own(o, a)
    BY <1>1 DEF ResolveAutoSelects, Own
  <1>2. ASSUME NEW p \in Options, Preset(p) PROVE PickedCard(p, b) = PickedCard(p, a)
    <2>1. CASE Kind[p] = "select"
      <3>1. Own(p, a) \in Taken(p)
        BY OwnIsTaken
      <3>2. Own(p, a) # "auto"
        BY <1>2, <2>1, <3>1 DEF AutoSetsNothing, MayBeAuto, Taken
      <3>3. b[p] = a[p]
        BY <3>2 DEF ResolveAutoSelects
      <3> QED BY <3>3 DEF PickedCard, Own
    <2>2. CASE Kind[p] = "bool"
      BY <1>1, <2>2 DEF PickedCard
    <2>3. Kind[p] \in {"bool", "select"}
      BY <1>2, CardsAreOfKinds DEF Preset
    <2> QED BY <2>1, <2>2, <2>3
  <1>3. \A p, o \in Options : MaySet(p, o) => Preset(p)
    BY DEF MaySet, Preset
  <1>4. ASSUME NEW o \in Options, Kind[o] = "bool"
        PROVE  EffectiveValue(o, b) = EffectiveValue(o, a)
    <2> HIDE DEF b
    <2>1. SameCards(b, a, o) /\ Own(o, b) = Own(o, a)
      BY <1>1, <1>2, <1>3, <1>4 DEF SameCards
    <2>2. Parent[o] # Nothing => SameCards(b, a, Parent[o]) /\ Own(Parent[o], b) = Own(Parent[o], a)
      BY <1>1, <1>2, <1>3, ParentsAreBools DEF SameCards
    <2> QED BY <2>1, <2>2, SameEffect
  <1> QED BY <1>4

\* ... nor does it unmake a required choice.
LEMMA ResolveKeepsChoices ==
    ASSUME RequiredChoicesAreWhole, lang \in Langs, NEW a, Answered(a),
           NEW p \in Visible \cap Required, Cards[p] # {}, PickedCard(p, a) # Nothing
    PROVE  PickedCard(p, ResolveAutoSelects(a)) # Nothing
PROOF
  <1> DEFINE b == ResolveAutoSelects(a)
             v == ResolveAmong(lang, ValuesOf[p])
  <1>1. p \in Options /\ Own(p, a) \in Taken(p)
    BY OwnIsTaken DEF Visible
  <1>2. CASE b[p] = a[p]
    BY <1>2 DEF PickedCard, Own
  <1>3. CASE b[p] # a[p]
    <2>1. Kind[p] = "select" /\ Own(p, a) = "auto" /\ v # NoTag /\ b[p] = v
      BY <1>1, <1>3 DEF ResolveAutoSelects
    <2>2. v \in ValuesOf[p]
      BY <2>1, ResolvedIsAValue
    <2>3. Cards[p] = ValuesOf[p]
      BY <1>1, <2>1 DEF RequiredChoicesAreWhole, MayBeAuto, Taken
    <2> HIDE DEF v
    <2>4. v # Unanswered /\ v # Nothing
      BY <1>1, <2>2, ConfigLoaded
    <2>5. Own(p, b) = v
      BY <2>1, <2>4 DEF Own
    <2> QED BY <2>2, <2>3, <2>4, <2>5 DEF PickedCard
  <1> QED BY <1>2, <1>3

-----------------------------------------------------------------------------
(* The hand-off, in the file and in the window.                            *)

\* Where a hand-off can be, and which.
HandoffPlaces ==
    /\ mode = "command" => held = Absent /\ (disk # Absent => page = "closed")
    /\ finalVisible => mode = "window"
    /\ disk # Absent /\ (finalVisible \/ page = "progress") => disk = held

\* Every step keeps the hand-off in its place.
LEMMA HandoffPlacesStep == IInv /\ HandoffPlaces /\ [Next]_vars => HandoffPlaces'
PROOF
  <1> SUFFICES ASSUME IInv, HandoffPlaces, [Next]_vars PROVE HandoffPlaces'
    OBVIOUS
  <1>0. ASSUME UNCHANGED <<mode, page, disk, held, finalVisible>> PROVE HandoffPlaces'
    BY <1>0 DEF HandoffPlaces
  <1>i. PagesOfModes /\ WrittenAfterTheSteps /\ HandoffsAreRecords
    BY DEF IInv
  <1>1. CASE GoNext \/ GoBack
    BY <1>0, <1>1 DEF GoNext, GoBack, MoveTo
  <1>2. CASE \E c \in BOOLEAN : ModePicked(c)
    BY <1>0, <1>2 DEF ModePicked
  <1>3. CASE \E v \in BOOLEAN : LegalAcceptToggled(v)
    BY <1>0, <1>3 DEF LegalAcceptToggled
  <1>4. CASE \E l \in Langs : LanguagePicked(l)
    BY <1>0, <1>4 DEF LanguagePicked
  <1>5. CASE Answering
    BY <1>0, <1>5 DEF Answering, OptionBoolChanged, OptionCardPicked, OptionSelectChanged,
                      ResetOptions, Answer1
  <1>6. ASSUME NEW written \in BOOLEAN, Install(written) PROVE HandoffPlaces'
    <2>1. /\ mode' = "window" /\ ~finalVisible' /\ disk' = held'
      <3>1. page = "steps" /\ UNCHANGED <<mode, finalVisible>>
        BY <1>6 DEF Install
      <3>2. mode = "window" /\ ~finalVisible /\ disk = Absent /\ held = Absent
        BY <1>i, <3>1 DEF PagesOfModes, WrittenAfterTheSteps, HandoffsAreRecords
      <3>3. disk' = held'
        BY <1>6, <3>2 DEF Install
      <3> QED BY <3>1, <3>2, <3>3
    <2> QED BY <2>1 DEF HandoffPlaces
  <1>7. ASSUME NEW ok \in BOOLEAN, WorkerEnds(ok) PROVE HandoffPlaces'
    BY <1>7 DEF WorkerEnds, HandoffPlaces
  <1>8. ASSUME NEW ok \in BOOLEAN, NEW written \in BOOLEAN, CommandEnds(ok, written)
        PROVE  HandoffPlaces'
    <2>1. mode = "command" /\ page' = "closed" /\ UNCHANGED <<mode, held, finalVisible>>
      BY <1>8 DEF CommandEnds
    <2> QED BY <1>i, <2>1 DEF HandoffPlaces
  <1>9. CASE \E v \in ValuesOf[FinalOption] : FinalPicked(v)
    BY <1>0, <1>9 DEF FinalPicked
  <1>10. ASSUME NEW written \in BOOLEAN, FinalApply(written) PROVE HandoffPlaces'
    <2>1. page' = "done" /\ mode' = "window" /\ ~finalVisible'
      BY <1>10, <1>i DEF FinalApply, PagesOfModes
    <2> QED BY <2>1 DEF HandoffPlaces
  <1>11. CASE FinalSkip \/ Close \/ CommandRefused
    BY <1>11 DEF FinalSkip, Close, CommandRefused, HandoffPlaces
  <1>12. CASE CommandInstalls
    BY <1>12, <1>i DEF CommandInstalls, HandoffPlaces, PagesOfModes
  <1>13. CASE Ended \/ UNCHANGED vars
    BY <1>0, <1>13 DEF Ended, vars
  <1> QED BY <1>1, <1>2, <1>3, <1>4, <1>5, <1>6, <1>7, <1>8, <1>9, <1>10, <1>11, <1>12, <1>13
          DEF Next, Worker

-----------------------------------------------------------------------------
(* It is the answers as they stand.                                        *)

\* The hand-off with v as the last answer.
Finally(a, v) == Build([a EXCEPT ![FinalOption] = v])

\* What the window holds are the answers, and the file is them but for the last one.
HandoffHeld ==
    /\ held # Absent => held.values = Build(answers)
    /\ disk # Absent => \E v \in Answer[FinalOption] : disk.values = Finally(answers, v)
    /\ disk # Absent /\ mode = "command" => disk.values = Build(answers)

\* The option that is asked again stands for itself in the hand-off.
LEMMA FinalIsItself ==
    ASSUME FinalIsFree, NEW a, a = [o \in Options |-> a[o]], NEW v \in Taken(FinalOption)
    PROVE  Build([a EXCEPT ![FinalOption] = v]) = [Build(a) EXCEPT ![FinalOption] = v]
PROOF
  <1> DEFINE b == [a EXCEPT ![FinalOption] = v]
  <1>1. /\ FinalOption \in Options /\ Kind[FinalOption] = "swatch" /\ Cards[FinalOption] = {}
        /\ Parent[FinalOption] = Nothing
    BY FinalIsASwatch, CardsAreOfKinds, ParentsAreBools DEF Visible
  <1>2. \A o \in Options \ {FinalOption} : Own(o, b) = Own(o, a)
    BY DEF Own
  <1>3. \A o \in Options \ {FinalOption} : EffectiveValue(o, b) = EffectiveValue(o, a)
    <2> HIDE DEF b
    <2> QED BY <1>1, <1>2, OnlyItself
  <1>4. EffectiveValue(FinalOption, b) = v
    <2>1. Deciding(FinalOption, b) = {}
      BY DecidingMaySet DEF FinalIsFree, MaySet
    <2>2. EffectiveValue(FinalOption, b) = Own(FinalOption, b)
      BY <1>1, <2>1 DEF EffectiveValue, TopValue
    <2>3. b[FinalOption] = v
      BY <1>1
    <2>4. Unanswered \notin ValuesOf[FinalOption]
      BY <1>1, ConfigLoaded
    <2> HIDE DEF b
    <2>5. Own(FinalOption, b) = v
      BY <2>3, <2>4 DEF Own, Taken
    <2> QED BY <2>2, <2>5
  <1> HIDE DEF b
  <1>5. Build(b) = [Build(a) EXCEPT ![FinalOption] = v]
    BY <1>1, <1>3, <1>4 DEF Build
  <1> QED BY <1>5 DEF b

\* Every step keeps the hand-off the answers.
LEMMA HandoffHeldStep ==
    ASSUME FinalIsFree
    PROVE  IInv /\ Typed /\ Typed' /\ HandoffPlaces /\ HandoffHeld /\ [Next]_vars => HandoffHeld'
PROOF
  <1> SUFFICES ASSUME IInv, Typed, Typed', HandoffPlaces, HandoffHeld, [Next]_vars
               PROVE  HandoffHeld'
    OBVIOUS
  <1>i. /\ PagesOfModes /\ WrittenAfterTheSteps /\ HandoffsAreRecords
        /\ answers = [o \in Options |-> answers[o]]
    BY DEF IInv, Shape, HasAnswers
  <1>t. FinalOption \in Options /\ answers'[FinalOption] \in Answer[FinalOption]
        /\ finalValue \in Taken(FinalOption)
    BY FinalIsAnOption DEF Typed, AnswersTyped, Answered
  <1>0. ASSUME UNCHANGED <<answers, disk, held, mode>> PROVE HandoffHeld'
    BY <1>0 DEF HandoffHeld, Finally
  <1>n. ASSUME disk' = Absent, held' = Absent PROVE HandoffHeld'
    BY <1>n DEF HandoffHeld
  <1>s. ASSUME page = "steps", UNCHANGED <<disk, held>> PROVE HandoffHeld'
    BY <1>i, <1>n, <1>s DEF WrittenAfterTheSteps
  <1>w. ASSUME answers' = [o \in Options |-> answers'[o]]
        PROVE  \E v \in Answer[FinalOption] : Build(answers') = Finally(answers', v)
    <2>1. answers' = [answers' EXCEPT ![FinalOption] = answers'[FinalOption]]
      BY <1>w
    <2>2. Build(answers') = Finally(answers', answers'[FinalOption])
      BY <2>1 DEF Finally
    <2> QED BY <1>t, <2>2
  <1>1. CASE GoNext \/ GoBack
    BY <1>s, <1>1 DEF GoNext, GoBack, MoveTo
  <1>2. CASE \E c \in BOOLEAN : ModePicked(c)
    BY <1>s, <1>2 DEF ModePicked
  <1>3. CASE \E v \in BOOLEAN : LegalAcceptToggled(v)
    BY <1>s, <1>3 DEF LegalAcceptToggled
  <1>4. CASE \E l \in Langs : LanguagePicked(l)
    BY <1>s, <1>4 DEF LanguagePicked
  <1>5. CASE Answering
    BY <1>s, <1>5 DEF Answering, OptionBoolChanged, OptionCardPicked, OptionSelectChanged,
                      ResetOptions, Answer1
  <1>6. ASSUME NEW written \in BOOLEAN, Install(written) PROVE HandoffHeld'
    <2> DEFINE a == ResolveAutoSelects(answers)
    <2>1. /\ answers' = a /\ mode' = "window"
          /\ \/ disk' = HandoffOf(a) /\ held' = HandoffOf(a)
             \/ disk' = Absent /\ held' = Absent
      BY <1>6, <1>i DEF Install, PagesOfModes, WrittenAfterTheSteps
    <2>2. HandoffOf(a).values = Build(a) /\ a = [o \in Options |-> a[o]]
      BY ResolveLeavesLegal DEF HandoffOf
    <2> HIDE DEF a
    <2>3. Build(a) = Build(answers') /\ \E v \in Answer[FinalOption] : Build(a) = Finally(answers', v)
      BY <1>w, <2>1, <2>2
    <2> QED BY <2>1, <2>2, <2>3 DEF HandoffHeld
  <1>7. CASE \E ok \in BOOLEAN : WorkerEnds(ok)
    BY <1>0, <1>7 DEF WorkerEnds
  <1>8. ASSUME NEW ok \in BOOLEAN, NEW written \in BOOLEAN, CommandEnds(ok, written)
        PROVE  HandoffHeld'
    <2>1. /\ held' = Absent
          /\ disk' = HandoffOf(answers') \/ disk' = Absent
          /\ answers' = [o \in Options |-> answers'[o]]
      BY <1>8, <1>i, ResolveLeavesLegal DEF CommandEnds, HandoffPlaces
    <2>2. HandoffOf(answers').values = Build(answers')
      BY DEF HandoffOf
    <2>3. \E v \in Answer[FinalOption] : Build(answers') = Finally(answers', v)
      BY <1>w, <2>1
    <2> QED BY <2>1, <2>2, <2>3 DEF HandoffHeld
  <1>9. CASE \E v \in ValuesOf[FinalOption] : FinalPicked(v)
    BY <1>0, <1>9 DEF FinalPicked
  <1>10. ASSUME NEW written \in BOOLEAN, FinalApply(written) PROVE HandoffHeld'
    <2>1. /\ answers' = [answers EXCEPT ![FinalOption] = finalValue]
          /\ held' = [held EXCEPT !.values[FinalOption] = finalValue]
          /\ disk' \in {disk, held'} /\ held # Absent /\ mode' = "window"
      BY <1>10, <1>i DEF FinalApply, HandoffsAreRecords, PagesOfModes
    <2>2. held'.values = [held.values EXCEPT ![FinalOption] = finalValue]
      <3>1. held = [values |-> held.values, consents |-> held.consents]
        BY <1>i, <2>1 DEF HandoffsAreRecords
      <3> QED BY <2>1, <3>1
    <2>3. held'.values = Build(answers')
      <3>1. Build(answers') = [Build(answers) EXCEPT ![FinalOption] = finalValue]
        BY <1>i, <1>t, <2>1, FinalIsItself
      <3> QED BY <2>1, <2>2, <3>1 DEF HandoffHeld
    <2>4. answers' = [o \in Options |-> answers'[o]]
      BY <1>i, <2>1
    <2>5. \E v \in Answer[FinalOption] : held'.values = Finally(answers', v)
      BY <1>w, <2>3, <2>4
    <2>6. \A v : Finally(answers', v) = Finally(answers, v)
      <3> TAKE v
      <3>1. [answers' EXCEPT ![FinalOption] = v] = [answers EXCEPT ![FinalOption] = v]
        BY <1>i, <2>1
      <3> QED BY <3>1 DEF Finally
    <2>7. disk' # Absent => \E v \in Answer[FinalOption] : disk'.values = Finally(answers', v)
      <3>1. CASE disk' = disk
        BY <2>6, <3>1 DEF HandoffHeld
      <3>2. CASE disk' = held'
        BY <2>5, <3>2
      <3> QED BY <2>1, <3>1, <3>2
    <2> QED BY <2>1, <2>3, <2>7 DEF HandoffHeld
  <1>11. CASE FinalSkip \/ Close \/ CommandRefused
    BY <1>0, <1>11 DEF FinalSkip, Close, CommandRefused
  <1>12. CASE CommandInstalls
    BY <1>n, <1>12, <1>i DEF CommandInstalls, HandoffPlaces, PagesOfModes
  <1>13. CASE Ended \/ UNCHANGED vars
    BY <1>0, <1>13 DEF Ended, vars
  <1> QED BY <1>1, <1>2, <1>3, <1>4, <1>5, <1>6, <1>7, <1>8, <1>9, <1>10, <1>11, <1>12, <1>13
          DEF Next, Worker

\* Nothing is written at the start.
LEMMA WrittenInit == Init => HandoffPlaces /\ HandoffHeld
PROOF BY DEF Init, HandoffPlaces, HandoffHeld

\* The hand-off that run_gui writes at Install, and the picker of the last page rewrites in
\* place, is what the answers come to, the last one included once it is applied - where no
\* card sets the option that is asked again.
THEOREM HandoffIsTrue ==
    ASSUME FinalIsFree
    PROVE  Spec => []HandoffIsTheAnswers
PROOF
  <1>1. IInv /\ HandoffPlaces /\ HandoffHeld => HandoffIsTheAnswers
    <2> SUFFICES ASSUME IInv, HandoffPlaces, HandoffHeld, disk # Absent
                 PROVE  /\ \E v \in Answer[FinalOption] : disk.values = Finally(answers, v)
                        /\ finalVisible \/ page = "progress" \/ disk = held =>
                              disk.values = Build(answers)
      BY DEF HandoffIsTheAnswers, Finally
    <2> QED BY DEF HandoffHeld, HandoffPlaces
  <1>2. IInv /\ Typed /\ Typed' /\ HandoffPlaces /\ HandoffHeld /\ [Next]_vars => HandoffHeld'
    BY HandoffHeldStep
  <1> QED BY <1>1, <1>2, WrittenInit, HandoffPlacesStep, InitHolds, StepHolds, TypedInit, TypedStep,
             PTL DEF Spec

-----------------------------------------------------------------------------
(* The prerequisites are those of the options that are on.                 *)

\* What a hand-off has on, of what brings a prerequisite in.
OnIn(h) == {o \in Installs : h.values[o] = "on"}

\* What is fetched is what every hand-off written or to be written has on.
FetchedForHandoff ==
    /\ \A h \in {disk, held} : h # Absent => fetched = OnIn(h)
    /\ mode = "command" /\ page = "progress" => fetched = PrereqsChosen(answers)

\* Only a switch brings a prerequisite in.
LEMMA InstallsAreSwitches == \A o \in Installs : o \in Options /\ Kind[o] = "bool"
PROOF BY ConfigLoaded DEF LinksAreValid

\* The hand-off and the prerequisites of the same answers agree.
LEMMA HandoffBringsItIn ==
    ASSUME NEW a
    PROVE  OnIn(HandoffOf(a)) = PrereqsChosen(a)
PROOF BY InstallsAreSwitches DEF OnIn, HandoffOf, Build, PrereqsChosen

\* Every step keeps the two together.
LEMMA FetchedStep ==
    ASSUME AutoSetsNothing
    PROVE  IInv /\ Typed /\ HandoffPlaces /\ FetchedForHandoff /\ [Next]_vars => FetchedForHandoff'
PROOF
  <1> SUFFICES ASSUME IInv, Typed, HandoffPlaces, FetchedForHandoff, [Next]_vars
               PROVE  FetchedForHandoff'
    OBVIOUS
  <1>i. PagesOfModes /\ WrittenAfterTheSteps /\ HandoffsAreRecords
    BY DEF IInv
  <1>0. ASSUME UNCHANGED <<disk, held, fetched>>,
               mode' = "command" /\ page' = "progress" =>
                  mode = "command" /\ page = "progress" /\ answers' = answers
        PROVE  FetchedForHandoff'
    BY <1>0 DEF FetchedForHandoff, OnIn
  <1>s. ASSUME page = "steps", UNCHANGED <<disk, held, mode>> PROVE FetchedForHandoff'
    BY <1>i, <1>s DEF WrittenAfterTheSteps, PagesOfModes, FetchedForHandoff
  <1>1. CASE GoNext \/ GoBack
    BY <1>s, <1>1 DEF GoNext, GoBack, MoveTo
  <1>2. CASE \E c \in BOOLEAN : ModePicked(c)
    BY <1>s, <1>2 DEF ModePicked
  <1>3. CASE \E v \in BOOLEAN : LegalAcceptToggled(v)
    BY <1>s, <1>3 DEF LegalAcceptToggled
  <1>4. CASE \E l \in Langs : LanguagePicked(l)
    BY <1>s, <1>4 DEF LanguagePicked
  <1>5. CASE Answering
    BY <1>s, <1>5 DEF Answering, OptionBoolChanged, OptionCardPicked, OptionSelectChanged,
                      ResetOptions, Answer1
  <1>6. ASSUME NEW written \in BOOLEAN, Install(written) PROVE FetchedForHandoff'
    <2> DEFINE a == ResolveAutoSelects(answers)
    <2>1. /\ fetched' = PrereqsChosen(a) /\ mode' = "window"
          /\ disk' \in {HandoffOf(a), Absent} /\ held' \in {HandoffOf(a), Absent}
      BY <1>6, <1>i DEF Install, PagesOfModes, WrittenAfterTheSteps
    <2> HIDE DEF a
    <2> QED BY <2>1, HandoffBringsItIn DEF FetchedForHandoff
  <1>7. CASE \E ok \in BOOLEAN : WorkerEnds(ok)
    BY <1>0, <1>7 DEF WorkerEnds
  <1>8. ASSUME NEW ok \in BOOLEAN, NEW written \in BOOLEAN, CommandEnds(ok, written)
        PROVE  FetchedForHandoff'
    <2>1. /\ held' = Absent /\ disk' \in {HandoffOf(answers'), Absent} /\ page' = "closed"
          /\ answers' \in {answers, ResolveAutoSelects(answers)}
          /\ fetched' = PrereqsChosen(answers)
      BY <1>8 DEF CommandEnds, HandoffPlaces, FetchedForHandoff
    <2>2. PrereqsChosen(ResolveAutoSelects(answers)) = PrereqsChosen(answers)
      BY InstallsAreSwitches, ResolveKeepsSwitches DEF Typed, AnswersTyped, PrereqsChosen
    <2>3. fetched' = PrereqsChosen(answers')
      BY <2>1, <2>2
    <2> QED BY <2>1, <2>3, HandoffBringsItIn DEF FetchedForHandoff
  <1>9. CASE \E v \in ValuesOf[FinalOption] : FinalPicked(v)
    BY <1>0, <1>9 DEF FinalPicked
  <1>10. ASSUME NEW written \in BOOLEAN, FinalApply(written) PROVE FetchedForHandoff'
    <2>1. /\ held' = [held EXCEPT !.values[FinalOption] = finalValue]
          /\ disk' \in {disk, held'} /\ held # Absent /\ mode' = "window" /\ fetched' = fetched
      BY <1>10, <1>i DEF FinalApply, HandoffsAreRecords, PagesOfModes
    <2>2. held'.values = [held.values EXCEPT ![FinalOption] = finalValue]
      <3>1. held = [values |-> held.values, consents |-> held.consents]
        BY <1>i, <2>1 DEF HandoffsAreRecords
      <3> QED BY <2>1, <3>1
    <2>3. FinalOption \notin Installs
      BY FinalIsAnOption, InstallsAreSwitches
    <2>4. OnIn(held') = OnIn(held)
      <3>1. \A o \in Installs : held'.values[o] = held.values[o]
        BY <2>2, <2>3
      <3> QED BY <3>1 DEF OnIn
    <2> QED BY <2>1, <2>4 DEF FetchedForHandoff
  <1>11. CASE FinalSkip \/ Close \/ CommandRefused
    BY <1>0, <1>11 DEF FinalSkip, Close, CommandRefused
  <1>12. CASE CommandInstalls
    <2>1. disk' = Absent /\ held' = Absent
      BY <1>12, <1>i DEF CommandInstalls, HandoffPlaces, PagesOfModes
    <2>2. fetched' = PrereqsChosen(answers')
      BY <1>12 DEF CommandInstalls
    <2> QED BY <2>1, <2>2 DEF FetchedForHandoff
  <1>13. CASE Ended \/ UNCHANGED vars
    BY <1>0, <1>13 DEF Ended, vars
  <1> QED BY <1>1, <1>2, <1>3, <1>4, <1>5, <1>6, <1>7, <1>8, <1>9, <1>10, <1>11, <1>12, <1>13
          DEF Next, Worker

\* Nothing is fetched at the start.
LEMMA FetchedInit == Init => FetchedForHandoff
PROOF BY DEF Init, FetchedForHandoff

\* The prerequisites an install brings in are those of the options its hand-off has on,
\* in the window and on the command line, although that replaces "auto" in between.
THEOREM PrereqsAreTheHandoffs ==
    ASSUME AutoSetsNothing
    PROVE  Spec => []PrereqsFollowHandoff
PROOF
  <1>1. FetchedForHandoff => PrereqsFollowHandoff
    BY DEF FetchedForHandoff, PrereqsFollowHandoff, OnIn
  <1>2. IInv /\ Typed /\ HandoffPlaces /\ FetchedForHandoff /\ [Next]_vars => FetchedForHandoff'
    BY FetchedStep
  <1> QED BY <1>1, <1>2, FetchedInit, WrittenInit, HandoffPlacesStep, InitHolds, StepHolds,
             TypedInit, TypedStep, PTL DEF Spec

-----------------------------------------------------------------------------
(* Unattended, what sends data was named.                                  *)

\* It was named, or its parent was.
Authorized(o) == NamedOn(o) \/ (Parent[o] # Nothing /\ NamedOn(Parent[o]))

\* These values send only that.
SendsOnly(v) == \A o \in SendsData \cap Options : Kind[o] = "bool" /\ v[o] = "on" => Authorized(o)

\* A command line installs what it named, and its hand-off sends only that.
Commanded ==
    mode = "command" =>
        /\ page = "progress" => /\ MustBeNamed(named) = {}
                                /\ \A o \in Options \ {Legal} :
                                      answers[o] = UnattendedChoices(named)[o]
        /\ disk # Absent => SendsOnly(disk.values)

\* What is named is not replaced.
LEMMA NamedStands ==
    ASSUME NEW o \in Options, named[o] # Unanswered
    PROVE  Own(o, UnattendedChoices(named)) = named[o]
PROOF BY DEF Own, UnattendedChoices

\* With every such choice named, what comes to be on was asked for.
LEMMA OnlyNamedSends ==
    ASSUME MustBeNamed(named) = {}, NEW o \in SendsData \cap Options, Kind[o] = "bool",
           EffectiveValue(o, UnattendedChoices(named)) = "on"
    PROVE  Authorized(o)
PROOF
  <1> DEFINE c == UnattendedChoices(named)
  <1>1. TopValue(o, c) = "on"
    BY DEF EffectiveValue
  <1>2. CASE Deciding(o, c) # {}
    <2>1. PICK p \in Deciding(o, c) : Gives[p][PickedCard(p, c)][o] = "on"
      BY <1>1, <1>2 DEF TopValue
    <2>2. /\ p \in Options /\ PickedCard(p, c) # Nothing
          /\ PickedCard(p, c) = Own(p, c) /\ PickedCard(p, c) \in Cards[p]
      BY PickedIsACard DEF Deciding
    <2>3. named[p] # Unanswered
      BY <2>1, <2>2 DEF MustBeNamed
    <2>4. Own(p, c) = named[p]
      BY <2>2, <2>3, NamedStands
    <2> HIDE DEF c
    <2>5. NamedOn(o)
      BY <2>1, <2>2, <2>4 DEF NamedOn
    <2> QED BY <2>5 DEF Authorized
  <1>3. CASE Deciding(o, c) = {}
    <2>1. Own(o, c) = "on"
      BY <1>1, <1>3 DEF TopValue
    <2>2. CASE named[o] # Unanswered
      BY <2>1, <2>2, NamedStands DEF Authorized, NamedOn
    <2>3. CASE named[o] = Unanswered
      <3>1. Parent[o] # Nothing /\ named[Parent[o]] = "on"
        <4> SUFFICES ASSUME ~(Parent[o] # Nothing /\ named[Parent[o]] = "on") PROVE FALSE
          OBVIOUS
        <4>1. c[o] = "off"
          BY <2>3 DEF UnattendedChoices
        <4> QED BY <2>1, <4>1 DEF Own, Unanswered
      <3> QED BY <3>1 DEF Authorized, NamedOn
    <2> QED BY <2>2, <2>3
  <1> QED BY <1>2, <1>3

\* Every step keeps the command line to what it named.
LEMMA CommandedStep ==
    ASSUME AutoSetsNothing
    PROVE  IInv /\ Typed /\ HandoffPlaces /\ Commanded /\ [Next]_vars => Commanded'
PROOF
  <1> SUFFICES ASSUME IInv, Typed, HandoffPlaces, Commanded, [Next]_vars
               PROVE  Commanded'
    OBVIOUS
  <1>i. PagesOfModes /\ mode \in {"window", "command"}
    BY DEF IInv, Shape
  <1>s. ASSUME page \in {"steps", "done"}, UNCHANGED mode PROVE Commanded'
    BY <1>i, <1>s DEF PagesOfModes, Commanded
  <1>a. UNCHANGED named => \A o : Authorized(o)' = Authorized(o)
    BY DEF Authorized, NamedOn
  <1>0. ASSUME UNCHANGED <<mode, named, disk>>,
               page' = "progress" => page = "progress" /\ answers' = answers
        PROVE  Commanded'
    BY <1>a, <1>0 DEF Commanded, SendsOnly
  <1>1. CASE GoNext \/ GoBack
    BY <1>s, <1>1 DEF GoNext, GoBack, MoveTo
  <1>2. CASE \E c \in BOOLEAN : ModePicked(c)
    BY <1>s, <1>2 DEF ModePicked
  <1>3. CASE \E v \in BOOLEAN : LegalAcceptToggled(v)
    BY <1>s, <1>3 DEF LegalAcceptToggled
  <1>4. CASE \E l \in Langs : LanguagePicked(l)
    BY <1>s, <1>4 DEF LanguagePicked
  <1>5. CASE Answering
    BY <1>s, <1>5 DEF Answering, OptionBoolChanged, OptionCardPicked, OptionSelectChanged,
                      ResetOptions, Answer1
  <1>6. CASE \E written \in BOOLEAN : Install(written)
    BY <1>s, <1>6 DEF Install
  <1>7. ASSUME NEW ok \in BOOLEAN, WorkerEnds(ok) PROVE Commanded'
    BY <1>7 DEF WorkerEnds, Commanded
  <1>8. ASSUME NEW ok \in BOOLEAN, NEW written \in BOOLEAN, CommandEnds(ok, written)
        PROVE  Commanded'
    <2>1. /\ mode = "command" /\ page = "progress" /\ page' = "closed" /\ UNCHANGED <<mode, named>>
          /\ \/ disk' = disk
             \/ disk' = HandoffOf(answers') /\ answers' = ResolveAutoSelects(answers)
      BY <1>8 DEF CommandEnds
    <2>2. CASE disk' = disk
      BY <1>0, <2>1, <2>2
    <2>3. CASE disk' = HandoffOf(answers') /\ answers' = ResolveAutoSelects(answers)
      <3>1. ASSUME NEW o \in SendsData \cap Options, Kind[o] = "bool", disk'.values[o] = "on"
            PROVE  Authorized(o)
        <4>1. EffectiveValue(o, ResolveAutoSelects(answers)) = "on"
          BY <2>3, <3>1 DEF HandoffOf, Build
        <4>2. EffectiveValue(o, answers) = "on"
          BY <3>1, <4>1, ResolveKeepsSwitches DEF Typed, AnswersTyped
        <4>3. o # Legal
          BY <3>1, LegalStandsAlone
        <4>4. EffectiveValue(o, UnattendedChoices(named)) = "on"
          BY <2>1, <4>2, <4>3, OnlyLegal DEF Commanded
        <4> QED BY <2>1, <3>1, <4>4, OnlyNamedSends DEF Commanded
      <3> QED BY <1>a, <2>1, <3>1 DEF Commanded, SendsOnly
    <2> QED BY <2>1, <2>2, <2>3
  <1>9. CASE \E v \in ValuesOf[FinalOption] : FinalPicked(v)
    BY <1>s, <1>9 DEF FinalPicked
  <1>10. CASE \E written \in BOOLEAN : FinalApply(written)
    BY <1>s, <1>10 DEF FinalApply
  <1>11. CASE FinalSkip \/ Close \/ CommandRefused
    BY <1>0, <1>11 DEF FinalSkip, Close, CommandRefused
  <1>12. CASE CommandInstalls
    <2>1. /\ disk' = Absent /\ MustBeNamed(named) = {} /\ named' = named
          /\ answers' = [UnattendedChoices(named) EXCEPT
                            ![Legal] = IF Legal \in Required THEN "on" ELSE @]
      BY <1>12, <1>i DEF CommandInstalls, HandoffPlaces, PagesOfModes
    <2>2. \A o \in Options \ {Legal} : answers'[o] = UnattendedChoices(named)[o]
      BY <2>1 DEF UnattendedChoices
    <2> QED BY <2>1, <2>2 DEF Commanded
  <1>13. CASE Ended \/ UNCHANGED vars
    BY <1>0, <1>13 DEF Ended, vars
  <1> QED BY <1>1, <1>2, <1>3, <1>4, <1>5, <1>6, <1>7, <1>8, <1>9, <1>10, <1>11, <1>12, <1>13
          DEF Next, Worker

\* A command line has not answered yet at the start.
LEMMA CommandedInit == Init => Commanded
PROOF BY DEF Init, Commanded

\* After an unattended install nothing that sends data is on unless --set or --telemetry
\* named it, the option it refines, or a card that sets one of the two (unattended.rs,
\* unattended_choices and the check for choices that must be named).
THEOREM OnlyNamedDataIsSent ==
    ASSUME AutoSetsNothing
    PROVE  Spec => []OffUnlessNamed
PROOF
  <1>1. Commanded => OffUnlessNamed
    <2>1. SendsData \cap Options = SendsData
      BY ConfigLoaded
    <2> QED BY <2>1 DEF Commanded, SendsOnly, Authorized, OffUnlessNamed
  <1>2. IInv /\ Typed /\ HandoffPlaces /\ Commanded /\ [Next]_vars => Commanded'
    BY CommandedStep
  <1> QED BY <1>1, <1>2, CommandedInit, WrittenInit, HandoffPlacesStep, InitHolds, StepHolds,
             TypedInit, TypedStep, PTL DEF Spec

-----------------------------------------------------------------------------
(* The documents behind the one on screen were ticked.                     *)

\* Document i is behind the place, or may be left.
Passed(i) == cur > 2 \/ (cur = 2 /\ i < li) \/ (cur = 2 /\ canProceed /\ i = li)

\* What is behind was ticked, and all of it once Install was pressed.
TickedBehind ==
    /\ \A i \in DOMAIN docs : Passed(i) => ticked[i] # NoFile
    /\ page \in {"progress", "done"} /\ mode = "window" =>
          \A i \in DOMAIN docs : ticked[i] # NoFile

\* The terms are the second step.
LEMMA TermsComeSecond ==
    ASSUME InFlow, Len(docs) > 0, NEW i \in 1 .. Len(Flow)
    PROVE  Flow[i] = "legal" <=> i = 2
PROOF BY FlowNow

\* With something to ask, the terms are never the last step.
LEMMA TermsAreNotLast ==
    ASSUME AsksAfterTheTerms, InFlow, Len(docs) > 0
    PROVE  Len(Flow) > 2
PROOF
  <1>1. PICK g \in Range(Groups) : g \in AlwaysAsk \/ MustAnswer(g)
    BY GroupsAreDeclared DEF AsksAfterTheTerms, MustAnswer
  <1>2. g \in Asked(custom) /\ g \notin {"welcome", "legal", "location"}
    BY <1>1, StepsAreApart DEF Asked
  <1>3. Len(docs) \in Nat /\ custom \in BOOLEAN
    BY FlowNow DEF InFlow
  <1>4. PICK i \in 1 .. Len(Flow) : Flow[i] = g
    BY <1>2, <1>3, FlowShape DEF Flow
  <1>5. i # 1 /\ i # 2
    BY <1>2, <1>4, FlowNow
  <1>6. Len(Flow) \in Nat
    BY <1>3, FlowShape DEF Flow
  <1> QED BY <1>5, <1>6

\* Every step leaves only ticked documents behind.
LEMMA TickedStep ==
    ASSUME AsksAfterTheTerms
    PROVE  IInv /\ Typed /\ Typed' /\ TickedBehind /\ [Next]_vars => TickedBehind'
PROOF
  <1> SUFFICES ASSUME IInv, Typed, Typed', TickedBehind, [Next]_vars
               PROVE  TickedBehind'
    OBVIOUS
  <1>i. PagesOfModes /\ FlagsAreOfTheTexts /\ mode \in {"window", "command"}
    BY DEF IInv, Shape
  <1>n. /\ Len(docs) \in Nat /\ DOMAIN docs = 1 .. Len(docs) /\ InFlow /\ Len(Flow) \in Nat
        /\ cur \in 1 .. Len(Flow) /\ li \in Nat /\ docs \in Seq(Packaged)
    BY FlowNow, FlowShape DEF Typed, InFlow, Flow
  <1>p. \A i \in DOMAIN docs : docs[i] # NoFile
    BY <1>n, LanguagesLoaded
  <1>0. ASSUME UNCHANGED <<mode, docs, ticked, cur, li, canProceed>>,
               page' \in {"progress", "done"} => page \in {"progress", "done"} \/ mode = "command"
        PROVE  TickedBehind'
    BY <1>0 DEF TickedBehind, Passed
  <1>g. ASSUME Len(docs) = 0, Len(docs') = Len(docs) PROVE TickedBehind'
    <2>1. DOMAIN docs' = {}
      BY <1>g DEF Typed, InFlow
    <2> QED BY <2>1 DEF TickedBehind
  <1>1. CASE GoNext \/ GoBack
    <2>1. /\ UNCHANGED <<docs, ticked, page, mode, custom>> /\ page = "steps"
          /\ canProceed' = MayLeave(Flow[cur'], li', accepted, answers)
      BY <1>1 DEF GoNext, GoBack, MoveTo
    <2>2. CASE Len(docs) = 0
      BY <1>g, <2>1, <2>2
    <2>3. CASE Len(docs) > 0
      <3>1. \A j \in 1 .. Len(Flow) : Flow[j] = "legal" <=> j = 2
        BY <1>n, <2>3, TermsComeSecond
      <3>2. mode = "window"
        BY <1>i, <2>1 DEF PagesOfModes
      <3>3. cur' = 2 /\ canProceed' => accepted[li']
        <4>1. Flow' = Flow /\ cur' \in 1 .. Len(Flow)
          BY <2>1 DEF Typed, InFlow, Flow
        <4> QED BY <2>1, <3>1, <4>1 DEF MayLeave
      <3>4. cur' = 2 /\ canProceed' => \A i \in DOMAIN docs : i = li' => ticked[i] # NoFile
        BY <1>p, <1>i, <3>2, <3>3 DEF FlagsAreOfTheTexts
      <3>5. ASSUME NEW i \in DOMAIN docs, cur' > 2 \/ (cur' = 2 /\ i < li')
            PROVE  ticked[i] # NoFile
        <4>1. CASE GoNext /\ Step = "legal" /\ li < Len(docs)
          <5>1. cur' = cur /\ li' = li + 1 /\ canProceed /\ cur = 2
            BY <1>n, <3>1, <4>1 DEF GoNext, MoveTo, Step
          <5> QED BY <1>n, <3>5, <5>1 DEF TickedBehind, Passed
        <4>2. CASE GoNext /\ ~(Step = "legal" /\ li < Len(docs))
          <5>1. /\ cur' = cur + 1 /\ cur < Len(Flow) /\ canProceed
                /\ li' = IF Flow[cur + 1] = "legal" THEN 1 ELSE li
            BY <1>n, <4>2 DEF GoNext, MoveTo, LastStep
          <5>2. CASE cur = 1
            BY <1>n, <3>1, <3>5, <5>1, <5>2
          <5>3. CASE cur = 2
            <6>1. Step = "legal"
              BY <1>n, <3>1, <5>3 DEF Step
            <6>2. li = Len(docs)
              <7>1. li \in 1 .. Len(docs)
                BY <1>n, <6>1 DEF InFlow
              <7>2. Len(docs) \in Nat /\ ~(li < Len(docs))
                BY <1>n, <4>2, <6>1
              <7> QED BY <7>1, <7>2
            <6> QED BY <1>n, <5>1, <5>3, <6>2 DEF TickedBehind, Passed
          <5>4. CASE cur > 2
            BY <1>n, <5>4 DEF TickedBehind, Passed
          <5> QED BY <1>n, <5>2, <5>3, <5>4
        <4>3. CASE GoBack /\ Step = "legal" /\ li > 1
          <5>1. cur' = cur /\ li' = li - 1 /\ cur = 2
            BY <1>n, <3>1, <4>3 DEF GoBack, MoveTo, Step
          <5> QED BY <1>n, <3>5, <5>1 DEF TickedBehind, Passed
        <4>4. CASE GoBack /\ ~(Step = "legal" /\ li > 1)
          <5>1. cur' = cur - 1 /\ cur > 2
            BY <1>n, <3>5, <4>4 DEF GoBack, MoveTo
          <5> QED BY <1>n, <5>1 DEF TickedBehind, Passed
        <4> QED BY <1>1, <4>1, <4>2, <4>3, <4>4
      <3> QED BY <2>1, <3>4, <3>5 DEF TickedBehind, Passed
    <2> QED BY <1>n, <2>2, <2>3
  <1>2. ASSUME NEW c \in BOOLEAN, ModePicked(c) PROVE TickedBehind'
    <2>1. /\ UNCHANGED <<docs, ticked, page, mode, cur>> /\ page = "steps" /\ cur = 1
      BY <1>2, <1>n, FlowNow DEF ModePicked, Step
    <2> QED BY <2>1 DEF TickedBehind, Passed
  <1>3. ASSUME NEW v \in BOOLEAN, LegalAcceptToggled(v) PROVE TickedBehind'
    <2>1. /\ UNCHANGED <<docs, page, mode, cur, li>> /\ page = "steps" /\ Step = "legal"
          /\ canProceed' = v
          /\ ticked' = [ticked EXCEPT ![li] = IF v THEN docs[li] ELSE NoFile]
      BY <1>3 DEF LegalAcceptToggled
    <2>2. cur = 2
      BY <1>n, <2>1, FlowNow DEF Step
    <2>3. ticked = [i \in DOMAIN docs |-> ticked[i]]
      BY DEF IInv, Shape
    <2>4. ASSUME NEW i \in DOMAIN docs, Passed(i)' PROVE ticked'[i] # NoFile
      <3>1. i < li \/ (v /\ i = li)
        BY <2>1, <2>2, <2>4 DEF Passed
      <3>2. CASE i < li
        <4>1. ticked'[i] = ticked[i]
          BY <1>n, <2>1, <2>3, <3>2
        <4> QED BY <2>2, <3>2, <4>1 DEF TickedBehind, Passed
      <3>3. CASE v /\ i = li
        <4>1. ticked'[i] = docs[i]
          BY <2>1, <2>3, <3>3
        <4> QED BY <1>p, <4>1
      <3> QED BY <3>1, <3>2, <3>3
    <2> QED BY <2>1, <2>4 DEF TickedBehind
  <1>4. ASSUME NEW l \in Langs, LanguagePicked(l) PROVE TickedBehind'
    <2>1. /\ UNCHANGED <<ticked, page, mode, cur, li>> /\ page = "steps"
          /\ Reload(LoadLegalDocs(l, readable))
          /\ canProceed' = MayLeave(Step, li, accepted', answers')
      BY <1>4 DEF LanguagePicked
    <2>2. /\ DOMAIN docs' = DOMAIN docs
          /\ \A i \in DOMAIN docs : accepted'[i] => accepted[i]
      BY <2>1 DEF Reload
    <2>3. ASSUME NEW i \in DOMAIN docs, cur = 2, canProceed', i = li PROVE ticked[i] # NoFile
      <3>1. Len(docs) > 0
        BY <1>n, <2>3
      <3>2. Step = "legal"
        BY <1>n, <2>3, <3>1, TermsComeSecond DEF Step
      <3>3. accepted[i]
        BY <2>1, <2>2, <2>3, <3>2 DEF MayLeave
      <3> QED BY <1>i, <1>p, <2>1, <3>3 DEF FlagsAreOfTheTexts, PagesOfModes
    <2> QED BY <2>1, <2>2, <2>3 DEF TickedBehind, Passed
  <1>5. CASE Answering
    <2>1. /\ UNCHANGED <<docs, ticked, page, mode, cur, li>> /\ page = "steps"
          /\ Step \in Range(Groups)
      <3>1. ASSUME NEW o, OnScreen(o) PROVE Step \in Range(Groups)
        BY <3>1, GroupsAreDeclared DEF OnScreen
      <3> QED BY <1>5, <3>1 DEF Answering, OptionBoolChanged, OptionCardPicked,
                                OptionSelectChanged, ResetOptions, Answer1
    <2>2. CASE Len(docs) = 0
      BY <1>g, <2>1, <2>2
    <2>3. CASE Len(docs) > 0
      <3>1. cur # 2
        BY <1>n, <2>1, <2>3, TermsComeSecond, StepsAreApart DEF Step
      <3> QED BY <2>1, <3>1 DEF TickedBehind, Passed
    <2> QED BY <1>n, <2>2, <2>3
  <1>6. ASSUME NEW written \in BOOLEAN, Install(written) PROVE TickedBehind'
    <2>1. /\ UNCHANGED <<docs, ticked, mode, cur, li, canProceed>> /\ cur = Len(Flow)
      BY <1>6 DEF Install, LastStep
    <2>2. ASSUME NEW i \in DOMAIN docs PROVE ticked[i] # NoFile
      <3>1. Len(Flow) > 2
        BY <1>n, <2>2, TermsAreNotLast
      <3> QED BY <2>1, <3>1 DEF TickedBehind, Passed
    <2> QED BY <2>1, <2>2 DEF TickedBehind
  <1>7. CASE Worker
    BY <1>0, <1>7 DEF Worker, WorkerEnds, CommandEnds
  <1>8. CASE \E v \in ValuesOf[FinalOption] : FinalPicked(v)
    BY <1>0, <1>8 DEF FinalPicked
  <1>9. CASE \E written \in BOOLEAN : FinalApply(written)
    BY <1>0, <1>9 DEF FinalApply
  <1>10. CASE FinalSkip \/ Close \/ CommandRefused
    BY <1>0, <1>10 DEF FinalSkip, Close, CommandRefused
  <1>11. CASE CommandInstalls
    BY <1>0, <1>11, <1>i DEF CommandInstalls, PagesOfModes
  <1>12. CASE Ended \/ UNCHANGED vars
    BY <1>0, <1>12 DEF Ended, vars
  <1> QED BY <1>1, <1>2, <1>3, <1>4, <1>5, <1>6, <1>7, <1>8, <1>9, <1>10, <1>11, <1>12 DEF Next

\* Nothing is behind at the start.
LEMMA TickedInit == Init => TickedBehind
PROOF
  <1> SUFFICES ASSUME Init PROVE TickedBehind
    OBVIOUS
  <1>1. cur = 1 /\ page \in {"steps", "command"}
    BY DEF Init
  <1> QED BY <1>1 DEF TickedBehind, Passed

\* The window starts no install over a document that was never ticked, in whatever language
\* it was then: Next is enabled document by document (main.rs, refresh_legal).
THEOREM NothingUnticked ==
    ASSUME AsksAfterTheTerms
    PROVE  Spec => []EveryDocumentWasTicked
PROOF
  <1>1. TickedBehind => EveryDocumentWasTicked
    BY DEF TickedBehind, EveryDocumentWasTicked
  <1>2. IInv /\ Typed /\ Typed' /\ TickedBehind /\ [Next]_vars => TickedBehind'
    BY TickedStep
  <1> QED BY <1>1, <1>2, TickedInit, InitHolds, StepHolds, TypedInit, TypedStep, PTL DEF Spec

-----------------------------------------------------------------------------
(* The required choices behind the step on screen were made - or their     *)
(* step is still to come again.                                            *)

\* The group of a step behind is answered, or its step is ahead once more.
ChoicesBehind ==
    page = "steps" =>
        /\ \A j \in 1 .. cur - 1 : Flow[j] \in Range(Groups) =>
              \/ GroupAnswered(Flow[j], answers)
              \/ \E k \in cur .. Len(Flow) : Flow[k] = Flow[j]
        /\ canProceed /\ Step \in Range(Groups) => GroupAnswered(Step, answers)

\* No choice outside group g is lost.
Keeps(a, b, g) ==
    \A x \in Visible \cap Required :
        DisplayGroup(x) # g /\ Cards[x] # {} /\ PickedCard(x, a) # Nothing =>
            PickedCard(x, b) # Nothing

\* An answered group stays answered under what keeps the others.
LEMMA KeepsOthers ==
    ASSUME NEW a, NEW b, NEW g, Keeps(a, b, g), NEW h, h # g, GroupAnswered(h, a)
    PROVE  GroupAnswered(h, b)
PROOF BY DEF Keeps, GroupAnswered

\* A switch keeps the choices of the other groups, ...
LEMMA SetBoolKeeps ==
    ASSUME NEW a, NEW o \in Options, NEW v
    PROVE  Keeps(a, SetBool(a, o, v), DisplayGroup(o))
PROOF
  <1> SUFFICES ASSUME NEW x \in Visible \cap Required, DisplayGroup(x) # DisplayGroup(o)
               PROVE  PickedCard(x, SetBool(a, o, v)) = PickedCard(x, a)
    BY DEF Keeps
  <1>1. x \in Options /\ x # o
    BY DEF Visible
  <1>2. Parent[x] # o
    <2> SUFFICES ASSUME Parent[x] = o PROVE FALSE
      OBVIOUS
    <2>1. o # Nothing
      BY ConfigLoaded
    <2>2. Parent[o] = Nothing
      BY <1>1, <2>1, ParentsAreBools
    <2> QED BY <2>1, <2>2 DEF DisplayGroup
  <1>3. SetBool(a, o, v)[x] = a[x]
    BY <1>1, <1>2 DEF SetBool
  <1> QED BY <1>3 DEF PickedCard, Own

\* What a preset governs belongs to a preset.
LEMMA GovernsAsAPreset ==
    ASSUME NEW p \in Options, NEW x \in GovernedBy(p)
    PROVE  x \in Options /\ Preset(p)
PROOF
  <1> DEFINE direct == {o \in Options : \E v \in Cards[p] : Gives[p][v][o] # Nothing}
  <1>1. CASE x \in direct
    BY <1>1 DEF Preset
  <1>2. CASE x \in ChildrenOf(direct)
    BY <1>2 DEF ChildrenOf, Preset
  <1> QED BY <1>1, <1>2 DEF GovernedBy

\* ... so does a card, Customize too, ...
LEMMA PickCardKeeps ==
    ASSUME RequiredChoicesAreWhole, NEW a, Answered(a), NEW p \in Options, NEW v \in Cards[p]
    PROVE  Keeps(a, PickCard(a, p, v), DisplayGroup(p))
PROOF
  <1>1. CASE Kind[p] = "bool"
    BY <1>1, SetBoolKeeps DEF PickCard
  <1>2. CASE Kind[p] # "bool"
    <2> DEFINE b == PickCard(a, p, v)
    <2> SUFFICES ASSUME NEW x \in Visible \cap Required, DisplayGroup(x) # DisplayGroup(p),
                        Cards[x] # {}, PickedCard(x, a) # Nothing
                 PROVE  PickedCard(x, b) # Nothing
      BY DEF Keeps
    <2>1. x \in Options /\ x # p
      BY DEF Visible
    <2>2. b[x] = a[x] \/ (x \in GovernedBy(p) /\ b[x] = EffectiveValue(x, a))
      BY <1>2, <2>1 DEF PickCard
    <2> HIDE DEF b
    <2>3. CASE b[x] = a[x]
      BY <2>3 DEF PickedCard, Own
    <2>4. CASE x \in GovernedBy(p) /\ b[x] = EffectiveValue(x, a)
      <3>1. Cards[x] = ValuesOf[x]
        BY <2>4, GovernsAsAPreset DEF RequiredChoicesAreWhole
      <3>2. Own(x, a) \in Cards[x]
        BY DEF PickedCard
      <3>3. EffectiveValue(x, a) \in Cards[x]
        <4>1. CASE Deciding(x, a) # {}
          <5> DEFINE q == CHOOSE q \in Deciding(x, a) : TRUE
          <5>1. q \in Deciding(x, a)
            BY <4>1
          <5>2. EffectiveValue(x, a) = Gives[q][PickedCard(q, a)][x]
            BY <4>1 DEF EffectiveValue, TopValue
          <5> HIDE DEF q
          <5>3. q \in Options /\ PickedCard(q, a) \in Cards[q] /\ Gives[q][PickedCard(q, a)][x] # Nothing
            BY <5>1, PickedIsACard DEF Deciding
          <5>4. Gives[q][PickedCard(q, a)][x] \in ValuesOf[x]
            BY <2>1, <5>3, ConfigLoaded DEF CardsAreValid
          <5> QED BY <3>1, <5>2, <5>4
        <4>2. CASE Deciding(x, a) = {} /\ Parent[x] # Nothing /\ TopValue(Parent[x], a) # "on"
          <5>1. EffectiveValue(x, a) = "off"
            BY <4>2 DEF EffectiveValue
          <5>2. ValuesOf[x] = {"on", "off"}
            BY <2>1, <4>2, ParentsAreBools, ConfigLoaded
          <5> QED BY <3>1, <5>1, <5>2
        <4>3. CASE Deciding(x, a) = {} /\ ~(Parent[x] # Nothing /\ TopValue(Parent[x], a) # "on")
          <5>1. EffectiveValue(x, a) = Own(x, a)
            BY <4>3 DEF EffectiveValue, TopValue
          <5> QED BY <3>2, <5>1
        <4> QED BY <4>1, <4>2, <4>3
      <3>4. Unanswered \notin Cards[x] /\ Nothing \notin Cards[x]
        BY <2>1, <3>1, ConfigLoaded
      <3>5. Own(x, b) = EffectiveValue(x, a)
        BY <2>4, <3>3, <3>4 DEF Own
      <3> QED BY <3>3, <3>4, <3>5 DEF PickedCard
    <2> QED BY <2>2, <2>3, <2>4
  <1> QED BY <1>1, <1>2

\* ... and so does Reset.
LEMMA ResetKeeps ==
    ASSUME NEW a, NEW g
    PROVE  Keeps(a, ResetStep(a, g), g)
PROOF
  <1>1. ASSUME NEW x \in Visible \cap Required, DisplayGroup(x) # g
        PROVE  PickedCard(x, ResetStep(a, g)) = PickedCard(x, a)
    <2>1. ResetStep(a, g)[x] = a[x]
      BY <1>1 DEF ResetStep, Visible
    <2> QED BY <2>1 DEF PickedCard, Own
  <1> QED BY <1>1 DEF Keeps

\* A required choice has a step, in every flow.
LEMMA RequiredIsAsked ==
    ASSUME InFlow, NEW p \in Visible \cap Required, Cards[p] # {}
    PROVE  \E i \in 1 .. Len(Flow) : Flow[i] = DisplayGroup(p) /\ Flow[i] \in Range(Groups)
PROOF
  <1>1. DisplayGroup(p) \in Range(Groups)
    BY GroupsAreDeclared
  <1>2. Kind[p] # "license"
    BY CardsAreOfKinds DEF Visible
  <1>3. DisplayGroup(p) \in Asked(custom)
    BY <1>1, <1>2 DEF Asked, MustAnswer
  <1>4. Len(docs) \in Nat /\ custom \in BOOLEAN
    BY FlowNow DEF InFlow
  <1>5. PICK i \in 1 .. Len(Flow) : Flow[i] = DisplayGroup(p)
    BY <1>3, <1>4, FlowShape DEF Flow
  <1> QED BY <1>1, <1>5

\* A group's step is left only with its choices made.
LEMMA LeavingAsksTheGroup ==
    ASSUME NEW g \in Range(Groups), NEW i, NEW acc, NEW a, MayLeave(g, i, acc, a)
    PROVE  GroupAnswered(g, a)
PROOF BY StepsAreApart DEF MayLeave

\* Answering at one step loses no choice of another.
LEMMA AnsweringKeeps ==
    ASSUME RequiredChoicesAreWhole, Answered(answers), Answering
    PROVE  /\ Step \in Range(Groups)
           /\ Keeps(answers, answers', Step)
           /\ \/ canProceed' = MayLeave(Step, li, accepted, answers')
              \/ /\ canProceed' = canProceed
                 /\ \A g : GroupAnswered(g, answers) => GroupAnswered(g, answers')
PROOF
  <1> DEFINE Goal == /\ Step \in Range(Groups)
                     /\ Keeps(answers, answers', Step)
                     /\ \/ canProceed' = MayLeave(Step, li, accepted, answers')
                        \/ /\ canProceed' = canProceed
                           /\ \A g : GroupAnswered(g, answers) => GroupAnswered(g, answers')
  <1>0. ASSUME NEW o, OnScreen(o) PROVE o \in Options /\ DisplayGroup(o) = Step /\ Step \in Range(Groups)
    BY <1>0, GroupsAreDeclared DEF OnScreen, Visible
  <1>1. ASSUME NEW o \in Options, NEW v \in {"on", "off"}, OptionBoolChanged(o, v) PROVE Goal
    <2>1. /\ OnScreen(o) /\ answers' = SetBool(answers, o, v)
          /\ canProceed' = MayLeave(Step, li, accepted, answers')
      BY <1>1 DEF OptionBoolChanged, Answer1, Rendered
    <2> QED BY <1>0, <2>1, SetBoolKeeps
  <1>2. ASSUME NEW p \in Options, NEW v \in Cards[p], OptionCardPicked(p, v) PROVE Goal
    <2>1. /\ OnScreen(p) /\ answers' = PickCard(answers, p, v)
          /\ canProceed' = MayLeave(Step, li, accepted, answers')
      BY <1>2 DEF OptionCardPicked, Answer1, Rendered
    <2> QED BY <1>0, <2>1, PickCardKeeps
  <1>3. ASSUME NEW o \in Options, NEW v \in ValuesOf[o], OptionSelectChanged(o, v) PROVE Goal
    <2>1. /\ OnScreen(o) /\ answers' = [answers EXCEPT ![o] = v] /\ Cards[o] = {}
          /\ canProceed' = canProceed
      BY <1>3 DEF OptionSelectChanged, Answer1
    <2>2. ASSUME NEW x \in Options, Cards[x] # {}
          PROVE  PickedCard(x, answers') = PickedCard(x, answers)
      <3>1. answers'[x] = answers[x]
        BY <2>1, <2>2
      <3> QED BY <3>1 DEF PickedCard, Own
    <2>3. \A x \in Visible : Cards[x] # {} => PickedCard(x, answers') = PickedCard(x, answers)
      BY <2>2 DEF Visible
    <2>4. Keeps(answers, answers', Step)
      BY <2>3 DEF Keeps
    <2>5. \A g : GroupAnswered(g, answers) => GroupAnswered(g, answers')
      BY <2>3 DEF GroupAnswered
    <2> QED BY <1>0, <2>1, <2>4, <2>5
  <1>4. CASE ResetOptions
    <2>1. /\ Step \in Range(Groups) /\ answers' = ResetStep(answers, Step)
          /\ canProceed' = MayLeave(Step, li, accepted, answers')
      BY <1>4 DEF ResetOptions, Answer1, Rendered
    <2> QED BY <2>1, ResetKeeps
  <1> QED BY <1>1, <1>2, <1>3, <1>4 DEF Answering

\* What is behind a step is behind the next one.
LEMMA StillBehind ==
    ASSUME NEW m \in Nat, NEW n \in Int, n <= m, NEW j \in 1 .. n - 1
    PROVE  j \in 1 .. m - 1
PROOF OBVIOUS

\* Every step leaves only answered groups behind.
LEMMA ChoicesStep ==
    ASSUME RequiredChoicesAreWhole
    PROVE  IInv /\ Typed /\ Typed' /\ ChoicesBehind /\ RequiredAnswered /\ [Next]_vars
               => ChoicesBehind' /\ RequiredAnswered'
PROOF
  <1> SUFFICES ASSUME IInv, Typed, Typed', ChoicesBehind, RequiredAnswered, [Next]_vars
               PROVE  ChoicesBehind' /\ RequiredAnswered'
    OBVIOUS
  <1>i. PagesOfModes /\ answers = [o \in Options |-> answers[o]]
    BY DEF IInv, Shape, HasAnswers
  <1>n. /\ InFlow /\ Len(Flow) \in Nat /\ cur \in 1 .. Len(Flow) /\ Answered(answers)
        /\ Step = Flow[cur]
    BY FlowNow, FlowShape DEF Typed, InFlow, Flow, AnswersTyped, Step
  <1>o. ASSUME page' # "steps" PROVE ChoicesBehind'
    BY <1>o DEF ChoicesBehind
  <1>r. ASSUME page' \notin {"progress", "done"} PROVE RequiredAnswered'
    BY <1>r DEF RequiredAnswered
  <1>k. ASSUME page # "steps", page' # "steps",
               page' \in {"progress", "done"} => page \in {"progress", "done"} \/ mode = "command",
               UNCHANGED mode,
               \A p \in Options : PickedCard(p, answers') = PickedCard(p, answers) \/ mode = "command"
        PROVE  ChoicesBehind' /\ RequiredAnswered'
    BY <1>k, <1>o DEF RequiredAnswered, Visible
  <1>1. CASE GoNext \/ GoBack
    <2>1. /\ UNCHANGED <<docs, answers, page, custom>> /\ page = "steps" /\ Flow' = Flow
          /\ canProceed' = MayLeave(Flow[cur'], li', accepted, answers)
      BY <1>1 DEF GoNext, GoBack, MoveTo, Flow
    <2>2. Step' = Flow[cur']
      BY <2>1 DEF Step, Flow
    <2>3. cur' \in {cur, cur - 1} \/ (cur' = cur + 1 /\ canProceed)
      BY <1>1 DEF GoNext, GoBack, MoveTo
    <2>4. ASSUME canProceed', Step' \in Range(Groups) PROVE GroupAnswered(Step', answers)
      BY <2>1, <2>2, <2>4, LeavingAsksTheGroup
    <2>5. ASSUME NEW j \in 1 .. cur' - 1, Flow[j] \in Range(Groups)
          PROVE  GroupAnswered(Flow[j], answers) \/ \E k \in cur' .. Len(Flow) : Flow[k] = Flow[j]
      <3>1. CASE cur' \in {cur, cur - 1}
        <4>1. cur \in Nat /\ cur' \in Int /\ cur' <= cur /\ Len(Flow) \in Nat
          <5>1. cur \in Nat /\ Len(Flow) \in Nat
            BY <1>n
          <5> QED BY <3>1, <5>1
        <4>2. j \in 1 .. cur - 1
          <5>1. j \in 1 .. cur' - 1
            BY <2>5
          <5> QED BY <4>1, <5>1, StillBehind
        <4>3. \A k \in cur .. Len(Flow) : k \in cur' .. Len(Flow)
          BY <4>1
        <4>4. GroupAnswered(Flow[j], answers) \/ \E k \in cur .. Len(Flow) : Flow[k] = Flow[j]
          BY <2>1, <2>5, <4>2 DEF ChoicesBehind
        <4> QED BY <4>3, <4>4
      <3>2. CASE cur' = cur + 1 /\ canProceed /\ j = cur
        BY <1>n, <2>1, <2>5, <3>2 DEF ChoicesBehind
      <3>3. CASE cur' = cur + 1 /\ canProceed /\ j # cur
        <4>1. j \in 1 .. cur - 1
          BY <1>n, <2>5, <3>3
        <4>2. CASE GroupAnswered(Flow[j], answers)
          BY <4>2
        <4>3. CASE \E k \in cur .. Len(Flow) : Flow[k] = Flow[j]
          <5>1. PICK k \in cur .. Len(Flow) : Flow[k] = Flow[j]
            BY <4>3
          <5>2. CASE k = cur
            BY <1>n, <2>1, <2>5, <3>3, <5>1, <5>2 DEF ChoicesBehind
          <5>3. CASE k # cur
            BY <1>n, <3>3, <5>1, <5>3
          <5> QED BY <5>2, <5>3
        <4> QED BY <2>1, <2>5, <4>1, <4>2, <4>3 DEF ChoicesBehind
      <3> QED BY <2>3, <3>1, <3>2, <3>3
    <2>6. ChoicesBehind'
      BY <2>1, <2>4, <2>5 DEF ChoicesBehind
    <2> QED BY <1>r, <2>1, <2>6
  <1>2. ASSUME NEW c \in BOOLEAN, ModePicked(c) PROVE ChoicesBehind' /\ RequiredAnswered'
    <2>1. cur = 1 /\ UNCHANGED <<cur, page, docs>> /\ page = "steps"
      BY <1>2, <1>n, FlowNow DEF ModePicked, Step
    <2>2. Step' = "welcome"
      <3>1. InFlow' /\ cur' = 1
        BY <2>1 DEF Typed
      <3>2. (1 \in 1 .. Len(Flow))' /\ (Flow[1] = "welcome")'
        <4>1. Len(docs') \in Nat /\ custom' \in BOOLEAN /\ Flow' = BuildFlow(custom', Len(docs'))
          BY <3>1, <1>n, <2>1, FlowNow DEF InFlow, Flow
        <4>2. Len(Flow') \in Nat \ {0} /\ \A i \in 1 .. Len(Flow') : Flow'[i] = "welcome" <=> i = 1
          BY <4>1, FlowShape
        <4>3. 1 \in 1 .. Len(Flow')
          BY <4>2
        <4> QED BY <4>2, <4>3
      <3> QED BY <3>1, <3>2 DEF Step
    <2>3. Step' \notin Range(Groups)
      BY <2>2, StepsAreApart
    <2>4. 1 .. cur' - 1 = {}
      BY <2>1
    <2>5. ChoicesBehind'
      BY <2>3, <2>4 DEF ChoicesBehind
    <2> QED BY <1>r, <2>1, <2>5
  <1>3. ASSUME UNCHANGED <<page, cur>>, page = "steps", Flow' = Flow,
               canProceed' => MayLeave(Step, li, accepted', answers') \/ Step = "legal",
               \A o \in Options \ {Legal} : answers'[o] = answers[o]
        PROVE  ChoicesBehind' /\ RequiredAnswered'
    <2>1. \A p \in Options : PickedCard(p, answers') = PickedCard(p, answers)
      BY <1>3, OnlyLegal
    <2>2. \A g : GroupAnswered(g, answers') <=> GroupAnswered(g, answers)
      BY <2>1 DEF GroupAnswered, Visible
    <2>3. Step' = Step
      BY <1>3 DEF Step
    <2>4. canProceed' /\ Step \in Range(Groups) => GroupAnswered(Step, answers')
      BY <1>3, LeavingAsksTheGroup, StepsAreApart
    <2>5. ChoicesBehind'
      BY <1>3, <2>2, <2>3, <2>4 DEF ChoicesBehind
    <2> QED BY <1>r, <1>3, <2>5
  <1>4. ASSUME NEW v \in BOOLEAN, LegalAcceptToggled(v) PROVE ChoicesBehind' /\ RequiredAnswered'
    <2>1. UNCHANGED <<page, cur, custom, docs>> /\ page = "steps" /\ Step = "legal"
      BY <1>4 DEF LegalAcceptToggled
    <2>2. \A o \in Options \ {Legal} : answers'[o] = answers[o]
      BY <1>4, <1>i DEF LegalAcceptToggled
    <2>3. Flow' = Flow
      BY <2>1 DEF Flow
    <2> QED BY <1>3, <2>1, <2>2, <2>3
  <1>5. ASSUME NEW l \in Langs, LanguagePicked(l) PROVE ChoicesBehind' /\ RequiredAnswered'
    <2>1. /\ UNCHANGED <<page, cur, custom>> /\ page = "steps"
          /\ Reload(LoadLegalDocs(l, readable))
          /\ canProceed' = MayLeave(Step, li, accepted', answers')
      BY <1>5 DEF LanguagePicked
    <2>2. \A o \in Options \ {Legal} : answers'[o] = answers[o]
      BY <1>i, <2>1 DEF Reload
    <2>3. DOMAIN docs' = DOMAIN docs /\ Len(docs') = Len(docs)
      <3>1. DOMAIN docs' = DOMAIN docs /\ docs \in Seq(Packaged) /\ docs' \in Seq(Packaged)
        BY <2>1 DEF Reload, Typed, InFlow
      <3> QED BY <3>1
    <2>4. Flow' = Flow
      BY <2>1, <2>3 DEF Flow
    <2> QED BY <1>3, <2>1, <2>2, <2>4
  <1>6. CASE Answering
    <2>1. /\ UNCHANGED <<page, cur, custom, docs, accepted, li>> /\ page = "steps"
      BY <1>6 DEF Answering, OptionBoolChanged, OptionCardPicked, OptionSelectChanged,
                  ResetOptions, Answer1
    <2>2. Flow' = Flow /\ Step' = Step
      BY <2>1 DEF Flow, Step
    <2>3. /\ Step \in Range(Groups)
          /\ Keeps(answers, answers', Step)
          /\ \/ canProceed' = MayLeave(Step, li, accepted, answers')
             \/ /\ canProceed' = canProceed
                /\ \A g : GroupAnswered(g, answers) => GroupAnswered(g, answers')
      BY <1>n, <1>6, AnsweringKeeps
    <2>4. canProceed' => GroupAnswered(Step, answers')
      BY <2>1, <2>3, LeavingAsksTheGroup DEF ChoicesBehind
    <2>5. ASSUME NEW j \in 1 .. cur - 1, Flow[j] \in Range(Groups)
          PROVE  GroupAnswered(Flow[j], answers') \/ \E k \in cur .. Len(Flow) : Flow[k] = Flow[j]
      <3>1. CASE Flow[j] = Step
        BY <1>n, <3>1
      <3>2. CASE Flow[j] # Step
        BY <2>1, <2>3, <2>5, <3>2, KeepsOthers DEF ChoicesBehind
      <3> QED BY <3>1, <3>2
    <2>6. ChoicesBehind'
      BY <2>1, <2>2, <2>4, <2>5 DEF ChoicesBehind
    <2> QED BY <1>r, <2>1, <2>6
  <1>7. ASSUME NEW written \in BOOLEAN, Install(written) PROVE ChoicesBehind' /\ RequiredAnswered'
    <2>1. /\ page = "steps" /\ cur = Len(Flow) /\ canProceed /\ page' = "progress"
          /\ answers' = ResolveAutoSelects(answers)
      BY <1>7 DEF Install, LastStep
    <2>2. ASSUME NEW p \in Visible \cap Required, Cards[p] # {}, PickedCard(p, answers) # Nothing
          PROVE  PickedCard(p, answers') # Nothing
      BY <1>n, <2>1, <2>2, ResolveKeepsChoices DEF Typed, Scalars
    <2>3. ASSUME NEW p \in Visible \cap Required, Cards[p] # {} PROVE PickedCard(p, answers) # Nothing
      <3>1. PICK i \in 1 .. Len(Flow) : Flow[i] = DisplayGroup(p) /\ Flow[i] \in Range(Groups)
        BY <1>n, <2>3, RequiredIsAsked
      <3>2. GroupAnswered(Flow[i], answers)
        <4>1. CASE i = cur
          BY <1>n, <2>1, <3>1, <4>1 DEF ChoicesBehind
        <4>2. CASE i # cur
          <5>1. i \in 1 .. cur - 1
            BY <1>n, <2>1, <4>2
          <5>2. CASE GroupAnswered(Flow[i], answers)
            BY <5>2
          <5>3. CASE \E k \in cur .. Len(Flow) : Flow[k] = Flow[i]
            <6>1. Flow[cur] = Flow[i]
              BY <1>n, <2>1, <5>3
            <6> QED BY <1>n, <2>1, <3>1, <6>1 DEF ChoicesBehind
          <5> QED BY <2>1, <3>1, <5>1, <5>2, <5>3 DEF ChoicesBehind
        <4> QED BY <4>1, <4>2
      <3> QED BY <2>3, <3>1, <3>2 DEF GroupAnswered
    <2>4. RequiredAnswered'
      BY <2>2, <2>3 DEF RequiredAnswered
    <2> QED BY <1>o, <2>1, <2>4
  <1>8. CASE \E ok \in BOOLEAN : WorkerEnds(ok)
    BY <1>k, <1>8 DEF WorkerEnds
  <1>9. CASE \E ok, written \in BOOLEAN : CommandEnds(ok, written)
    BY <1>o, <1>r, <1>9 DEF CommandEnds
  <1>10. CASE \E v \in ValuesOf[FinalOption] : FinalPicked(v)
    BY <1>k, <1>10 DEF FinalPicked
  <1>11. ASSUME NEW written \in BOOLEAN, FinalApply(written) PROVE ChoicesBehind' /\ RequiredAnswered'
    <2>1. /\ page = "done" /\ UNCHANGED <<page, mode>>
          /\ answers' = [answers EXCEPT ![FinalOption] = finalValue]
      BY <1>11 DEF FinalApply
    <2>2. FinalOption \in Options /\ Kind[FinalOption] # "bool" /\ Cards[FinalOption] = {}
      BY FinalIsASwatch, CardsAreOfKinds DEF Visible
    <2>3. \A o \in Options \ {FinalOption} : Own(o, answers') = Own(o, answers)
      BY <1>i, <2>1 DEF Own
    <2>4. \A p \in Options : PickedCard(p, answers') = PickedCard(p, answers)
      BY <2>2, <2>3, OnlyItself
    <2> QED BY <1>k, <2>1, <2>4
  <1>12. CASE FinalSkip
    BY <1>k, <1>12 DEF FinalSkip
  <1>13. CASE Close \/ CommandRefused
    BY <1>o, <1>r, <1>13 DEF Close, CommandRefused
  <1>14. CASE CommandInstalls
    <2>1. page' = "progress" /\ mode' = "command"
      BY <1>i, <1>14 DEF CommandInstalls, PagesOfModes
    <2> QED BY <1>o, <2>1 DEF RequiredAnswered
  <1>15. CASE Ended \/ UNCHANGED vars
    <2>1. UNCHANGED <<page, mode, cur, docs, custom, answers, canProceed>>
      BY <1>15 DEF Ended, vars
    <2>2. Flow' = Flow /\ Step' = Step
      BY <2>1 DEF Flow, Step
    <2> QED BY <2>1, <2>2 DEF ChoicesBehind, RequiredAnswered
  <1> QED BY <1>1, <1>2, <1>4, <1>5, <1>6, <1>7, <1>8, <1>9, <1>10, <1>11, <1>12, <1>13, <1>14,
             <1>15 DEF Next, Worker

\* Nothing is behind at the start.
LEMMA ChoicesInit == Init => ChoicesBehind /\ RequiredAnswered
PROOF
  <1> SUFFICES ASSUME Init PROVE ChoicesBehind /\ RequiredAnswered
    OBVIOUS
  <1>1. cur = 1 /\ page \in {"steps", "command"} /\ custom = FALSE
    BY DEF Init
  <1>2. Step \notin Range(Groups)
    <2>1. InFlow
      BY InFlowInit
    <2>2. Step = "welcome"
      BY <1>1, <2>1, FlowNow DEF InFlow, Step
    <2> QED BY <2>2, StepsAreApart
  <1>3. 1 .. cur - 1 = {}
    BY <1>1
  <1> QED BY <1>1, <1>2, <1>3 DEF ChoicesBehind, RequiredAnswered

\* Install is reached with every required choice made, through Back, Reset, Customize and a
\* change of the type of install: build_flow gives every such choice a step and render
\* enables Next only with it made (main.rs).
THEOREM EveryChoiceIsMade ==
    ASSUME RequiredChoicesAreWhole
    PROVE  Spec => []RequiredAnswered
PROOF
  <1>1. IInv /\ Typed /\ Typed' /\ ChoicesBehind /\ RequiredAnswered /\ [Next]_vars
           => ChoicesBehind' /\ RequiredAnswered'
    BY ChoicesStep
  <1> QED BY <1>1, ChoicesInit, InitHolds, StepHolds, TypedInit, TypedStep, PTL DEF Spec

-----------------------------------------------------------------------------
(* What a preset governs, and what moves with it.                          *)

\* An option is set by one preset at most, which is no parent, no child and not set itself.
LEMMA OnePresetSets ==
    ASSUME PresetsSettle, NEW p \in Options, NEW o \in Options, MaySet(p, o)
    PROVE  /\ Preset(p) /\ ~Preset(o) /\ o # p /\ Parent[p] = Nothing
           /\ \A q \in Options : MaySet(q, o) => q = p
           /\ Parent[o] # Nothing => MaySet(p, Parent[o])
           /\ Gives[p][CustomCard[p]][o] = Nothing \/ CustomCard[p] \notin Cards[p]
PROOF
  <1>1. PICK v \in Cards[p] : Gives[p][v][o] # Nothing
    BY DEF MaySet
  <1>2. Preset(p)
    BY <1>1 DEF Preset
  <1>3. /\ ~Preset(o) /\ o # p
        /\ \A q \in Options : \A w \in Cards[q] : Gives[q][w][o] # Nothing => q = p
    BY <1>1, ConfigLoaded DEF CardsAreValid
  <1>4. \A w \in Cards[p] : Gives[p][w][o] # Nothing => w # CustomCard[p]
    BY ConfigLoaded DEF CardsAreValid
  <1>5. Parent[p] = Nothing /\ (Parent[o] # Nothing => MaySet(p, Parent[o]))
    BY <1>1, <1>2 DEF PresetsSettle, MaySet
  <1> QED BY <1>2, <1>3, <1>4, <1>5 DEF MaySet

\* What a preset governs is what it may set, and the finer choices under that.
LEMMA GovernedMeans ==
    ASSUME NEW p \in Options, NEW o \in Options
    PROVE  o \in GovernedBy(p) <=> MaySet(p, o) \/ (Parent[o] # Nothing /\ MaySet(p, Parent[o]))
PROOF
  <1> DEFINE direct == {x \in Options : MaySet(p, x)}
  <1>1. GovernedBy(p) = direct \cup ChildrenOf(direct)
    BY DEF GovernedBy, MaySet
  <1>2. o \in direct <=> MaySet(p, o)
    OBVIOUS
  <1>3. o \in ChildrenOf(direct) <=> Parent[o] # Nothing /\ MaySet(p, Parent[o])
    <2>1. Parent[o] \in direct => Parent[o] # Nothing
      BY ConfigLoaded
    <2>2. Parent[o] # Nothing => Parent[o] \in Options
      BY ParentsAreBools
    <2> QED BY <2>1, <2>2 DEF ChildrenOf
  <1> QED BY <1>1, <1>2, <1>3

\* Whatever sets an option a preset governs is that preset.
LEMMA GovernorAlone ==
    ASSUME PresetsSettle, NEW p \in Options, NEW o \in Options, o \in GovernedBy(p),
           NEW q \in Options, MaySet(q, o)
    PROVE  q = p
PROOF
  <1>1. CASE MaySet(p, o)
    BY <1>1, OnePresetSets
  <1>2. CASE Parent[o] # Nothing /\ MaySet(p, Parent[o])
    <2>1. MaySet(q, Parent[o]) /\ Parent[o] \in Options
      BY <1>2, OnePresetSets, ParentsAreBools
    <2> QED BY <1>2, <2>1, OnePresetSets
  <1> QED BY <1>1, <1>2, GovernedMeans

\* An option none of whose presets has given a value comes to its own answer.
LEMMA Free ==
    ASSUME NEW a, NEW o,
           \A q \in Options : MaySet(q, o) => PickedCard(q, a) = Nothing
                                              \/ Gives[q][PickedCard(q, a)][o] = Nothing
    PROVE  Deciding(o, a) = {} /\ TopValue(o, a) = Own(o, a)
PROOF
  <1>1. Deciding(o, a) = {}
    <2> SUFFICES ASSUME NEW q \in Deciding(o, a) PROVE FALSE
      OBVIOUS
    <2> QED BY DecidingMaySet DEF Deciding
  <1> QED BY <1>1 DEF TopValue

\* An option a picked card gives a value comes to that value.
LEMMA Given ==
    ASSUME PresetsSettle, NEW a, NEW p \in Options, NEW o \in Options,
           PickedCard(p, a) # Nothing, Gives[p][PickedCard(p, a)][o] # Nothing
    PROVE  /\ Deciding(o, a) # {} /\ TopValue(o, a) = Gives[p][PickedCard(p, a)][o]
           /\ EffectiveValue(o, a) = Gives[p][PickedCard(p, a)][o]
PROOF
  <1>1. MaySet(p, o)
    BY PickedIsACard DEF MaySet
  <1>2. p # o /\ \A q \in Deciding(o, a) : q = p
    BY <1>1, OnePresetSets, DecidingMaySet
  <1>3. p \in Deciding(o, a)
    BY <1>2 DEF Deciding
  <1>4. TopValue(o, a) = Gives[p][PickedCard(p, a)][o]
    <2>1. (CHOOSE q \in Deciding(o, a) : TRUE) = p
      BY <1>2, <1>3
    <2> QED BY <1>3, <2>1 DEF TopValue
  <1> QED BY <1>3, <1>4 DEF EffectiveValue

\* What no change reaches stays what it is.
LEMMA Unmoved ==
    ASSUME NEW a, NEW b, NEW T, \A y \in Options \ T : Own(y, a) = Own(y, b),
           NEW x \in Options \ T, Parent[x] # Nothing => Parent[x] \notin T,
           \A p \in T \cap Options : x \notin GovernedBy(p)
    PROVE  EffectiveValue(x, a) = EffectiveValue(x, b)
PROOF
  <1>1. ASSUME NEW p \in Options, MaySet(p, x) \/ (Parent[x] # Nothing /\ MaySet(p, Parent[x]))
        PROVE  PickedCard(p, a) = PickedCard(p, b)
    <2>1. p \notin T
      BY <1>1, GovernedMeans
    <2> QED BY <2>1 DEF PickedCard
  <1>2. SameCards(a, b, x) /\ (Parent[x] # Nothing => SameCards(a, b, Parent[x]))
    BY <1>1 DEF SameCards
  <1>3. Parent[x] # Nothing => Own(Parent[x], a) = Own(Parent[x], b)
    BY ParentsAreBools
  <1> QED BY <1>2, <1>3, SameEffect

-----------------------------------------------------------------------------
(* What was refused stays off, act by act.                                 *)

\* None of the switches in R comes to be on.
AllOff(a, R) == \A o \in R : o \in Options /\ Kind[o] = "bool" => EffectiveValue(o, a) # "on"

\* A preset governs no preset, and nothing that refines one.
LEMMA PlainGovernsNothing ==
    ASSUME NEW p \in Options, ~Preset(p)
    PROVE  /\ GovernedBy(p) = {}
           /\ \A v \in Cards[p], o \in Options : Gives[p][v][o] = Nothing
PROOF
  <1>1. \A x \in GovernedBy(p) : FALSE
    BY GovernsAsAPreset
  <1> QED BY <1>1 DEF Preset

\* A switch that is no preset, thrown where the page shows it.
LEMMA SwitchRefuses ==
    ASSUME PresetsSettle, NEW a, NEW R, AllOff(a, R),
           NEW o \in Options, ~Preset(o), Shown(o, a), NEW v \in {"on", "off"}
    PROVE  AllOff(SetBool(a, o, v), IF v = "off" THEN R \cup WithChildren({o})
                                                 ELSE R \ WithChildren({o}))
PROOF
  <1> DEFINE b == SetBool(a, o, v)
             T == WithChildren({o})
  <1>1. \A x : x \in T <=> x = o \/ (x \in Options /\ Parent[x] = o)
    BY DEF WithChildren, ChildrenOf
  <1>2. \A y \in Options \ T : Own(y, a) = Own(y, b)
    BY <1>1 DEF SetBool, Own
  <1>3. Own(o, b) = v
    BY DEF SetBool, Own, Unanswered
  <1>4. ASSUME NEW q \in T PROVE q \in Options /\ ~Preset(q)
    <2>1. o # Nothing
      BY ConfigLoaded
    <2> QED BY <1>1, <1>4, <2>1 DEF PresetsSettle
  <1> HIDE DEF b
  <1>5. ASSUME NEW x \in Options \ T PROVE EffectiveValue(x, a) = EffectiveValue(x, b)
    <2>1. Parent[x] # Nothing => Parent[x] \notin T
      BY <1>1, <1>5, ParentsAreBools, ConfigLoaded
    <2>2. \A p \in T \cap Options : x \notin GovernedBy(p)
      BY <1>4, PlainGovernsNothing
    <2> HIDE DEF T
    <2> QED BY <1>2, <2>1, <2>2, Unmoved
  <1>6. ASSUME v = "off", NEW x \in T, x \in Options PROVE EffectiveValue(x, b) # "on"
    <2>1. ASSUME NEW q \in Options, MaySet(q, o)
          PROVE  PickedCard(q, b) = CustomCard[q] /\ PickedCard(q, b) \in Cards[q]
      <3>1. Preset(q) /\ q # o /\ o \in GovernedBy(q)
        BY <2>1, OnePresetSets, GovernedMeans
      <3>2. PickedCard(q, a) # Nothing /\ PickedCard(q, a) = CustomCard[q]
        BY <3>1 DEF Shown
      <3>3. Own(q, a) = Own(q, b)
        BY <1>2, <1>4, <3>1
      <3> QED BY <3>2, <3>3, PickedIsACard DEF PickedCard
    <2>2. ASSUME NEW q \in Options, MaySet(q, x)
          PROVE  Gives[q][PickedCard(q, b)][x] = Nothing
      <3>1. MaySet(q, o)
        <4>1. x = o \/ (Parent[x] = o /\ Parent[x] # Nothing)
          BY <1>1, <1>6, ConfigLoaded
        <4>2. Parent[x] # Nothing => MaySet(q, Parent[x])
          BY <1>6, <2>2, OnePresetSets
        <4> QED BY <2>2, <4>1, <4>2
      <3> QED BY <1>6, <2>1, <2>2, <3>1, OnePresetSets
    <2>3. Deciding(x, b) = {} /\ TopValue(x, b) = Own(x, b)
      BY <2>2, Free
    <2>4. CASE x = o
      BY <1>3, <1>6, <2>3, <2>4 DEF EffectiveValue
    <2>5. CASE x # o
      <3>1. Parent[x] = o /\ o # Nothing
        BY <1>1, <1>6, <2>5, ConfigLoaded
      <3>2. TopValue(o, b) = Own(o, b)
        <4>1. \A q \in Options : MaySet(q, o) => Gives[q][PickedCard(q, b)][o] = Nothing
          BY <2>1, OnePresetSets
        <4> QED BY <4>1, Free
      <3> QED BY <1>3, <1>6, <2>3, <3>1, <3>2 DEF EffectiveValue
    <2> QED BY <2>4, <2>5
  <1>7. CASE v = "off"
    <2>1. AllOff(b, R \cup T)
      BY <1>5, <1>6, <1>7 DEF AllOff
    <2> QED BY <1>7, <2>1 DEF b
  <1>8. CASE v = "on"
    <2>1. AllOff(b, R \ T)
      BY <1>5 DEF AllOff
    <2> QED BY <1>8, <2>1 DEF b
  <1> QED BY <1>7, <1>8

\* A choice that is no switch and no preset moves nothing but itself.
LEMMA ChoiceRefuses ==
    ASSUME PresetsSettle, NEW a, NEW R, AllOff(a, R),
           NEW p \in Options, ~Preset(p), Kind[p] # "bool", NEW v
    PROVE  AllOff(PickCard(a, p, v), R)
PROOF
  <1> DEFINE b == PickCard(a, p, v)
  <1>1. GovernedBy(p) = {}
    BY PlainGovernsNothing
  <1>2. \A y \in Options \ {p} : Own(y, a) = Own(y, b)
    BY <1>1 DEF PickCard, Own
  <1> HIDE DEF b
  <1>3. ASSUME NEW x \in Options, Kind[x] = "bool"
        PROVE  EffectiveValue(x, a) = EffectiveValue(x, b)
    <2>1. x \in Options \ {p} /\ (Parent[x] # Nothing => Parent[x] \notin {p})
      BY <1>3, ParentsAreBools
    <2> QED BY <1>1, <1>2, <2>1, Unmoved
  <1>4. AllOff(b, R)
    BY <1>3 DEF AllOff
  <1> QED BY <1>4 DEF b

\* Back to the defaults: what that reaches is no longer refused.
LEMMA ResetRefuses ==
    ASSUME PresetsSettle, NEW a, NEW R, AllOff(a, R), NEW g
    PROVE  AllOff(ResetStep(a, g),
                  R \ UNION {{o} \cup GovernedBy(o) : o \in {o \in Visible : DisplayGroup(o) = g}})
PROOF
  <1> DEFINE b == ResetStep(a, g)
             T == {o \in Visible : DisplayGroup(o) = g}
             W == UNION {{o} \cup GovernedBy(o) : o \in T}
  <1>1. \A y \in Options \ T : Own(y, a) = Own(y, b)
    BY DEF ResetStep, Own
  <1> HIDE DEF b
  <1>2. ASSUME NEW x \in Options, x \notin W PROVE EffectiveValue(x, a) = EffectiveValue(x, b)
    <2>1. x \in Options \ T /\ \A p \in T \cap Options : x \notin GovernedBy(p)
      BY <1>2
    <2>2. ASSUME Parent[x] # Nothing PROVE Parent[x] \notin T
      <3>1. Kind[x] = "bool" /\ Parent[Parent[x]] = Nothing
        BY <2>2, ParentsAreBools
      <3>2. x \in Visible /\ DisplayGroup(x) = DisplayGroup(Parent[x])
        BY <2>2, <3>1, ConfigLoaded DEF Visible, DisplayGroup
      <3> QED BY <2>1, <3>2
    <2> HIDE DEF T
    <2> QED BY <1>1, <2>1, <2>2, Unmoved
  <1>3. AllOff(b, R \ W)
    BY <1>2 DEF AllOff
  <1> QED BY <1>3 DEF b

\* A card that answers: what it gives is what there is, and what it leaves open hangs off
\* something it turned off.
LEMMA CardDecides ==
    ASSUME PresetsSettle, NEW b, NEW p \in Options, NEW v \in Cards[p], v # CustomCard[p],
           PickedCard(p, b) = v, NEW x \in Options, x \in GovernedBy(p),
           EffectiveValue(x, b) = "on"
    PROVE  \/ Gives[p][v][x] = "on"
           \/ Gives[p][v][x] = Nothing /\ Parent[x] # Nothing /\ Gives[p][v][Parent[x]] = "on"
PROOF
  <1>0. v # Nothing
    BY ConfigLoaded DEF CardsAreValid
  <1>1. CASE Gives[p][v][x] # Nothing
    BY <1>0, <1>1, Given
  <1>2. CASE Gives[p][v][x] = Nothing
    <2>1. Deciding(x, b) = {}
      <3>1. \A q \in Options : MaySet(q, x) => Gives[q][PickedCard(q, b)][x] = Nothing
        BY <1>2, GovernorAlone
      <3> QED BY <3>1, Free
    <2>2. Parent[x] # Nothing => TopValue(Parent[x], b) = "on"
      BY <2>1 DEF EffectiveValue
    <2>3. ASSUME Parent[x] # Nothing, Gives[p][v][Parent[x]] # Nothing
          PROVE  Gives[p][v][Parent[x]] = "on"
      <3>1. Parent[x] \in Options
        BY <2>3, ParentsAreBools
      <3> QED BY <1>0, <2>2, <2>3, <3>1, Given
    <2>4. Preset(p)
      BY GovernsAsAPreset
    <2>5. CASE MaySet(p, x)
      <3>1. Parent[x] # Nothing /\ Gives[p][v][Parent[x]] = "off"
        BY <1>2, <2>4, <2>5 DEF PresetsSettle, MaySet
      <3> QED BY <2>3, <3>1, ConfigLoaded
    <2>6. CASE Parent[x] # Nothing /\ MaySet(p, Parent[x])
      <3>1. Parent[x] \in Options /\ Parent[Parent[x]] = Nothing
        BY <2>6, ParentsAreBools
      <3>2. Gives[p][v][Parent[x]] # Nothing
        BY <2>4, <2>6, <3>1 DEF PresetsSettle, MaySet
      <3> QED BY <1>2, <2>3, <2>6, <3>2
    <2> QED BY <2>5, <2>6, GovernedMeans
  <1> QED BY <1>1, <1>2

\* A card of a preset, other than Customize.
LEMMA CardRefuses ==
    ASSUME PresetsSettle, AllOff(answers, refused), NEW p \in Options, Preset(p),
           NEW v \in Cards[p], v # CustomCard[p]
    PROVE  AllOff(PickCard(answers, p, v), CardSays(p, v))
PROOF
  <1> DEFINE b == PickCard(answers, p, v)
             T == WithChildren({p})
             before == IF Kind[p] = "bool" THEN Switched(p, v) ELSE refused
             ons  == {o \in Options : Gives[p][v][o] = "on"}
             offs == {o \in Options : Gives[p][v][o] = "off"}
  <1>1. CardSays(p, v) = (before \ WithChildren(ons)) \cup (WithChildren(offs) \ ons)
    BY DEF CardSays
  <1>2. \A x : x \in T <=> x = p \/ (x \in Options /\ Parent[x] = p)
    BY DEF WithChildren, ChildrenOf
  <1>3. v \in ValuesOf[p] /\ v # Unanswered /\ v # Nothing /\ p # Nothing
    BY ConfigLoaded DEF CardsAreValid
  <1>4. /\ \A y \in Options \ T : Own(y, answers) = Own(y, b)
        /\ Own(p, b) = v /\ PickedCard(p, b) = v
    BY <1>2, <1>3 DEF PickCard, SetBool, Own, PickedCard
  <1> HIDE DEF b
  <1>5. Parent[p] = Nothing /\ \A q \in Options : ~MaySet(q, p)
    BY OnePresetSets DEF PresetsSettle
  <1>6. ASSUME NEW x \in Options, Kind[x] = "bool", x \in CardSays(p, v),
               EffectiveValue(x, b) = "on"
        PROVE  FALSE
    <2>1. CASE x \in GovernedBy(p)
      <3>1. \/ Gives[p][v][x] = "on"
            \/ Gives[p][v][x] = Nothing /\ Parent[x] # Nothing /\ Gives[p][v][Parent[x]] = "on"
        BY <1>4, <1>6, <2>1, CardDecides
      <3>2. CASE Gives[p][v][x] = "on"
        BY <1>1, <1>6, <3>2 DEF WithChildren
      <3>3. CASE Gives[p][v][x] = Nothing /\ Parent[x] # Nothing /\ Gives[p][v][Parent[x]] = "on"
        <4>1. Parent[x] \in Options
          BY <3>3, ParentsAreBools
        <4>2. x \in WithChildren(ons)
          BY <3>3, <4>1 DEF WithChildren, ChildrenOf
        <4>3. x \notin WithChildren(offs)
          BY <3>3, ConfigLoaded DEF WithChildren, ChildrenOf, Nothing
        <4> QED BY <1>1, <1>6, <4>2, <4>3
      <3> QED BY <3>1, <3>2, <3>3
    <2>2. CASE x \notin GovernedBy(p)
      <3>1. x \notin offs /\ Parent[x] \notin offs
        <4>1. ~MaySet(p, x) /\ ~(Parent[x] # Nothing /\ MaySet(p, Parent[x]))
          BY <2>2, GovernedMeans
        <4>2. ASSUME NEW o \in offs PROVE MaySet(p, o) /\ o # Nothing
          BY <4>2, ConfigLoaded DEF MaySet, Nothing
        <4> QED BY <4>1, <4>2
      <3>2. x \in before
        BY <1>1, <1>6, <3>1 DEF WithChildren, ChildrenOf
      <3>3. CASE x \notin T
        <4>1. x \in refused
          BY <1>2, <3>2, <3>3 DEF Switched
        <4>2. Parent[x] # Nothing => Parent[x] \notin T
          BY <1>2, <1>3, <1>6, <3>3, ParentsAreBools
        <4>3. ASSUME NEW q \in T \cap Options PROVE x \notin GovernedBy(q)
          <5>1. CASE q = p
            BY <2>2, <5>1
          <5>2. CASE Parent[q] = p
            BY <1>3, <5>2, PlainGovernsNothing DEF PresetsSettle
          <5> QED BY <1>2, <5>1, <5>2
        <4> HIDE DEF T
        <4>4. EffectiveValue(x, answers) = EffectiveValue(x, b)
          BY <1>4, <3>3, <4>2, <4>3, Unmoved
        <4> QED BY <1>6, <4>1, <4>4 DEF AllOff
      <3>4. CASE x \in T
        <4>1. Kind[p] = "bool"
          BY <1>2, <1>3, <1>6, <3>4, ParentsAreBools
        <4>2. v = "off"
          <5>1. v \in {"on", "off"}
            BY <1>3, <4>1, ConfigLoaded
          <5>2. v = "on" => before = refused \ T
            BY <4>1 DEF Switched
          <5> QED BY <3>2, <3>4, <5>1, <5>2
        <4>3. TopValue(p, b) = "off"
          BY <1>4, <1>5, <4>2, Free
        <4>4. CASE x = p
          BY <1>6, <4>3, <4>4 DEF EffectiveValue
        <4>5. CASE Parent[x] = p
          <5>1. \A q \in Options : ~MaySet(q, x)
            BY <1>3, <1>5, <4>5, OnePresetSets
          <5>2. Deciding(x, b) = {}
            BY <5>1, Free
          <5> QED BY <1>3, <1>6, <4>3, <4>5, <5>2 DEF EffectiveValue
        <4> QED BY <1>2, <3>4, <4>4, <4>5
      <3> QED BY <3>3, <3>4
    <2> QED BY <2>1, <2>2
  <1>7. AllOff(b, CardSays(p, v))
    BY <1>6 DEF AllOff
  <1> QED BY <1>7 DEF b

\* Customize: what there was is written down, and nothing goes on by it.
LEMMA CustomizeRefuses ==
    ASSUME PresetsSettle, NEW a, NEW R, Answered(a), AllOff(a, R), NEW p \in Options, Preset(p),
           Kind[p] # "bool", CustomCard[p] \in Cards[p]
    PROVE  AllOff(PickCard(a, p, CustomCard[p]), R)
PROOF
  <1> DEFINE v == CustomCard[p]
             b == PickCard(a, p, v)
  <1>1. v \in ValuesOf[p] /\ v # Unanswered /\ v # Nothing /\ p # Nothing
    BY ConfigLoaded DEF CardsAreValid
  <1>2. Parent[p] = Nothing /\ \A o \in Options : MaySet(p, o) => o # p
    BY OnePresetSets DEF PresetsSettle
  <1>3. Own(p, b) = v /\ PickedCard(p, b) = v
    BY <1>1 DEF PickCard, Own, PickedCard
  <1>4. p \notin GovernedBy(p)
    BY <1>2, GovernedMeans
  <1>5. CASE PickedCard(p, a) = v
    <2>1. Own(p, a) = v
      BY <1>1, <1>5, PickedIsACard
    <2>2. \A y \in Options : Own(y, a) = Own(y, b)
      <3>1. \A y \in Options \ {p} : b[y] = a[y]
        BY <1>5 DEF PickCard
      <3> HIDE DEF b
      <3> QED BY <1>3, <2>1, <3>1 DEF Own
    <2> HIDE DEF b
    <2>3. \A x \in Options : EffectiveValue(x, a) = EffectiveValue(x, b)
      <3> TAKE x \in Options
      <3>1. \A q \in Options : PickedCard(q, a) = PickedCard(q, b)
        BY <2>2 DEF PickedCard
      <3>2. SameCards(a, b, x) /\ SameCards(a, b, Parent[x]) /\ Own(x, a) = Own(x, b)
        BY <2>2, <3>1 DEF SameCards
      <3>3. Parent[x] # Nothing => Own(Parent[x], a) = Own(Parent[x], b)
        BY <2>2, ParentsAreBools
      <3> QED BY <3>2, <3>3, SameEffect
    <2>4. AllOff(b, R)
      BY <2>3 DEF AllOff
    <2> QED BY <2>4 DEF b
  <1>6. CASE PickedCard(p, a) # v
    <2> DEFINE T == {p} \cup GovernedBy(p)
    <2>1. \A y \in Options \ {p} : b[y] = IF y \in GovernedBy(p) THEN EffectiveValue(y, a) ELSE a[y]
      BY <1>6 DEF PickCard
    <2> HIDE DEF b
    <2>2. \A y \in Options \ T : Own(y, a) = Own(y, b)
      BY <2>1 DEF Own
    <2>3. ASSUME NEW x \in Options, Kind[x] = "bool", EffectiveValue(x, a) # "on"
          PROVE  EffectiveValue(x, b) # "on"
      <3>1. CASE x \in GovernedBy(p)
        <4>1. Own(x, b) # "on"
          <5>1. b[x] = EffectiveValue(x, a)
            BY <1>4, <2>1, <3>1
          <5>2. EffectiveValue(x, a) \in ValuesOf[x] \cup {Default[x]}
            BY EffectiveIsTaken DEF Taken
          <5>3. Unanswered \notin ValuesOf[x]
            BY ConfigLoaded
          <5> QED BY <2>3, <5>1, <5>2, <5>3 DEF Own, Unanswered
        <4>2. ASSUME NEW q \in Options, MaySet(q, x)
              PROVE  Gives[q][PickedCard(q, b)][x] = Nothing
          <5>1. q = p
            BY <3>1, <4>2, GovernorAlone
          <5> QED BY <1>3, <4>2, <5>1, OnePresetSets
        <4>3. Deciding(x, b) = {} /\ TopValue(x, b) = Own(x, b)
          BY <4>2, Free
        <4> QED BY <4>1, <4>3 DEF EffectiveValue
      <3>2. CASE x \notin GovernedBy(p)
        <4>1. x \notin T
          BY <2>3, <3>2
        <4>2. ASSUME Parent[x] # Nothing PROVE Parent[x] \notin T
          <5>1. /\ Parent[x] \in Options /\ Kind[Parent[x]] = "bool"
                /\ Parent[Parent[x]] = Nothing
            BY <4>2, ParentsAreBools
          <5> QED BY <3>2, <4>2, <5>1, GovernedMeans
        <4>3. ASSUME NEW q \in T \cap Options PROVE x \notin GovernedBy(q)
          <5>1. CASE q = p
            BY <3>2, <5>1
          <5>2. CASE q \in GovernedBy(p)
            <6>1. ~Preset(q)
              BY <5>2, GovernedMeans, OnePresetSets DEF PresetsSettle
            <6> QED BY <6>1, PlainGovernsNothing
          <5> QED BY <5>1, <5>2
        <4> HIDE DEF T
        <4>4. EffectiveValue(x, a) = EffectiveValue(x, b)
          BY <2>2, <4>1, <4>2, <4>3, Unmoved
        <4> QED BY <2>3, <4>4
      <3> QED BY <3>1, <3>2
    <2>4. AllOff(b, R)
      BY <2>3 DEF AllOff
    <2> QED BY <2>4 DEF b
  <1> QED BY <1>5, <1>6

-----------------------------------------------------------------------------
(* No means no.                                                            *)

\* A hand-off has nothing on that is refused.
SaysNo(h) == h # Absent => \A o \in refused : Kind[o] = "bool" => h.values[o] # "on"

\* What is refused is off, in the answers and in every hand-off.
Refusals ==
    mode = "window" =>
        /\ page = "steps" => AllOff(answers, refused)
        /\ SaysNo(disk) /\ SaysNo(held)

\* Every act on the options page leaves what it refuses off.
LEMMA AnsweringRefuses ==
    ASSUME PresetsSettle, Answered(answers), AllOff(answers, refused), Answering
    PROVE  AllOff(answers', refused')
PROOF
  <1>1. ASSUME NEW o \in Options, NEW v \in {"on", "off"}, OptionBoolChanged(o, v)
        PROVE  AllOff(answers', refused')
    <2>1. /\ answers' = SetBool(answers, o, v) /\ refused' = Switched(o, v)
          /\ Cards[o] = {} /\ Shown(o, answers)
      BY <1>1 DEF OptionBoolChanged, Answer1, OnScreen
    <2>2. ~Preset(o)
      BY <2>1 DEF Preset
    <2> QED BY <2>1, <2>2, SwitchRefuses DEF Switched
  <1>2. ASSUME NEW p \in Options, NEW v \in Cards[p], OptionCardPicked(p, v)
        PROVE  AllOff(answers', refused')
    <2>1. answers' = PickCard(answers, p, v) /\ refused' = CardSays(p, v) /\ Shown(p, answers)
      BY <1>2 DEF OptionCardPicked, Answer1, OnScreen
    <2>2. CASE ~Preset(p)
      <3>1. CardSays(p, v) = IF Kind[p] = "bool" THEN Switched(p, v) ELSE refused
        <4>1. \A o \in Options : Gives[p][v][o] # "on" /\ Gives[p][v][o] # "off"
          BY <2>2, PlainGovernsNothing DEF Nothing
        <4>2. /\ {o \in Options : Gives[p][v][o] = "on"} = {}
              /\ {o \in Options : Gives[p][v][o] = "off"} = {}
          BY <4>1
        <4>3. WithChildren({}) = {}
          BY DEF WithChildren, ChildrenOf
        <4> QED BY <4>2, <4>3 DEF CardSays
      <3>2. CASE Kind[p] = "bool"
        <4>1. v \in {"on", "off"}
          BY <3>2, ConfigLoaded DEF CardsAreValid
        <4>2. answers' = SetBool(answers, p, v)
          BY <2>1, <3>2 DEF PickCard
        <4>3. refused' = IF v = "off" THEN refused \cup WithChildren({p})
                                     ELSE refused \ WithChildren({p})
          BY <2>1, <3>1, <3>2 DEF Switched
        <4>4. AllOff(SetBool(answers, p, v), IF v = "off" THEN refused \cup WithChildren({p})
                                                          ELSE refused \ WithChildren({p}))
          BY <2>1, <2>2, <4>1, SwitchRefuses
        <4> QED BY <4>2, <4>3, <4>4
      <3>3. CASE Kind[p] # "bool"
        BY <2>1, <2>2, <3>1, <3>3, ChoiceRefuses
      <3> QED BY <3>2, <3>3
    <2>3. CASE Preset(p) /\ v # CustomCard[p]
      BY <2>1, <2>3, CardRefuses
    <2>4. CASE Preset(p) /\ v = CustomCard[p]
      <3>1. Kind[p] # "bool"
        BY <2>4, ConfigLoaded DEF PresetsSettle, CardsAreValid
      <3>2. CardSays(p, v) = refused
        BY <2>4, <3>1 DEF CardSays
      <3> QED BY <2>1, <2>4, <3>1, <3>2, CustomizeRefuses
    <2> QED BY <2>2, <2>3, <2>4
  <1>3. ASSUME NEW o \in Options, NEW v \in ValuesOf[o], OptionSelectChanged(o, v)
        PROVE  AllOff(answers', refused')
    <2>1. /\ answers' = [answers EXCEPT ![o] = v] /\ refused' = refused
          /\ Kind[o] # "bool" /\ Cards[o] = {}
      BY <1>3 DEF OptionSelectChanged, Answer1
    <2>2. \A x \in Options \ {o} : Own(x, answers') = Own(x, answers)
      BY <2>1 DEF Own
    <2>3. \A x \in Options \ {o} : EffectiveValue(x, answers') = EffectiveValue(x, answers)
      BY <2>1, <2>2, OnlyItself
    <2> QED BY <2>1, <2>3 DEF AllOff
  <1>4. CASE ResetOptions
    <2>1. /\ answers' = ResetStep(answers, Step)
          /\ refused' = refused \ UNION {{o} \cup GovernedBy(o) :
                                         o \in {o \in Visible : DisplayGroup(o) = Step}}
      BY <1>4 DEF ResetOptions, Answer1
    <2> QED BY <2>1, ResetRefuses
  <1> QED BY <1>1, <1>2, <1>3, <1>4 DEF Answering

\* Every step does.
LEMMA RefusalsStep ==
    ASSUME AutoSetsNothing, PresetsSettle
    PROVE  IInv /\ Typed /\ Refusals /\ [Next]_vars => Refusals'
PROOF
  <1> SUFFICES ASSUME IInv, Typed, Refusals, [Next]_vars PROVE Refusals'
    OBVIOUS
  <1>i. /\ PagesOfModes /\ WrittenAfterTheSteps /\ HandoffsAreRecords /\ Answered(answers)
        /\ refused \subseteq Options /\ answers = [o \in Options |-> answers[o]]
    BY DEF IInv, Shape, HasAnswers, Typed, AnswersTyped, Written
  <1>0. ASSUME UNCHANGED <<mode, disk, held, refused>>,
               page' = "steps" => page = "steps" /\ answers' = answers
        PROVE  Refusals'
    BY <1>0 DEF Refusals, SaysNo
  <1>s. ASSUME UNCHANGED <<mode, disk, held>>, page = "steps", AllOff(answers', refused')
        PROVE  Refusals'
    BY <1>i, <1>s DEF Refusals, SaysNo, WrittenAfterTheSteps, PagesOfModes
  <1>a. page = "steps" => AllOff(answers, refused)
    BY <1>i DEF Refusals, PagesOfModes
  <1>l. ASSUME UNCHANGED <<mode, disk, held, refused>>, page = "steps",
               \A o \in Options \ {Legal} : answers'[o] = answers[o]
        PROVE  Refusals'
    <2>1. \A o \in Options \ {Legal} : EffectiveValue(o, answers') = EffectiveValue(o, answers)
      BY <1>l, OnlyLegal
    <2>2. Kind[Legal] # "bool"
      BY LegalStandsAlone
    <2>3. AllOff(answers', refused')
      BY <1>a, <1>l, <2>1, <2>2 DEF AllOff
    <2> QED BY <1>l, <1>s, <2>3
  <1>1. CASE GoNext \/ GoBack
    BY <1>0, <1>1 DEF GoNext, GoBack, MoveTo
  <1>2. CASE \E c \in BOOLEAN : ModePicked(c)
    BY <1>0, <1>2 DEF ModePicked
  <1>3. ASSUME NEW v \in BOOLEAN, LegalAcceptToggled(v) PROVE Refusals'
    BY <1>i, <1>l, <1>3 DEF LegalAcceptToggled
  <1>4. ASSUME NEW l \in Langs, LanguagePicked(l) PROVE Refusals'
    <2>1. /\ UNCHANGED <<mode, disk, held, refused>> /\ page = "steps"
          /\ Reload(LoadLegalDocs(l, readable))
      BY <1>4 DEF LanguagePicked
    <2>2. \A o \in Options \ {Legal} : answers'[o] = answers[o]
      BY <1>i, <2>1 DEF Reload
    <2> QED BY <1>l, <2>1, <2>2
  <1>5. CASE Answering
    <2>1. UNCHANGED <<mode, disk, held>> /\ page = "steps"
      BY <1>5 DEF Answering, OptionBoolChanged, OptionCardPicked, OptionSelectChanged,
                  ResetOptions, Answer1
    <2>2. AllOff(answers', refused')
      BY <1>i, <1>a, <1>5, <2>1, AnsweringRefuses
    <2> QED BY <1>s, <2>1, <2>2
  <1>6. ASSUME NEW written \in BOOLEAN, Install(written) PROVE Refusals'
    <2> DEFINE b == ResolveAutoSelects(answers)
    <2>1. /\ page' = "progress" /\ refused' = refused /\ page = "steps"
          /\ disk' \in {HandoffOf(b), Absent} /\ held' \in {HandoffOf(b), Absent}
      BY <1>6, <1>i DEF Install, WrittenAfterTheSteps
    <2>2. ASSUME NEW o \in refused, Kind[o] = "bool" PROVE HandoffOf(b).values[o] # "on"
      <3>1. EffectiveValue(o, b) # "on"
        BY <1>i, <1>a, <2>1, <2>2, ResolveKeepsSwitches DEF AllOff
      <3> HIDE DEF b
      <3> QED BY <1>i, <3>1 DEF HandoffOf, Build
    <2> HIDE DEF b
    <2> QED BY <2>1, <2>2 DEF Refusals, SaysNo
  <1>7. ASSUME NEW ok \in BOOLEAN, WorkerEnds(ok) PROVE Refusals'
    BY <1>0, <1>7 DEF WorkerEnds
  <1>8. ASSUME NEW ok \in BOOLEAN, NEW written \in BOOLEAN, CommandEnds(ok, written)
        PROVE  Refusals'
    BY <1>8 DEF CommandEnds, Refusals
  <1>9. CASE \E v \in ValuesOf[FinalOption] : FinalPicked(v)
    BY <1>0, <1>9 DEF FinalPicked
  <1>10. ASSUME NEW written \in BOOLEAN, FinalApply(written) PROVE Refusals'
    <2>1. /\ held' = [held EXCEPT !.values[FinalOption] = finalValue]
          /\ disk' \in {disk, held'} /\ held # Absent /\ UNCHANGED <<mode, refused>>
          /\ page' # "steps" /\ mode = "window"
      BY <1>10, <1>i DEF FinalApply, HandoffsAreRecords, PagesOfModes
    <2>2. held'.values = [held.values EXCEPT ![FinalOption] = finalValue]
      <3>1. held = [values |-> held.values, consents |-> held.consents]
        BY <1>i, <2>1 DEF HandoffsAreRecords
      <3> QED BY <2>1, <3>1
    <2>3. \A o \in refused : Kind[o] = "bool" => held'.values[o] # "on"
      <3>1. \A o \in refused : Kind[o] = "bool" => held.values[o] # "on"
        BY <2>1 DEF Refusals, SaysNo
      <3>2. ASSUME NEW o \in refused, Kind[o] = "bool" PROVE held'.values[o] = held.values[o]
        BY <2>2, <3>2, FinalIsAnOption
      <3> QED BY <3>1, <3>2
    <2> QED BY <2>1, <2>3 DEF Refusals, SaysNo
  <1>11. CASE FinalSkip \/ Close \/ CommandRefused
    BY <1>0, <1>11 DEF FinalSkip, Close, CommandRefused
  <1>12. CASE CommandInstalls
    BY <1>i, <1>12 DEF CommandInstalls, PagesOfModes, Refusals
  <1>13. CASE Ended \/ UNCHANGED vars
    BY <1>0, <1>13 DEF Ended, vars
  <1> QED BY <1>1, <1>2, <1>3, <1>4, <1>5, <1>6, <1>7, <1>8, <1>9, <1>10, <1>11, <1>12, <1>13
          DEF Next, Worker

\* Nothing is refused at the start.
LEMMA RefusalsInit == Init => Refusals
PROOF BY DEF Init, Refusals, AllOff, SaysNo

\* What the last act on an option turned off - a card, a switch, the option it refines - is
\* off in the hand-off (config.rs, effective_value; main.rs, pick_card and reset).
THEOREM NoStaysNo ==
    ASSUME AutoSetsNothing, PresetsSettle
    PROVE  Spec => []NoMeansNo
PROOF
  <1>1. Refusals => NoMeansNo
    BY DEF Refusals, SaysNo, NoMeansNo
  <1>2. IInv /\ Typed /\ Refusals /\ [Next]_vars => Refusals'
    BY RefusalsStep
  <1> QED BY <1>1, <1>2, RefusalsInit, InitHolds, StepHolds, TypedInit, TypedStep, PTL DEF Spec
=============================================================================
