------------------------- MODULE TierDetectorProofs -------------------------
(***************************************************************************)
(* What Detect concludes from every combination of answers.                *)
(***************************************************************************)
EXTENDS TierDetector, TLAPS

\* An instance is taken for Free only if every probe was forbidden or got no
\* answer: an error of the server or of the token, or the 404 that the dummy
\* project 0 deserves, counts for a licence.
THEOREM FreeOnlyIfForbidden ==
  ASSUME NEW a \in Answers, VersionKnown(a)
  PROVE  Detect(a).tier = Free <=>
            /\ \A p \in OtherProbes : a[p] \in {Unanswered, 403}
            /\ a["dora"] \in {Unanswered, 401, 403, 500}
<1>. DEFINE others == [p \in OtherProbes |-> ProbeEndpoint(a, p)]
<1>1. Detect(a).tier = DeriveTier(ProbeDORA(a), others)
  BY DEF Detect
<1>2. a["dora"] \in Statuses
  BY DEF Answers, Probes
<1>3. ProbeDORA(a) <=> a["dora"] \notin {Unanswered, 401, 403, 500}
  BY <1>2 DEF ProbeDORA, Statuses, Unanswered
<1>4. (\E p \in DOMAIN others : others[p]) <=>
          \E p \in OtherProbes : a[p] \notin {Unanswered, 403}
  BY DEF ProbeEndpoint
<1>. HIDE DEF others
<1>5. DeriveTier(ProbeDORA(a), others) = Free <=>
          ~ProbeDORA(a) /\ ~(\E p \in DOMAIN others : others[p])
  BY DEF DeriveTier, Free, Premium, Ultimate
<1>. QED  BY <1>1, <1>3, <1>4, <1>5

\* An instance where the dummy project is simply not found, as on any tier, is
\* taken for Ultimate.
THEOREM NotFoundIsUltimate ==
  ASSUME NEW a \in Answers, VersionKnown(a), a["dora"] = 404
  PROVE  Detect(a).tier = Ultimate
BY DEF Detect, DeriveTier, ProbeDORA

\* The tier that is reported and the features that gate the collectors agree:
\* below Ultimate no DORA, below Premium none at all.
THEOREM TierCoversFeatures ==
  ASSUME NEW a \in Answers
  PROVE  /\ Detect(a) \in Features
         /\ Detect(a).dora => Detect(a).tier = Ultimate
         /\ \A p \in OtherProbes : Detect(a).others[p] => Detect(a).tier >= Premium
<1>1. CASE ~VersionKnown(a)
  BY <1>1 DEF Detect, Undetected, Features, Free, Premium, Ultimate
<1>2. CASE VersionKnown(a)
  <2>. DEFINE others == [p \in OtherProbes |-> ProbeEndpoint(a, p)]
  <2>1. Detect(a) = [known |-> TRUE, dora |-> ProbeDORA(a), others |-> others,
                     tier |-> DeriveTier(ProbeDORA(a), others)]
    BY <1>2 DEF Detect
  <2>2. others \in [OtherProbes -> BOOLEAN] /\ ProbeDORA(a) \in BOOLEAN
    BY DEF ProbeEndpoint, ProbeDORA
  <2>. HIDE DEF others
  <2>3. DeriveTier(ProbeDORA(a), others) \in Free..Ultimate
    BY DEF DeriveTier, Free, Premium, Ultimate
  <2>4. \A p \in OtherProbes : others[p] => DeriveTier(ProbeDORA(a), others) >= Premium
    BY <2>2 DEF DeriveTier, Free, Premium, Ultimate
  <2>5. ProbeDORA(a) => DeriveTier(ProbeDORA(a), others) = Ultimate
    BY DEF DeriveTier
  <2>. QED  BY <2>1, <2>2, <2>3, <2>4, <2>5 DEF Features
<1>. QED  BY <1>1, <1>2
=============================================================================
