---------------------------- MODULE TierDetector ----------------------------
(***************************************************************************)
(* internal/gitlab/tier_detector.go: Detect as a function of what GitLab   *)
(* answers to its five requests.  Nothing in the program calls it.         *)
(***************************************************************************)
EXTENDS Naturals

\* A status code, or no answer.
Unanswered == 0
Statuses == {Unanswered, 200, 400, 401, 403, 404, 422, 500}

Probes == {"version", "dora", "value_stream", "mr_analytics", "code_review"}
Answers == [Probes -> Statuses]

Free == 0
Premium == 1
Ultimate == 2

\* checkVersion: the library turns every other status into an error.
VersionKnown(a) == a["version"] = 200

ProbeDORA(a) == a["dora"] \in {200, 400, 404, 422}

ProbeEndpoint(a, p) == a[p] \notin {Unanswered, 403}

DeriveTier(dora, others) ==
    IF dora THEN Ultimate
    ELSE IF \E p \in DOMAIN others : others[p] THEN Premium ELSE Free

OtherProbes == {"value_stream", "mr_analytics", "code_review"}

\* client.Features() as long as nothing has called SetFeatures: nil.
Undetected ==
    [known |-> FALSE, dora |-> FALSE, others |-> [p \in OtherProbes |-> FALSE], tier |-> Free]

Features ==
    [known : BOOLEAN, dora : BOOLEAN, others : [OtherProbes -> BOOLEAN], tier : Free..Ultimate]

\* Detect; Undetected stands for its error.
Detect(a) ==
    LET others == [p \in OtherProbes |-> ProbeEndpoint(a, p)]
    IN  IF VersionKnown(a)
        THEN [known |-> TRUE, dora |-> ProbeDORA(a), others |-> others,
              tier |-> DeriveTier(ProbeDORA(a), others)]
        ELSE Undetected
=============================================================================
