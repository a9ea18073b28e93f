------------------------ MODULE MCSnapshotCollector ------------------------
(***************************************************************************)
(* Model values for TLC.  Two cycles are enough for a scrape to straddle a *)
(* swap and for a cycle to meet another's leftovers.                       *)
(***************************************************************************)
EXTENDS SnapshotCollector

CONSTANTS p1, p2

\* Two projects, and a list that loses one of them, for the collectors whose
\* visit is one call; one project for those that make several.
TrackedLists ==
    [k \in Kinds |->
        IF k \in {"merge_requests", "contributors"} THEN {{p1, p2}, {p1}} ELSE {{p1}}]

AskedMetrics == <<"deployment_frequency", "lead_time_for_changes">>
StageNames == <<"plan", "code">>
=============================================================================
