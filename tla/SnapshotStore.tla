---------------------------- MODULE SnapshotStore ----------------------------
(***************************************************************************)
(* What a collector promises to a scrape: the scrape returns one snapshot, *)
(* the one that was current at some moment between its beginning and its   *)
(* end, and never a mixture.  A collector that keeps vectors promises it   *)
(* of the set of its series, not of their values.                          *)
(***************************************************************************)
CONSTANTS
    Scrapers,   \* concurrent scrapes of /metrics
    Snapshots   \* what can be published

VARIABLES
    current,    \* the snapshot in force
    seen,       \* per scraper: the snapshot its scrape in progress will return
    answer      \* per scraper: what its last complete scrape returned

storeVars == <<current, seen, answer>>

Replace ==
    /\ current' \in Snapshots
    /\ UNCHANGED <<seen, answer>>

Observe(s) ==
    /\ seen' = [seen EXCEPT ![s] = current]
    /\ UNCHANGED <<current, answer>>

Answer(s) ==
    /\ answer' = [answer EXCEPT ![s] = seen[s]]
    /\ UNCHANGED <<current, seen>>

StoreNext ==
    \/ Replace
    \/ \E s \in Scrapers : Observe(s) \/ Answer(s)

StoreSpec ==
    /\ current \in Snapshots
    /\ seen = [s \in Scrapers |-> current]
    /\ answer = [s \in Scrapers |-> current]
    /\ [][StoreNext]_storeVars
=============================================================================
