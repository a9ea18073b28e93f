----------------------------- MODULE Lifecycle -----------------------------
(***************************************************************************)
(* What Exporter.Run promises, without saying how: the exporter starts,    *)
(* serves, and on a signal stops in order.  Collection cycles (the members *)
(* of "running") come and go at any time before the end; the store is      *)
(* closed, once, when none is in progress and none can begin again.  The   *)
(* exporter is ready while it serves and at no other time.  A failed start *)
(* leaves the phase "failed": the store stays open and cycles may go on.   *)
(***************************************************************************)
CONSTANT Tasks

VARIABLES
    phase,      \* "starting", "serving", "stopping", "stopped", "failed"
    running,    \* the tasks whose collection cycle is in progress
    ready,      \* what /ready answers
    storeOpen   \* the store has not been closed

lifeVars == <<phase, running, ready, storeOpen>>

LifeTypeOK ==
    /\ phase \in {"starting", "serving", "stopping", "stopped", "failed"}
    /\ running \in SUBSET Tasks
    /\ ready \in BOOLEAN
    /\ storeOpen \in BOOLEAN

LifeInit ==
    /\ phase = "starting"
    /\ running = {}
    /\ ready = FALSE
    /\ storeOpen = TRUE

BeginCycle(t) ==
    /\ phase # "stopped"
    /\ t \notin running
    /\ running' = running \cup {t}
    /\ UNCHANGED <<phase, ready, storeOpen>>

EndCycle(t) ==
    /\ t \in running
    /\ running' = running \ {t}
    /\ UNCHANGED <<phase, ready, storeOpen>>

Serve ==
    /\ phase = "starting"
    /\ phase' = "serving"
    /\ ready' = TRUE
    /\ UNCHANGED <<running, storeOpen>>

Fail ==
    /\ phase = "starting"
    /\ phase' = "failed"
    /\ UNCHANGED <<running, ready, storeOpen>>

Drain ==
    /\ phase = "serving"
    /\ phase' = "stopping"
    /\ ready' = FALSE
    /\ UNCHANGED <<running, storeOpen>>

Close ==
    /\ phase = "stopping"
    /\ running = {}
    /\ storeOpen
    /\ phase' = "stopped"
    /\ storeOpen' = FALSE
    /\ UNCHANGED <<running, ready>>

LifeNext ==
    \/ \E t \in Tasks : BeginCycle(t) \/ EndCycle(t)
    \/ Serve
    \/ Fail
    \/ Drain
    \/ Close

LifeSpec == LifeInit /\ [][LifeNext]_lifeVars
=============================================================================
