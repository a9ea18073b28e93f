-------------------------- MODULE SnapshotCollector --------------------------
(***************************************************************************)
(* The six collectors of internal/collector that build a fresh set of      *)
(* observations in every Run and swap it in at the end: merge_requests,    *)
(* dora, value_stream, code_review, repository and contributors.  They     *)
(* share one control structure (gate, copy of the project list, a visit to *)
(* every project, the swap; Collect copies under the read lock and emits   *)
(* from the copy) and differ in the calls that they make for a project and *)
(* in which failures they count.                                           *)
(*                                                                         *)
(* The critical sections under mu are one assignment each, so each is one  *)
(* step here, and so is every call to GitLab.  The value of a series is    *)
(* abstracted to the versions that GitLab's data had at the calls that it  *)
(* is computed from, and the order of the project list to an arbitrary     *)
(* one.                                                                    *)
(***************************************************************************)
EXTENDS Naturals, Sequences, FiniteSets

CONSTANTS
    Kinds,          \* the collectors under study
    Projects,       \* project paths
    Lists,          \* bound: per collector, the project lists it may be given
    DoraMetrics,    \* a sequence: the DORA metrics asked for, tier by tier
    Stages,         \* a sequence: the stages of a project's default value stream
    Scrapers,       \* concurrent scrapes of /metrics
    MaxVersion,     \* bound: changes of the data at GitLab
    MaxCycle        \* bound: published cycles

AllKinds == {"merge_requests", "dora", "value_stream", "code_review",
             "repository", "contributors"}

ASSUME CollectorAssumption ==
    /\ Kinds \subseteq AllKinds
    /\ Lists \in [Kinds -> SUBSET SUBSET Projects]
    /\ DoraMetrics \in Seq(STRING) \ {<<>>}
    /\ Stages \in Seq(STRING)
    /\ MaxVersion \in Nat
    /\ MaxCycle \in Nat

VARIABLES
    kind,           \* which collector this is; never changes
    available,      \* features # nil and the collector's HasX; never changes
    projects,       \* c.projects
    observations,   \* c.observations
    run,            \* the Run in progress, its local variables
    ctxDone,        \* the context of Run is done
    scrape,         \* per scraper, the Collect in progress and its last result
    world           \* the version of the data at GitLab

vars == <<kind, available, projects, observations, run, ctxDone, scrape, world>>

\* What a visit to a project asks GitLab for, call after call.
Calls(k) ==
    CASE k = "merge_requests" -> <<"merge requests">>
      [] k = "dora"           -> DoraMetrics
      [] k = "value_stream"   -> <<"value streams", "stages">> \o Stages
      [] k = "code_review"    -> <<"opened", "merged">>
      [] k = "repository"     -> <<"languages", "statistics", "pipelines", "coverage">>
      [] k = "contributors"   -> <<"contributors">>

\* A collector's metric families, grouped by the calls that fill them.
Families(k) ==
    CASE k = "merge_requests" -> {"histograms", "status", "throughput"}
      [] k = "dora"           -> {DoraMetrics[i] : i \in DOMAIN DoraMetrics}
      [] k = "value_stream"   -> {Stages[i] : i \in DOMAIN Stages} \cup {"totals"}
      [] k = "code_review"    -> {"pending", "approvals", "reviewers"}
      [] k = "repository"     -> {"languages", "statistics", "coverage"}
      [] k = "contributors"   -> {"contributions"}

CallNames == UNION {{Calls(k)[i] : i \in DOMAIN Calls(k)} : k \in AllKinds}

AllFamilies == UNION {Families(k) : k \in AllKinds}

\* A family may depend on more than one call and then be of several versions.
Series == Projects \X AllFamilies \X Nat

\* One cycle's observations.  "listed", "visited" and "since" are history: the
\* list the cycle started from, the projects it visited, and the version at
\* its start.
Snapshots ==
    [cycle : Nat, series : SUBSET Series, errors : Nat,
     listed : SUBSET Projects, visited : SUBSET Projects, since : Nat]

Empty(cycle, list) ==
    [cycle |-> cycle, series |-> {}, errors |-> 0,
     listed |-> list, visited |-> {}, since |-> world]

\* The collectors that look at the tier's features before they do anything.
GatedKinds == {"dora", "value_stream", "code_review"}

Init ==
    /\ kind \in Kinds
    /\ available \in (IF kind \in GatedKinds THEN BOOLEAN ELSE {TRUE})
    /\ projects \in Lists[kind]
    /\ world = 0
    /\ observations = Empty(0, {})
    /\ run = [pc |-> "idle", todo |-> {}, calls |-> <<>>, obs |-> observations]
    /\ ctxDone = FALSE
    /\ scrape = [s \in Scrapers |->
                    [pc |-> "idle", copy |-> observations, left |-> {},
                     emitted |-> {}, result |-> observations]]

-----------------------------------------------------------------------------
(* What a call can give: the families it fills, the errors it counts, and  *)
(* whether it ends the visit.                                              *)

Fills(families) == [families |-> families, errors |-> 0, ends |-> FALSE]

\* An answer with nothing to show in it, or a failure that is only logged.
Nothing == Fills({})

\* A failure that is counted; the visit goes on.
Fails == [Nothing EXCEPT !.errors = 1]

\* On with the next project.
Ends(errors) == [families |-> {}, errors |-> errors, ends |-> TRUE]

\* Mutant: a family is filled that Collect does not send.
MergeRequestsUnsent == {Nothing, Fails, Fills({"histograms", "status", "notes"})}

MergeRequestsAnswers ==
    {Nothing, Fails} \cup {Fills({"histograms", "status"} \cup f) : f \in SUBSET {"throughput"}}

\* A metric without data and a 403 are passed over.
DoraAnswers(metric) == {Fills({metric}), Nothing, Fails}

\* The list of value streams (denied or empty: the visit ends uncounted), the
\* stages, then a median per stage.  A median that cannot be asked for is
\* counted, one that does not come is not, and the totals are computed from
\* those that came, from none if need be.
ValueStreamAnswers(call) ==
    CASE call = "value streams" -> {Nothing, Ends(0), Ends(1)}
      [] call = "stages"        -> {Fills({"totals"}), Ends(1)}
      [] OTHER                  -> {Fills({call, "totals"}), Nothing, Fails}

\* Open merge requests, without which there is nothing, then merged ones,
\* without which there is what the open ones gave.  "reviewers" stands for the
\* reviews requested and the turnaround, which depend on both lists.
CodeReviewAnswers(call) ==
    CASE call = "opened" ->
            {Ends(1)} \cup {Fills({"pending"} \cup f) : f \in SUBSET {"reviewers"}}
      [] call = "merged" ->
            {Fails} \cup {Fills(f) : f \in SUBSET {"approvals", "reviewers"}}

\* Three independent parts; a failure to get the coverage is not counted.
RepositoryAnswers(call) ==
    CASE call \in {"languages", "statistics"} -> {Fills({call}), Nothing, Fails}
      [] call = "pipelines"                   -> {Nothing, Ends(0)}
      [] call = "coverage"                    -> {Fills({"coverage"}), Nothing}

\* A 404 is an empty repository.
ContributorsAnswers == {Fills({"contributions"}), Nothing, Fails}

Answers(k, call) ==
    CASE k = "merge_requests" -> MergeRequestsAnswers
      [] k = "dora"           -> DoraAnswers(call)
      [] k = "value_stream"   -> ValueStreamAnswers(call)
      [] k = "code_review"    -> CodeReviewAnswers(call)
      [] k = "repository"     -> RepositoryAnswers(call)
      [] k = "contributors"   -> ContributorsAnswers

Gated == kind \in GatedKinds /\ ~available

-----------------------------------------------------------------------------
(* Run.  The scheduler never runs a collector's Run twice at a time.       *)

\* The feature is missing: the observations are replaced by empty ones.
RunGated ==
    /\ run.pc = "idle"
    /\ Gated
    /\ observations.cycle < MaxCycle
    /\ observations' = Empty(observations.cycle + 1, {})
    /\ UNCHANGED <<kind, available, projects, run, ctxDone, scrape, world>>

\* Mutant: obs is one slice that every cycle goes on filling.
RunStartReusing ==
    /\ run.pc = "idle"
    /\ ~Gated
    /\ observations.cycle < MaxCycle
    /\ run' = [pc |-> "visiting", todo |-> projects, calls |-> <<>>,
               obs |-> [Empty(observations.cycle + 1, projects) EXCEPT !.series = run.obs.series]]
    /\ UNCHANGED <<kind, available, projects, observations, ctxDone, scrape, world>>

\* The project list is copied under the read lock; errCount and obs are new.
RunStart ==
    /\ run.pc = "idle"
    /\ ~Gated
    /\ observations.cycle < MaxCycle
    /\ run' = [pc |-> "visiting", todo |-> projects, calls |-> <<>>,
               obs |-> Empty(observations.cycle + 1, projects)]
    /\ UNCHANGED <<kind, available, projects, observations, ctxDone, scrape, world>>

\* The next project, if the context is not done yet.
Visit(p) ==
    /\ run.pc = "visiting"
    /\ run.calls = <<>>
    /\ p \in run.todo
    /\ ~ctxDone
    /\ run' = [run EXCEPT !.calls = [i \in DOMAIN Calls(kind) |-> <<p, Calls(kind)[i]>>]]
    /\ UNCHANGED <<kind, available, projects, observations, ctxDone, scrape, world>>

\* A call of the visit to p is answered by a.
After(p, a) ==
    LET obs == [run.obs EXCEPT !.series = @ \cup {<<p, f, world>> : f \in a.families},
                               !.errors = @ + a.errors]
    IN  IF Len(run.calls) = 1 \/ a.ends
        THEN [run EXCEPT !.todo = @ \ {p}, !.calls = <<>>,
                         !.obs = [obs EXCEPT !.visited = @ \cup {p}]]
        ELSE [run EXCEPT !.calls = Tail(@), !.obs = obs]

\* None of these calls is given the context of Run.
Fetch ==
    /\ run.calls # <<>>
    /\ \E a \in Answers(kind, Head(run.calls)[2]) : run' = After(Head(run.calls)[1], a)
    /\ UNCHANGED <<kind, available, projects, observations, ctxDone, scrape, world>>

\* Mutant: a cancelled cycle breaks out of the loop instead of returning, and
\* publishes what it has.
AbortPublishing ==
    /\ run.pc = "visiting"
    /\ run.calls = <<>>
    /\ run.todo # {}
    /\ ctxDone
    /\ run' = [run EXCEPT !.pc = "idle", !.todo = {}]
    /\ observations' = run.obs
    /\ UNCHANGED <<kind, available, projects, ctxDone, scrape, world>>

\* ctx.Err() before the next project: Run returns and what it collected is lost.
Abort ==
    /\ run.pc = "visiting"
    /\ run.calls = <<>>
    /\ run.todo # {}
    /\ ctxDone
    /\ run' = [run EXCEPT !.pc = "idle", !.todo = {}]
    /\ UNCHANGED <<kind, available, projects, observations, ctxDone, scrape, world>>

\* Mutant: the observations are appended to those of the last cycle.
PublishAppending ==
    /\ run.pc = "visiting"
    /\ run.todo = {}
    /\ observations' = [run.obs EXCEPT !.series = @ \cup observations.series]
    /\ run' = [run EXCEPT !.pc = "idle"]
    /\ UNCHANGED <<kind, available, projects, ctxDone, scrape, world>>

\* Every project has been visited: the swap under the write lock.
Publish ==
    /\ run.pc = "visiting"
    /\ run.todo = {}
    /\ observations' = run.obs
    /\ run' = [run EXCEPT !.pc = "idle"]
    /\ UNCHANGED <<kind, available, projects, ctxDone, scrape, world>>

\* SetProjects: a Run in progress keeps the list it copied.
SetProjects(list) ==
    /\ projects' = list
    /\ UNCHANGED <<kind, available, observations, run, ctxDone, scrape, world>>

-----------------------------------------------------------------------------
(* Collect, called by a scrape through Registry.Collect                    *)

\* The struct is copied under the read lock.  Its slices are shared with
\* c.observations, which Run replaces and never appends to.
CollectCopy(s) ==
    /\ scrape[s].pc = "idle"
    /\ scrape' = [scrape EXCEPT ![s].pc = "emitting", ![s].copy = observations,
                                ![s].left = Families(kind), ![s].emitted = {}]
    /\ UNCHANGED <<kind, available, projects, observations, run, ctxDone, world>>

OfFamily(series, f) == {x \in series : x[2] = f}

\* Mutant: the loops range over c.observations and not over the copy.
CollectEmitShared(s) ==
    /\ scrape[s].pc = "emitting"
    /\ scrape[s].left # {}
    /\ LET f == CHOOSE x \in scrape[s].left : TRUE
       IN  scrape' = [scrape EXCEPT ![s].left = @ \ {f},
                                    ![s].emitted = @ \cup OfFamily(observations.series, f)]
    /\ UNCHANGED <<kind, available, projects, observations, run, ctxDone, world>>

\* One family is sent, in an order that does not change.
CollectEmit(s) ==
    /\ scrape[s].pc = "emitting"
    /\ scrape[s].left # {}
    /\ LET f == CHOOSE x \in scrape[s].left : TRUE
       IN  scrape' = [scrape EXCEPT ![s].left = @ \ {f},
                                    ![s].emitted = @ \cup OfFamily(scrape[s].copy.series, f)]
    /\ UNCHANGED <<kind, available, projects, observations, run, ctxDone, world>>

\* The error count goes last, from the copy too, and Collect returns.
CollectReturn(s) ==
    /\ scrape[s].pc = "emitting"
    /\ scrape[s].left = {}
    /\ scrape' = [scrape EXCEPT ![s].pc = "idle",
                       ![s].result = [scrape[s].copy EXCEPT !.series = scrape[s].emitted]]
    /\ UNCHANGED <<kind, available, projects, observations, run, ctxDone, world>>

-----------------------------------------------------------------------------
(* The environment                                                         *)

\* The data changes at GitLab.
WorldChanges ==
    /\ world < MaxVersion
    /\ world' = world + 1
    /\ UNCHANGED <<kind, available, projects, observations, run, ctxDone, scrape>>

Cancel ==
    /\ ~ctxDone
    /\ ctxDone' = TRUE
    /\ UNCHANGED <<kind, available, projects, observations, run, scrape, world>>

Next ==
    \/ RunGated
    \/ RunStart
    \/ \E p \in Projects : Visit(p)
    \/ Fetch
    \/ Abort
    \/ Publish
    \/ \E list \in Lists[kind] : SetProjects(list)
    \/ \E s \in Scrapers : CollectCopy(s) \/ CollectEmit(s) \/ CollectReturn(s)
    \/ WorldChanges
    \/ Cancel

Spec == Init /\ [][Next]_vars

-----------------------------------------------------------------------------
(* Properties                                                              *)

Scrapes ==
    [pc : {"idle", "emitting"}, copy : Snapshots, left : SUBSET AllFamilies,
     emitted : SUBSET Series, result : Snapshots]

TypeOK ==
    /\ kind \in Kinds
    /\ available \in BOOLEAN
    /\ projects \subseteq Projects
    /\ observations \in Snapshots
    /\ run \in [pc : {"idle", "visiting"}, todo : SUBSET Projects,
                calls : Seq(Projects \X CallNames), obs : Snapshots]
    /\ ctxDone \in BOOLEAN
    /\ scrape \in [Scrapers -> Scrapes]
    /\ world \in Nat

\* What a scrape can see is always a complete cycle: every project on the list
\* that its Run copied was visited, whatever SetProjects and a cancellation
\* did meanwhile.
PublishedCyclesAreComplete == observations.visited = observations.listed

\* A published value is at least as new as the start of its cycle: nothing of
\* an earlier cycle survives in it, not even of a project whose calls failed.
PublishedValuesAreFresh ==
    \A x \in observations.series :
        x[1] \in observations.listed /\ x[3] >= observations.since

\* A scrape returns one published snapshot, whatever Run swaps in while it
\* emits.
Copies == [s \in Scrapers |-> scrape[s].copy]
Results == [s \in Scrapers |-> scrape[s].result]

Store == INSTANCE SnapshotStore
            WITH current <- observations, seen <- Copies, answer <- Results

ScrapeIsOneSnapshot == Store!StoreSpec

\* When a scraper's answer changes, it changes as a whole: nothing that it now
\* shows was read before anything that it showed earlier, of whatever project
\* and family, although the copy may be of a cycle swapped out twice.
AnswersNeverOlder ==
    [][\A s \in Scrapers :
          scrape'[s].result # scrape[s].result =>
              \A x \in scrape[s].result.series, y \in scrape'[s].result.series : x[3] <= y[3]
      ]_vars

\* Help text of age_scrape_errors_total, exported as a counter: "Total number
\* of scrape errors."
ErrorsTotalNeverDecreases == [][observations'.errors >= observations.errors]_vars
=============================================================================
