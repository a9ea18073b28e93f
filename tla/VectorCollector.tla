--------------------------- MODULE VectorCollector ---------------------------
(***************************************************************************)
(* The four collectors of internal/collector that keep Prometheus vectors  *)
(* and update them in place: pipelines, jobs, environments, test_reports.  *)
(* They share one control structure.  Run copies the project list, lists   *)
(* each project's items and takes every item through its stages: a stage   *)
(* asks GitLab, without the lock, and then records what came back, under   *)
(* mu, one family after the other.                                         *)
(*                                                                         *)
(* Collect holds the read lock from its first family to its last, but what *)
(* it sends are the series themselves, not their values: the registry that *)
(* called it takes them off the channel one by one and reads each where it *)
(* stands, beside Collect or after it, under no lock but the series' own.  *)
(* A Run can be in the middle of a record then.                            *)
(*                                                                         *)
(* An item is a pipeline (for environments: a deployment); items are       *)
(* numbered in the order in which GitLab created them, and may be of       *)
(* another status at every call.  A context that is done is a call that    *)
(* fails, as any call may.  Left out: the histograms of the time spent in  *)
(* a queue, the coverage of a pipeline, the artifacts of a job, and a      *)
(* report's suites and test cases.                                         *)
(***************************************************************************)
EXTENDS Listings, Sequences

CONSTANTS
    Kinds,          \* the collectors under study
    Places,         \* <<project, ref>>, or <<project, environment>>
    Statuses,       \* what GitLab calls the state of a pipeline, job, deployment
    JobNames,       \* a sequence: the jobs a pipeline may have, in GitLab's order
    PerPage,        \* the length of the one page that is asked for
    Scrapers,       \* concurrent scrapes of /metrics
    MaxItems,       \* bound: items that GitLab creates
    MaxCycles       \* bound: cycles begun

AllKinds == {"pipelines", "jobs", "environments", "test_reports"}

ASSUME VectorAssumption ==
    /\ Kinds \subseteq AllKinds
    /\ IsFiniteSet(Places)
    /\ \A l \in Places : l = <<l[1], l[2]>>
    /\ JobNames \in Seq(STRING)
    /\ PerPage \in Nat \ {0}
    /\ {MaxItems, MaxCycles} \subseteq Nat

Projects == {l[1] : l \in Places}

\* What a record is about: the first component of a series' labels.
Sections(k) ==
    CASE k = "pipelines"    -> {"pipeline", "child"}
      [] k = "jobs"         -> {JobNames[i] : i \in DOMAIN JobNames}
      [] k = "environments" -> {"environment"}
      [] k = "test_reports" -> {"report"}

VARIABLES
    kind,           \* which collector this is; never changes
    items,          \* GitLab: the places of the items created so far
    projects,       \* c.projects
    vec,            \* the vectors
    run,            \* the Run in progress
    scrape          \* per scraper, the Collect in progress and its last result

vars == <<kind, items, projects, vec, run, scrape>>

Labels == Sections(kind) \X Places

\* The families in the order in which Collect sends them: durations, statuses,
\* counters, then the gauges of an item's own data.  "value" and "detail" stand
\* for id and created_timestamp of a pipeline, for total_time and the counts of
\* a report; "value" for info of an environment.  A family that a collector
\* does not have has no series.
Families == <<"timed", "status", "runs", "value", "detail">>

\* Mutant: the duration of a deployment is observed before it is counted.
OrderTimedFirst(k) == Families

\* The order in which a record goes into the vectors.
Order(k) ==
    IF k = "environments" THEN <<"status", "runs", "timed", "value", "detail">> ELSE Families

\* A series is there from its first update on; a status that is there is 1.
EmptyVectors ==
    [timed  |-> [l \in Labels |-> 0],
     status |-> {},
     runs   |-> [l \in Labels |-> 0],
     value  |-> [l \in Labels |-> 0],
     detail |-> [l \in Labels |-> 0]]

Idle ==
    [pc |-> "idle", cycle |-> 0, todo |-> {}, queue |-> <<>>, stage |-> 1,
     writes |-> <<>>, step |-> 1]

Init ==
    /\ kind \in Kinds
    /\ items = <<>>
    /\ projects = Projects
    /\ vec = EmptyVectors
    /\ run = Idle
    /\ scrape = [s \in Scrapers |->
                    [pc |-> "idle", sent |-> 0, unread |-> {},
                     seen |-> EmptyVectors, answer |-> EmptyVectors]]

-----------------------------------------------------------------------------
(* What GitLab answers                                                     *)

IdsAt(ps) == {i \in DOMAIN items : items[i] \in ps}

\* The one page that is asked for.
Newest(ids) == Page(ids, 1, PerPage)

PlacesOf(p) == {l \in Places : l[1] = p}

\* The entries that collectProject loops over: a project's pipelines, newest
\* first, or its environments, those that are stopped left out or not.
Listings(p) ==
    IF kind = "environments"
    THEN {[i \in DOMAIN q |-> [place |-> q[i], id |-> 0]] :
             q \in UNION {Orders(open) : open \in SUBSET PlacesOf(p)}}
    ELSE {[i \in DOMAIN q |-> [place |-> items[q[i]], id |-> q[i]]] :
             q \in NewestFirst(Newest(IdsAt(PlacesOf(p))))}

\* The stages of an entry.  The info gauge of an environment is set from the
\* listing itself; every other stage makes a call of its own.
Stages(k) ==
    CASE k = "pipelines"    -> <<"pipeline", "bridges">>
      [] k = "jobs"         -> <<"jobs">>
      [] k = "environments" -> <<"info", "deployments">>
      [] k = "test_reports" -> <<"report">>

\* The record of one run, with a duration or without.
RunRecord(l, st, timed) ==
    [label |-> l, status |-> {st}, runs |-> 1, timed |-> timed, value |-> 0, detail |-> 0]

\* A record of an item's own data.
DataRecord(l, value, detail) ==
    [label |-> l, status |-> {}, runs |-> 0, timed |-> 0, value |-> value, detail |-> detail]

\* A run of whatever status.
RunRecords(section, e) ==
    {RunRecord(<<section, e.place>>, st, t) : st \in Statuses, t \in 0..1}

\* Mutant: a job is filed under its stage.
JobRecordsByStage(e) == RunRecords("stage", e)

JobRecords(e) == UNION {RunRecords(name, e) : name \in Sections("jobs")}

\* Of the jobs of the listed pipeline any that exist, in GitLab's order.
JobWrites(e) ==
    {ws \in UNION {[1..n -> JobRecords(e)] : n \in 0..Len(JobNames)} :
        \A i, j \in DOMAIN ws : i < j =>
            \E a, b \in DOMAIN JobNames :
                a < b /\ ws[i].label[1] = JobNames[a] /\ ws[j].label[1] = JobNames[b]}

Deployments(e) == Newest(IdsAt({e.place}))

\* A pipeline's own record; GitLab may leave out the date of its creation.
PipelineRecords(e) ==
    LET runs == RunRecords("pipeline", e)
    IN  {[w EXCEPT !.value = e.id] : w \in runs} \cup
        {[w EXCEPT !.value = e.id, !.detail = e.id] : w \in runs}

\* One record per deployment.
DeploymentWrites(e) == [1..Cardinality(Deployments(e)) -> RunRecords("environment", e)]

\* The records that the answer to a stage's call leads to.
Answers(stage, e) ==
    CASE stage = "pipeline" ->
            {<<w>> : w \in PipelineRecords(e)}
      [] stage = "bridges" ->
            {<<>>} \cup {<<w>> : w \in RunRecords("child", e)}
      [] stage = "jobs" -> JobWrites(e)
      [] stage = "info" -> {<<DataRecord(<<"environment", e.place>>, 1, 0)>>}
      [] stage = "deployments" -> DeploymentWrites(e)
      [] stage = "report" -> {<<DataRecord(<<"report", e.place>>, e.id, e.id)>>}

-----------------------------------------------------------------------------
(* Run.  The scheduler never runs a collector's Run twice at a time.       *)

\* Mutant: a cycle begins by resetting the vectors.
RunStartResetting ==
    /\ run.pc = "idle"
    /\ run.cycle < MaxCycles
    /\ run' = [run EXCEPT !.pc = "project", !.cycle = @ + 1, !.todo = projects]
    /\ vec' = EmptyVectors
    /\ UNCHANGED <<kind, items, projects, scrape>>

RunStart ==
    /\ run.pc = "idle"
    /\ run.cycle < MaxCycles
    /\ run' = [run EXCEPT !.pc = "project", !.cycle = @ + 1, !.todo = projects]
    /\ UNCHANGED <<kind, items, projects, vec, scrape>>

\* The list call of a project is answered.
ListItems(p) ==
    /\ run.pc = "project"
    /\ p \in run.todo
    /\ \E q \in Listings(p) :
          run' = [run EXCEPT !.pc = "entry", !.todo = @ \ {p}, !.queue = q, !.stage = 1]
    /\ UNCHANGED <<kind, items, projects, vec, scrape>>

\* It fails: logged, and on with the next project.
ListFails(p) ==
    /\ run.pc = "project"
    /\ p \in run.todo
    /\ run' = [run EXCEPT !.todo = @ \ {p}]
    /\ UNCHANGED <<kind, items, projects, vec, scrape>>

\* Every project has been tried: Run returns nil.
RunReturn ==
    /\ run.pc = "project"
    /\ run.todo = {}
    /\ run' = [run EXCEPT !.pc = "idle"]
    /\ UNCHANGED <<kind, items, projects, vec, scrape>>

ProjectDone ==
    /\ run.pc = "entry"
    /\ run.queue = <<>>
    /\ run' = [run EXCEPT !.pc = "project"]
    /\ UNCHANGED <<kind, items, projects, vec, scrape>>

CurrentStage == Stages(kind)[run.stage]

NextEntry ==
    [run EXCEPT !.pc = "entry", !.queue = Tail(@), !.stage = 1, !.writes = <<>>, !.step = 1]

NextStage ==
    IF run.stage = Len(Stages(kind))
    THEN NextEntry
    ELSE [run EXCEPT !.pc = "entry", !.stage = @ + 1, !.writes = <<>>, !.step = 1]

\* A stage gets its answer and, if there is something to record, calls mu.Lock.
Fetch ==
    /\ run.pc = "entry"
    /\ run.queue # <<>>
    /\ \E ws \in Answers(CurrentStage, Head(run.queue)) :
          run' = IF ws = <<>> THEN NextStage ELSE [run EXCEPT !.pc = "lock", !.writes = ws]
    /\ UNCHANGED <<kind, items, projects, vec, scrape>>

\* Mutant: an entry whose stage failed is taken up again from its first stage.
FetchFailsFromStart ==
    /\ run.pc = "entry"
    /\ run.queue # <<>>
    /\ CurrentStage # "info"
    /\ run' = [run EXCEPT !.stage = 1]
    /\ UNCHANGED <<kind, items, projects, vec, scrape>>

\* The call of a stage fails: logged, and on with the next entry.
FetchFails ==
    /\ run.pc = "entry"
    /\ run.queue # <<>>
    /\ CurrentStage # "info"
    /\ run' = NextEntry
    /\ UNCHANGED <<kind, items, projects, vec, scrape>>

\* Mutant: Collect does not take the read lock.
ReadingUnlocked == {}

Reading == {s \in Scrapers : scrape[s].pc = "reading"}

\* Lock returns: Collect holds the lock no longer, and none begins meanwhile.
Lock ==
    /\ run.pc = "lock"
    /\ Reading = {}
    /\ run' = [run EXCEPT !.pc = "locked"]
    /\ UNCHANGED <<kind, items, projects, vec, scrape>>

\* A family of vectors with its part of a record: statuses are set to 1, runs
\* and durations are counted, other gauges are set to what GitLab gave, if it
\* gave something.
Updated(f, w) ==
    LET now == vec[f][w.label]
    IN  [vec EXCEPT ![f] =
            CASE f = "status"           -> vec.status \cup {<<w.label, st>> : st \in w.status}
              [] f \in {"timed", "runs"} -> [vec[f] EXCEPT ![w.label] = now + w[f]]
              [] OTHER -> [vec[f] EXCEPT ![w.label] = IF w[f] = 0 THEN now ELSE w[f]]]

\* The deployments of an environment are recorded under one lock, every other
\* record under its own.
AfterRecord ==
    CASE Len(run.writes) = 1 -> NextStage
      [] Len(run.writes) > 1 ->
            [run EXCEPT !.pc = IF kind = "environments" THEN "locked" ELSE "unlocked",
                        !.writes = Tail(@), !.step = 1]

\* recordPipeline, recordJob, recordReport, and the critical sections inside
\* collectChildPipelines, collectProject and collectDeployments: one family at
\* a time; after the last one the lock is released.
Update ==
    /\ run.pc = "locked"
    /\ vec' = Updated(Order(kind)[run.step], Head(run.writes))
    /\ run' = IF run.step < Len(Order(kind)) THEN [run EXCEPT !.step = @ + 1] ELSE AfterRecord
    /\ UNCHANGED <<kind, items, projects, scrape>>

\* Between two records of one answer mu is free; then Lock is called again.
LockAgain ==
    /\ run.pc = "unlocked"
    /\ run' = [run EXCEPT !.pc = "lock"]
    /\ UNCHANGED <<kind, items, projects, vec, scrape>>

SetProjects(list) ==
    /\ Reading = {} /\ run.pc # "locked"
    /\ projects' = list
    /\ UNCHANGED <<kind, items, vec, run, scrape>>

-----------------------------------------------------------------------------
(* A scrape: Collect under the read lock, and the registry that gathers    *)
(* what it sends.  A call of Lock that waits keeps new readers out.        *)

CollectLock(s) ==
    /\ scrape[s].pc = "idle"
    /\ run.pc \notin {"lock", "locked"}
    /\ scrape' = [scrape EXCEPT ![s].pc = "reading", ![s].sent = 0, ![s].seen = EmptyVectors]
    /\ UNCHANGED <<kind, items, projects, vec, run>>

\* Every series that a family has is sent; a status need not be read, it is 1.
CollectFamily(s) ==
    /\ scrape[s].pc = "reading"
    /\ scrape[s].sent < Len(Families)
    /\ LET n == scrape[s].sent + 1
           f == Families[n]
       IN  scrape' =
             IF f = "status"
             THEN [scrape EXCEPT ![s].sent = n, ![s].seen.status = vec.status]
             ELSE [scrape EXCEPT ![s].sent = n,
                                 ![s].unread = @ \cup {<<n, l>> : l \in {m \in Labels : vec[f][m] > 0}}]
    /\ UNCHANGED <<kind, items, projects, vec, run>>

\* Mutant: Collect returns without the deferred RUnlock.
CollectReturnLocked(s) ==
    /\ scrape[s].pc = "reading"
    /\ scrape[s].sent = Len(Families)
    /\ scrape[s].unread = {}
    /\ scrape[s].answer # scrape[s].seen
    /\ scrape' = [scrape EXCEPT ![s].answer = scrape[s].seen]
    /\ UNCHANGED <<kind, items, projects, vec, run>>

CollectReturn(s) ==
    /\ scrape[s].pc = "reading"
    /\ scrape[s].sent = Len(Families)
    /\ scrape' = [scrape EXCEPT ![s].pc = "gathering"]
    /\ UNCHANGED <<kind, items, projects, vec, run>>

\* The registry reads a series that was sent, whatever Run is doing.  The series
\* of one label come off the channel in the order of their families.
Gather(s) ==
    /\ \E u \in scrape[s].unread :
          LET n == u[1]
              l == u[2]
              f == Families[n]
          IN  /\ \A m \in 1..(n - 1) : <<m, l>> \notin scrape[s].unread
              /\ scrape' = [scrape EXCEPT ![s].unread = @ \ {u}, ![s].seen[f][l] = vec[f][l]]
    /\ UNCHANGED <<kind, items, projects, vec, run>>

Respond(s) ==
    /\ scrape[s].pc = "gathering"
    /\ scrape[s].unread = {}
    /\ scrape' = [scrape EXCEPT ![s].pc = "idle", ![s].answer = scrape[s].seen]
    /\ UNCHANGED <<kind, items, projects, vec, run>>

-----------------------------------------------------------------------------
(* The environment                                                         *)

Create(l) ==
    /\ Len(items) < MaxItems
    /\ items' = Append(items, l)
    /\ UNCHANGED <<kind, projects, vec, run, scrape>>

RunStep ==
    \/ \E p \in Projects : ListItems(p) \/ ListFails(p)
    \/ RunReturn
    \/ ProjectDone
    \/ Fetch
    \/ FetchFails
    \/ Lock
    \/ Update
    \/ LockAgain

ScrapeStep(s) == CollectFamily(s) \/ CollectReturn(s) \/ Gather(s) \/ Respond(s)

Next ==
    \/ RunStart
    \/ RunStep
    \/ \E list \in SUBSET Projects : SetProjects(list)
    \/ \E s \in Scrapers : CollectLock(s) \/ ScrapeStep(s)
    \/ \E l \in Places : Create(l)

Spec == Init /\ [][Next]_vars

\* A Run that has begun and a scrape that has begun go on: every call to GitLab
\* ends, and the registry drains the channel that Collect sends on.
FairSpec == Spec /\ WF_vars(RunStep) /\ \A s \in Scrapers : WF_vars(ScrapeStep(s))

-----------------------------------------------------------------------------
(* Properties                                                              *)

Vectors ==
    [timed : [Labels -> Nat], status : SUBSET (Labels \X Statuses),
     runs : [Labels -> Nat], value : [Labels -> Nat], detail : [Labels -> Nat]]

Writes ==
    [label : Labels, status : SUBSET Statuses,
     runs : Nat, timed : Nat, value : Nat, detail : Nat]

TypeOK ==
    /\ kind \in Kinds
    /\ items \in Seq(Places)
    /\ projects \subseteq Projects
    /\ vec \in Vectors
    /\ run \in [pc : {"idle", "project", "entry", "lock", "locked", "unlocked"}, cycle : Nat,
                todo : SUBSET Projects, queue : Seq([place : Places, id : Nat]),
                stage : 1..2, writes : Seq(Writes), step : 1..5]
    /\ scrape \in [Scrapers -> [pc : {"idle", "reading", "gathering"}, sent : 0..5,
                                unread : SUBSET ({1, 3, 4, 5} \X Labels),
                                seen : Vectors, answer : Vectors]]

\* How many more durations than runs an answer may show of one label: the
\* collectors that observe the duration first can be scraped in between.
Slack == IF kind = "environments" THEN 0 ELSE 1

\* The families of one answer to a scrape fit together although their values are
\* read one by one beside Run: no more runs are timed than counted, but for the
\* record in progress; none is timed where none is counted, a run is counted
\* exactly where a status is shown, and an item's details come with the item.
FitsTogether(v) ==
    \A l \in Labels :
        /\ v.timed[l] <= v.runs[l] + Slack
        /\ v.timed[l] > 0 => v.runs[l] > 0
        /\ v.runs[l] > 0 <=> \E st \in Statuses : <<l, st>> \in v.status
        /\ v.detail[l] > 0 => v.value[l] > 0

ScrapesFitTogether == \A s \in Scrapers : FitsTogether(scrape[s].answer)

\* From one answer to the next no counter and no histogram goes down: also when
\* the project is no longer listed or its calls fail.
AnswersOnlyGrow ==
    [][\A s \in Scrapers, l \in Labels :
          /\ scrape[s].answer.runs[l] <= scrape'[s].answer.runs[l]
          /\ scrape[s].answer.timed[l] <= scrape'[s].answer.timed[l]
      ]_vars

\* The values of an answer are of different moments, but which series it has is
\* one atomic read: all the series that were there at some moment between the
\* beginning of the scrape and its end, and no others.  No record appears in
\* some families of an answer and is missing in others.
Positive(family) == {l \in Labels : family[l] > 0}

Series(v) ==
    [timed |-> Positive(v.timed), status |-> v.status, runs |-> Positive(v.runs),
     value |-> Positive(v.value), detail |-> Positive(v.detail)]

\* What a scrape has been sent, read or not.
SentSeries(s) ==
    LET Unread(n) == {u[2] : u \in {v \in scrape[s].unread : v[1] = n}}
        read == Series(scrape[s].seen)
    IN  [timed |-> read.timed \cup Unread(1), status |-> read.status,
         runs |-> read.runs \cup Unread(3), value |-> read.value \cup Unread(4),
         detail |-> read.detail \cup Unread(5)]

SeenSeries ==
    [s \in Scrapers |->
        CASE scrape[s].pc = "idle"      -> Series(scrape[s].answer)
          [] scrape[s].pc = "reading"   -> Series(vec)
          [] scrape[s].pc = "gathering" -> SentSeries(s)]

AllSeries ==
    LET labels == (UNION {Sections(k) : k \in AllKinds}) \X Places
    IN  [timed : SUBSET labels, status : SUBSET (labels \X Statuses), runs : SUBSET labels,
         value : SUBSET labels, detail : SUBSET labels]

Store == INSTANCE SnapshotStore
            WITH current <- Series(vec), seen <- SeenSeries,
                 answer <- [s \in Scrapers |-> Series(scrape[s].answer)],
                 Snapshots <- AllSeries

SeriesAreAtomic == Store!StoreSpec

\* What is left of a cycle: projects to list, entries and stages to ask for,
\* the call in progress, records to file, and the way from one to the next.
Left ==
    <<Cardinality(run.todo), Len(run.queue), Len(Stages(kind)) - run.stage,
      IF run.pc = "entry" THEN 1 ELSE 0, Len(run.writes),
      CASE run.pc = "unlocked" -> 7
        [] run.pc = "lock"     -> 6
        [] run.pc = "locked"   -> 6 - run.step
        [] run.pc = "project"  -> 1
        [] OTHER               -> 0>>

\* The lexicographic order, which is well-founded on tuples of naturals.
LexLess(a, b) == \E i \in DOMAIN a : a[i] < b[i] /\ \A j \in 1..(i - 1) : a[j] = b[j]

\* Whatever fails, is created or replaced meanwhile, every step of a
\* cycle leaves less of it; and while Run waits for the lock no scrape begins
\* and none starts again.  A cycle can only be slow, never run in circles.
CyclesMoveOn ==
    [][/\ run.pc # "idle" /\ run' # run => LexLess(Left', Left)
       /\ run.pc = "lock" =>
             \A s \in Scrapers : scrape'[s].pc = "reading" =>
                 scrape[s].pc = "reading" /\ scrape[s].sent <= scrape'[s].sent
      ]_vars

\* A cycle that has begun ends: scrapes that overlap without a pause cannot
\* keep Run waiting for the lock.
CyclesEnd == (run.pc # "idle") ~> (run.pc = "idle")

\* Help text of age_pipeline_run_count: "Total pipeline runs."
RunCountIsTotal ==
    kind = "pipelines" =>
        \A l \in Places :
            vec.runs[<<"pipeline", l>>] <= Cardinality(IdsAt({l}))

\* Help text of age_pipeline_status: "Pipeline status (1 = current status
\* matches label, 0 otherwise)."  Of one pipeline, only one status is current.
StatusIsCurrent ==
    kind = "pipelines" =>
        \A l \in Places :
            Cardinality(IdsAt({l})) = 1 =>
                Cardinality({st \in Statuses : <<<<"pipeline", l>>, st>> \in vec.status}) <= 1

\* Weaker than either help text: one of the two is true.
AHelpTextHolds == RunCountIsTotal \/ StatusIsCurrent
=============================================================================
