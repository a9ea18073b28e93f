----------------------- MODULE SnapshotCollectorProofs -----------------------
(***************************************************************************)
(* For any projects, stages and DORA metrics and any number                *)
(* of scrapes: what is published is a complete and fresh cycle, every      *)
(* scrape returns one published snapshot, and none that is older than what *)
(* the scraper has seen.                                                   *)
(***************************************************************************)
EXTENDS SnapshotCollector, SequenceTheorems, TLAPS

\* The cycle being built has visited what is no longer to do of the list it
\* copied, and everything in it was read after it began.
CycleInProgress ==
    run.pc = "visiting" =>
        /\ run.todo \subseteq run.obs.listed
        /\ run.obs.visited = run.obs.listed \ run.todo
        /\ run.obs.since <= world
        /\ \A x \in run.obs.series :
              /\ x[1] \in run.obs.listed
              /\ x[2] \in Families(kind)
              /\ x[3] >= run.obs.since

CallsOf(k) == {Calls(k)[i] : i \in DOMAIN Calls(k)}

\* The calls that are left are for a project still to do.
CallsAreOfAVisit ==
    /\ run.calls # <<>> => run.pc = "visiting"
    /\ run.calls \in Seq(run.todo \X CallsOf(kind))

\* Every family of a snapshot is one that Collect sends.
SentFamilies(snapshot) == \A x \in snapshot.series : x[2] \in Families(kind)

\* A scrape has sent exactly the families of its copy that are not left.
EmissionFollowsCopy ==
    \A s \in Scrapers :
        /\ SentFamilies(scrape[s].copy)
        /\ scrape[s].pc = "emitting" =>
              /\ scrape[s].left \subseteq Families(kind)
              /\ scrape[s].emitted = {x \in scrape[s].copy.series : x[2] \notin scrape[s].left}

CollectorInv ==
    /\ TypeOK
    /\ PublishedCyclesAreComplete
    /\ PublishedValuesAreFresh
    /\ CycleInProgress
    /\ CallsAreOfAVisit
    /\ SentFamilies(observations)
    /\ EmissionFollowsCopy

-----------------------------------------------------------------------------
(* What a call can give                                                    *)

LEMMA StagesCalls ==
  /\ Calls("value_stream") \in Seq({"value streams", "stages"} \cup STRING)
  /\ \A i \in DOMAIN Calls("value_stream") :
        \/ Calls("value_stream")[i] \in {"value streams", "stages"}
        \/ \E j \in DOMAIN Stages : Calls("value_stream")[i] = Stages[j]
<1>. DEFINE two == <<"value streams", "stages">>
            S == {"value streams", "stages"} \cup STRING
<1>1. two \in Seq({"value streams", "stages"}) /\ Len(two) = 2
      /\ two[1] = "value streams" /\ two[2] = "stages"
  OBVIOUS
<1>2. Calls("value_stream") = two \o Stages
  BY DEF Calls
<1>. HIDE DEF two
<1>3. two \in Seq(S) /\ Stages \in Seq(S)
  BY <1>1, SeqMonotonic, CollectorAssumption
<1>. HIDE DEF S
<1>4. /\ Len(two \o Stages) = 2 + Len(Stages) /\ Len(Stages) \in Nat
      /\ two \o Stages \in Seq(S)
      /\ \A i \in 1..(2 + Len(Stages)) :
            (two \o Stages)[i] = IF i <= 2 THEN two[i] ELSE Stages[i - 2]
  <2>1. Len(Stages) \in Nat
    BY <1>3, LenProperties
  <2>2. /\ Len(two \o Stages) = Len(two) + Len(Stages)
        /\ two \o Stages \in Seq(S)
        /\ \A i \in 1..(Len(two) + Len(Stages)) :
              (two \o Stages)[i] = IF i <= Len(two) THEN two[i] ELSE Stages[i - Len(two)]
    BY <1>3, ConcatProperties
  <2>. QED  BY <1>1, <2>1, <2>2
<1>5. /\ DOMAIN (two \o Stages) = 1..(2 + Len(Stages))
      /\ DOMAIN Stages = 1..Len(Stages)
  BY <1>3, <1>4, LenProperties
<1>6. ASSUME NEW i \in 1..(2 + Len(Stages))
      PROVE  \/ (two \o Stages)[i] \in {"value streams", "stages"}
             \/ \E j \in DOMAIN Stages : (two \o Stages)[i] = Stages[j]
  <2>1. CASE i <= 2
    <3>1. i = 1 \/ i = 2
      BY <1>4, <2>1
    <3>. QED  BY <1>1, <1>4, <2>1, <3>1
  <2>2. CASE ~(i <= 2)
    <3>1. i - 2 \in DOMAIN Stages /\ (two \o Stages)[i] = Stages[i - 2]
      BY <1>4, <1>5, <2>2
    <3>. QED  BY <3>1
  <2>. QED  BY <2>1, <2>2
<1>. QED  BY <1>2, <1>4, <1>5, <1>6 DEF S

\* A collector's calls are a sequence.
LEMMA CallsShape ==
  ASSUME NEW k \in AllKinds
  PROVE  /\ CallsOf(k) \subseteq CallNames
         /\ \E n \in Nat : Calls(k) \in [1..n -> CallsOf(k)]
<1>1. CallsOf(k) \subseteq CallNames
  BY DEF CallsOf, CallNames
<1>2. \E S : Calls(k) \in Seq(S)
  <2>1. CASE k = "value_stream"
    BY <2>1, StagesCalls
  <2>2. CASE k = "dora"
    BY <2>2, CollectorAssumption DEF Calls
  <2>3. CASE k = "merge_requests"
    <3>1. <<"merge requests">> \in Seq({"merge requests"})
      OBVIOUS
    <3>. QED  BY <2>3, <3>1 DEF Calls
  <2>4. CASE k = "code_review"
    <3>1. <<"opened", "merged">> \in Seq({"opened", "merged"})
      OBVIOUS
    <3>. QED  BY <2>4, <3>1 DEF Calls
  <2>5. CASE k = "repository"
    <3>1. <<"languages", "statistics", "pipelines", "coverage">>
             \in Seq({"languages", "statistics", "pipelines", "coverage"})
      OBVIOUS
    <3>. QED  BY <2>5, <3>1 DEF Calls
  <2>6. CASE k = "contributors"
    <3>1. <<"contributors">> \in Seq({"contributors"})
      OBVIOUS
    <3>. QED  BY <2>6, <3>1 DEF Calls
  <2>. QED  BY <2>1, <2>2, <2>3, <2>4, <2>5, <2>6 DEF AllKinds
<1>3. PICK S : Calls(k) \in Seq(S)
  BY <1>2
<1>4. /\ Len(Calls(k)) \in Nat /\ Calls(k) \in [1..Len(Calls(k)) -> S]
      /\ DOMAIN Calls(k) = 1..Len(Calls(k))
  BY <1>3, LenProperties
<1>5. \A i \in DOMAIN Calls(k) : Calls(k)[i] \in CallsOf(k)
  BY DEF CallsOf
<1>6. Calls(k) \in [1..Len(Calls(k)) -> CallsOf(k)]
  BY <1>4, <1>5
<1>. QED  BY <1>1, <1>4, <1>6

\* A call fills only families of its collector and counts a number of errors.
LEMMA AnswerShape ==
  ASSUME NEW k \in AllKinds, NEW call \in CallsOf(k), NEW a \in Answers(k, call)
  PROVE  a.families \subseteq Families(k) /\ a.errors \in Nat
<1>. USE DEF Fills, Nothing, Fails, Ends
<1>1. CASE k = "merge_requests"
  <2>1. a \in MergeRequestsAnswers
    BY <1>1 DEF Answers
  <2>2. CASE a \in {Nothing, Fails}
    BY <2>2
  <2>3. CASE a \in {Fills({"histograms", "status"} \cup f) : f \in SUBSET {"throughput"}}
    BY <1>1, <2>3 DEF Families
  <2>. QED  BY <2>1, <2>2, <2>3 DEF MergeRequestsAnswers
<1>2. CASE k = "dora"
  <2>1. a \in {Fills({call}), Nothing, Fails}
    BY <1>2 DEF Answers, DoraAnswers
  <2>2. call \in Families(k)
    BY <1>2 DEF CallsOf, Calls, Families
  <2>. QED  BY <2>1, <2>2
<1>3. CASE k = "value_stream"
  <2>1. a \in ValueStreamAnswers(call) /\ "totals" \in Families(k)
    BY <1>3 DEF Answers, Families
  <2>2. CASE call = "value streams"
    <3>1. a \in {Nothing, Ends(0), Ends(1)}
      BY <2>1, <2>2 DEF ValueStreamAnswers
    <3>. QED  BY <3>1
  <2>4. CASE call = "stages"
    <3>1. a \in {Fills({"totals"}), Ends(1)}
      BY <2>1, <2>4 DEF ValueStreamAnswers
    <3>. QED  BY <2>1, <3>1
  <2>3. CASE call \notin {"value streams", "stages"}
    <3>1. call \in Families(k)
      BY <1>3, <2>3, StagesCalls DEF CallsOf, Families
    <3>2. a \in {Fills({call, "totals"}), Nothing, Fails}
      BY <2>1, <2>3 DEF ValueStreamAnswers
    <3>. QED  BY <2>1, <3>1, <3>2
  <2>. QED  BY <2>2, <2>3, <2>4
<1>4. CASE k = "code_review"
  <2>1. call \in {"opened", "merged"} /\ a \in CodeReviewAnswers(call)
    BY <1>4 DEF Answers, CallsOf, Calls
  <2>2. CASE call = "opened"
    BY <1>4, <2>1, <2>2 DEF CodeReviewAnswers, Families
  <2>3. CASE call = "merged"
    BY <1>4, <2>1, <2>3 DEF CodeReviewAnswers, Families
  <2>. QED  BY <2>1, <2>2, <2>3
<1>5. CASE k = "repository"
  <2>1. /\ call \in {"languages", "statistics", "pipelines", "coverage"}
        /\ a \in RepositoryAnswers(call)
        /\ Families(k) = {"languages", "statistics", "coverage"}
    BY <1>5 DEF Answers, CallsOf, Calls, Families
  <2>. QED  BY <2>1 DEF RepositoryAnswers
<1>6. CASE k = "contributors"
  BY <1>6 DEF Answers, Families, ContributorsAnswers
<1>. QED  BY <1>1, <1>2, <1>3, <1>4, <1>5, <1>6 DEF AllKinds

LEMMA FamiliesInAll == \A k \in AllKinds : Families(k) \subseteq AllFamilies
BY DEF AllFamilies

\* An empty cycle is a snapshot.
LEMMA EmptyShape ==
  ASSUME world \in Nat, NEW n \in Nat, NEW list \in SUBSET Projects
  PROVE  Empty(n, list) \in Snapshots
BY DEF Empty, Snapshots

-----------------------------------------------------------------------------
(* The invariant                                                           *)

LEMMA CollectorInitInv == Init => CollectorInv
<1>. SUFFICES ASSUME Init  PROVE CollectorInv
  OBVIOUS
<1>1. projects \subseteq Projects
  BY CollectorAssumption DEF Init
<1>2. observations \in Snapshots /\ observations.series = {}
      /\ observations.visited = {} /\ observations.listed = {}
  BY DEF Init, Empty, Snapshots
<1>3. TypeOK
  BY <1>1, <1>2, EmptySeq DEF Init, TypeOK, GatedKinds, Scrapes
<1>4. PublishedCyclesAreComplete /\ PublishedValuesAreFresh /\ SentFamilies(observations)
  BY <1>2 DEF PublishedCyclesAreComplete, PublishedValuesAreFresh, SentFamilies
<1>5. CycleInProgress
  BY DEF Init, CycleInProgress
<1>6. EmissionFollowsCopy
  BY <1>2 DEF Init, EmissionFollowsCopy, SentFamilies
<1>7. CallsAreOfAVisit
  BY EmptySeq DEF Init, CallsAreOfAVisit
<1>. QED  BY <1>3, <1>4, <1>5, <1>6, <1>7 DEF CollectorInv

\* Run's steps.
LEMMA RunGatedInv == ASSUME CollectorInv, RunGated  PROVE CollectorInv'
<1>. USE DEF CollectorInv, RunGated
<1>1. observations' \in Snapshots
  BY EmptyShape DEF TypeOK, Snapshots
<1>2. TypeOK'
  BY <1>1 DEF TypeOK
<1>3. (PublishedCyclesAreComplete /\ PublishedValuesAreFresh /\ SentFamilies(observations))'
  BY DEF PublishedCyclesAreComplete, PublishedValuesAreFresh, SentFamilies, Empty
<1>4. CycleInProgress'
  BY DEF CycleInProgress
<1>5. EmissionFollowsCopy'
  BY DEF EmissionFollowsCopy, SentFamilies
<1>6. CallsAreOfAVisit'
  BY DEF CallsAreOfAVisit, CallsOf
<1>. QED  BY <1>2, <1>3, <1>4, <1>5, <1>6

LEMMA RunStartInv == ASSUME CollectorInv, RunStart  PROVE CollectorInv'
<1>. USE DEF CollectorInv, RunStart
<1>1. run'.obs \in Snapshots
  BY EmptyShape DEF TypeOK, Snapshots
<1>2. TypeOK'
  BY <1>1, EmptySeq DEF TypeOK
<1>3. (PublishedCyclesAreComplete /\ PublishedValuesAreFresh /\ SentFamilies(observations))'
  BY DEF PublishedCyclesAreComplete, PublishedValuesAreFresh, SentFamilies
<1>4. CycleInProgress'
  BY DEF CycleInProgress, Empty, TypeOK
<1>5. EmissionFollowsCopy'
  BY DEF EmissionFollowsCopy, SentFamilies
<1>6. CallsAreOfAVisit'
  BY EmptySeq DEF CallsAreOfAVisit, CallsOf
<1>. QED  BY <1>2, <1>3, <1>4, <1>5, <1>6

\* The calls of a project are as many as its collector makes, none answered yet.
LEMMA VisitInv == ASSUME CollectorInv, NEW p \in Projects, Visit(p)  PROVE CollectorInv'
<1>. USE DEF CollectorInv
<1>. DEFINE calls == [i \in DOMAIN Calls(kind) |-> <<p, Calls(kind)[i]>>]
<1>1. /\ run.pc = "visiting" /\ p \in run.todo
      /\ run' = [run EXCEPT !.calls = calls]
      /\ UNCHANGED <<kind, available, projects, observations, ctxDone, scrape, world>>
  BY DEF Visit
<1>2. calls \in Seq(run.todo \X CallsOf(kind)) /\ calls \in Seq(Projects \X CallNames)
  <2>1. kind \in AllKinds
    BY CollectorAssumption DEF TypeOK
  <2>2. PICK n \in Nat : Calls(kind) \in [1..n -> CallsOf(kind)]
    BY <2>1, CallsShape
  <2>3. CallsOf(kind) \subseteq CallNames
    BY <2>1, CallsShape
  <2>4. /\ calls \in [1..n -> run.todo \X CallsOf(kind)]
        /\ calls \in [1..n -> Projects \X CallNames]
    BY <1>1, <2>2, <2>3
  <2>. QED  BY <2>4, SeqDef
<1>. HIDE DEF calls
<1>3. /\ run'.pc = run.pc /\ run'.todo = run.todo /\ run'.obs = run.obs /\ run'.calls = calls
  BY <1>1 DEF TypeOK
<1>4. TypeOK'
  BY <1>1, <1>2 DEF TypeOK
<1>5. (PublishedCyclesAreComplete /\ PublishedValuesAreFresh /\ SentFamilies(observations))'
  BY <1>1 DEF PublishedCyclesAreComplete, PublishedValuesAreFresh, SentFamilies
<1>6. CycleInProgress'
  BY <1>1, <1>3 DEF CycleInProgress
<1>7. CallsAreOfAVisit'
  BY <1>1, <1>2, <1>3 DEF CallsAreOfAVisit, CallsOf
<1>8. EmissionFollowsCopy'
  BY <1>1 DEF EmissionFollowsCopy, SentFamilies
<1>. QED  BY <1>4, <1>5, <1>6, <1>7, <1>8

\* What EXCEPT makes of observations and of a run.
LEMMA ObsWith ==
  ASSUME NEW o \in Snapshots, NEW more, NEW n,
         NEW u, u = [o EXCEPT !.series = @ \cup more, !.errors = @ + n]
  PROVE  u = [cycle |-> o.cycle, series |-> o.series \cup more, errors |-> o.errors + n,
              listed |-> o.listed, visited |-> o.visited, since |-> o.since]
<1>1. /\ u.cycle = o.cycle /\ u.series = o.series \cup more /\ u.errors = o.errors + n
      /\ u.listed = o.listed /\ u.visited = o.visited /\ u.since = o.since
  BY DEF Snapshots
<1>2. u = [f \in {"cycle", "series", "errors", "listed", "visited", "since"} |-> u[f]]
  BY DEF Snapshots
<1>. QED  BY <1>1, <1>2

LEMMA ObsVisited ==
  ASSUME NEW o \in Snapshots, NEW p
  PROVE  [o EXCEPT !.visited = @ \cup {p}] =
            [cycle |-> o.cycle, series |-> o.series, errors |-> o.errors,
             listed |-> o.listed, visited |-> o.visited \cup {p}, since |-> o.since]
BY DEF Snapshots

Runs ==
    [pc : {"idle", "visiting"}, todo : SUBSET Projects, calls : Seq(Projects \X CallNames),
     obs : Snapshots]

LEMMA RunWith ==
  ASSUME NEW r \in Runs, NEW list, NEW calls, NEW o
  PROVE  [r EXCEPT !.todo = list, !.calls = calls, !.obs = o] =
            [pc |-> r.pc, todo |-> list, calls |-> calls, obs |-> o]
<1>. DEFINE u == [r EXCEPT !.todo = list, !.calls = calls, !.obs = o]
<1>1. u.pc = r.pc /\ u.todo = list /\ u.calls = calls /\ u.obs = o
  BY DEF Runs
<1>2. u = [f \in {"pc", "todo", "calls", "obs"} |-> u[f]]
  BY DEF Runs
<1>. HIDE DEF u
<1>3. u = [pc |-> r.pc, todo |-> list, calls |-> calls, obs |-> o]
  BY <1>1, <1>2
<1>. QED  BY <1>3 DEF u

\* What an answer to a call of the visit to p does: it adds values of some
\* families, and p is done with it or not.
Yields(p, families, done) ==
    /\ run'.obs \in Snapshots
    /\ run'.obs.since = run.obs.since /\ run'.obs.listed = run.obs.listed
    /\ run'.obs.series = run.obs.series \cup {<<p, f, world>> : f \in families}
    /\ run'.obs.visited = IF done THEN run.obs.visited \cup {p} ELSE run.obs.visited
    /\ run'.todo = IF done THEN run.todo \ {p} ELSE run.todo
    /\ run'.calls = IF done THEN <<>> ELSE Tail(run.calls)
    /\ run'.pc = run.pc
    /\ run' = [pc |-> run'.pc, todo |-> run'.todo, calls |-> run'.calls, obs |-> run'.obs]

LEMMA FetchShape ==
  ASSUME CollectorInv, Fetch
  PROVE  \E p \in run.todo, families \in SUBSET Families(kind), done \in BOOLEAN :
            Yields(p, families, done)
<1>. USE DEF CollectorInv
<1>. DEFINE p == Head(run.calls)[1]
            call == Head(run.calls)[2]
<1>1. PICK a \in Answers(kind, call) : run' = After(p, a)
  BY DEF Fetch
<1>2. p \in run.todo /\ call \in CallsOf(kind)
  <2>1. Head(run.calls) \in run.todo \X CallsOf(kind)
    BY HeadTailProperties DEF Fetch, CallsAreOfAVisit
  <2>. QED  BY <2>1
<1>3. kind \in AllKinds /\ run.todo \subseteq Projects
  BY CollectorAssumption DEF TypeOK
<1>. HIDE DEF p, call
<1>4. a.families \subseteq Families(kind) /\ a.errors \in Nat
  BY <1>1, <1>2, <1>3, AnswerShape
<1>. DEFINE done == Len(run.calls) = 1 \/ a.ends
            added == {<<p, f, world>> : f \in a.families}
            obs == [run.obs EXCEPT !.series = @ \cup added, !.errors = @ + a.errors]
            all == [obs EXCEPT !.visited = @ \cup {p}]
<1>5. /\ done  => run' = [pc |-> run.pc, todo |-> run.todo \ {p}, calls |-> <<>>, obs |-> all]
      /\ ~done => run' = [pc |-> run.pc, todo |-> run.todo, calls |-> Tail(run.calls),
                         obs |-> obs]
  <2>1. /\ done  => run' = [run EXCEPT !.todo = @ \ {p}, !.calls = <<>>, !.obs = all]
        /\ ~done => run' = [run EXCEPT !.calls = Tail(@), !.obs = obs]
    BY <1>1, Zenon DEF After
  <2>2. run \in Runs
    BY DEF TypeOK, Runs
  <2>. HIDE DEF done, added, obs, all
  <2>3. run' = [run EXCEPT !.todo = run.todo \ {p}, !.calls = <<>>, !.obs = all] =>
           run' = [pc |-> run.pc, todo |-> run.todo \ {p}, calls |-> <<>>, obs |-> all]
    BY <2>2, RunWith, Zenon
  <2>4. run' = [run EXCEPT !.calls = Tail(run.calls), !.obs = obs] =>
           run' = [run EXCEPT !.todo = run.todo, !.calls = Tail(run.calls), !.obs = obs]
    BY <2>2 DEF Runs
  <2>5. run' = [run EXCEPT !.todo = run.todo, !.calls = Tail(run.calls), !.obs = obs] =>
           run' = [pc |-> run.pc, todo |-> run.todo, calls |-> Tail(run.calls), obs |-> obs]
    BY <2>2, RunWith, Zenon
  <2>. QED  BY <2>1, <2>3, <2>4, <2>5
<1>6. added \subseteq Series
  BY <1>2, <1>3, <1>4, FamiliesInAll DEF Series, TypeOK
<1>. HIDE DEF done, added
<1>7. /\ obs \in Snapshots /\ obs.series = run.obs.series \cup added
      /\ obs.since = run.obs.since /\ obs.listed = run.obs.listed
      /\ obs.visited = run.obs.visited
  <2>1. run.obs \in Snapshots
    BY DEF TypeOK
  <2>2. obs = [cycle |-> run.obs.cycle, series |-> run.obs.series \cup added,
               errors |-> run.obs.errors + a.errors, listed |-> run.obs.listed,
               visited |-> run.obs.visited, since |-> run.obs.since]
    BY <2>1, ObsWith
  <2>. HIDE DEF obs
  <2>. QED  BY <1>4, <1>6, <2>1, <2>2 DEF Snapshots
<1>. HIDE DEF obs
<1>8. /\ all \in Snapshots /\ all.series = obs.series
      /\ all.since = obs.since /\ all.listed = obs.listed
      /\ all.visited = obs.visited \cup {p}
  <2>1. all = [cycle |-> obs.cycle, series |-> obs.series, errors |-> obs.errors,
               listed |-> obs.listed, visited |-> obs.visited \cup {p}, since |-> obs.since]
    BY <1>7, ObsVisited, Zenon
  <2>. HIDE DEF all
  <2>. QED  BY <1>2, <1>3, <1>7, <2>1 DEF Snapshots
<1>. HIDE DEF all
<1>9. CASE done
  <2>1. Yields(p, a.families, TRUE)
    BY <1>5, <1>7, <1>8, <1>9 DEF added, Yields
  <2>. QED  BY <1>2, <1>4, <2>1
<1>10. CASE ~done
  <2>1. Yields(p, a.families, FALSE)
    BY <1>5, <1>7, <1>10 DEF added, Yields
  <2>. QED  BY <1>2, <1>4, <2>1
<1>. QED  BY <1>9, <1>10

LEMMA FetchInv == ASSUME CollectorInv, Fetch  PROVE CollectorInv'
<1>. USE DEF CollectorInv
<1>1. PICK p \in run.todo, families \in SUBSET Families(kind), done \in BOOLEAN :
         Yields(p, families, done)
  BY FetchShape
<1>2. /\ run.calls # <<>> /\ run.pc = "visiting"
      /\ UNCHANGED <<kind, available, projects, observations, ctxDone, scrape, world>>
  BY DEF Fetch, CallsAreOfAVisit
<1>3. /\ Tail(run.calls) \in Seq(Projects \X CallNames)
      /\ Tail(run.calls) \in Seq(run.todo \X CallsOf(kind))
  BY <1>2, HeadTailProperties DEF TypeOK, CallsAreOfAVisit
<1>4. TypeOK'
  <2>1. run'.calls \in Seq(Projects \X CallNames)
    BY <1>1, <1>3, EmptySeq DEF Yields
  <2>2. run'.todo \subseteq Projects /\ run'.pc \in {"idle", "visiting"}
    BY <1>1 DEF TypeOK, Yields
  <2>3. run' \in Runs
    BY <1>1, <2>1, <2>2 DEF Yields, Runs
  <2>. QED  BY <1>2, <2>3 DEF TypeOK, Runs
<1>5. (PublishedCyclesAreComplete /\ PublishedValuesAreFresh /\ SentFamilies(observations))'
  BY <1>2 DEF PublishedCyclesAreComplete, PublishedValuesAreFresh, SentFamilies
<1>6. CycleInProgress'
  <2>1. /\ run.todo \subseteq run.obs.listed
        /\ run.obs.visited = run.obs.listed \ run.todo
        /\ run.obs.since <= world
        /\ \A x \in run.obs.series :
              x[1] \in run.obs.listed /\ x[2] \in Families(kind) /\ x[3] >= run.obs.since
    BY <1>2 DEF CycleInProgress
  <2>2. Families(kind)' = Families(kind)
    BY <1>2 DEF Families
  <2>3. \A x \in {<<p, f, world>> : f \in families} :
           x[1] = p /\ x[2] \in Families(kind) /\ x[3] = world
    OBVIOUS
  <2>4. \A x \in run'.obs.series :
           /\ x[1] \in run'.obs.listed
           /\ x[2] \in Families(kind)'
           /\ x[3] >= run'.obs.since
    <3>1. world \in Nat /\ run.obs.since \in Nat
      BY DEF TypeOK, Snapshots
    <3>. QED  BY <1>1, <2>1, <2>2, <2>3, <3>1 DEF Yields
  <2>. QED  BY <1>1, <1>2, <2>1, <2>4 DEF CycleInProgress, Yields
<1>7. CallsAreOfAVisit'
  <2>1. CallsOf(kind)' = CallsOf(kind)
    BY <1>2 DEF CallsOf, Calls
  <2>2. run'.calls \in Seq(run'.todo \X CallsOf(kind))
    BY <1>1, <1>3, EmptySeq DEF Yields
  <2>. QED  BY <1>1, <1>2, <2>1, <2>2 DEF CallsAreOfAVisit, Yields
<1>8. EmissionFollowsCopy'
  BY <1>2 DEF EmissionFollowsCopy, SentFamilies
<1>. QED  BY <1>4, <1>5, <1>6, <1>7, <1>8

LEMMA AbortInv == ASSUME CollectorInv, Abort  PROVE CollectorInv'
<1>. USE DEF CollectorInv, Abort
<1>1. TypeOK'
  BY DEF TypeOK
<1>2. CallsAreOfAVisit'
  BY EmptySeq DEF CallsAreOfAVisit, CallsOf, TypeOK
<1>. QED
  BY <1>1, <1>2 DEF TypeOK, PublishedCyclesAreComplete, PublishedValuesAreFresh,
     SentFamilies, CycleInProgress, EmissionFollowsCopy

\* The loop is over: visited is the whole list.
LEMMA PublishInv == ASSUME CollectorInv, Publish  PROVE CollectorInv'
<1>. USE DEF CollectorInv, Publish
<1>1. TypeOK'
  BY DEF TypeOK
<1>2. (PublishedCyclesAreComplete /\ PublishedValuesAreFresh /\ SentFamilies(observations))'
  <2>1. /\ run.obs.visited = run.obs.listed
        /\ \A x \in run.obs.series :
              /\ x[1] \in run.obs.listed
              /\ x[2] \in Families(kind)
              /\ x[3] >= run.obs.since
    BY DEF CycleInProgress
  <2>2. observations' = run.obs /\ kind' = kind
    OBVIOUS
  <2>3. Families(kind)' = Families(kind)
    BY <2>2 DEF Families
  <2>. QED
    BY <2>1, <2>2, <2>3
       DEF PublishedCyclesAreComplete, PublishedValuesAreFresh, SentFamilies
<1>3. CycleInProgress'
  BY DEF CycleInProgress, TypeOK
<1>4. EmissionFollowsCopy'
  BY DEF EmissionFollowsCopy, SentFamilies
<1>5. CallsAreOfAVisit'
  <2>1. run.calls = <<>>
    <3>1. CASE run.calls # <<>>
      <4>1. Head(run.calls) \in run.todo \X CallsOf(kind)
        BY <3>1, HeadTailProperties DEF CallsAreOfAVisit
      <4>. QED  BY <4>1
    <3>. QED  BY <3>1
  <2>. QED  BY <2>1, EmptySeq DEF CallsAreOfAVisit, TypeOK
<1>. QED  BY <1>1, <1>2, <1>3, <1>4, <1>5

\* Collect's steps: what is emitted is the copy's, family by family.
LEMMA CollectCopyInv ==
  ASSUME CollectorInv, NEW s \in Scrapers, CollectCopy(s)  PROVE CollectorInv'
<1>. USE DEF CollectorInv, CollectCopy
<1>1. kind \in AllKinds /\ Families(kind) \subseteq AllFamilies
  BY CollectorAssumption, FamiliesInAll DEF TypeOK
<1>2. TypeOK'
  <2>1. scrape[s] \in Scrapes /\ observations \in Snapshots
    BY DEF TypeOK
  <2>. DEFINE begun == [scrape[s] EXCEPT !.pc = "emitting", !.copy = observations,
                                         !.left = Families(kind), !.emitted = {}]
  <2>2. begun \in Scrapes
    BY <1>1, <2>1 DEF Scrapes
  <2>3. scrape' = [scrape EXCEPT ![s] = begun]
    BY <2>1 DEF TypeOK, Scrapes
  <2>4. scrape' \in [Scrapers -> Scrapes]
    BY <2>2, <2>3 DEF TypeOK
  <2>. QED  BY <2>4 DEF TypeOK
<1>3. (PublishedCyclesAreComplete /\ PublishedValuesAreFresh /\ SentFamilies(observations))'
  BY DEF PublishedCyclesAreComplete, PublishedValuesAreFresh, SentFamilies
<1>4. CycleInProgress'
  BY DEF CycleInProgress
<1>5. EmissionFollowsCopy'
  BY DEF EmissionFollowsCopy, SentFamilies, TypeOK, Scrapes
<1>6. CallsAreOfAVisit'
  BY DEF CallsAreOfAVisit, CallsOf
<1>. QED  BY <1>2, <1>3, <1>4, <1>5, <1>6

LEMMA CollectEmitInv ==
  ASSUME CollectorInv, NEW s \in Scrapers, CollectEmit(s)  PROVE CollectorInv'
<1>. USE DEF CollectorInv
<1>1. PICK f \in scrape[s].left :
         scrape' = [scrape EXCEPT ![s].left = @ \ {f},
                                  ![s].emitted = @ \cup OfFamily(scrape[s].copy.series, f)]
  BY DEF CollectEmit
<1>2. UNCHANGED <<kind, available, projects, observations, run, ctxDone, world>>
  BY DEF CollectEmit
<1>3. OfFamily(scrape[s].copy.series, f) \subseteq Series
  BY DEF OfFamily, TypeOK, Snapshots, Scrapes
<1>4. TypeOK'
  <2>1. scrape[s] \in Scrapes
    BY DEF TypeOK
  <2>. DEFINE sent == [scrape[s] EXCEPT !.left = @ \ {f},
                                        !.emitted = @ \cup OfFamily(scrape[s].copy.series, f)]
  <2>2. sent \in Scrapes
    BY <1>3, <2>1 DEF Scrapes
  <2>3. scrape' = [scrape EXCEPT ![s] = sent]
    BY <1>1, <2>1 DEF TypeOK, Scrapes
  <2>4. scrape' \in [Scrapers -> Scrapes]
    BY <2>2, <2>3 DEF TypeOK
  <2>. QED  BY <1>2, <2>4 DEF TypeOK
<1>5. (PublishedCyclesAreComplete /\ PublishedValuesAreFresh /\ SentFamilies(observations))'
  BY <1>2 DEF PublishedCyclesAreComplete, PublishedValuesAreFresh, SentFamilies
<1>6. CycleInProgress'
  BY <1>2 DEF CycleInProgress
<1>7. EmissionFollowsCopy'
  BY <1>1, <1>2 DEF EmissionFollowsCopy, SentFamilies, OfFamily, TypeOK, Scrapes, CollectEmit
<1>8. CallsAreOfAVisit'
  BY <1>2 DEF CallsAreOfAVisit, CallsOf
<1>. QED  BY <1>4, <1>5, <1>6, <1>7, <1>8

LEMMA ScrapeTypes ==
  ASSUME CollectorInv
  PROVE  /\ observations \in Snapshots /\ world \in Nat
         /\ scrape \in [Scrapers -> Scrapes]
         /\ \A s \in Scrapers : /\ scrape[s] \in Scrapes /\ scrape[s].copy \in Snapshots
                               /\ scrape[s].result \in Snapshots
BY DEF CollectorInv, TypeOK, Scrapes

\* When no family is left, the whole copy has been sent.
LEMMA EmittedIsCopy ==
  ASSUME CollectorInv, NEW s \in Scrapers, scrape[s].pc = "emitting", scrape[s].left = {}
  PROVE  [scrape[s].copy EXCEPT !.series = scrape[s].emitted] = scrape[s].copy
BY DEF CollectorInv, EmissionFollowsCopy, TypeOK, Snapshots, Scrapes

LEMMA CollectReturnInv ==
  ASSUME CollectorInv, NEW s \in Scrapers, CollectReturn(s)  PROVE CollectorInv'
<1>. USE DEF CollectorInv, CollectReturn
<1>1. scrape' = [scrape EXCEPT ![s].pc = "idle", ![s].result = scrape[s].copy]
  BY EmittedIsCopy
<1>2. TypeOK'
  <2>1. scrape[s] \in Scrapes
    BY DEF TypeOK
  <2>. DEFINE returned == [scrape[s] EXCEPT !.pc = "idle", !.result = scrape[s].copy]
  <2>2. returned \in Scrapes
    BY <2>1 DEF Scrapes
  <2>3. scrape' = [scrape EXCEPT ![s] = returned]
    BY <1>1, <2>1 DEF TypeOK, Scrapes
  <2>4. scrape' \in [Scrapers -> Scrapes]
    BY <2>2, <2>3 DEF TypeOK
  <2>. QED  BY <2>4 DEF TypeOK
<1>3. (PublishedCyclesAreComplete /\ PublishedValuesAreFresh /\ SentFamilies(observations))'
  BY DEF PublishedCyclesAreComplete, PublishedValuesAreFresh, SentFamilies
<1>4. CycleInProgress'
  BY DEF CycleInProgress
<1>5. EmissionFollowsCopy'
  BY <1>1 DEF EmissionFollowsCopy, SentFamilies, TypeOK, Scrapes
<1>6. CallsAreOfAVisit'
  BY DEF CallsAreOfAVisit, CallsOf
<1>. QED  BY <1>2, <1>3, <1>4, <1>5, <1>6

\* The steps of the environment and of SetProjects.
LEMMA OtherStepsInv ==
  ASSUME CollectorInv,
         \/ \E list \in Lists[kind] : SetProjects(list)
         \/ WorldChanges
         \/ Cancel
         \/ UNCHANGED vars
  PROVE  CollectorInv'
<1>. USE DEF CollectorInv
<1>1. ASSUME NEW list \in Lists[kind], SetProjects(list)  PROVE CollectorInv'
  <2>1. list \subseteq Projects
    BY CollectorAssumption DEF TypeOK
  <2>. QED
    BY <1>1, <2>1 DEF SetProjects, TypeOK, PublishedCyclesAreComplete,
       PublishedValuesAreFresh, SentFamilies, CycleInProgress, EmissionFollowsCopy,
       CallsAreOfAVisit, CallsOf
<1>2. CASE WorldChanges
  <2>1. world \in Nat /\ world' = world + 1
        /\ UNCHANGED <<kind, available, projects, observations, run, ctxDone, scrape>>
    BY <1>2 DEF WorldChanges, TypeOK
  <2>2. TypeOK'
    BY <2>1 DEF TypeOK
  <2>3. CycleInProgress'
    <3>1. run.obs.since \in Nat
      BY DEF TypeOK, Snapshots
    <3>. QED  BY <2>1, <3>1 DEF CycleInProgress
  <2>. QED
    BY <2>1, <2>2, <2>3 DEF PublishedCyclesAreComplete,
       PublishedValuesAreFresh, SentFamilies, EmissionFollowsCopy,
       CallsAreOfAVisit, CallsOf
<1>3. CASE Cancel \/ UNCHANGED vars
  <2>1. /\ UNCHANGED <<kind, available, projects, observations, run, scrape, world>>
        /\ ctxDone' \in BOOLEAN
    BY <1>3 DEF Cancel, vars, TypeOK
  <2>2. TypeOK'
    BY <2>1 DEF TypeOK
  <2>. QED
    BY <2>1, <2>2 DEF PublishedCyclesAreComplete, PublishedValuesAreFresh, SentFamilies,
       CycleInProgress, EmissionFollowsCopy, CallsAreOfAVisit, CallsOf
<1>. QED  BY <1>1, <1>2, <1>3

LEMMA CollectorStep == CollectorInv /\ [Next]_vars => CollectorInv'
BY RunGatedInv, RunStartInv, VisitInv, FetchInv, AbortInv, PublishInv, CollectCopyInv,
   CollectEmitInv, CollectReturnInv, OtherStepsInv DEF Next

THEOREM CollectorSafe == Spec => []CollectorInv
BY CollectorInitInv, CollectorStep, PTL DEF Spec

\* Variables keep their types: every snapshot holds only families of its
\* collector and a natural number of errors.
THEOREM CollectorTypes == Spec => []TypeOK
BY CollectorSafe, PTL DEF CollectorInv

\* A cancelled cycle is never published, a published one visited its list.
THEOREM PublishedComplete == Spec => []PublishedCyclesAreComplete
BY CollectorSafe, PTL DEF CollectorInv

\* No value of an earlier cycle survives in a published one.
THEOREM PublishedFresh == Spec => []PublishedValuesAreFresh
BY CollectorSafe, PTL DEF CollectorInv

-----------------------------------------------------------------------------
(* A scrape returns one published snapshot                                 *)

LEMMA ScrapeStep ==
  CollectorInv /\ CollectorInv' /\ [Next]_vars => [Store!StoreNext]_(Store!storeVars)
<1>. SUFFICES ASSUME CollectorInv, CollectorInv', [Next]_vars
              PROVE  [Store!StoreNext]_(Store!storeVars)
  OBVIOUS
<1>. USE DEF Store!storeVars, Copies, Results
<1>1. CASE RunGated \/ Publish
  <2>1. observations' \in Snapshots /\ scrape' = scrape
    BY <1>1 DEF CollectorInv, TypeOK, RunGated, Publish
  <2>. QED  BY <2>1 DEF Store!StoreNext, Store!Replace
<1>2. ASSUME NEW s \in Scrapers, CollectCopy(s)
      PROVE  [Store!StoreNext]_(Store!storeVars)
  <2>1. Copies' = [Copies EXCEPT ![s] = observations]
    BY <1>2, ScrapeTypes DEF CollectCopy, Scrapes
  <2>2. Results' = Results
    BY <1>2, ScrapeTypes DEF CollectCopy, Scrapes
  <2>3. observations' = observations
    BY <1>2 DEF CollectCopy
  <2>. QED  BY <2>1, <2>2, <2>3 DEF Store!StoreNext, Store!Observe
<1>3. ASSUME NEW s \in Scrapers, CollectEmit(s)
      PROVE  UNCHANGED Store!storeVars
  <2>1. \A u \in Scrapers :
           scrape'[u].copy = scrape[u].copy /\ scrape'[u].result = scrape[u].result
    BY <1>3, ScrapeTypes DEF CollectEmit, Scrapes
  <2>2. observations' = observations
    BY <1>3 DEF CollectEmit
  <2>. QED  BY <2>1, <2>2
<1>4. ASSUME NEW s \in Scrapers, CollectReturn(s)
      PROVE  [Store!StoreNext]_(Store!storeVars)
  <2>1. scrape' = [scrape EXCEPT ![s].pc = "idle", ![s].result = scrape[s].copy]
    BY <1>4, EmittedIsCopy DEF CollectReturn
  <2>2. Results' = [Results EXCEPT ![s] = Copies[s]]
    BY <2>1, ScrapeTypes DEF Scrapes
  <2>3. Copies' = Copies
    BY <2>1, ScrapeTypes DEF Scrapes
  <2>4. observations' = observations
    BY <1>4 DEF CollectReturn
  <2>. QED  BY <2>2, <2>3, <2>4 DEF Store!StoreNext, Store!Answer
<1>5. CASE \/ RunStart
           \/ \E p \in Projects : Visit(p)
           \/ Fetch
           \/ Abort
           \/ \E list \in Lists[kind] : SetProjects(list)
           \/ WorldChanges
           \/ Cancel
           \/ UNCHANGED vars
  BY <1>5 DEF RunStart, Visit, Fetch, Abort, SetProjects, WorldChanges, Cancel, vars
<1>. QED  BY <1>1, <1>2, <1>3, <1>4, <1>5 DEF Next

LEMMA ScrapeInit ==
  Init => /\ observations \in Snapshots
          /\ Copies = [s \in Scrapers |-> observations]
          /\ Results = [s \in Scrapers |-> observations]
<1>. SUFFICES ASSUME Init
              PROVE  /\ observations \in Snapshots
                     /\ Copies = [s \in Scrapers |-> observations]
                     /\ Results = [s \in Scrapers |-> observations]
  OBVIOUS
<1>1. observations \in Snapshots
  BY CollectorInitInv DEF CollectorInv, TypeOK
<1>2. \A s \in Scrapers : scrape[s].copy = observations /\ scrape[s].result = observations
  BY DEF Init
<1>. QED  BY <1>1, <1>2 DEF Copies, Results

\* A scrape returns exactly one published snapshot, whatever Run swaps in
\* while it emits.
THEOREM ScrapesAreAtomic == Spec => ScrapeIsOneSnapshot
BY ScrapeInit, CollectorSafe, ScrapeStep, PTL
   DEF Spec, ScrapeIsOneSnapshot, Store!StoreSpec

-----------------------------------------------------------------------------
(* No answer is older than the one before it                               *)

\* No value is older than its cycle.
Dated(snapshot) == \A x \in snapshot.series : x[3] >= snapshot.since

\* All of a was read before b began.
Before(a, b) == a.since <= b.since /\ \A x \in a.series : x[3] <= b.since

Precedes(a, b) == a = b \/ Before(a, b)

\* What a scrape has returned, what it is sending, what is published and what
\* the cycle in progress gathers follow each other.
AgeInv ==
    /\ Dated(observations) /\ Dated(run.obs)
    /\ observations.since <= world /\ \A x \in observations.series : x[3] <= world
    /\ run.pc = "visiting" =>
          /\ Before(observations, run.obs)
          /\ run.obs.since <= world /\ \A x \in run.obs.series : x[3] <= world
    /\ \A s \in Scrapers :
          /\ Dated(scrape[s].copy) /\ Dated(scrape[s].result)
          /\ Precedes(scrape[s].result, observations)
          /\ scrape[s].pc = "emitting" =>
                /\ Precedes(scrape[s].result, scrape[s].copy)
                /\ Precedes(scrape[s].copy, observations)

LEMMA SnapshotShape ==
  ASSUME NEW a \in Snapshots
  PROVE  /\ a.since \in Nat
         /\ \A x \in a.series : x[3] \in Nat
BY DEF Snapshots, Series

LEMMA BeforeTransitive ==
  ASSUME NEW a \in Snapshots, NEW b \in Snapshots, NEW c \in Snapshots,
         Precedes(a, b), Before(b, c)
  PROVE  Before(a, c)
<1>1. CASE a = b
  BY <1>1
<1>2. CASE Before(a, b)
  BY <1>2, SnapshotShape DEF Before
<1>. QED  BY <1>1, <1>2 DEF Precedes

LEMMA BeforeNotOlder ==
  ASSUME NEW a \in Snapshots, NEW b \in Snapshots, Dated(b), Before(a, b),
         NEW x \in a.series, NEW y \in b.series
  PROVE  x[3] <= y[3]
<1>1. /\ a.since \in Nat /\ b.since \in Nat /\ x[3] \in Nat /\ y[3] \in Nat
  BY SnapshotShape
<1>. QED  BY <1>1 DEF Before, Dated

LEMMA AgeTypes ==
  ASSUME CollectorInv
  PROVE  run \in Runs /\ run.obs \in Snapshots
BY DEF CollectorInv, TypeOK, Runs

LEMMA AgeInitInv == Init => AgeInv
<1>. SUFFICES ASSUME Init  PROVE AgeInv
  OBVIOUS
<1>1. /\ observations.series = {} /\ observations.since = 0 /\ world = 0
      /\ run.pc = "idle" /\ run.obs = observations
      /\ \A s \in Scrapers : /\ scrape[s].copy = observations /\ scrape[s].result = observations
                            /\ scrape[s].pc = "idle"
  BY DEF Init, Empty
<1>. QED  BY <1>1 DEF AgeInv, Dated, Precedes

\* An empty cycle that begins now comes after all there is.
LEMMA EmptyAfter ==
  ASSUME CollectorInv, AgeInv, NEW n, NEW list
  PROVE  /\ Dated(Empty(n, list)) /\ Before(observations, Empty(n, list))
         /\ Empty(n, list).series = {} /\ Empty(n, list).since = world
BY DEF AgeInv, Dated, Before, Empty

\* What is published next comes after all that scrapes have copied.
LEMMA AgeSwap ==
  ASSUME CollectorInv, AgeInv, NEW next \in Snapshots, Before(observations, next),
         NEW s \in Scrapers
  PROVE  /\ Precedes(scrape[s].result, next)
         /\ scrape[s].pc = "emitting" => Precedes(scrape[s].copy, next)
<1>1. Before(scrape[s].result, next)
  BY ScrapeTypes, BeforeTransitive DEF AgeInv
<1>2. scrape[s].pc = "emitting" => Before(scrape[s].copy, next)
  BY ScrapeTypes, BeforeTransitive DEF AgeInv
<1>. QED  BY <1>1, <1>2 DEF Precedes

LEMMA AgeFetch == ASSUME CollectorInv, AgeInv, Fetch  PROVE AgeInv'
<1>1. PICK p \in run.todo, families \in SUBSET Families(kind), done \in BOOLEAN :
         Yields(p, families, done)
  BY FetchShape
<1>. DEFINE added == {<<p, f, world>> : f \in families}
<1>2. \A x \in added : x[3] = world
  OBVIOUS
<1>. HIDE DEF added
<1>3. run.pc = "visiting" /\ UNCHANGED <<observations, scrape, world>>
  BY DEF Fetch, CollectorInv, CallsAreOfAVisit
<1>4. /\ Dated(run.obs) /\ Before(observations, run.obs)
      /\ run.obs.since <= world /\ \A x \in run.obs.series : x[3] <= world
  BY <1>3 DEF AgeInv
<1>5. run.obs.since \in Nat /\ world \in Nat
  BY AgeTypes, ScrapeTypes, SnapshotShape
<1>6. /\ run'.obs.series = run.obs.series \cup added
      /\ run'.obs.since = run.obs.since
  BY <1>1 DEF added, Yields
<1>7. Dated(run'.obs) /\ Before(observations, run'.obs)
  BY <1>2, <1>4, <1>5, <1>6 DEF Dated, Before
<1>8. /\ run'.obs.since <= world
      /\ \A x \in run'.obs.series : x[3] <= world
  BY <1>2, <1>4, <1>5, <1>6
<1>9. run'.pc = run.pc
  BY <1>1 DEF Yields
<1>. QED  BY <1>3, <1>7, <1>8, <1>9 DEF AgeInv, Dated, Before, Precedes

\* One step, action by action.
LEMMA AgeStep == CollectorInv /\ CollectorInv' /\ AgeInv /\ [Next]_vars => AgeInv'
<1>. SUFFICES ASSUME CollectorInv, CollectorInv', AgeInv, [Next]_vars  PROVE AgeInv'
  OBVIOUS
<1>1. CASE RunGated
  <2>1. /\ run.pc = "idle" /\ observations' = Empty(observations.cycle + 1, {})
        /\ UNCHANGED <<run, scrape, world>>
    BY <1>1 DEF RunGated
  <2>2. observations' \in Snapshots
    BY <2>1, EmptyShape, AgeTypes, ScrapeTypes DEF Snapshots
  <2>3. /\ Dated(observations') /\ Before(observations, observations')
        /\ observations'.series = {} /\ observations'.since = world
    BY <2>1, EmptyAfter
  <2>4. \A s \in Scrapers :
           /\ Precedes(scrape[s].result, observations')
           /\ scrape[s].pc = "emitting" => Precedes(scrape[s].copy, observations')
    BY <2>2, <2>3, AgeSwap
  <2>. QED  BY <2>1, <2>3, <2>4, AgeTypes, ScrapeTypes DEF AgeInv, Dated, Before, Precedes
<1>2. CASE RunStart
  <2>1. /\ run'.obs = Empty(observations.cycle + 1, projects)
        /\ UNCHANGED <<observations, scrape, world>>
    BY <1>2 DEF RunStart
  <2>2. /\ Dated(run'.obs) /\ Before(observations, run'.obs)
        /\ run'.obs.series = {} /\ run'.obs.since = world
    BY <2>1, EmptyAfter
  <2>. QED  BY <2>1, <2>2, AgeTypes, ScrapeTypes DEF AgeInv, Dated, Before, Precedes
<1>3. CASE Fetch
  BY <1>3, AgeFetch
<1>4. CASE Abort
  <2>1. run'.obs = run.obs /\ run'.pc = "idle" /\ UNCHANGED <<observations, scrape, world>>
    BY <1>4, AgeTypes DEF Abort, Runs
  <2>. QED  BY <2>1 DEF AgeInv, Dated, Before, Precedes
<1>5. CASE Publish
  <2>1. /\ run.pc = "visiting" /\ observations' = run.obs /\ run'.obs = run.obs /\ run'.pc = "idle"
        /\ UNCHANGED <<scrape, world>>
    BY <1>5, AgeTypes DEF Publish, Runs
  <2>2. /\ Dated(run.obs) /\ Before(observations, run.obs) /\ run.obs \in Snapshots
        /\ run.obs.since <= world /\ \A x \in run.obs.series : x[3] <= world
    BY <2>1, AgeTypes, ScrapeTypes DEF AgeInv
  <2>3. \A s \in Scrapers :
           /\ Precedes(scrape[s].result, run.obs)
           /\ scrape[s].pc = "emitting" => Precedes(scrape[s].copy, run.obs)
    BY <2>2, AgeSwap
  <2>. QED  BY <2>1, <2>2, <2>3 DEF AgeInv, Dated, Before, Precedes
<1>6. ASSUME NEW s \in Scrapers, CollectCopy(s)  PROVE AgeInv'
  <2>1. /\ UNCHANGED <<observations, run, world>>
        /\ scrape'[s].copy = observations /\ scrape'[s].result = scrape[s].result
        /\ \A u \in Scrapers \ {s} : scrape'[u] = scrape[u]
    BY <1>6, ScrapeTypes DEF CollectCopy, Scrapes
  <2>. QED  BY <2>1 DEF AgeInv, Dated, Before, Precedes
<1>7. ASSUME NEW s \in Scrapers, CollectEmit(s)  PROVE AgeInv'
  <2>1. /\ UNCHANGED <<observations, run, world>>
        /\ \A u \in Scrapers : /\ scrape'[u].copy = scrape[u].copy
                              /\ scrape'[u].result = scrape[u].result
                              /\ scrape'[u].pc = scrape[u].pc
    BY <1>7, ScrapeTypes DEF CollectEmit, Scrapes
  <2>. QED  BY <2>1 DEF AgeInv, Dated, Before, Precedes
<1>8. ASSUME NEW s \in Scrapers, CollectReturn(s)  PROVE AgeInv'
  <2>1. scrape' = [scrape EXCEPT ![s].pc = "idle", ![s].result = scrape[s].copy]
    BY <1>8, EmittedIsCopy DEF CollectReturn
  <2>2. /\ UNCHANGED <<observations, run, world>> /\ scrape[s].pc = "emitting"
        /\ scrape'[s].copy = scrape[s].copy /\ scrape'[s].result = scrape[s].copy
        /\ scrape'[s].pc = "idle"
        /\ \A u \in Scrapers \ {s} : scrape'[u] = scrape[u]
    BY <1>8, <2>1, ScrapeTypes DEF CollectReturn, Scrapes
  <2>. QED  BY <2>2 DEF AgeInv, Dated, Before, Precedes
<1>9. CASE WorldChanges
  <2>1. world' = world + 1 /\ UNCHANGED <<observations, run, scrape>>
    BY <1>9 DEF WorldChanges
  <2>2. /\ \A x \in observations.series : x[3] \in Nat
        /\ \A x \in run.obs.series : x[3] \in Nat
        /\ observations.since \in Nat /\ run.obs.since \in Nat /\ world \in Nat
    BY AgeTypes, ScrapeTypes, SnapshotShape
  <2>. QED  BY <2>1, <2>2 DEF AgeInv, Dated, Before, Precedes
<1>10. CASE \/ \E list \in Lists[kind] : SetProjects(list)
            \/ Cancel
            \/ UNCHANGED vars
  <2>1. UNCHANGED <<observations, run, scrape, world>>
    BY <1>10 DEF SetProjects, Cancel, vars
  <2>. QED  BY <2>1 DEF AgeInv, Dated, Before, Precedes
<1>11. ASSUME NEW p \in Projects, Visit(p)  PROVE AgeInv'
  <2>1. run'.obs = run.obs /\ run'.pc = run.pc /\ UNCHANGED <<observations, scrape, world>>
    BY <1>11, AgeTypes DEF Visit, Runs
  <2>. QED  BY <2>1 DEF AgeInv, Dated, Before, Precedes
<1>. QED
  BY <1>1, <1>2, <1>3, <1>4, <1>5, <1>6, <1>7, <1>8, <1>9, <1>10, <1>11 DEF Next

LEMMA AgesAreOrdered == Spec => []AgeInv
BY AgeInitInv, AgeStep, CollectorSafe, PTL DEF Spec

\* A result is replaced only by the copy it precedes.
LEMMA ResultStep ==
  ASSUME CollectorInv, AgeInv, [Next]_vars, NEW s \in Scrapers
  PROVE  \/ scrape'[s].result = scrape[s].result
         \/ scrape'[s].result = scrape[s].copy /\ scrape[s].pc = "emitting"
<1>1. ASSUME NEW u \in Scrapers, CollectReturn(u)
      PROVE  \/ scrape'[s].result = scrape[s].result
             \/ scrape'[s].result = scrape[s].copy /\ scrape[s].pc = "emitting"
  <2>1. scrape' = [scrape EXCEPT ![u].pc = "idle", ![u].result = scrape[u].copy]
    BY <1>1, EmittedIsCopy DEF CollectReturn
  <2>. QED  BY <1>1, <2>1, ScrapeTypes DEF CollectReturn, Scrapes
<1>2. ASSUME NEW u \in Scrapers, CollectCopy(u) \/ CollectEmit(u)
      PROVE  scrape'[s].result = scrape[s].result
  BY <1>2, ScrapeTypes DEF CollectCopy, CollectEmit, Scrapes
<1>3. \/ scrape' = scrape
      \/ \E u \in Scrapers : CollectCopy(u) \/ CollectEmit(u) \/ CollectReturn(u)
  BY DEF Next, vars, RunGated, RunStart, Visit, Fetch, Abort, Publish, SetProjects, WorldChanges, Cancel
<1>. QED  BY <1>1, <1>2, <1>3

\* For any number of scrapers, projects and cycles: what a scraper is newly
\* shown of a family was read no earlier than what it was shown before.
THEOREM AnswersAreNeverOlder == Spec => AnswersNeverOlder
<1>1. CollectorInv /\ AgeInv /\ [Next]_vars =>
        [\A s \in Scrapers :
            scrape'[s].result # scrape[s].result =>
                \A x \in scrape[s].result.series, y \in scrape'[s].result.series :
                    x[3] <= y[3]
        ]_vars
  <2>. SUFFICES ASSUME CollectorInv, AgeInv, [Next]_vars, NEW s \in Scrapers,
                       scrape'[s].result # scrape[s].result,
                       NEW x \in scrape[s].result.series, NEW y \in scrape'[s].result.series
                PROVE  x[3] <= y[3]
    OBVIOUS
  <2>1. scrape'[s].result = scrape[s].copy /\ scrape[s].pc = "emitting"
    BY ResultStep
  <2>2. Before(scrape[s].result, scrape[s].copy) /\ Dated(scrape[s].copy)
    BY <2>1 DEF AgeInv, Precedes
  <2>. QED  BY <2>1, <2>2, ScrapeTypes, BeforeNotOlder
<1>. QED  BY <1>1, CollectorSafe, AgesAreOrdered, PTL DEF Spec, AnswersNeverOlder
=============================================================================
