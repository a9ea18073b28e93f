--------------------------- MODULE SchedulerProofs ---------------------------
(***************************************************************************)
(* Type correctness of the scheduler, the meaning of its WaitGroup and the *)
(* guarantee of Stop, for every finite set of tasks.  The lemmas about one *)
(* step are stated for SchedNext, so that Exporter's proofs cite them.     *)
(***************************************************************************)
EXTENDS Scheduler, FiniteSetTheorems, TLAPS

\* Start's loop is over before Stop is called, so no goroutine is launched
\* after Stop has been called.
LaunchBeforeStop ==
    /\ starter = "idle" => \A t \in Tasks : pc[t] = "unborn"
    /\ starter = "returned" => \A t \in Tasks : pc[t] # "unborn"
    /\ stopper # "idle" => starter = "returned"

SchedInv ==
    /\ SchedTypeOK
    /\ WaitGroupCounts
    /\ LaunchBeforeStop
    /\ StopJoinsAll

\* The goroutines alive are finitely many: the WaitGroup can count them.
LEMMA AliveFinite == IsFiniteSet(Alive) /\ Cardinality(Alive) \in Nat
<1>1. IsFiniteSet(Alive)
  BY TasksAssumption, FS_Subset, Alive \subseteq Tasks DEF Alive
<1>. QED  BY <1>1, FS_CardinalityType

\* Nothing runs before Start.
LEMMA SchedInitInv == SchedInit => SchedInv
<1>. SUFFICES ASSUME SchedInit  PROVE SchedInv
  OBVIOUS
<1>1. SchedTypeOK
  BY DEF SchedInit, SchedTypeOK, TaskStates, TickerStates
<1>2. WaitGroupCounts
  <2>1. Alive = {}
    BY DEF SchedInit, Alive
  <2>. QED  BY <2>1, FS_EmptySet DEF SchedInit, WaitGroupCounts
<1>3. LaunchBeforeStop /\ StopJoinsAll
  BY DEF SchedInit, LaunchBeforeStop, StopJoinsAll
<1>. QED  BY <1>1, <1>2, <1>3 DEF SchedInv

\* Every step keeps the types, the WaitGroup's count not below zero included.
LEMMA SchedTypeStep ==
  ASSUME SchedInv, SchedNext
  PROVE  SchedTypeOK'
<1>. USE DEF SchedInv, SchedTypeOK, TaskStates, TickerStates
<1>1. CASE StartCall
  BY <1>1 DEF StartCall
<1>2. ASSUME NEW t \in Tasks, Launch(t)  PROVE SchedTypeOK'
  BY <1>2 DEF Launch
<1>3. CASE StartReturn
  BY <1>3 DEF StartReturn
<1>4. ASSUME NEW t \in Tasks, FirstRun(t)  PROVE SchedTypeOK'
  BY <1>4 DEF FirstRun
<1>5. ASSUME NEW t \in Tasks, Return(t)  PROVE SchedTypeOK'
  BY <1>5 DEF Return
<1>6. ASSUME NEW t \in Tasks, Tick(t)  PROVE SchedTypeOK'
  BY <1>6 DEF Tick
<1>7. ASSUME NEW t \in Tasks, TickedRun(t)  PROVE SchedTypeOK'
  BY <1>7 DEF TickedRun
<1>8. ASSUME NEW t \in Tasks, Leave(t)  PROVE SchedTypeOK'
  BY <1>8 DEF Leave
<1>9. ASSUME NEW t \in Tasks, Done(t)  PROVE SchedTypeOK'
  <2>1. t \in Alive
    BY <1>9 DEF Done, Alive
  <2>2. Cardinality(Alive) # 0
    BY <2>1, AliveFinite, FS_EmptySet
  <2>3. wg - 1 \in Nat
    BY <2>2, AliveFinite DEF WaitGroupCounts
  <2>. QED  BY <1>9, <2>3 DEF Done
<1>10. CASE StopCall
  BY <1>10 DEF StopCall
<1>11. CASE StopReturn
  BY <1>11 DEF StopReturn
<1>12. CASE ParentDone
  BY <1>12 DEF ParentDone
<1>. QED
  BY <1>1, <1>2, <1>3, <1>4, <1>5, <1>6, <1>7, <1>8, <1>9, <1>10, <1>11, <1>12
     DEF SchedNext, TaskStep

\* Launch and Done move one goroutine into and out of the set the WaitGroup
\* counts; every other step leaves that set and the counter alone.
LEMMA WaitGroupStep ==
  ASSUME SchedInv, SchedNext
  PROVE  WaitGroupCounts'
<1>. USE DEF SchedInv, SchedTypeOK
<1>1. ASSUME NEW t \in Tasks, Launch(t)  PROVE WaitGroupCounts'
  <2>1. t \notin Alive
    BY <1>1 DEF Launch, Alive
  <2>2. Alive' = Alive \cup {t}
    BY <1>1 DEF Launch, Alive
  <2>3. Cardinality(Alive \cup {t}) = Cardinality(Alive) + 1
    BY <2>1, AliveFinite, FS_AddElement
  <2>. QED  BY <1>1, <2>2, <2>3 DEF Launch, WaitGroupCounts
<1>2. ASSUME NEW t \in Tasks, Done(t)  PROVE WaitGroupCounts'
  <2>1. t \in Alive
    BY <1>2 DEF Done, Alive
  <2>2. Alive' = Alive \ {t}
    BY <1>2 DEF Done, Alive
  <2>3. Cardinality(Alive \ {t}) = Cardinality(Alive) - 1
    BY <2>1, AliveFinite, FS_RemoveElement
  <2>. QED  BY <1>2, <2>2, <2>3 DEF Done, WaitGroupCounts
<1>3. ASSUME wg' = wg, Alive' = Alive  PROVE WaitGroupCounts'
  BY <1>3 DEF WaitGroupCounts
<1>4. CASE StartCall \/ StartReturn \/ StopCall \/ StopReturn \/ ParentDone
  BY <1>3, <1>4 DEF StartCall, StartReturn, StopCall, StopReturn, ParentDone, Alive
<1>5. ASSUME NEW t \in Tasks, FirstRun(t) \/ Return(t) \/ Tick(t) \/ TickedRun(t) \/ Leave(t)
      PROVE  WaitGroupCounts'
  <2>1. wg' = wg
    BY <1>5 DEF FirstRun, Return, Tick, TickedRun, Leave
  <2>2. Alive' = Alive
    BY <1>5 DEF FirstRun, Return, Tick, TickedRun, Leave, Alive
  <2>. QED  BY <1>3, <2>1, <2>2
<1>. QED  BY <1>1, <1>2, <1>4, <1>5 DEF SchedNext, TaskStep

\* The order of Start and Stop is kept: a task is launched only in the loop.
LEMMA LaunchBeforeStopStep ==
  ASSUME SchedInv, SchedNext
  PROVE  LaunchBeforeStop'
<1>. USE DEF SchedInv, SchedTypeOK, LaunchBeforeStop
<1>1. CASE StartCall \/ StartReturn \/ StopCall \/ StopReturn \/ ParentDone
  BY <1>1 DEF StartCall, StartReturn, StopCall, StopReturn, ParentDone
<1>2. ASSUME NEW t \in Tasks, Launch(t)  PROVE LaunchBeforeStop'
  BY <1>2 DEF Launch
<1>3. ASSUME NEW t \in Tasks, TaskStep(t)  PROVE LaunchBeforeStop'
  <2>1. pc[t] # "unborn" \/ (pc' = pc)
    <3>1. CASE ~Tick(t)
      BY <1>3, <3>1 DEF TaskStep, FirstRun, Return, TickedRun, Leave, Done
    <3>2. CASE Tick(t)
      BY <3>2 DEF Tick
    <3>. QED  BY <3>1, <3>2
  <2>2. \A u \in Tasks : (pc[u] = "unborn") <=> (pc'[u] = "unborn")
    <3>1. CASE pc' = pc
      BY <3>1
    <3>2. CASE pc[t] # "unborn" /\ ~Tick(t)
      BY <1>3, <3>2 DEF TaskStep, FirstRun, Return, TickedRun, Leave, Done
    <3>. QED  BY <2>1, <3>1, <3>2 DEF Tick
  <2>3. UNCHANGED <<starter, stopper>>
    BY <1>3 DEF TaskStep, FirstRun, Return, Tick, TickedRun, Leave, Done
  <2>. QED  BY <2>2, <2>3
<1>. QED  BY <1>1, <1>2, <1>3 DEF SchedNext

\* wg.Wait lets Stop return when the counter is zero: then the set it counts
\* is empty, and every goroutine, all of them launched by then, is gone.
LEMMA StopJoinsStep ==
  ASSUME SchedInv, SchedNext
  PROVE  StopJoinsAll'
<1>. USE DEF SchedInv, SchedTypeOK, StopJoinsAll
<1>1. CASE StopReturn
  <2>1. Alive = {}
    BY <1>1, AliveFinite, FS_EmptySet DEF StopReturn, WaitGroupCounts
  <2>2. \A t \in Tasks : pc[t] # "unborn"
    BY <1>1 DEF StopReturn, LaunchBeforeStop
  <2>. QED  BY <1>1, <2>1, <2>2 DEF StopReturn, Alive
<1>2. CASE StartCall \/ StartReturn \/ StopCall \/ ParentDone
  BY <1>2 DEF StartCall, StartReturn, StopCall, ParentDone
<1>3. ASSUME NEW t \in Tasks, Launch(t)  PROVE StopJoinsAll'
  BY <1>3 DEF Launch, LaunchBeforeStop
<1>4. ASSUME NEW t \in Tasks, TaskStep(t)  PROVE StopJoinsAll'
  <2>1. CASE Tick(t)
    BY <2>1 DEF Tick
  <2>2. CASE FirstRun(t) \/ Return(t) \/ TickedRun(t) \/ Leave(t) \/ Done(t)
    BY <2>2 DEF FirstRun, Return, TickedRun, Leave, Done
  <2>. QED  BY <1>4, <2>1, <2>2 DEF TaskStep
<1>. QED  BY <1>1, <1>2, <1>3, <1>4 DEF SchedNext

\* The invariant is inductive.
LEMMA SchedStep == SchedInv /\ [SchedNext]_schedVars => SchedInv'
<1>1. ASSUME SchedInv, SchedNext  PROVE SchedInv'
  BY <1>1, SchedTypeStep, WaitGroupStep, LaunchBeforeStopStep, StopJoinsStep DEF SchedInv
<1>2. ASSUME SchedInv, UNCHANGED schedVars  PROVE SchedInv'
  BY <1>2 DEF schedVars, SchedInv, SchedTypeOK, WaitGroupCounts, Alive,
              LaunchBeforeStop, StopJoinsAll
<1>. QED  BY <1>1, <1>2

\* Type correctness, the WaitGroup's meaning and Stop's guarantee hold in
\* every behaviour of the scheduler.
THEOREM SchedulerSafe == SchedSpec => []SchedInv
BY SchedInitInv, SchedStep, PTL DEF SchedSpec
=============================================================================
