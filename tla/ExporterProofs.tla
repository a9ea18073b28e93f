--------------------------- MODULE ExporterProofs ---------------------------
(***************************************************************************)
(* For every finite set of tasks and every set of connections: the store   *)
(* is closed last, the server is drained unless it timed out, and Run      *)
(* implements Lifecycle.  The scheduler's part is cited from               *)
(* SchedulerProofs: every step of the exporter is one of the scheduler's   *)
(* or leaves the scheduler alone.                                          *)
(***************************************************************************)
EXTENDS Exporter, SchedulerProofs

\* How far the scheduler's callers are follows from where Run is.
RunAndScheduler ==
    /\ (runPC = "launch") <=> (starter # "returned")
    /\ runPC \in {"launch", "listen", "bind", "markReady", "await", "shutdown",
                  "drain", "stop"} => stopper = "idle"
    /\ runPC \in {"close", "returned"} => stopper = "returned"

\* The store is closed by Run's last statement, after Stop has returned.
StoreOrder ==
    /\ ~storeOpen => stopper = "returned" /\ runPC \in {"returned", "exited"}
    /\ runPC = "returned" => ~storeOpen

\* Readiness is up exactly while Run waits for the signal, unless the
\* process has exited; once Shutdown has begun nothing listens.
ServerOrder ==
    /\ ready <=> runPC = "await"
    /\ runPC \in {"drain", "stop", "join", "close", "returned"}
           => listener \in {"closed", "unbound", "broken"}

ExporterInv ==
    /\ SchedInv
    /\ TypeOK
    /\ RunAndScheduler
    /\ StoreOrder
    /\ ServerOrder
    /\ DrainedUnlessTimedOut

LEMMA ExporterInitInv == Init => ExporterInv
<1>. SUFFICES ASSUME Init  PROVE ExporterInv
  OBVIOUS
<1>1. SchedInv
  BY SchedInitInv DEF Init
<1>2. TypeOK
  BY <1>1 DEF Init, TypeOK, SchedInv, RunStates, ListenerStates
<1>3. RunAndScheduler /\ StoreOrder /\ ServerOrder /\ DrainedUnlessTimedOut
  BY DEF Init, SchedInit, RunAndScheduler, StoreOrder, ServerOrder, DrainedUnlessTimedOut
<1>. QED  BY <1>1, <1>2, <1>3 DEF ExporterInv

\* Every step of the exporter is a step of the scheduler or leaves it alone.
LEMMA ExporterStepsScheduler == [Next]_vars => [SchedNext]_schedVars
<1>1. ASSUME RunStep  PROVE [SchedNext]_schedVars
  BY <1>1 DEF RunStep, StartScheduler, LaunchTask, SchedulerStarted, StartServer,
       StartServerFails, StartServerReturns, MarkReady, SignalSeen, ShutdownServer,
       ServerDrained, DrainTimesOut, StopScheduler, SchedulerStopped, CloseStore,
       ProcessExit, SchedNext
<1>2. ASSUME Signal \/ (\E t \in Tasks : TaskGoroutine(t))  PROVE [SchedNext]_schedVars
  BY <1>2 DEF Signal, TaskGoroutine, SchedNext
<1>3. ASSUME Bind \/ BindFails \/ AcceptFails  PROVE [SchedNext]_schedVars
  BY <1>3 DEF Bind, BindFails, AcceptFails
<1>4. ASSUME NEW c \in Conns, Accept(c) \/ BeginRequest(c) \/ EndConnection(c)
      PROVE  [SchedNext]_schedVars
  BY <1>4 DEF Accept, BeginRequest, EndConnection
<1>5. ASSUME Terminated \/ UNCHANGED vars  PROVE [SchedNext]_schedVars
  BY <1>5 DEF Terminated, vars
<1>. QED  BY <1>1, <1>2, <1>3, <1>4, <1>5 DEF Next

\* The scheduler's steps that tasks and signals take leave its callers alone.
LEMMA TaskStepLeavesCallers ==
  ASSUME NEW t \in Tasks, TaskStep(t) \/ ParentDone
  PROVE  UNCHANGED <<starter, stopper>>
BY DEF TaskStep, FirstRun, Return, Tick, TickedRun, Leave, Done, ParentDone

\* The statements of Run keep the exporter's own part of the invariant.
LEMMA RunStepInv ==
  ASSUME ExporterInv, RunStep, SchedInv'
  PROVE  ExporterInv'
<1>. USE DEF ExporterInv, TypeOK, RunStates, ListenerStates, RunAndScheduler, StoreOrder,
             ServerOrder, DrainedUnlessTimedOut, serverVars
<1>0. SchedTypeOK'
  BY DEF SchedInv
<1>1. CASE StartScheduler
  BY <1>0, <1>1 DEF StartScheduler, StartCall
<1>2. ASSUME NEW t \in Tasks, LaunchTask(t)  PROVE ExporterInv'
  BY <1>0, <1>2 DEF LaunchTask, Launch
<1>3. CASE SchedulerStarted
  BY <1>0, <1>3 DEF SchedulerStarted, StartReturn
<1>4. CASE StartServer
  BY <1>0, <1>4 DEF StartServer, schedVars
<1>5. CASE StartServerFails \/ StartServerReturns
  BY <1>0, <1>5 DEF StartServerFails, StartServerReturns, schedVars
<1>6. CASE MarkReady \/ SignalSeen
  BY <1>0, <1>6 DEF MarkReady, SignalSeen, schedVars
<1>7. CASE ShutdownServer
  BY <1>0, <1>7 DEF ShutdownServer, ListenerFailed, schedVars
<1>8. CASE ServerDrained
  BY <1>0, <1>8 DEF ServerDrained, schedVars
<1>9. CASE DrainTimesOut
  BY <1>0, <1>9 DEF DrainTimesOut, schedVars
<1>10. CASE StopScheduler
  BY <1>0, <1>10 DEF StopScheduler, StopCall
<1>11. CASE SchedulerStopped
  BY <1>0, <1>11 DEF SchedulerStopped, StopReturn
<1>12. CASE CloseStore
  BY <1>0, <1>12 DEF CloseStore, schedVars
<1>13. CASE ProcessExit
  BY <1>0, <1>13 DEF ProcessExit, schedVars
<1>. QED
  BY <1>1, <1>2, <1>3, <1>4, <1>5, <1>6, <1>7, <1>8, <1>9, <1>10, <1>11, <1>12,
     <1>13
     DEF RunStep

\* So do the goroutines beside Run: no connection is accepted once Shutdown
\* has closed the listener.
LEMMA BesideRunInv ==
  ASSUME ExporterInv, SchedInv',
         \/ Signal
         \/ \E t \in Tasks : TaskGoroutine(t)
         \/ Bind \/ BindFails \/ AcceptFails
         \/ \E c \in Conns : Accept(c) \/ BeginRequest(c) \/ EndConnection(c)
         \/ Terminated
         \/ UNCHANGED vars
  PROVE  ExporterInv'
<1>. USE DEF ExporterInv, TypeOK, RunStates, ListenerStates, RunAndScheduler, StoreOrder,
             ServerOrder, DrainedUnlessTimedOut, serverVars
<1>0. SchedTypeOK'
  BY DEF SchedInv
<1>1. CASE Signal
  <2>1. UNCHANGED <<starter, stopper>>
    BY <1>1 DEF Signal, ParentDone
  <2>. QED  BY <1>0, <1>1, <2>1 DEF Signal
<1>2. ASSUME NEW t \in Tasks, TaskGoroutine(t)  PROVE ExporterInv'
  <2>1. UNCHANGED <<starter, stopper>>
    BY <1>2, TaskStepLeavesCallers DEF TaskGoroutine
  <2>. QED  BY <1>0, <1>2, <2>1 DEF TaskGoroutine
<1>3. CASE Bind \/ BindFails \/ AcceptFails
  BY <1>0, <1>3 DEF Bind, BindFails, AcceptFails, schedVars
<1>4. ASSUME NEW c \in Conns, Accept(c)  PROVE ExporterInv'
  BY <1>0, <1>4 DEF Accept, schedVars
<1>5. ASSUME NEW c \in Conns, BeginRequest(c)  PROVE ExporterInv'
  BY <1>0, <1>5 DEF BeginRequest, schedVars
<1>6. ASSUME NEW c \in Conns, EndConnection(c)  PROVE ExporterInv'
  BY <1>0, <1>6 DEF EndConnection, schedVars
<1>7. CASE Terminated \/ UNCHANGED vars
  BY <1>0, <1>7 DEF Terminated, vars, schedVars
<1>. QED  BY <1>1, <1>2, <1>3, <1>4, <1>5, <1>6, <1>7

LEMMA ExporterStep == ExporterInv /\ [Next]_vars => ExporterInv'
<1>. SUFFICES ASSUME ExporterInv, [Next]_vars  PROVE ExporterInv'
  OBVIOUS
<1>1. SchedInv'
  BY ExporterStepsScheduler, SchedStep DEF ExporterInv
<1>. QED  BY <1>1, RunStepInv, BesideRunInv DEF Next

\* The exporter's invariant holds in every reachable state.
THEOREM ExporterSafe == Spec => []ExporterInv
BY ExporterInitInv, ExporterStep, PTL DEF Spec

\* Variables keep their types.
THEOREM ExporterTypes == Spec => []TypeOK
BY ExporterSafe, PTL DEF ExporterInv

\* The WaitGroup that Stop waits on counts exactly the live goroutines.
THEOREM ExporterWaitGroup == Spec => []WaitGroupCounts
BY ExporterSafe, PTL DEF ExporterInv, SchedInv

LEMMA StoreClosedLastInv == ExporterInv => StoreClosedLast
BY DEF ExporterInv, SchedInv, StoreOrder, StopJoinsAll, StoreClosedLast

\* No goroutine of a collector outlives the store.
THEOREM StoreIsClosedLast == Spec => []StoreClosedLast
BY ExporterSafe, StoreClosedLastInv, PTL

\* After server.Stop no connection is left, unless the 15 seconds ran out.
THEOREM ServerIsDrained == Spec => []DrainedUnlessTimedOut
BY ExporterSafe, PTL DEF ExporterInv

-----------------------------------------------------------------------------
(* Run implements Lifecycle                                                *)

LEMMA LifecycleInit == Init => Promise!LifeInit
BY DEF Init, SchedInit, Promise!LifeInit, Phase, Running

\* A step that changes none of what Lifecycle sees is a stutter.
LEMMA RunStepImplements ==
  ASSUME ExporterInv, RunStep
  PROVE  [Promise!LifeNext]_(Promise!lifeVars)
<1>. USE DEF Promise!lifeVars, Phase, Running, ExporterInv, StoreOrder, ServerOrder,
             serverVars, schedVars
<1>1. CASE StartScheduler
  BY <1>1 DEF StartScheduler, StartCall
<1>2. ASSUME NEW t \in Tasks, LaunchTask(t)  PROVE UNCHANGED Promise!lifeVars
  BY <1>2 DEF LaunchTask, Launch
<1>3. CASE SchedulerStarted
  BY <1>3 DEF SchedulerStarted, StartReturn
<1>4. CASE StartServer \/ StartServerReturns
  BY <1>4 DEF StartServer, StartServerReturns
<1>5. CASE StartServerFails
  BY <1>5 DEF StartServerFails, Promise!LifeNext, Promise!Fail
<1>6. CASE MarkReady
  BY <1>6 DEF MarkReady, Promise!LifeNext, Promise!Serve
<1>7. CASE SignalSeen
  BY <1>7 DEF SignalSeen, Promise!LifeNext, Promise!Drain
<1>8. CASE ShutdownServer \/ ServerDrained \/ DrainTimesOut
  BY <1>8 DEF ShutdownServer, ServerDrained, DrainTimesOut
<1>9. CASE StopScheduler
  BY <1>9 DEF StopScheduler, StopCall
<1>10. CASE SchedulerStopped
  BY <1>10 DEF SchedulerStopped, StopReturn
<1>11. CASE CloseStore
  <2>1. Running = {}
    BY <1>11 DEF CloseStore, RunAndScheduler, SchedInv, StopJoinsAll
  <2>. QED  BY <1>11, <2>1 DEF CloseStore, Promise!LifeNext, Promise!Close
<1>12. CASE ProcessExit
  BY <1>12 DEF ProcessExit
<1>. QED
  BY <1>1, <1>2, <1>3, <1>4, <1>5, <1>6, <1>7, <1>8, <1>9, <1>10, <1>11, <1>12
     DEF RunStep

\* A task begins a cycle only while the store is open, that is before the
\* phase is "stopped".
LEMMA TaskImplements ==
  ASSUME ExporterInv, NEW t \in Tasks, TaskGoroutine(t)
  PROVE  [Promise!LifeNext]_(Promise!lifeVars)
<1>. USE DEF Promise!lifeVars, Running, ExporterInv, SchedInv, SchedTypeOK, serverVars
<1>0. UNCHANGED <<runPC, ready, storeOpen, Phase>>
  BY DEF TaskGoroutine, Phase
<1>1. CASE FirstRun(t) \/ TickedRun(t)
  <2>1. t \notin Running /\ Running' = Running \cup {t}
    BY <1>1 DEF FirstRun, TickedRun
  <2>2. Phase # "stopped"
    BY <1>1, StoreClosedLastInv DEF FirstRun, TickedRun, Phase, StoreClosedLast
  <2>. QED  BY <1>0, <2>1, <2>2 DEF Promise!LifeNext, Promise!BeginCycle
<1>2. CASE Return(t)
  <2>1. t \in Running /\ Running' = Running \ {t}
    BY <1>2 DEF Return
  <2>. QED  BY <1>0, <2>1 DEF Promise!LifeNext, Promise!EndCycle
<1>3. CASE Tick(t) \/ Leave(t) \/ Done(t)
  <2>1. Running' = Running
    BY <1>3 DEF Tick, Leave, Done
  <2>. QED  BY <1>0, <2>1
<1>. QED  BY <1>1, <1>2, <1>3 DEF TaskGoroutine, TaskStep

LEMMA LifecycleStep ==
  ExporterInv /\ [Next]_vars => [Promise!LifeNext]_(Promise!lifeVars)
<1>. SUFFICES ASSUME ExporterInv, [Next]_vars
              PROVE  [Promise!LifeNext]_(Promise!lifeVars)
  OBVIOUS
<1>. USE DEF Promise!lifeVars, Phase, Running, serverVars, schedVars
<1>1. CASE RunStep
  BY <1>1, RunStepImplements
<1>2. CASE Signal
  BY <1>2 DEF Signal, ParentDone
<1>3. ASSUME NEW t \in Tasks, TaskGoroutine(t)
      PROVE  [Promise!LifeNext]_(Promise!lifeVars)
  BY <1>3, TaskImplements
<1>4. CASE Bind \/ BindFails \/ AcceptFails
  BY <1>4 DEF Bind, BindFails, AcceptFails
<1>5. ASSUME NEW c \in Conns, Accept(c) \/ BeginRequest(c) \/ EndConnection(c)
      PROVE  [Promise!LifeNext]_(Promise!lifeVars)
  BY <1>5 DEF Accept, BeginRequest, EndConnection
<1>6. CASE Terminated \/ UNCHANGED vars
  BY <1>6 DEF Terminated, vars
<1>. QED  BY <1>1, <1>2, <1>3, <1>4, <1>5, <1>6 DEF Next

\* Run implements the order of events that Lifecycle promises.
THEOREM RunImplementsLifecycle == Spec => LifecyclePromise
<1>1. Spec => Promise!LifeInit
  BY LifecycleInit DEF Spec
<1>. QED
  BY <1>1, ExporterSafe, LifecycleStep, PTL DEF Spec, LifecyclePromise, Promise!LifeSpec
=============================================================================
