------------------------------ MODULE Exporter ------------------------------
(***************************************************************************)
(* internal/exporter Run together with the parts it drives: the scheduler  *)
(* (module Scheduler), the HTTP server of internal/server, its listener    *)
(* goroutine and its connections, the readiness flag, the store, the       *)
(* signal context of main, and the end of the process.                     *)
(*                                                                         *)
(* runPC is the statement Run is at:                                       *)
(*   "launch"   e.scheduler.Start(ctx), its loop in progress               *)
(*   "listen"   e.server.Start(ctx), about to spawn ListenAndServe         *)
(*   "bind"     the select of server.Start: errCh or 100 ms                *)
(*   "markReady" e.server.SetReady(true)                                   *)
(*   "await"    <-ctx.Done()                                               *)
(*   "shutdown" e.server.Stop(shutdownCtx), about to be called             *)
(*   "drain"    http.Server.Shutdown waits for connections, 15 s at most   *)
(*   "stop"     e.scheduler.Stop(), about to be called                     *)
(*   "join"     wg.Wait inside scheduler.Stop                              *)
(*   "close"    e.store.Close()                                            *)
(*   "returned" Run returned nil;  "failed" Run returned an error          *)
(*   "exited"   main returned and the process is gone                      *)
(***************************************************************************)
EXTENDS Scheduler

CONSTANT Conns          \* the client connections of the HTTP server

VARIABLES
    runPC,
    listener,   \* ListenAndServe: "off", "binding", "serving", "closed", or ended
                \* with an error: "unbound" (no listener), "broken" (Accept failed)
    ready,      \* Server.ready
    conn,       \* per connection: "none", "new" (accepted), "active" (in a handler)
    drainTimedOut,  \* Shutdown gave up after its 15 seconds
    storeOpen

serverVars == <<listener, ready, conn, drainTimedOut>>
vars == <<schedVars, runPC, serverVars, storeOpen>>

RunStates == {"launch", "listen", "bind", "markReady", "await", "shutdown",
              "drain", "stop", "join", "close", "returned", "failed", "exited"}
ListenerStates == {"off", "binding", "serving", "closed", "unbound", "broken"}

ListenerFailed == listener \in {"unbound", "broken"}

TypeOK ==
    /\ SchedTypeOK
    /\ runPC \in RunStates
    /\ listener \in ListenerStates
    /\ ready \in BOOLEAN
    /\ conn \in [Conns -> {"none", "new", "active"}]
    /\ drainTimedOut \in BOOLEAN
    /\ storeOpen \in BOOLEAN

ProcessUp == runPC # "exited"

\* NewExporter has returned: everything is built and nothing runs.
Init ==
    /\ SchedInit
    /\ runPC = "launch"
    /\ listener = "off"
    /\ ready = FALSE
    /\ conn = [c \in Conns |-> "none"]
    /\ drainTimedOut = FALSE
    /\ storeOpen = TRUE

-----------------------------------------------------------------------------
(* Run, statement by statement                                             *)

StartScheduler ==
    /\ runPC = "launch"
    /\ StartCall
    /\ UNCHANGED <<runPC, serverVars, storeOpen>>

LaunchTask(t) ==
    /\ runPC = "launch"
    /\ Launch(t)
    /\ UNCHANGED <<runPC, serverVars, storeOpen>>

SchedulerStarted ==
    /\ runPC = "launch"
    /\ StartReturn
    /\ runPC' = "listen"
    /\ UNCHANGED <<serverVars, storeOpen>>

\* server.Start spawns the goroutine that calls ListenAndServe.
StartServer ==
    /\ runPC = "listen"
    /\ runPC' = "bind"
    /\ listener' = "binding"
    /\ UNCHANGED <<schedVars, ready, conn, drainTimedOut, storeOpen>>

\* Mutant: the failed start closes the store on its way out, under the
\* collectors that are still running.
StartServerFailsClosing ==
    /\ runPC = "bind"
    /\ ListenerFailed
    /\ runPC' = "failed"
    /\ storeOpen' = FALSE
    /\ UNCHANGED <<schedVars, serverVars>>

\* The error arrives on errCh first: Run returns it, and neither stops the
\* scheduler nor closes the store.
StartServerFails ==
    /\ runPC = "bind"
    /\ ListenerFailed
    /\ runPC' = "failed"
    /\ UNCHANGED <<schedVars, serverVars, storeOpen>>

\* The 100 ms pass first; an error that comes later stays in errCh unread.
StartServerReturns ==
    /\ runPC = "bind"
    /\ runPC' = "markReady"
    /\ UNCHANGED <<schedVars, serverVars, storeOpen>>

MarkReady ==
    /\ runPC = "markReady"
    /\ ready' = TRUE
    /\ runPC' = "await"
    /\ UNCHANGED <<schedVars, listener, conn, drainTimedOut, storeOpen>>

\* <-ctx.Done() returns and SetReady(false) is the next call.
SignalSeen ==
    /\ runPC = "await"
    /\ ctxDone
    /\ ready' = FALSE
    /\ runPC' = "shutdown"
    /\ UNCHANGED <<schedVars, listener, conn, drainTimedOut, storeOpen>>

\* http.Server.Shutdown marks the server as shutting down and closes the
\* listener; a ListenAndServe that has not bound yet then returns
\* ErrServerClosed, which is not an error.
ShutdownServer ==
    /\ runPC = "shutdown"
    /\ runPC' = "drain"
    /\ listener' = IF ListenerFailed THEN listener ELSE "closed"
    /\ UNCHANGED <<schedVars, ready, conn, drainTimedOut, storeOpen>>

\* Mutant: Shutdown counts only the connections inside a handler.
ServerDrainedEarly ==
    /\ runPC = "drain"
    /\ \A c \in Conns : conn[c] # "active"
    /\ runPC' = "stop"
    /\ UNCHANGED <<schedVars, serverVars, storeOpen>>

ServerDrained ==
    /\ runPC = "drain"
    /\ \A c \in Conns : conn[c] = "none"
    /\ runPC' = "stop"
    /\ UNCHANGED <<schedVars, serverVars, storeOpen>>

\* Mutant: Shutdown called with a context that never expires.
DrainForever ==
    /\ runPC = "drain"
    /\ \E c \in Conns : conn[c] # "none"
    /\ UNCHANGED vars

\* shutdownCtx expires; the error is logged and Run goes on.
DrainTimesOut ==
    /\ runPC = "drain"
    /\ \E c \in Conns : conn[c] # "none"
    /\ drainTimedOut' = TRUE
    /\ runPC' = "stop"
    /\ UNCHANGED <<schedVars, listener, ready, conn, storeOpen>>

StopScheduler ==
    /\ runPC = "stop"
    /\ StopCall
    /\ runPC' = "join"
    /\ UNCHANGED <<serverVars, storeOpen>>

SchedulerStopped ==
    /\ runPC = "join"
    /\ StopReturn
    /\ runPC' = "close"
    /\ UNCHANGED <<serverVars, storeOpen>>

CloseStore ==
    /\ runPC = "close"
    /\ storeOpen' = FALSE
    /\ runPC' = "returned"
    /\ UNCHANGED <<schedVars, serverVars>>

\* main returns what Run returned and the process ends, whatever still runs.
ProcessExit ==
    /\ runPC \in {"returned", "failed"}
    /\ runPC' = "exited"
    /\ UNCHANGED <<schedVars, serverVars, storeOpen>>

-----------------------------------------------------------------------------
(* The goroutines beside Run                                               *)

\* signal.NotifyContext cancels the context on SIGINT or SIGTERM.
Signal ==
    /\ ProcessUp
    /\ ParentDone
    /\ UNCHANGED <<runPC, serverVars, storeOpen>>

TaskGoroutine(t) ==
    /\ ProcessUp
    /\ TaskStep(t)
    /\ UNCHANGED <<runPC, serverVars, storeOpen>>

Bind ==
    /\ ProcessUp
    /\ listener = "binding"
    /\ listener' = "serving"
    /\ UNCHANGED <<schedVars, runPC, ready, conn, drainTimedOut, storeOpen>>

\* net.Listen fails (address in use).  Here and in AcceptFails the goroutine
\* logs the error, puts it in errCh and ends.
BindFails ==
    /\ ProcessUp
    /\ listener = "binding"
    /\ listener' = "unbound"
    /\ UNCHANGED <<schedVars, runPC, ready, conn, drainTimedOut, storeOpen>>

\* Serve ends with an Accept error.
AcceptFails ==
    /\ ProcessUp
    /\ listener = "serving"
    /\ listener' = "broken"
    /\ UNCHANGED <<schedVars, runPC, ready, conn, drainTimedOut, storeOpen>>

Accept(c) ==
    /\ ProcessUp
    /\ listener = "serving"
    /\ conn[c] = "none"
    /\ conn' = [conn EXCEPT ![c] = "new"]
    /\ UNCHANGED <<schedVars, runPC, listener, ready, drainTimedOut, storeOpen>>

\* A request has been read: the handler of /metrics, /ready, ... begins.
BeginRequest(c) ==
    /\ ProcessUp
    /\ conn[c] = "new"
    /\ conn' = [conn EXCEPT ![c] = "active"]
    /\ UNCHANGED <<schedVars, runPC, listener, ready, drainTimedOut, storeOpen>>

\* The handler returns, or a connection that sent nothing is dropped.
EndConnection(c) ==
    /\ ProcessUp
    /\ conn[c] # "none"
    /\ conn' = [conn EXCEPT ![c] = "none"]
    /\ UNCHANGED <<schedVars, runPC, listener, ready, drainTimedOut, storeOpen>>

\* The process is gone and nothing happens any more.
Terminated ==
    /\ runPC = "exited"
    /\ UNCHANGED vars

RunStep ==
    \/ StartScheduler
    \/ \E t \in Tasks : LaunchTask(t)
    \/ SchedulerStarted
    \/ StartServer
    \/ StartServerFails
    \/ StartServerReturns
    \/ MarkReady
    \/ SignalSeen
    \/ ShutdownServer
    \/ ServerDrained
    \/ DrainTimesOut
    \/ StopScheduler
    \/ SchedulerStopped
    \/ CloseStore
    \/ ProcessExit

Next ==
    \/ RunStep
    \/ Signal
    \/ \E t \in Tasks : TaskGoroutine(t)
    \/ Bind
    \/ BindFails
    \/ AcceptFails
    \/ \E c \in Conns : Accept(c) \/ BeginRequest(c) \/ EndConnection(c)
    \/ Terminated

Spec == Init /\ [][Next]_vars

\* The Go scheduler runs every goroutine that can run; the ticker and the two
\* timeouts are the clock's; select chooses uniformly among ready cases, so a
\* task that comes back to its select again and again with the context done
\* leaves sooner or later (SF).  That a collection cycle ends is the one
\* assumption about the outside: every GitLab call gets an answer or an error.
\* Nothing is assumed of signals, of the listener or of clients.
TaskFairness(t) ==
    /\ WF_vars(ProcessUp /\ FirstRun(t) /\ UNCHANGED <<runPC, serverVars, storeOpen>>)
    /\ WF_vars(ProcessUp /\ Return(t) /\ UNCHANGED <<runPC, serverVars, storeOpen>>)
    /\ WF_vars(ProcessUp /\ Tick(t) /\ UNCHANGED <<runPC, serverVars, storeOpen>>)
    /\ WF_vars(ProcessUp /\ TickedRun(t) /\ UNCHANGED <<runPC, serverVars, storeOpen>>)
    /\ SF_vars(ProcessUp /\ Leave(t) /\ UNCHANGED <<runPC, serverVars, storeOpen>>)
    /\ WF_vars(ProcessUp /\ Done(t) /\ UNCHANGED <<runPC, serverVars, storeOpen>>)

FairSpec == Spec /\ WF_vars(RunStep) /\ \A t \in Tasks : TaskFairness(t)

-----------------------------------------------------------------------------
(* Properties                                                              *)

\* The store is closed only when every task goroutine has returned, so that no
\* collection cycle, not even one begun after the signal, outlives it.
StoreClosedLast == ~storeOpen => \A t \in Tasks : pc[t] = "gone"

\* Once server.Stop has returned, no connection is left accepted or inside a
\* handler unless the 15 seconds of shutdownCtx ran out.
DrainedUnlessTimedOut ==
    runPC \in {"stop", "join", "close", "returned"} /\ ~drainTimedOut
        => \A c \in Conns : conn[c] = "none"

\* Run implements the order of events that Lifecycle promises.  The phase is
\* read off the statement Run is at, and a cycle is running while its task is
\* inside RunFunc.
Phase ==
    CASE runPC \in {"launch", "listen", "bind", "markReady"} -> "starting"
      [] runPC = "await" -> "serving"
      [] runPC \in {"shutdown", "drain", "stop", "join", "close"} -> "stopping"
      [] OTHER -> IF storeOpen THEN "failed" ELSE "stopped"

Running == {t \in Tasks : pc[t] = "executing"}

Promise == INSTANCE Lifecycle WITH phase <- Phase, running <- Running

LifecyclePromise == Promise!LifeSpec

\* A signal ends the process, whatever the connections do.
ShutdownCompletes == ctxDone ~> (runPC = "exited")

\* Until a signal comes or the process ends, every task executes again and
\* again: no error of RunFunc and no tick lost to a full channel stops it.
TasksKeepRunning ==
    \A t \in Tasks :
        []<>(pc[t] = "executing") \/ <>ctxDone \/ <>(runPC = "exited")

\* The comment on Server.Start says a server that fails to start is logged at
\* Fatal level, which in this logger ends the process.
FailedBindIsFatal == (listener = "unbound") ~> (runPC = "exited")
=============================================================================
