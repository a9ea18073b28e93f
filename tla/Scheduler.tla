----------------------------- MODULE Scheduler -----------------------------
(***************************************************************************)
(* internal/scheduler: one goroutine per registered task.  Task.Run        *)
(* executes the task's RunFunc once, creates a ticker and then loops on a  *)
(* select over the context and the ticker.  Scheduler.Start launches the   *)
(* goroutines, Scheduler.Stop cancels the derived context and waits for    *)
(* all of them.                                                            *)
(*                                                                         *)
(* What RunFunc does (a collection cycle) is outside this module: here it  *)
(* begins and, at some later step, returns, with an error or without one.  *)
(* An error is logged and nothing else, so both returns are one action.    *)
(***************************************************************************)
EXTENDS Integers, FiniteSets

CONSTANT Tasks          \* the tasks registered with AddTask before Start

ASSUME TasksAssumption == IsFiniteSet(Tasks)

VARIABLES
    ctxDone,    \* the context given to Start is done (signal received)
    cancelled,  \* Stop has called s.cancel, the cancel of the derived context
    starter,    \* Start's caller: "idle", "launching", "returned"
    stopper,    \* Stop's caller: "idle", "waiting" in wg.Wait, "returned"
    pc,         \* where each task's goroutine is
    ticker,     \* each task's ticker channel, of capacity one
    wg          \* the WaitGroup's counter

schedVars == <<ctxDone, cancelled, starter, stopper, pc, ticker, wg>>

TaskStates == {"unborn", "spawned", "executing", "select", "leaving", "gone"}
TickerStates == {"none", "empty", "full"}

SchedTypeOK ==
    /\ ctxDone \in BOOLEAN
    /\ cancelled \in BOOLEAN
    /\ starter \in {"idle", "launching", "returned"}
    /\ stopper \in {"idle", "waiting", "returned"}
    /\ pc \in [Tasks -> TaskStates]
    /\ ticker \in [Tasks -> TickerStates]
    /\ wg \in Nat

\* The derived context is done when its parent is or when cancel was called.
TaskCtxDone == ctxDone \/ cancelled

\* The goroutines that have been launched and have not called wg.Done yet.
Alive == {t \in Tasks : pc[t] \notin {"unborn", "gone"}}

SchedInit ==
    /\ ctxDone = FALSE
    /\ cancelled = FALSE
    /\ starter = "idle"
    /\ stopper = "idle"
    /\ pc = [t \in Tasks |-> "unborn"]
    /\ ticker = [t \in Tasks |-> "none"]
    /\ wg = 0

-----------------------------------------------------------------------------
(* Scheduler.Start                                                         *)

StartCall ==
    /\ starter = "idle"
    /\ starter' = "launching"
    /\ UNCHANGED <<ctxDone, cancelled, stopper, pc, ticker, wg>>

\* Mutant: wg.Add moved out of the loop that launches the goroutines.
LaunchWithoutAdd(t) ==
    /\ starter = "launching"
    /\ pc[t] = "unborn"
    /\ pc' = [pc EXCEPT ![t] = "spawned"]
    /\ UNCHANGED <<ctxDone, cancelled, starter, stopper, ticker, wg>>

\* One iteration of the loop: wg.Add(1), then the go statement.
Launch(t) ==
    /\ starter = "launching"
    /\ pc[t] = "unborn"
    /\ wg' = wg + 1
    /\ pc' = [pc EXCEPT ![t] = "spawned"]
    /\ UNCHANGED <<ctxDone, cancelled, starter, stopper, ticker>>

StartReturn ==
    /\ starter = "launching"
    /\ \A t \in Tasks : pc[t] # "unborn"
    /\ starter' = "returned"
    /\ UNCHANGED <<ctxDone, cancelled, stopper, pc, ticker, wg>>

-----------------------------------------------------------------------------
(* Task.Run                                                                *)

\* The immediate execution: it does not look at the context.
FirstRun(t) ==
    /\ pc[t] = "spawned"
    /\ pc' = [pc EXCEPT ![t] = "executing"]
    /\ UNCHANGED <<ctxDone, cancelled, starter, stopper, ticker, wg>>

\* Mutant: an error from RunFunc ends the loop.
ReturnOrGiveUp(t) ==
    /\ pc[t] = "executing"
    /\ \E next \in {"select", "leaving"} : pc' = [pc EXCEPT ![t] = next]
    /\ ticker' = [ticker EXCEPT ![t] = IF @ = "none" THEN "empty" ELSE @]
    /\ UNCHANGED <<ctxDone, cancelled, starter, stopper, wg>>

\* RunFunc returns; after the first execution the ticker is created.
Return(t) ==
    /\ pc[t] = "executing"
    /\ pc' = [pc EXCEPT ![t] = "select"]
    /\ ticker' = [ticker EXCEPT ![t] = IF @ = "none" THEN "empty" ELSE @]
    /\ UNCHANGED <<ctxDone, cancelled, starter, stopper, wg>>

\* Interval elapses.  A tick that finds the channel full is dropped, so only
\* a tick that finds it empty changes anything.
Tick(t) ==
    /\ ticker[t] = "empty"
    /\ ticker' = [ticker EXCEPT ![t] = "full"]
    /\ UNCHANGED <<ctxDone, cancelled, starter, stopper, pc, wg>>

\* The select takes the ticker case.  It may, even when the context is done:
\* select picks at random among the cases that are ready.
TickedRun(t) ==
    /\ pc[t] = "select"
    /\ ticker[t] = "full"
    /\ pc' = [pc EXCEPT ![t] = "executing"]
    /\ ticker' = [ticker EXCEPT ![t] = "empty"]
    /\ UNCHANGED <<ctxDone, cancelled, starter, stopper, wg>>

\* The select takes the ctx.Done case; the deferred ticker.Stop runs.
Leave(t) ==
    /\ pc[t] = "select"
    /\ TaskCtxDone
    /\ pc' = [pc EXCEPT ![t] = "leaving"]
    /\ ticker' = [ticker EXCEPT ![t] = "none"]
    /\ UNCHANGED <<ctxDone, cancelled, starter, stopper, wg>>

\* Mutant: the goroutine ends without its deferred wg.Done.
GoneWithoutDone(t) ==
    /\ pc[t] = "leaving"
    /\ pc' = [pc EXCEPT ![t] = "gone"]
    /\ UNCHANGED <<ctxDone, cancelled, starter, stopper, ticker, wg>>

\* The deferred wg.Done of the goroutine that Start launched.
Done(t) ==
    /\ pc[t] = "leaving"
    /\ pc' = [pc EXCEPT ![t] = "gone"]
    /\ wg' = wg - 1
    /\ UNCHANGED <<ctxDone, cancelled, starter, stopper, ticker>>

\* Everything a task's goroutine and its ticker do.
TaskStep(t) ==
    \/ FirstRun(t)
    \/ Return(t)
    \/ Tick(t)
    \/ TickedRun(t)
    \/ Leave(t)
    \/ Done(t)

-----------------------------------------------------------------------------
(* Scheduler.Stop, called once Start has returned, and the parent context  *)

StopCall ==
    /\ starter = "returned"
    /\ stopper = "idle"
    /\ stopper' = "waiting"
    /\ cancelled' = TRUE
    /\ UNCHANGED <<ctxDone, starter, pc, ticker, wg>>

\* Mutant: Stop returns without wg.Wait.
StopReturnWithoutWait ==
    /\ stopper = "waiting"
    /\ stopper' = "returned"
    /\ UNCHANGED <<ctxDone, cancelled, starter, pc, ticker, wg>>

\* wg.Wait returns.
StopReturn ==
    /\ stopper = "waiting"
    /\ wg = 0
    /\ stopper' = "returned"
    /\ UNCHANGED <<ctxDone, cancelled, starter, pc, ticker, wg>>

\* The parent context is cancelled (SIGINT or SIGTERM).
ParentDone ==
    /\ ~ctxDone
    /\ ctxDone' = TRUE
    /\ UNCHANGED <<cancelled, starter, stopper, pc, ticker, wg>>

SchedNext ==
    \/ StartCall
    \/ \E t \in Tasks : Launch(t)
    \/ StartReturn
    \/ \E t \in Tasks : TaskStep(t)
    \/ StopCall
    \/ StopReturn
    \/ ParentDone

SchedSpec == SchedInit /\ [][SchedNext]_schedVars

-----------------------------------------------------------------------------
(* Properties                                                              *)

\* The WaitGroup counts exactly the goroutines that have been launched and
\* have not finished: Stop's wg.Wait can neither return early nor hang on a
\* goroutine that is already gone.
WaitGroupCounts == wg = Cardinality(Alive)

\* Once Stop has returned no task goroutine exists: no collection cycle is in
\* progress and none can begin ("blocks until every goroutine has returned").
StopJoinsAll == stopper = "returned" => \A t \in Tasks : pc[t] = "gone"
=============================================================================
