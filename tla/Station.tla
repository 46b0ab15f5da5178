------------------------------ MODULE Station ------------------------------
(***************************************************************************)
(* One station behind the REST API: the simulation object, the background  *)
(* loop that steps it, and the requests that start, stop, reset and        *)
(* single-step it.                                                         *)
(*                                                                         *)
(* Two kinds of execution meet here.  The event loop runs one callback at  *)
(* a time, in the order they became ready: the handlers of start, stop and *)
(* reset, and the tasks of SimulationManager.start.  Worker threads run    *)
(* StationSimulation.step, one for each asyncio.to_thread of a task and    *)
(* one for each single-step request.  sim.lock is all that orders the two; *)
(* a handler that needs it holds up the whole event loop meanwhile.        *)
(***************************************************************************)
EXTENDS Integers, Sequences, FiniteSets, FiniteSetsExt

CONSTANTS
  Runs,         \* the background tasks the manager may create
  Singles,      \* the single-step requests that may arrive
  MaxRequests,  \* bound on the start, stop and reset requests
  LastStep,     \* n_steps, the length of the weather series
  HistoryLen,   \* HISTORY_LEN
  Nobody        \* no thread, no task

Requests == {"start", "stop", "reset"}

ASSUME StationAssumption ==
  /\ Runs \intersect (Singles \union Requests) = {}
  /\ Nobody \notin Runs \union Singles
  /\ MaxRequests \in 0..Cardinality(Runs) /\ LastStep \in Nat /\ HistoryLen \in Nat \ {0}

\* A task steps the station in the worker thread of its own name.
Threads == Runs \union Singles

VARIABLES
  ready,      \* callbacks waiting for the event loop: requests and tasks
  blocked,    \* what the handler that holds up the event loop waits for
  requests,   \* start, stop and reset requests received
  asked,      \* the last of them to be handled
  running,    \* StationSimulation.running
  registered, \* SimulationManager._tasks[station_id]
  task,       \* where each background task is
  cancelled,  \* the tasks that task.cancel() was called on
  thread,     \* where each worker thread is
  seen,       \* the step each thread has observed
  lock,       \* the thread that holds sim.lock
  plant,      \* plant.state.step_index
  guard,      \* controller.stats.steps
  count,      \* step_count
  history     \* the steps of the records kept, oldest first

handlers == <<requests, asked, blocked>>
loopVars == <<running, registered, task, cancelled>>
simVars  == <<plant, guard, count, history>>
vars == <<ready, handlers, loopVars, thread, seen, lock, simVars>>

Done == plant >= LastStep

\* The tasks that have not ended, and those of them nobody has cancelled.
Alive == {r \in Runs : task[r] \notin {"unborn", "finished"}}

Live == Alive \ cancelled

\* The task that the next start creates; their names are interchangeable.
NextTask == CHOOSE r \in Runs : task[r] = "unborn"

-----------------------------------------------------------------------------
Init ==
  /\ ready = <<>>
  /\ blocked = "nothing"
  /\ requests = 0
  /\ asked = "none"
  /\ running = FALSE
  /\ registered = Nobody
  /\ task = [r \in Runs |-> "unborn"]
  /\ cancelled = {}
  /\ thread = [t \in Threads |-> "idle"]
  /\ seen = [t \in Threads |-> 0]
  /\ lock = Nobody
  /\ plant = 0 /\ guard = 0 /\ count = 0
  /\ history = <<>>

-----------------------------------------------------------------------------
(***************************************************************************)
(* Requests.                                                               *)
(***************************************************************************)

\* A request has passed its dependencies and its handler is ready to run.
Receive(kind) ==
  /\ requests < MaxRequests
  /\ requests' = requests + 1
  /\ ready' = Append(ready, kind)
  /\ UNCHANGED <<asked, blocked, loopVars, thread, seen, lock, simVars>>

\* The event loop runs the callback at the head of the queue.
Called(what) ==
  /\ blocked = "nothing"
  /\ ready # <<>> /\ ready[1] = what

\* Mutant: the task of an earlier loop stays registered.
HandleStartKeeping ==
  /\ Called("start")
  /\ asked' = "start"
  /\ blocked' = "state"
  /\ \/ /\ running
        /\ ready' = Tail(ready)
        /\ UNCHANGED loopVars
     \/ /\ ~running
        /\ \E r \in Runs : task[r] = "unborn"
        /\ running' = TRUE
        /\ registered' = IF registered = Nobody THEN NextTask ELSE registered
        /\ task' = [task EXCEPT ![NextTask] = "new"]
        /\ ready' = Append(Tail(ready), NextTask)
        /\ UNCHANGED cancelled
  /\ UNCHANGED <<requests, thread, seen, lock, simVars>>

\* SimulationManager.start, and then state(), which needs the lock.  That a task is
\* left to create is the bound on Runs, which MaxRequests never meets.
HandleStart ==
  /\ Called("start")
  /\ asked' = "start"
  /\ blocked' = "state"
  /\ \/ /\ running
        /\ ready' = Tail(ready)
        /\ UNCHANGED loopVars
     \/ /\ ~running
        /\ \E r \in Runs : task[r] = "unborn"
        /\ running' = TRUE
        /\ registered' = NextTask
        /\ task' = [task EXCEPT ![NextTask] = "new"]
        /\ ready' = Append(Tail(ready), NextTask)
        /\ UNCHANGED cancelled
  /\ UNCHANGED <<requests, thread, seen, lock, simVars>>

\* Mutant: only the task is cancelled, the flag is left to its "finally".
StoppedByTask(queue) ==
  /\ registered' = Nobody
  /\ IF registered = Nobody \/ task[registered] = "finished"
     THEN ready' = queue /\ UNCHANGED cancelled
     ELSE /\ cancelled' = cancelled \union {registered}
          /\ ready' = IF task[registered] \in {"stepping", "sleeping"}
                      THEN Append(queue, registered) ELSE queue
  /\ UNCHANGED <<running, task>>

\* SimulationManager.stop: a task that waits for its thread or its timer is made
\* ready to take the cancellation; one already ready will take it then.
Stopped(queue) ==
  /\ running' = FALSE
  /\ registered' = Nobody
  /\ IF registered = Nobody \/ task[registered] = "finished"
     THEN ready' = queue /\ UNCHANGED cancelled
     ELSE /\ cancelled' = cancelled \union {registered}
          /\ ready' = IF task[registered] \in {"stepping", "sleeping"}
                      THEN Append(queue, registered) ELSE queue
  /\ UNCHANGED task

HandleStop ==
  /\ Called("stop")
  /\ Stopped(Tail(ready))
  /\ asked' = "stop"
  /\ blocked' = "state"
  /\ UNCHANGED <<requests, thread, seen, lock, simVars>>

HandleReset ==
  /\ Called("reset")
  /\ Stopped(Tail(ready))
  /\ asked' = "reset"
  /\ blocked' = "reset"
  /\ UNCHANGED <<requests, thread, seen, lock, simVars>>

\* Mutant: the reset does not take the lock.
ResetSimulationUnlocked ==
  /\ blocked = "reset"
  /\ plant' = 0 /\ guard' = 0 /\ count' = 0
  /\ history' = <<>>
  /\ running' = FALSE
  /\ blocked' = "state"
  /\ UNCHANGED <<ready, requests, asked, registered, task, cancelled, thread, seen, lock>>

\* StationSimulation.reset, on the event loop, once it has the lock.
ResetSimulation ==
  /\ blocked = "reset"
  /\ lock = Nobody
  /\ plant' = 0 /\ guard' = 0 /\ count' = 0
  /\ history' = <<>>
  /\ running' = FALSE
  /\ blocked' = "state"
  /\ UNCHANGED <<ready, requests, asked, registered, task, cancelled, thread, seen, lock>>

\* StationSimulation.state, and the answer to the request.
AnswerState ==
  /\ blocked = "state"
  /\ lock = Nobody
  /\ blocked' = "nothing"
  /\ UNCHANGED <<ready, requests, asked, loopVars, thread, seen, lock, simVars>>

-----------------------------------------------------------------------------
(***************************************************************************)
(* The background tasks, SimulationManager.start._run.                     *)
(***************************************************************************)

\* The end of a task, by return or by cancellation: "finally".
Finish(r) ==
  /\ running' = FALSE
  /\ task' = [task EXCEPT ![r] = "finished"]

\* "while sim.running", and the thread that will do the step.
Loop(r) ==
  IF running
  THEN /\ task' = [task EXCEPT ![r] = "stepping"]
       /\ thread' = [thread EXCEPT ![r] = "queued"]
       /\ UNCHANGED running
  ELSE Finish(r) /\ UNCHANGED thread

\* A task takes its cancellation where it is.  One that was never entered has no
\* "finally" to run; a thread that has not started yet never will.
TakeCancellation(r) ==
  /\ IF task[r] = "new"
     THEN task' = [task EXCEPT ![r] = "finished"] /\ UNCHANGED running
     ELSE Finish(r)
  /\ thread' = [thread EXCEPT ![r] = IF @ = "queued" THEN "idle" ELSE @]

RunTask(r) ==
  /\ Called(r)
  /\ ready' = Tail(ready)
  /\ \/ /\ r \in cancelled
        /\ TakeCancellation(r)
     \/ /\ r \notin cancelled
        /\ task[r] \in {"new", "awake"}
        /\ Loop(r)
     \/ /\ r \notin cancelled
        /\ task[r] = "stepped"
        /\ task' = [task EXCEPT ![r] = "sleeping"]
        /\ UNCHANGED <<running, thread>>
     \/ /\ r \notin cancelled
        /\ task[r] = "ended"
        /\ Finish(r)
        /\ UNCHANGED thread
  /\ UNCHANGED <<handlers, registered, cancelled, seen, lock, simVars>>

\* asyncio.sleep(interval_s) is over.
Wake(r) ==
  /\ task[r] = "sleeping" /\ r \notin cancelled
  /\ task' = [task EXCEPT ![r] = "awake"]
  /\ ready' = Append(ready, r)
  /\ UNCHANGED <<handlers, running, registered, cancelled, thread, seen, lock, simVars>>

-----------------------------------------------------------------------------
(***************************************************************************)
(* The worker threads.                                                     *)
(***************************************************************************)

\* The executor starts the thread of a task; a thread that called step() may
\* still have to wait for the lock.
StartThread(t) ==
  /\ t \in Runs /\ thread[t] = "queued"
  /\ thread' = [thread EXCEPT ![t] = "called"]
  /\ UNCHANGED <<ready, handlers, loopVars, seen, lock, simVars>>

\* A single-step request, whose handler runs in a worker thread of its own, is
\* refused while running.
Single(t) ==
  /\ t \in Singles /\ thread[t] = "idle"
  /\ thread' = [thread EXCEPT ![t] = IF running THEN "refused" ELSE "called"]
  /\ UNCHANGED <<ready, handlers, loopVars, seen, lock, simVars>>

\* The thread returns to its task, which learns of it unless it was cancelled.
Return(t, outcome) ==
  IF t \in Runs /\ t \notin cancelled
  THEN /\ task' = [task EXCEPT ![t] = outcome]
       /\ ready' = Append(ready, t)
  ELSE UNCHANGED <<task, ready>>

\* Mutant: the early return leaves the lock held.
StepPastEndHolding(t) ==
  /\ thread[t] = "called" /\ lock = Nobody
  /\ Done
  /\ running' = FALSE
  /\ lock' = t
  /\ thread' = [thread EXCEPT ![t] = "returned"]
  /\ Return(t, "ended")
  /\ UNCHANGED <<handlers, registered, cancelled, seen, simVars>>

\* step() under the lock at the end of the series.
StepPastEnd(t) ==
  /\ thread[t] = "called" /\ lock = Nobody
  /\ Done
  /\ running' = FALSE
  /\ thread' = [thread EXCEPT ![t] = "returned"]
  /\ Return(t, "ended")
  /\ UNCHANGED <<handlers, registered, cancelled, seen, lock, simVars>>

\* Mutant: only the plant's step is under the lock.
ObserveUnlocked(t) ==
  /\ thread[t] = "called"
  /\ ~Done
  /\ seen' = [seen EXCEPT ![t] = plant]
  /\ guard' = guard + 1
  /\ thread' = [thread EXCEPT ![t] = "observed"]
  /\ UNCHANGED <<ready, handlers, loopVars, lock, plant, count, history>>

\* step() takes the lock, observes, and the controller acts on what it saw.
Observe(t) ==
  /\ thread[t] = "called" /\ lock = Nobody
  /\ ~Done
  /\ lock' = t
  /\ seen' = [seen EXCEPT ![t] = plant]
  /\ guard' = guard + 1
  /\ thread' = [thread EXCEPT ![t] = "observed"]
  /\ UNCHANGED <<ready, handlers, loopVars, plant, count, history>>

\* The history with one more record, a deque of HistoryLen.
Recorded(step) ==
  LET kept == Append(history, step)
  IN  IF Len(kept) > HistoryLen THEN Tail(kept) ELSE kept

\* Mutant: the lock is not released.
ExecuteHolding(t) ==
  /\ thread[t] = "observed"
  /\ plant' = plant + 1
  /\ count' = count + 1
  /\ history' = Recorded(seen[t])
  /\ thread' = [thread EXCEPT ![t] = "returned"]
  /\ Return(t, "stepped")
  /\ UNCHANGED <<handlers, running, registered, cancelled, seen, guard, lock>>

\* The plant executes the command, the record is kept, and the lock is released.
Execute(t) ==
  /\ thread[t] = "observed"
  /\ plant' = plant + 1
  /\ count' = count + 1
  /\ history' = Recorded(seen[t])
  /\ lock' = Nobody
  /\ thread' = [thread EXCEPT ![t] = "returned"]
  /\ Return(t, "stepped")
  /\ UNCHANGED <<handlers, running, registered, cancelled, seen, guard>>

Step(t) == StartThread(t) \/ StepPastEnd(t) \/ Observe(t) \/ Execute(t)

EventLoop ==
  \/ HandleStart \/ HandleStop \/ HandleReset
  \/ ResetSimulation \/ AnswerState
  \/ \E r \in Runs : RunTask(r)

Next ==
  \/ \E kind \in Requests : Receive(kind)
  \/ EventLoop
  \/ \E r \in Runs : Wake(r)
  \/ \E t \in Singles : Single(t)
  \/ \E t \in Threads : Step(t)

Spec == Init /\ [][Next]_vars

\* The event loop, the executor's threads and the timers all get their turn;
\* nobody has to send a request.
FairSpec ==
  /\ Spec
  /\ WF_vars(EventLoop)
  /\ \A r \in Runs : WF_vars(Wake(r))
  /\ \A t \in Threads : WF_vars(Step(t))

-----------------------------------------------------------------------------
(***************************************************************************)
(* Properties.                                                             *)
(***************************************************************************)

\* The shape of the state.
TypeOK ==
  /\ ready \in Seq(Requests \union Runs)
  /\ blocked \in {"nothing", "state", "reset"}
  /\ requests \in 0..MaxRequests
  /\ asked \in Requests \union {"none"}
  /\ running \in BOOLEAN
  /\ registered \in Runs \union {Nobody}
  /\ task \in [Runs -> {"unborn", "new", "stepping", "stepped", "ended", "sleeping", "awake",
                         "finished"}]
  /\ cancelled \subseteq Alive \union {r \in Runs : task[r] = "finished"}
  /\ thread \in [Threads -> {"idle", "queued", "called", "refused", "observed", "returned"}]
  /\ seen \in [Threads -> 0..LastStep]
  /\ lock \in Threads \union {Nobody}
  /\ plant \in 0..LastStep /\ count \in 0..LastStep /\ guard \in 0..LastStep
  /\ history \in Seq(0..LastStep) /\ Len(history) <= HistoryLen

\* Whenever the lock is free the three accounts of the run agree: the plant's
\* clock, the guard's steps and the API's step count; a reset on the event loop
\* never falls between a thread's part of them.
AccountsAgree == lock = Nobody => plant = count /\ guard = count

\* The station is the clock of module Timeline, whichever loops, stragglers,
\* single steps and resets reach it: every step moves it by one and leaves the
\* record of that very step, in order, at the end of the history.
T == INSTANCE Timeline WITH clock <- plant, records <- history

IsTimeline == T!Spec

\* No command is executed on another interval than the one it was computed from,
\* although loops, stragglers, single steps and resets all reach the plant.
CommandsAreFresh ==
  \A t \in Threads : thread[t] = "observed" => seen[t] = plant

\* While a station says it is running, the task that a stop or a reset would cancel is
\* alive and nobody has cancelled it yet: the flag never outlives its loop, which would
\* refuse every start and every single step, and a stop never takes an older loop for
\* the one that runs, although more than one may be alive at a time.
StopFindsLoop == running => registered \in Live

\* Every request is answered: no handler waits for the lock for ever.
RequestsAnswered == blocked # "nothing" ~> blocked = "nothing"

\* After a stop or a reset, unless a start follows, every background loop ends
\* and the station is left as not running, so that it can be started again.
StopEndsLoops ==
  asked \in {"stop", "reset"} ~> asked = "start" \/ (Alive = {} /\ ~running)

\* A loop that nobody has cancelled goes on stepping the station until the series
\* ends, however many other loops and requests it shares the lock with.
LoopsAdvance ==
  \A n \in 0..LastStep - 1 : plant = n /\ Live # {} ~> plant # n \/ Live = {}

\* docs/api.md on reset: it "stops, then resets the plant and clears telemetry
\* history".  Until the next start or single step the station stays at step 0.
\* Does not hold in the code, where a worker thread outlives its cancelled task.
ResetStays ==
  asked = "reset" /\ blocked = "nothing" /\ (\A t \in Singles : thread[t] \in {"idle", "refused"})
    => count = 0

\* app.py on SimulationManager: it owns "one `StationSimulation` per known station and its
\* background loop task".  Does not hold in the code: the "finally" of a stopped loop ends
\* the running of the next one, whose own loop goes on if a third start sets the flag again.
OneLoop == Cardinality(Live) <= 1

\* docs/api.md on start: it "starts a background asyncio loop stepping the plant".
\* Until the next request, or the end of the series, there is such a loop.
StartStarts == asked = "start" /\ blocked = "nothing" /\ ~Done => Live # {}
=============================================================================
