--------------------------- MODULE StationProofs ---------------------------
(***************************************************************************)
(* Theorems of module Station, for every number of tasks, single steps and *)
(* requests, every length of the series and every size of the history.     *)
(*                                                                         *)
(* The inductive invariant has two parts.  Control says where a task and   *)
(* its worker thread can be together, which is what keeps the event loop   *)
(* from starting or dropping a thread that is at work.  Clockwork says     *)
(* that the lock is held exactly by the thread that has observed and not   *)
(* yet executed, and that everything under the lock moves in step.         *)
(* That a stop finds the loop is inductive together with Control.          *)
(***************************************************************************)
EXTENDS Station, SequenceTheorems, TLAPS

\* The plain shapes of the control variables.
Shape ==
  /\ ready \in Seq(Requests \union Runs)
  /\ blocked \in {"nothing", "state", "reset"}
  /\ requests \in 0..MaxRequests
  /\ asked \in Requests \union {"none"}
  /\ running \in BOOLEAN
  /\ registered \in Runs \union {Nobody}
  /\ task \in [Runs -> {"unborn", "new", "stepping", "stepped", "ended", "sleeping", "awake",
                         "finished"}]
  /\ cancelled \subseteq Runs
  /\ thread \in [Threads -> {"idle", "queued", "called", "refused", "observed", "returned"}]

\* A task that is registered, or cancelled, has been created.
Born ==
  /\ registered # Nobody => task[registered] # "unborn"
  /\ \A r \in cancelled : task[r] # "unborn"

\* A task that has not begun has no thread at work, nor has one that its thread
\* has come back to.
Paced ==
  \A r \in Runs :
    /\ task[r] \in {"unborn", "new"} => thread[r] = "idle"
    /\ task[r] \in {"stepped", "ended", "sleeping", "awake"} => thread[r] = "returned"

Control == Shape /\ Born /\ Paced

\* The lock is held exactly between Observe and Execute.
LockHeld ==
  /\ lock \in Threads \union {Nobody}
  /\ \A t \in Threads : thread[t] = "observed" <=> lock = t

\* What the lock protects: the counters agree but for the step under way, the
\* observation under way is of this step, and the history is the latest steps.
Protected ==
  /\ plant \in 0..LastStep
  /\ count = plant
  /\ guard = IF lock = Nobody THEN plant ELSE plant + 1
  /\ lock # Nobody => plant < LastStep
  /\ seen \in [Threads -> 0..LastStep]
  /\ lock # Nobody => seen[lock] = plant
  /\ history = T!Latest(plant)

Clockwork == LockHeld /\ Protected

IInv == Control /\ Clockwork

-----------------------------------------------------------------------------
(***************************************************************************)
(* The bounded history.                                                    *)
(***************************************************************************)

\* The latest records are a sequence of steps, of the length of the deque at most.
LEMMA LatestIsASeq ==
  ASSUME NEW n \in Nat
  PROVE  /\ T!Latest(n) \in Seq(Nat)
         /\ Len(T!Latest(n)) = T!Kept(n)
         /\ \A i \in 1..T!Kept(n) : T!Latest(n)[i] = n - T!Kept(n) + i - 1
<1>1. T!Kept(n) \in Nat /\ T!Kept(n) <= n
  BY StationAssumption DEF T!Kept
<1>2. \A i \in 1..T!Kept(n) : n - T!Kept(n) + i - 1 \in Nat
  BY <1>1
<1>3. T!Latest(n) \in [1..T!Kept(n) -> Nat]
  BY <1>2 DEF T!Latest
<1>4. T!Latest(n) \in Seq(Nat)
  BY <1>1, <1>3, SeqDef
<1>5. DOMAIN T!Latest(n) = 1..T!Kept(n)
  BY DEF T!Latest
<1>6. 1..Len(T!Latest(n)) = 1..T!Kept(n) /\ Len(T!Latest(n)) \in Nat
  BY <1>4, <1>5, LenProperties
<1>7. Len(T!Latest(n)) = T!Kept(n)
  BY <1>1, <1>6
<1> QED BY <1>4, <1>7 DEF T!Latest

\* A record of step n put behind the latest records of n steps, and the oldest one
\* dropped where the deque is full, leaves the latest records of n + 1 steps.
LEMMA RecordedIsLatest ==
  ASSUME NEW n \in Nat, history = T!Latest(n)
  PROVE  Recorded(n) = T!Latest(n + 1)
<1> DEFINE kept == Append(history, n)
           next == T!Latest(n + 1)
<1>1. history \in Seq(Nat) /\ Len(history) = T!Kept(n)
  BY LatestIsASeq
<1>2. \A i \in 1..T!Kept(n) : history[i] = n - T!Kept(n) + i - 1
  BY LatestIsASeq
<1>3. T!Kept(n) \in Nat /\ HistoryLen \in Nat \ {0}
  BY StationAssumption DEF T!Kept
<1>4. kept \in Seq(Nat) /\ Len(kept) = T!Kept(n) + 1 /\ kept # <<>>
  BY <1>1, <1>3
<1>5. \A i \in 1..T!Kept(n) + 1 : kept[i] = n - T!Kept(n) + i - 1
  <2> SUFFICES ASSUME NEW i \in 1..T!Kept(n) + 1
               PROVE  kept[i] = n - T!Kept(n) + i - 1
    OBVIOUS
  <2>1. CASE i = T!Kept(n) + 1
    <3>1. kept[i] = n
      BY <1>1, <1>3, <2>1
    <3> QED BY <1>3, <2>1, <3>1
  <2>2. CASE i \in 1..T!Kept(n)
    <3>1. kept[i] = history[i]
      BY <1>1, <1>3, <2>2
    <3> QED BY <1>2, <2>2, <3>1
  <2>3. i = T!Kept(n) + 1 \/ i \in 1..T!Kept(n)
    BY <1>3
  <2> QED BY <2>1, <2>2, <2>3
<1>6. next \in Seq(Nat) /\ Len(next) = T!Kept(n + 1)
      /\ \A i \in 1..T!Kept(n + 1) : next[i] = (n + 1) - T!Kept(n + 1) + i - 1
  BY LatestIsASeq, n + 1 \in Nat
<1> HIDE DEF kept, next
<1>7. CASE n < HistoryLen
  <2>1. T!Kept(n) = n /\ T!Kept(n + 1) = n + 1
    BY <1>3, <1>7 DEF T!Kept
  <2>2. Recorded(n) = kept
    BY <1>3, <1>4, <1>7, <2>1 DEF Recorded, kept
  <2>3. \A i \in 1..Len(kept) : kept[i] = next[i]
    BY <1>4, <1>5, <1>6, <2>1
  <2> QED BY <1>4, <1>6, <2>1, <2>2, <2>3, SeqEqual DEF next
<1>8. CASE n >= HistoryLen
  <2>1. T!Kept(n) = HistoryLen /\ T!Kept(n + 1) = HistoryLen
    BY <1>3, <1>8 DEF T!Kept
  <2>2. Recorded(n) = Tail(kept)
    BY <1>3, <1>4, <1>8, <2>1 DEF Recorded, kept
  <2>3. /\ Tail(kept) \in Seq(Nat)
        /\ Len(Tail(kept)) = HistoryLen
        /\ \A i \in 1..HistoryLen : Tail(kept)[i] = kept[i + 1]
    BY <1>3, <1>4, <2>1, HeadTailProperties
  <2>4. \A i \in 1..HistoryLen : Tail(kept)[i] = next[i]
    BY <1>3, <1>5, <1>6, <2>1, <2>3
  <2> QED BY <1>6, <2>1, <2>2, <2>3, <2>4, SeqEqual DEF next
<1> QED BY <1>3, <1>7, <1>8

-----------------------------------------------------------------------------
(***************************************************************************)
(* Tasks and their threads.                                                *)
(***************************************************************************)

\* A stop cancels a task that has been created and leaves the threads alone.
LEMMA StopKept ==
  ASSUME Control, ready # <<>>, Stopped(Tail(ready)),
         asked' \in Requests, blocked' \in {"nothing", "state", "reset"},
         UNCHANGED <<requests, thread>>
  PROVE  Control'
<1>1. Tail(ready) \in Seq(Requests \union Runs)
  BY DEF Control, Shape
<1>2. CASE registered = Nobody \/ task[registered] = "finished"
  BY <1>1, <1>2 DEF Control, Shape, Born, Paced, Stopped
<1>3. CASE ~(registered = Nobody \/ task[registered] = "finished")
  <2>1. registered \in Runs
    BY <1>3 DEF Control, Shape
  <2>2. ready' \in Seq(Requests \union Runs)
    BY <1>1, <1>3, <2>1 DEF Stopped
  <2>3. /\ cancelled' = cancelled \union {registered} /\ registered' = Nobody
        /\ running' = FALSE /\ task' = task
    BY <1>3 DEF Stopped
  <2> QED BY <1>3, <2>1, <2>2, <2>3 DEF Control, Shape, Born, Paced
<1> QED BY <1>2, <1>3

\* A thread that comes back finds its task waiting for it, cancelled, or gone.
LEMMA ReturnKept ==
  ASSUME Control, NEW t \in Threads, NEW outcome \in {"stepped", "ended"},
         thread[t] \in {"called", "observed"},
         thread' = [thread EXCEPT ![t] = "returned"], Return(t, outcome),
         running' \in BOOLEAN, UNCHANGED <<requests, asked, blocked, registered, cancelled>>
  PROVE  Control'
<1>1. CASE t \in Runs /\ t \notin cancelled
  <2>1. ready' \in Seq(Requests \union Runs)
    BY <1>1 DEF Return, Control, Shape
  <2>2. task' = [task EXCEPT ![t] = outcome]
    BY <1>1 DEF Return
  <2> QED BY <1>1, <2>1, <2>2 DEF Control, Shape, Born, Paced, Threads
<1>2. CASE ~(t \in Runs /\ t \notin cancelled)
  BY <1>2 DEF Return, Control, Shape, Born, Paced, Threads
<1> QED BY <1>1, <1>2

\* Where a task and its thread can be together is kept by every step: the event
\* loop only starts a thread that is not at work, and a thread only returns to a
\* task that waits for it.
LEMMA ControlKept ==
  ASSUME Control, [Next]_vars
  PROVE  Control'
<1> USE DEF Control
<1>1. ASSUME NEW kind \in Requests, Receive(kind)
      PROVE  Control'
  <2>1. ready' \in Seq(Requests \union Runs) /\ requests' \in 0..MaxRequests
    BY <1>1, StationAssumption DEF Receive, Shape
  <2> QED BY <1>1, <2>1 DEF Receive, Shape, Born, Paced, loopVars, simVars
<1>2. CASE HandleStart
  <2>1. CASE running
    <3>1. ready' = Tail(ready) /\ ready # <<>>
      BY <1>2, <2>1 DEF HandleStart, Called
    <3>2. ready' \in Seq(Requests \union Runs)
      BY <3>1 DEF Shape
    <3> QED BY <1>2, <2>1, <3>2 DEF HandleStart, Shape, Born, Paced, loopVars, Requests
  <2>2. CASE ~running
    <3>1. NextTask \in Runs /\ task[NextTask] = "unborn"
      BY <1>2, <2>2 DEF HandleStart, NextTask
    <3>2. ready' \in Seq(Requests \union Runs)
      BY <1>2, <2>2, <3>1 DEF HandleStart, Called, Shape
    <3>3. /\ registered' = NextTask /\ task' = [task EXCEPT ![NextTask] = "new"]
          /\ asked' = "start" /\ blocked' = "state" /\ running' = TRUE
          /\ UNCHANGED <<cancelled, requests, thread>>
      BY <1>2, <2>2 DEF HandleStart
    <3>4. Shape'
      BY <3>1, <3>2, <3>3 DEF Shape, Requests
    <3>5. Born'
      BY <3>1, <3>3 DEF Shape, Born
    <3>6. Paced'
      BY <3>1, <3>3 DEF Shape, Paced
    <3> QED BY <3>4, <3>5, <3>6
  <2> QED BY <2>1, <2>2
<1>3. CASE HandleStop
  <2>1. /\ ready # <<>> /\ Stopped(Tail(ready))
        /\ asked' \in Requests /\ blocked' \in {"nothing", "state", "reset"}
        /\ UNCHANGED <<requests, thread>>
    BY <1>3 DEF HandleStop, Called, Requests
  <2> QED BY <2>1, StopKept
<1>4. CASE HandleReset
  <2>1. /\ ready # <<>> /\ Stopped(Tail(ready))
        /\ asked' \in Requests /\ blocked' \in {"nothing", "state", "reset"}
        /\ UNCHANGED <<requests, thread>>
    BY <1>4 DEF HandleReset, Called, Requests
  <2> QED BY <2>1, StopKept
<1>5. CASE ResetSimulation
  BY <1>5 DEF ResetSimulation, Shape, Born, Paced
<1>6. CASE AnswerState
  BY <1>6 DEF AnswerState, Shape, Born, Paced, loopVars, simVars
<1>7. ASSUME NEW r \in Runs, RunTask(r)
      PROVE  Control'
  <2>1. ready' \in Seq(Requests \union Runs)
    BY <1>7 DEF RunTask, Called, Shape
  <2>2. UNCHANGED <<requests, asked, blocked, registered, cancelled>>
    BY <1>7 DEF RunTask, handlers
  <2>3. r \in Threads
    BY DEF Threads
  <2>4. CASE TakeCancellation(r) /\ r \in cancelled
    <3>1. task' = [task EXCEPT ![r] = "finished"] /\ running' \in BOOLEAN
      BY <2>4 DEF TakeCancellation, Finish, Shape
    <3>2. thread' = [thread EXCEPT ![r] = IF @ = "queued" THEN "idle" ELSE @]
      BY <2>4 DEF TakeCancellation
    <3>3. Shape'
      BY <2>1, <2>2, <2>3, <3>1, <3>2 DEF Shape
    <3>4. Born'
      BY <2>2, <3>1 DEF Shape, Born
    <3>5. Paced'
      BY <2>3, <3>1, <3>2 DEF Shape, Paced
    <3> QED BY <3>3, <3>4, <3>5
  <2>5. CASE Loop(r) /\ task[r] \in {"new", "awake"}
    <3>1. CASE running
      <4>1. /\ task' = [task EXCEPT ![r] = "stepping"]
            /\ thread' = [thread EXCEPT ![r] = "queued"] /\ UNCHANGED running
        BY <2>5, <3>1 DEF Loop
      <4>2. Shape'
        BY <2>1, <2>2, <2>3, <4>1 DEF Shape
      <4> QED BY <2>2, <2>3, <4>1, <4>2 DEF Shape, Born, Paced
    <3>2. CASE ~running
      <4>1. /\ task' = [task EXCEPT ![r] = "finished"]
            /\ running' = FALSE /\ UNCHANGED thread
        BY <2>5, <3>2 DEF Loop, Finish
      <4>2. Shape'
        BY <2>1, <2>2, <2>3, <4>1 DEF Shape
      <4> QED BY <2>2, <2>3, <4>1, <4>2 DEF Shape, Born, Paced
    <3> QED BY <3>1, <3>2
  <2>6. CASE /\ task[r] = "stepped" /\ task' = [task EXCEPT ![r] = "sleeping"]
             /\ UNCHANGED <<running, thread>>
    BY <2>1, <2>2, <2>6 DEF Shape, Born, Paced
  <2>7. CASE task[r] = "ended" /\ Finish(r) /\ UNCHANGED thread
    BY <2>1, <2>2, <2>7 DEF Finish, Shape, Born, Paced
  <2> QED BY <1>7, <2>4, <2>5, <2>6, <2>7 DEF RunTask
<1>8. ASSUME NEW r \in Runs, Wake(r)
      PROVE  Control'
  BY <1>8 DEF Wake, Shape, Born, Paced, handlers, simVars
<1>9. ASSUME NEW t \in Singles, Single(t)
      PROVE  Control'
  BY <1>9, StationAssumption DEF Single, Shape, Born, Paced, handlers, loopVars, simVars, Threads
<1>10. ASSUME NEW t \in Threads, StartThread(t)
       PROVE  Control'
  BY <1>10 DEF StartThread, Shape, Born, Paced, handlers, loopVars, simVars
<1>11. ASSUME NEW t \in Threads, StepPastEnd(t)
       PROVE  Control'
  BY <1>11, ReturnKept DEF StepPastEnd, handlers, Shape
<1>12. ASSUME NEW t \in Threads, Observe(t)
       PROVE  Control'
  BY <1>12 DEF Observe, Shape, Born, Paced, handlers, loopVars
<1>13. ASSUME NEW t \in Threads, Execute(t)
       PROVE  Control'
  BY <1>13, ReturnKept DEF Execute, handlers, Shape
<1>14. CASE UNCHANGED vars
  BY <1>14 DEF vars, Shape, Born, Paced, handlers, loopVars
<1> QED
  BY <1>1, <1>2, <1>3, <1>4, <1>5, <1>6, <1>7, <1>8, <1>9, <1>10, <1>11, <1>12, <1>13, <1>14
  DEF Next, EventLoop, Step

-----------------------------------------------------------------------------
(***************************************************************************)
(* What the lock protects.                                                 *)
(***************************************************************************)

\* Every step keeps the lock with the thread that has observed, and the counters
\* and the history in step with the plant.
LEMMA ClockworkKept ==
  ASSUME Control, Clockwork, [Next]_vars
  PROVE  Clockwork'
<1> USE DEF Control, Clockwork
<1>1. ASSUME NEW kind \in Requests, Receive(kind)
      PROVE  Clockwork'
  BY <1>1 DEF Receive, LockHeld, Protected, simVars, T!Latest, T!Kept
<1>2. CASE HandleStart
  BY <1>2 DEF HandleStart, LockHeld, Protected, simVars, T!Latest, T!Kept
<1>3. CASE HandleStop
  BY <1>3 DEF HandleStop, LockHeld, Protected, simVars, T!Latest, T!Kept
<1>4. CASE HandleReset
  BY <1>4 DEF HandleReset, LockHeld, Protected, simVars, T!Latest, T!Kept
<1>5. CASE ResetSimulation
  BY <1>5, StationAssumption DEF ResetSimulation, LockHeld, Protected, T!Latest, T!Kept
<1>6. CASE AnswerState
  BY <1>6 DEF AnswerState, LockHeld, Protected, simVars, T!Latest, T!Kept
<1>7. ASSUME NEW r \in Runs, RunTask(r)
      PROVE  Clockwork'
  BY <1>7 DEF RunTask, TakeCancellation, Loop, Finish, LockHeld, Protected, simVars, Shape, Paced, T!Latest, T!Kept, Threads
<1>8. ASSUME NEW r \in Runs, Wake(r)
      PROVE  Clockwork'
  BY <1>8 DEF Wake, LockHeld, Protected, simVars, T!Latest, T!Kept
<1>9. ASSUME NEW t \in Singles, Single(t)
      PROVE  Clockwork'
  BY <1>9 DEF Single, LockHeld, Protected, simVars, Shape, T!Latest, T!Kept
<1>10. ASSUME NEW t \in Threads, StartThread(t)
       PROVE  Clockwork'
  BY <1>10 DEF StartThread, LockHeld, Protected, simVars, Shape, T!Latest, T!Kept
<1>11. ASSUME NEW t \in Threads, StepPastEnd(t)
       PROVE  Clockwork'
  BY <1>11 DEF StepPastEnd, LockHeld, Protected, simVars, Shape, T!Latest, T!Kept
<1>12. ASSUME NEW t \in Threads, Observe(t)
       PROVE  Clockwork'
  <2>1. lock = Nobody /\ lock' = t /\ t # Nobody /\ plant < LastStep
    BY <1>12, StationAssumption DEF Observe, Done, Protected, Threads
  <2>2. LockHeld'
    BY <1>12, <2>1, StationAssumption DEF Observe, LockHeld, Shape, Threads
  <2>3. seen' \in [Threads -> 0..LastStep] /\ seen'[t] = plant
    BY <1>12 DEF Observe, Protected
  <2> QED BY <1>12, <2>1, <2>2, <2>3 DEF Observe, Protected
<1>13. ASSUME NEW t \in Threads, Execute(t)
       PROVE  Clockwork'
  <2>1. lock = t /\ t # Nobody
    BY <1>13, StationAssumption DEF Execute, LockHeld, Threads
  <2>2. seen[t] = plant /\ plant < LastStep /\ guard = plant + 1 /\ plant \in Nat
    BY <2>1, StationAssumption DEF Protected
  <2>3. LockHeld'
    BY <1>13, <2>1, StationAssumption DEF Execute, LockHeld, Shape, Threads
  <2>4. history' = T!Latest(plant + 1)
    BY <1>13, <2>2, RecordedIsLatest DEF Execute, Protected
  <2>5. /\ plant' = plant + 1 /\ count' = plant + 1 /\ lock' = Nobody
        /\ UNCHANGED <<seen, guard>>
    BY <1>13 DEF Execute, Protected
  <2>6. plant + 1 \in 0..LastStep
    BY <2>2, StationAssumption
  <2> QED BY <2>2, <2>3, <2>4, <2>5, <2>6 DEF Protected
<1>14. CASE UNCHANGED vars
  BY <1>14 DEF vars, LockHeld, Protected, simVars, T!Latest, T!Kept
<1> QED
  BY <1>1, <1>2, <1>3, <1>4, <1>5, <1>6, <1>7, <1>8, <1>9, <1>10, <1>11, <1>12, <1>13, <1>14
  DEF Next, EventLoop, Step

-----------------------------------------------------------------------------
(***************************************************************************)
(* The loop that runs.                                                     *)
(***************************************************************************)

\* The loop on record stays alive and uncancelled for as long as the flag is up: only a
\* start raises it, with a task that nobody has cancelled, and whatever ends or cancels
\* the task on record lowers it in the same step.
LEMMA LoopFound ==
  ASSUME Control, StopFindsLoop, [Next]_vars
  PROVE  StopFindsLoop'
<1> USE DEF StopFindsLoop, Live, Alive
<1>1. ASSUME NEW kind \in Requests, Receive(kind)
      PROVE  StopFindsLoop'
  BY <1>1 DEF Receive, loopVars
<1>2. CASE HandleStart
  <2>1. CASE running
    BY <1>2, <2>1 DEF HandleStart, loopVars
  <2>2. CASE ~running
    <3>1. NextTask \in Runs /\ task[NextTask] = "unborn"
      BY <1>2, <2>2 DEF HandleStart, NextTask
    <3>2. NextTask \notin cancelled
      BY <3>1 DEF Control, Born
    <3> QED BY <1>2, <2>2, <3>1, <3>2 DEF HandleStart, Control, Shape
  <2> QED BY <2>1, <2>2
<1>3. CASE ~running'
  BY <1>3
<1>4. ASSUME NEW r \in Runs, RunTask(r)
      PROVE  StopFindsLoop'
  <2>1. UNCHANGED <<registered, cancelled>>
    BY <1>4 DEF RunTask
  <2>2. CASE r \in cancelled /\ task[r] = "new" /\ TakeCancellation(r)
    BY <2>1, <2>2 DEF TakeCancellation, Control, Shape
  <2>3. CASE Finish(r)
    BY <2>3 DEF Finish
  <2>4. CASE running /\ Loop(r)
    BY <2>1, <2>4 DEF Loop, Control, Shape
  <2>5. CASE task' = [task EXCEPT ![r] = "sleeping"] /\ UNCHANGED running
    BY <2>1, <2>5 DEF Control, Shape
  <2> QED BY <1>4, <2>2, <2>3, <2>4, <2>5 DEF RunTask, TakeCancellation, Loop
<1>5. ASSUME NEW r \in Runs, Wake(r)
      PROVE  StopFindsLoop'
  BY <1>5 DEF Wake, Control, Shape
<1>6. ASSUME NEW t \in Threads, Execute(t)
      PROVE  StopFindsLoop'
  <2>1. UNCHANGED <<running, registered, cancelled>> /\ Return(t, "stepped")
    BY <1>6 DEF Execute
  <2> QED BY <2>1 DEF Return, Control, Shape
<1>7. CASE UNCHANGED loopVars
  BY <1>7 DEF loopVars
<1>8. ASSUME HandleStop \/ HandleReset \/ ResetSimulation \/ \E t \in Threads : StepPastEnd(t)
      PROVE  ~running'
  BY <1>8 DEF HandleStop, HandleReset, Stopped, ResetSimulation, StepPastEnd
<1>9. ASSUME \/ AnswerState \/ UNCHANGED vars \/ \E t \in Singles : Single(t)
             \/ \E t \in Threads : StartThread(t) \/ Observe(t)
      PROVE  UNCHANGED loopVars
  BY <1>9 DEF AnswerState, Single, StartThread, Observe, vars
<1> QED
  BY <1>1, <1>2, <1>3, <1>4, <1>5, <1>6, <1>7, <1>8, <1>9 DEF Next, EventLoop, Step

-----------------------------------------------------------------------------
(***************************************************************************)
(* The theorems.                                                           *)
(***************************************************************************)

\* A station starts with its lock free and its accounts at zero.
LEMMA Started == Init => IInv
<1> SUFFICES ASSUME Init PROVE IInv
  OBVIOUS
<1>1. Control
  <2>1. requests \in 0..MaxRequests
    <3>1. MaxRequests \in Nat
      BY StationAssumption
    <3> QED BY <3>1 DEF Init
  <2>2. Shape
    BY <2>1, EmptySeq DEF Init, Shape
  <2> QED BY <2>2 DEF Init, Control, Born, Paced, Threads
<1>2. LockHeld
  BY StationAssumption DEF Init, LockHeld, Threads
<1>3. <<>> = T!Latest(0)
  BY SeqEqual, EmptySeq, LatestIsASeq, StationAssumption DEF T!Kept
<1>4. Protected
  BY <1>3, StationAssumption DEF Init, Protected
<1> QED BY <1>1, <1>2, <1>4 DEF IInv, Clockwork

\* The inductive invariant of the station.
LEMMA Invariance == Spec => []IInv
<1>1. IInv /\ [Next]_vars => IInv'
  BY ControlKept, ClockworkKept DEF IInv
<1> QED BY Started, <1>1, PTL DEF Spec

\* The state keeps its shape, the history its length, and no counter leaves the
\* series, for every number of tasks and requests.
THEOREM TypeCorrect == Spec => []TypeOK
<1>1. IInv => TypeOK
  <2> SUFFICES ASSUME IInv PROVE TypeOK
    OBVIOUS
  <2>1. plant \in Nat /\ plant <= LastStep /\ guard \in 0..LastStep
    BY StationAssumption DEF IInv, Clockwork, Protected
  <2>2. cancelled \subseteq Alive \union {r \in Runs : task[r] = "finished"}
    BY DEF IInv, Control, Shape, Born, Alive
  <2>3. Len(history) <= HistoryLen
    BY <2>1, LatestIsASeq, StationAssumption DEF IInv, Clockwork, Protected, T!Kept
  <2>4. history \in Seq(0..LastStep)
    <3>1. T!Kept(plant) \in Nat /\ T!Kept(plant) <= plant
      BY <2>1, StationAssumption DEF T!Kept
    <3>2. \A i \in 1..T!Kept(plant) : plant - T!Kept(plant) + i - 1 \in 0..LastStep
      BY <2>1, <3>1, StationAssumption
    <3>3. history \in [1..T!Kept(plant) -> 0..LastStep]
      BY <3>2 DEF IInv, Clockwork, Protected, T!Latest
    <3> QED BY <3>1, <3>3, SeqDef
  <2>5. /\ lock \in Threads \union {Nobody}
        /\ seen \in [Threads -> 0..LastStep]
        /\ plant \in 0..LastStep /\ count \in 0..LastStep
    BY DEF IInv, Clockwork, LockHeld, Protected
  <2>6. Shape
    BY DEF IInv, Control
  <2> QED BY <2>1, <2>2, <2>3, <2>4, <2>5, <2>6 DEF TypeOK, Shape
<1> QED BY Invariance, <1>1, PTL

\* No command is executed on another interval than the one it was computed from,
\* however many loops, stragglers, single steps and resets reach the plant.
THEOREM FreshCommands == Spec => []CommandsAreFresh
<1>1. IInv => CommandsAreFresh
  BY StationAssumption DEF IInv, Clockwork, LockHeld, Protected, CommandsAreFresh, Threads
<1> QED BY Invariance, <1>1, PTL

\* The plant, the guard and the API count the same steps whenever the lock is free.
THEOREM OneAccount == Spec => []AccountsAgree
<1>1. IInv => AccountsAgree
  BY DEF IInv, Clockwork, Protected, AccountsAgree
<1> QED BY Invariance, <1>1, PTL

\* However many loops, threads and requests meet, a station that says it is running has a
\* loop that nobody has cancelled, and it is the one a stop would cancel: the flag is
\* never left standing by SimulationManager.start, stop or the "finally" of _run.
THEOREM StopReachesLoop == Spec => []StopFindsLoop
<1>1. Init => StopFindsLoop
  BY DEF Init, StopFindsLoop
<1>2. IInv /\ StopFindsLoop /\ [Next]_vars => StopFindsLoop'
  BY LoopFound DEF IInv
<1> QED BY Invariance, <1>1, <1>2, PTL DEF Spec

\* A step of the station is a tick, a restart, or nothing at all to the clock.
LEMMA StepIsTick ==
  ASSUME IInv, [Next]_vars
  PROVE  [T!Next]_<<plant, history>>
<1>1. CASE ResetSimulation
  <2>1. <<>> = T!Latest(0)
    BY SeqEqual, EmptySeq, LatestIsASeq, StationAssumption DEF T!Kept
  <2> QED BY <1>1, <2>1 DEF ResetSimulation, T!Next, T!Restart
<1>2. ASSUME NEW t \in Threads, Execute(t)
      PROVE  [T!Next]_<<plant, history>>
  <2>1. seen[t] = plant /\ plant < LastStep /\ plant \in Nat /\ history = T!Latest(plant)
    BY <1>2, StationAssumption DEF Execute, IInv, Clockwork, LockHeld, Protected, Threads
  <2>2. plant' = plant + 1 /\ history' = T!Latest(plant + 1)
    BY <1>2, <2>1, RecordedIsLatest DEF Execute
  <2> QED BY <2>1, <2>2 DEF T!Next, T!Tick
<1>3. CASE UNCHANGED <<plant, history>>
  BY <1>3
<1>4. ResetSimulation \/ (\E t \in Threads : Execute(t)) \/ UNCHANGED <<plant, history>>
  BY DEF Next, EventLoop, Step, Receive, HandleStart, HandleStop, HandleReset, AnswerState,
         RunTask, Wake, Single, StartThread, StepPastEnd, Observe, simVars, vars
<1> QED BY <1>1, <1>2, <1>3, <1>4

\* The station implements the clock of module Timeline: to everybody who reaches it
\* it is one sequence of steps and resets, each recorded as it happened.
THEOREM StationIsTimeline == Spec => IsTimeline
<1>1. Init => T!Init
  <2>1. <<>> = T!Latest(0)
    BY SeqEqual, EmptySeq, LatestIsASeq, StationAssumption DEF T!Kept
  <2> QED BY <2>1 DEF Init, T!Init
<1>2. IInv /\ [Next]_vars => [T!Next]_<<plant, history>>
  BY StepIsTick
<1> QED BY Invariance, <1>1, <1>2, PTL DEF Spec, IsTimeline, T!Spec
=============================================================================
