---------------------------- MODULE ControlPlane ----------------------------
(***************************************************************************)
(* The gRPC control plane: a pool of worker threads that serves single     *)
(* calls (GetState, Heartbeat) and streams of states (StreamState).  A     *)
(* stream keeps its worker for as long as its client listens, so streams   *)
(* need one of a bounded number of slots.                                  *)
(*                                                                         *)
(* Every call is an actor here: it is sent, waits for a worker, is served  *)
(* and may be abandoned by its client at any moment.  _build_state adds    *)
(* one to the station's sequence number and reads it back when the record  *)
(* is complete, and other workers may do the same in between.              *)
(***************************************************************************)
EXTENDS Integers, Sequences, FiniteSets

CONSTANTS
  Streams, Unaries, \* the calls of either kind that clients make, again and again
  Workers,          \* max_workers of the thread pool
  MaxStreams        \* MAX_CONCURRENT_STREAMS

Calls == Streams \union Unaries

ASSUME PoolAssumption ==
  /\ Streams \intersect Unaries = {} /\ IsFiniteSet(Streams)
  /\ Workers \in Nat /\ MaxStreams \in Nat
  /\ MaxStreams < Workers

VARIABLES
  queue,    \* calls that wait for a worker, in order of arrival
  at,       \* where each call is
  active,   \* context.is_active(), the client has not gone
  slots,    \* the free slots of _stream_slots
  grown     \* the sequence number has grown since the call last received one

poolVars == <<queue, at, active, slots, grown>>

\* The places in which a call occupies a worker.
Served == {"taken", "looping", "counted", "sleeping", "closing"}

Busy == {c \in Calls : at[c] \in Served}

Holding == {s \in Streams : at[s] \in {"looping", "counted", "sleeping", "closing"}}

Go(c, place) == at' = [at EXCEPT ![c] = place]

-----------------------------------------------------------------------------
InitPool ==
  /\ queue = <<>>
  /\ at = [c \in Calls |-> "absent"]
  /\ active = [c \in Calls |-> FALSE]
  /\ slots = MaxStreams
  /\ grown = [c \in Calls |-> TRUE]

\* A client calls; the pool queues the call.
Call(c) ==
  /\ at[c] = "absent"
  /\ queue' = Append(queue, c)
  /\ Go(c, "queued")
  /\ active' = [active EXCEPT ![c] = TRUE]
  /\ UNCHANGED <<slots, grown>>

\* A client hangs up.
Abandon(c) ==
  /\ active[c]
  /\ active' = [active EXCEPT ![c] = FALSE]
  /\ UNCHANGED <<queue, at, slots, grown>>

\* A free worker takes the call that has waited longest.
Take ==
  /\ queue # <<>> /\ Cardinality(Busy) < Workers
  /\ Go(Head(queue), "taken")
  /\ queue' = Tail(queue)
  /\ UNCHANGED <<active, slots, grown>>

\* The call is over, and its worker free.
End(c) == Go(c, "absent") /\ active' = [active EXCEPT ![c] = FALSE]

\* _require_token and _require_station abort the call, and Heartbeat answers it,
\* without a state being built.
AnswerAtOnce(c) ==
  /\ at[c] = "taken"
  /\ End(c)
  /\ UNCHANGED <<queue, slots, grown>>

\* Mutant: a stream past the limit is served without a slot.
AdmitAnyway(s) ==
  /\ at[s] = "taken"
  /\ slots' = IF slots > 0 THEN slots - 1 ELSE slots
  /\ Go(s, "looping")
  /\ UNCHANGED <<queue, active, grown>>

\* StreamState takes a slot if there is one ...
Admit(s) ==
  /\ at[s] = "taken" /\ slots > 0
  /\ slots' = slots - 1
  /\ Go(s, "looping")
  /\ UNCHANGED <<queue, active, grown>>

\* ... and is aborted with RESOURCE_EXHAUSTED otherwise.
Exhausted(s) ==
  /\ at[s] = "taken" /\ slots = 0
  /\ End(s)
  /\ UNCHANGED <<queue, slots, grown>>

\* _build_state begins: self._sequence[station] += 1.
Count(c) ==
  /\ \/ c \in Unaries /\ at[c] = "taken"
     \/ c \in Streams /\ at[c] = "looping" /\ active[c]
  /\ grown' = [d \in Calls |-> TRUE]
  /\ Go(c, "counted")
  /\ UNCHANGED <<queue, active, slots>>

\* _build_state ends: the number is read again, and the state is sent.
Emit(c) ==
  /\ at[c] = "counted"
  /\ grown' = [grown EXCEPT ![c] = FALSE]
  /\ UNCHANGED slots

\* The answer to a single call.
Answer(u) ==
  /\ Emit(u)
  /\ End(u)
  /\ UNCHANGED queue

\* A state of a stream; if the client is gone the server drops the generator
\* where it stands, and the worker sleeps between states otherwise.
Yield(s) ==
  /\ Emit(s)
  /\ Go(s, IF active[s] THEN "sleeping" ELSE "closing")
  /\ UNCHANGED <<queue, active>>

Wake(s) ==
  /\ at[s] = "sleeping"
  /\ Go(s, "looping")
  /\ UNCHANGED <<queue, active, slots, grown>>

\* Mutant: while True.
LeaveLoopNever(s) == FALSE

\* while context.is_active() ends.
LeaveLoop(s) ==
  /\ at[s] = "looping" /\ ~active[s]
  /\ Go(s, "closing")
  /\ UNCHANGED <<queue, active, slots, grown>>

\* Mutant: the slot is given back only by the loop's own end.
ReleaseAfterLoop(s) ==
  /\ at[s] = "closing"
  /\ \E n \in {slots, slots + 1} : slots' = n
  /\ End(s)
  /\ UNCHANGED <<queue, grown>>

\* The finally clause, which also runs when the generator is dropped.
Release(s) ==
  /\ at[s] = "closing"
  /\ slots' = slots + 1
  /\ End(s)
  /\ UNCHANGED <<queue, grown>>

\* What the worker of a call does next.
Work(c) ==
  \/ AnswerAtOnce(c) \/ Count(c)
  \/ c \in Unaries /\ Answer(c)
  \/ c \in Streams /\ (Admit(c) \/ Exhausted(c) \/ Yield(c) \/ Wake(c) \/ LeaveLoop(c) \/ Release(c))

PoolNext == Take \/ \E c \in Calls : Call(c) \/ Abandon(c) \/ Work(c)

PoolSpec == InitPool /\ [][PoolNext]_poolVars

\* Workers go on with what they have.  Clients need neither call nor hang up.
FairPoolSpec == PoolSpec /\ WF_poolVars(Take) /\ \A c \in Calls : WF_poolVars(Work(c))

-----------------------------------------------------------------------------
(***************************************************************************)
(* Properties.                                                             *)
(***************************************************************************)

\* Every slot is free or held by a stream, however streams end: a slot is never
\* lost, and never given back twice, at which a bounded semaphore would raise.
SlotsConserved == slots + Cardinality(Holding) = MaxStreams

\* Streams cannot starve the pool: every call is answered, also while as many
\* streams as may be are listened to for ever.
CallsAnswered == \A c \in Calls : at[c] = "queued" ~> at[c] # "queued"

\* The slot of a stream whose client has hung up comes back.
SlotsComeBack == \A s \in Streams : (s \in Holding /\ ~active[s]) ~> s \notin Holding

\* sequence_number is "monotonic per station": it advances on each call.  Does not
\* hold in the code, where two threads may count and then both read.
NumbersAdvance ==
  [][\A c \in Calls : at[c] = "counted" /\ at'[c] # "counted" => \A d \in Calls : grown[d]]_poolVars
=============================================================================
