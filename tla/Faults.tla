------------------------------- MODULE Faults -------------------------------
(***************************************************************************)
(* Scripted equipment failures applied to the fleet of module Fleet, in    *)
(* the two harnesses that replay them.                                     *)
(*                                                                         *)
(* env: FaultInjector wraps the training environment and applies the       *)
(* faults while it decodes the action, so the projection and the plant     *)
(* come after them.                                                        *)
(*                                                                         *)
(* benchmark: run_scenario hooks run_episode, so the faults are applied to *)
(* whatever a controller commands, guarded or not, just before the plant.  *)
(***************************************************************************)
EXTENDS Machines

CONSTANTS
  Recoverable, MinUpTime, MinDownTime, Dt, CriticalLoads, FirmHeats, Sensing, \* as in module Fleet
  Batteries,   \* the station's packs
  Schedules,   \* the fault schedules to replay, each a set of events
  EpisodeSteps \* the number of intervals of an episode

\* FaultEvent: a derate is station-wide, the other kinds hit one machine.
Events ==
  [kind : {"genset_trip"}, target : Gensets, start : Nat, end : Nat]
    \union [kind : {"battery_lockout"}, target : Batteries, start : Nat, end : Nat]
    \union [kind : {"renewable_derate"}, start : Nat, end : Nat]

ASSUME FleetAssumption ==
  /\ {MinUpTime, MinDownTime} \subseteq Nat /\ Dt \in Nat \ {0}
  /\ CriticalLoads \subseteq Nat /\ FirmHeats \subseteq Nat
  /\ Recoverable \in [Gensets -> Nat]

ASSUME FaultAssumption ==
  /\ EpisodeSteps \in Nat
  /\ \A s \in Schedules : s \subseteq Events /\ \A e \in s : e.start < e.end

VARIABLES
  online, minutes, critical, heat,  \* as in module Fleet
  harness,     \* which of the two harnesses replays the schedule
  schedule,    \* the events it replays
  episodeStep, \* intervals since the last reset
  locked,      \* FaultState.locked_battery_ids
  patched,     \* the packs whose limits are overridden on the instance
  scaled,      \* how many times the derates are in the renewable arrays, at most 2
  raised       \* an exception has left reset()

vars == <<online, minutes, critical, heat, harness, schedule, episodeStep,
          locked, patched, scaled, raised>>

ActiveAt(e, n) == e.start <= n /\ n < e.end

Targets(kind, n) == {e.target : e \in {f \in schedule : f.kind = kind /\ ActiveAt(f, n)}}

\* Mutant: a trip only counts in the step it starts.
TrippedAtOnset(n) ==
  {e.target : e \in {f \in schedule : f.kind = "genset_trip" /\ f.start = n}}

Tripped(n) == Targets("genset_trip", n)

\* A trip takes its set off line in the step it starts, whatever the timer says,
\* and leaves the timer as it was.
OnlineAfterTrips == online \ (Tripped(episodeStep) \ Tripped(episodeStep - 1))

\* The command that is left when the tripped sets are taken out of it.
WithoutTripped(on) == on \ Tripped(episodeStep)

Derated == \E e \in schedule : e.kind = "renewable_derate"

\* The fleet as it stands, and as the trips of this step leave it.
F == INSTANCE Fleet WITH step <- episodeStep
After == INSTANCE Fleet WITH step <- episodeStep, online <- OnlineAfterTrips

-----------------------------------------------------------------------------
Fresh ==
  /\ online' = {}
  /\ minutes' = [g \in Gensets |-> F!Settled]
  /\ critical' \in CriticalLoads
  /\ heat' \in FirmHeats
  /\ episodeStep' = 0

\* Both harnesses start with a fresh plant and apply the derates to it once.
Init ==
  /\ F!Init
  /\ harness \in {"env", "benchmark"}
  /\ schedule \in Schedules
  /\ locked = {} /\ patched = {}
  /\ scaled = IF Derated THEN 1 ELSE 0
  /\ raised = FALSE

\* Mutant: packs are locked and never released.
ApplyLockoutsOnly ==
  LET now == Targets("battery_lockout", episodeStep)
  IN  /\ patched' = patched \union now
      /\ locked' = now

\* A lock is put on a pack that enters a lockout and taken off one that leaves it.
ApplyLockouts ==
  LET now == Targets("battery_lockout", episodeStep)
  IN  /\ patched' = (patched \ (locked \ now)) \union (now \ locked)
      /\ locked' = now

\* What the plant does with a command after the trips.
Execute(on) ==
  /\ online' = After!Committed(on)
  /\ minutes' = After!Advanced(After!Committed(on))
  /\ critical' \in CriticalLoads
  /\ heat' \in FirmHeats
  /\ episodeStep' = episodeStep + 1
  /\ UNCHANGED <<harness, schedule, scaled, raised>>

\* Mutant: the projection sees the sets as they were before the trips.
SafeBeforeTrips(on) == F!Projected(on, F!Observation(F!Sound))

\* The environment projects the command that the injector has rewritten, on an
\* observation of the plant the injector has already changed.
Safe(on) == After!Projected(on, After!Observation(After!Sound))

EnvStep(proposed) ==
  /\ harness = "env" /\ ~raised /\ episodeStep < EpisodeSteps
  /\ ApplyLockouts
  /\ Execute(Safe(WithoutTripped(proposed)))

BenchmarkStep(commanded) ==
  /\ harness = "benchmark" /\ ~raised /\ episodeStep < EpisodeSteps
  /\ ApplyLockouts
  /\ Execute(WithoutTripped(commanded))

(***************************************************************************)
(* FaultInjector.reset resets the environment first, which replaces every  *)
(* pack by a new object, and the renewable arrays only if it is reseeded;  *)
(* then it unlocks the packs it remembers as locked, and applies the       *)
(* derates to the arrays it finds.                                         *)
(***************************************************************************)
EnvReset(reseed) ==
  /\ harness = "env" /\ ~raised
  /\ Fresh
  /\ patched' = {}
  /\ IF locked = {}
     THEN /\ scaled' = IF ~Derated THEN 0
                       ELSE IF reseed \/ scaled = 0 THEN 1 ELSE 2
          /\ raised' = FALSE
     ELSE /\ scaled' = IF reseed THEN 0 ELSE scaled
          /\ raised' = TRUE
  /\ UNCHANGED <<harness, schedule, locked>>

\* run_benchmark builds a new plant and a new FaultState for every scenario.
NextScenario ==
  /\ harness = "benchmark" /\ episodeStep = EpisodeSteps
  /\ Fresh
  /\ schedule' \in Schedules
  /\ locked' = {} /\ patched' = {}
  /\ scaled' = IF Derated' THEN 1 ELSE 0
  /\ UNCHANGED <<harness, raised>>

Next ==
  \/ \E on \in SUBSET Gensets : EnvStep(on) \/ BenchmarkStep(on)
  \/ \E reseed \in BOOLEAN : EnvReset(reseed)
  \/ NextScenario

Spec == Init /\ [][Next]_vars

-----------------------------------------------------------------------------
(***************************************************************************)
(* Properties.                                                             *)
(***************************************************************************)

\* An interval and not a reset.
Stepped == episodeStep' = episodeStep + 1

\* Overlapping and adjoining lockouts of one pack end with the last of them: after
\* every interval exactly the packs locked out in it are overridden, none is
\* left dead when its fault is over, and none is released whose override is
\* already gone, which would raise.
LockoutsReleased ==
  [][Stepped => LET now == Targets("battery_lockout", episodeStep)
                IN  patched' = now /\ locked \ now \subseteq patched]_vars

\* In the benchmark a tripped set does not turn while its fault lasts, whatever
\* the controller commands and however short its down time.
TripHoldsInBenchmark ==
  [][harness = "benchmark" /\ Stepped => online' \intersect Targets("genset_trip", episodeStep) = {}]_vars

\* The same of the injector in front of the projection: its docstring says a
\* tripped set cannot be restarted by any controller action.  Does not hold in the
\* code: the projection that follows may start it again.
TripHolds ==
  [][harness = "env" /\ Stepped => online' \intersect Targets("genset_trip", episodeStep) = {}]_vars

\* In the environment the projection answers a trip in the very interval it
\* happens: the cover is there, or no healthy set is left that could be started.  A
\* tripped set is not expected to start: where the healthy ones do not suffice the
\* station may be left short, whether the projection starts a tripped one or not.
CoverDespiteTrips ==
  [][harness = "env" /\ Stepped =>
       \/ F!Capacity[online'] >= critical + ReserveMargin
       \/ \A g \in Gensets \ Tripped(episodeStep) : g \in online' \/ After!LockedOut(g)]_vars

\* The same with the cover counted over the healthy sets only, as it would be if tripped
\* sets could not start.  Does not hold in the code, for the reason of TripHolds: a tripped
\* set that the projection starts stands in for a healthy one.
HealthyCover ==
  [][harness = "env" /\ Stepped =>
       \/ F!Capacity[online' \ Tripped(episodeStep)] >= critical + ReserveMargin
       \/ \A g \in Gensets \ Tripped(episodeStep) : g \in online' \/ After!LockedOut(g)]_vars

\* A schedule means the same thing every time it is replayed: a reset finds
\* the derates in the arrays once, and never ends in an exception.  Does not hold
\* in the code: a reset without a seed derates the same arrays again, and one in
\* the middle of a lockout releases packs that are no longer there.
EveryReplayAlike == ~raised /\ scaled <= 1
=============================================================================
