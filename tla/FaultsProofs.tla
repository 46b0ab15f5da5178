---------------------------- MODULE FaultsProofs ----------------------------
(***************************************************************************)
(* Theorems of module Faults, for every fleet and every fault schedule.    *)
(*                                                                         *)
(* Both rest on what the last step left behind: as long as no reset has    *)
(* raised, the packs that are overridden are those the injector remembers, *)
(* and in the benchmark no set turns that was tripped in the last step.    *)
(***************************************************************************)
EXTENDS Faults, TLAPS

\* The theorems of the projection, of the fleet as the trips of this step leave it.  Nothing
\* of its half in kW is used here, so the parameters of that half may be anything.
P == INSTANCE SafetyProofs
       WITH online <- OnlineAfterTrips, step <- 0, Sensing <- {},
            MinStable <- [g \in Gensets |-> 0], MeltCeiling <- 0, Conditions <- {},
            Setpoints <- {}, Charges <- {}, Discharges <- {}, Melts <- {}, None <- 0,
            phase <- 0, weather <- 0, committed <- 0, turning <- 0, command <- 0, telemetry <- 0

\* The injector's memory is the plant's state.
Remembered == ~raised => patched = locked

\* The sets the last step of the benchmark tripped are off line.
Downed ==
  harness = "benchmark" => online \intersect Targets("genset_trip", episodeStep - 1) = {}

IInv == episodeStep \in Nat /\ Remembered /\ Downed

-----------------------------------------------------------------------------
\* A lockout's bookkeeping leaves exactly the packs locked out now overridden.
LEMMA LockedNow ==
  ASSUME ~raised, Remembered, ApplyLockouts
  PROVE  LET now == Targets("battery_lockout", episodeStep)
         IN  patched' = now /\ locked' = now /\ locked \ now \subseteq patched
BY DEF Remembered, ApplyLockouts

\* A step of the benchmark leaves no tripped set turning: those that turned
\* before are switched off at the onset, and no command brings one back.
LEMMA NoneTurns ==
  ASSUME IInv, NEW commanded \in SUBSET Gensets, BenchmarkStep(commanded)
  PROVE  online' \intersect Targets("genset_trip", episodeStep) = {}
<1> DEFINE on == WithoutTripped(commanded)
<1>1. online' = After!Committed(on)
  BY DEF BenchmarkStep, Execute
<1>2. on \intersect Tripped(episodeStep) = {}
  BY DEF WithoutTripped
<1>3. OnlineAfterTrips \intersect Tripped(episodeStep) = {}
  <2>1. online \intersect Tripped(episodeStep - 1) = {}
    BY DEF IInv, Downed, BenchmarkStep, Tripped
  <2> QED BY <2>1 DEF OnlineAfterTrips
<1>4. After!Committed(on) \subseteq OnlineAfterTrips \union on
  BY DEF After!Committed
<1> QED BY <1>1, <1>2, <1>3, <1>4 DEF Tripped

\* An interval counts one step and leaves the schedule and the harness alone.
LEMMA ExecuteCounts ==
  ASSUME NEW on, Execute(on)
  PROVE  episodeStep' = episodeStep + 1 /\ UNCHANGED <<harness, schedule, raised>>
BY DEF Execute

\* The inductive invariant of both harnesses.
LEMMA Invariance == Spec => []IInv
<1>1. Init => IInv
  BY DEF Init, F!Init, IInv, Remembered, Downed
<1>2. IInv /\ [Next]_vars => IInv'
  <2> SUFFICES ASSUME IInv, [Next]_vars PROVE IInv'
    OBVIOUS
  <2> USE DEF IInv
  <2>1. ASSUME NEW on \in SUBSET Gensets, EnvStep(on)
        PROVE  IInv'
    <3>1. ~raised /\ harness = "env" /\ ApplyLockouts /\ Execute(Safe(WithoutTripped(on)))
      BY <2>1 DEF EnvStep
    <3>2. episodeStep' = episodeStep + 1 /\ harness' = "env"
      BY <3>1, ExecuteCounts
    <3>3. patched' = locked'
      BY <3>1, LockedNow
    <3> QED BY <3>2, <3>3 DEF Remembered, Downed
  <2>2. ASSUME NEW on \in SUBSET Gensets, BenchmarkStep(on)
        PROVE  IInv'
    <3>1. ~raised /\ ApplyLockouts /\ Execute(WithoutTripped(on))
      BY <2>2 DEF BenchmarkStep
    <3>2. episodeStep' = episodeStep + 1 /\ schedule' = schedule
      BY <3>1, ExecuteCounts
    <3>3. patched' = locked'
      BY <3>1, LockedNow
    <3>4. online' \intersect Targets("genset_trip", episodeStep) = {}
      BY <2>2, NoneTurns
    <3>5. (episodeStep - 1)' = episodeStep
      BY <3>2
    <3>6. Downed'
      BY <3>2, <3>4, <3>5 DEF Downed, Targets
    <3> QED BY <3>2, <3>3, <3>6 DEF Remembered
  <2>3. ASSUME NEW reseed \in BOOLEAN, EnvReset(reseed)
        PROVE  IInv'
    BY <2>3 DEF EnvReset, Fresh, Remembered, Downed
  <2>4. CASE NextScenario
    BY <2>4 DEF NextScenario, Fresh, Remembered, Downed
  <2>5. CASE UNCHANGED vars
    BY <2>5 DEF vars, Remembered, Downed, Targets
  <2> QED BY <2>1, <2>2, <2>3, <2>4, <2>5 DEF Next
<1> QED BY <1>1, <1>2, PTL DEF Spec

-----------------------------------------------------------------------------
\* For every schedule, overlapping and adjoining lockouts end with the last of
\* them: after an interval exactly the packs locked out in it are overridden.
THEOREM LockoutsEnd == Spec => LockoutsReleased
<1>1. IInv /\ [Next]_vars =>
        [Stepped => LET now == Targets("battery_lockout", episodeStep)
                    IN  patched' = now /\ locked \ now \subseteq patched]_vars
  <2> SUFFICES ASSUME IInv, Next, Stepped
               PROVE  LET now == Targets("battery_lockout", episodeStep)
                      IN  patched' = now /\ locked \ now \subseteq patched
    BY DEF IInv
  <2>1. CASE ~raised /\ ApplyLockouts
    BY <2>1, LockedNow DEF IInv
  <2>2. CASE episodeStep' = 0
    BY <2>2 DEF Stepped, IInv
  <2>3. (~raised /\ ApplyLockouts) \/ episodeStep' = 0
    BY DEF Next, EnvStep, BenchmarkStep, EnvReset, NextScenario, Fresh
  <2> QED BY <2>1, <2>2, <2>3
<1> QED BY Invariance, <1>1, PTL DEF Spec, LockoutsReleased

\* For every schedule and every controller, guarded or not, a set that is tripped
\* does not turn in the benchmark while its fault lasts.
THEOREM TripsHold == Spec => TripHoldsInBenchmark
<1>1. IInv /\ [Next]_vars =>
        [harness = "benchmark" /\ Stepped
           => online' \intersect Targets("genset_trip", episodeStep) = {}]_vars
  <2> SUFFICES ASSUME IInv, Next, Stepped, harness = "benchmark"
               PROVE  online' \intersect Targets("genset_trip", episodeStep) = {}
    OBVIOUS
  <2>1. ASSUME NEW on \in SUBSET Gensets, BenchmarkStep(on)
        PROVE  online' \intersect Targets("genset_trip", episodeStep) = {}
    BY <2>1, NoneTurns
  <2>2. CASE NextScenario
    BY <2>2 DEF NextScenario, Fresh, Stepped, IInv
  <2> QED BY <2>1, <2>2 DEF Next, EnvStep, EnvReset
<1> QED BY Invariance, <1>1, PTL DEF Spec, TripHoldsInBenchmark

-----------------------------------------------------------------------------
(***************************************************************************)
(* The cover despite trips: what the projection promises of a fleet holds  *)
(* of the one the trips leave behind.                                      *)
(***************************************************************************)
FleetOK ==
  /\ online \subseteq Gensets
  /\ minutes \in [Gensets -> 0..F!Settled]
  /\ critical \in CriticalLoads
  /\ heat \in FirmHeats

\* The two instances speak of one plant.
LEMMA SameSums == F!Capacity = P!Capacity /\ After!Capacity = P!Capacity /\ After!RecoverableHeat = P!RecoverableHeat
BY DEF F!Capacity, P!Capacity, After!Capacity, P!RecoverableHeat, After!RecoverableHeat,
       F!SumFunctionOnSet, P!SumFunctionOnSet, After!SumFunctionOnSet,
       F!FoldFunctionOnSet, P!FoldFunctionOnSet, After!FoldFunctionOnSet,
       F!MapThenFoldSet, P!MapThenFoldSet, After!MapThenFoldSet

LEMMA SamePlant ==
  /\ \A on : After!Projected(on, After!Observation(After!Sound)) = P!Projected(on, P!Observation(P!Sound))
  /\ \A on : After!Committed(on) = P!Committed(on)
  /\ F!Capacity = P!Capacity
  /\ \A g : After!LockedOut(g) <=> P!LockedOut(g)
<1>1. \A on : After!Projected(on, After!Observation(After!Sound)) = P!Projected(on, P!Observation(P!Sound))
  <2>1. After!Observation(After!Sound) = P!Observation(P!Sound)
    BY SameSums DEF After!Observation, P!Observation, After!Scalar, P!Scalar, After!BoolArray, P!BoolArray,
         After!Sound, P!Sound, After!CanStart, P!CanStart, After!CanStop, P!CanStop
  <2>2. \A on, candidates, obs : After!Restore(on, candidates, obs) = P!Restore(on, candidates, obs)
    BY SameSums DEF After!Restore, P!Restore, After!Covers, P!Covers, After!Required, P!Required,
         After!EffectiveOnline, P!EffectiveOnline, After!Visited, P!Visited, After!N, P!N, After!Min, P!Min
  <2>3. \A on, obs : After!EnforceHeat(on, obs) = P!EnforceHeat(on, obs)
    BY SameSums DEF After!EnforceHeat, P!EnforceHeat, After!HeatShortfall, P!HeatShortfall,
         After!Visited, P!Visited, After!N, P!N, After!Min, P!Min
  <2> QED BY <2>1, <2>2, <2>3 DEF After!Projected, P!Projected, After!EnforceCapacity, P!EnforceCapacity,
         After!StartCold, P!StartCold, After!CancelStops, P!CancelStops
<1>2. \A on : After!Committed(on) = P!Committed(on)
  BY DEF After!Committed, P!Committed, After!CanStart, P!CanStart, After!CanStop, P!CanStop
<1>3. F!Capacity = P!Capacity
  BY SameSums
<1>4. \A g : After!LockedOut(g) <=> P!LockedOut(g)
  BY DEF After!LockedOut, P!LockedOut
<1> QED BY <1>1, <1>2, <1>3, <1>4

\* What SafetyProofs assumes of the constants holds of those it is given here.
LEMMA SameMachines ==
  P!OrderAssumption /\ P!RatingAssumption /\ P!TimerAssumption /\ P!LoadAssumption /\ P!BandAssumption /\ P!RequestAssumption
<1>1. P!OrderAssumption /\ P!RatingAssumption
  <2>1. P!IsFiniteSet(Gensets)
    BY OrderAssumption DEF P!IsFiniteSet, IsFiniteSet
  <2> QED BY <2>1, OrderAssumption, RatingAssumption DEF P!OrderAssumption, P!RatingAssumption, P!N, N
<1>2. P!TimerAssumption /\ P!LoadAssumption
  BY FleetAssumption DEF P!TimerAssumption, P!LoadAssumption, P!Fields
<1>3. P!BandAssumption /\ P!RequestAssumption
  BY RatingAssumption DEF P!BandAssumption, P!RequestAssumption
<1> QED BY <1>1, <1>2, <1>3

\* A step of the environment leaves the cover behind, or nothing that could be started.
LEMMA EnvCovers ==
  ASSUME FleetOK, NEW proposed \in SUBSET Gensets, EnvStep(proposed)
  PROVE  \/ F!Capacity[online'] >= critical + ReserveMargin
         \/ \A g \in Gensets : g \in online' \/ After!LockedOut(g)
<1> DEFINE asked == WithoutTripped(proposed)
           obs   == P!Observation(P!Sound)
           on    == P!Projected(asked, obs)
<1>1. online' = P!Committed(on)
  BY SamePlant DEF EnvStep, Execute, Safe
<1>2. P!TypeOK
  BY DEF FleetOK, P!TypeOK, OnlineAfterTrips, F!Settled, P!Settled
<1>3. /\ obs.online \subseteq OnlineAfterTrips /\ obs.canStart \subseteq P!CanStart /\ P!CanStop \subseteq obs.canStop
      /\ obs.critical \in Nat /\ critical \in Nat /\ obs.critical >= critical
  BY <1>2, SameMachines, P!SoundReads, FleetAssumption DEF FleetOK
<1>4. asked \in SUBSET Gensets
  BY DEF WithoutTripped
<1> HIDE DEF obs, asked
<1>5. obs.online \subseteq Gensets /\ P!Required(obs) \in Nat /\ ReserveMargin \in Nat
  BY <1>3, RatingAssumption DEF FleetOK, OnlineAfterTrips, P!Required
<1>6. on \in SUBSET Gensets /\ (P!Covers(on, obs) \/ on = Gensets)
  BY <1>4, <1>5, SameMachines, P!ProjectedCovers
<1> HIDE DEF on
<1>7. CASE P!Covers(on, obs)
  <2>1. P!EffectiveOnline(on, obs) \subseteq P!Committed(on) /\ P!Committed(on) \subseteq Gensets
    BY <1>2, <1>3, <1>6, SameMachines, P!CommittedCountsOn
  <2>2. /\ P!Capacity[P!EffectiveOnline(on, obs)] <= P!Capacity[P!Committed(on)]
        /\ P!Capacity[P!EffectiveOnline(on, obs)] \in Nat /\ P!Capacity[P!Committed(on)] \in Nat
    BY <2>1, SameMachines, P!CapacityGrows
  <2>3. P!Capacity[P!EffectiveOnline(on, obs)] >= critical + ReserveMargin
    BY <1>3, <1>5, <1>7, <2>2 DEF P!Covers, P!Required
  <2>4. P!Capacity[P!Committed(on)] >= critical + ReserveMargin
    BY <1>3, <1>5, <2>2, <2>3
  <2> QED BY <1>1, <2>4, SamePlant
<1>8. CASE on = Gensets
  <2> SUFFICES ASSUME NEW g \in Gensets, g \notin P!Committed(on) PROVE P!LockedOut(g)
    BY <1>1, SamePlant
  <2>1. g \notin OnlineAfterTrips /\ g \notin P!CanStart
    BY <1>8 DEF P!Committed
  <2>2. minutes[g] \in Nat /\ MinDownTime \in Nat
    BY FleetAssumption DEF FleetOK, F!Settled
  <2> QED BY <2>1, <2>2 DEF P!CanStart, P!LockedOut
<1> QED BY <1>6, <1>7, <1>8

\* The fleet keeps its shape in both harnesses.
LEMMA FleetInvariant == Spec => []FleetOK
<1>1. \A m \in 0..F!Settled : After!Elapsed(m) \in 0..F!Settled
  BY FleetAssumption DEF After!Elapsed, After!Settled, F!Settled
<1>2. F!Settled \in 0..F!Settled /\ 0 \in 0..F!Settled
  BY FleetAssumption DEF F!Settled
<1>3. Init => FleetOK
  BY <1>2 DEF Init, F!Init, FleetOK
<1>4. FleetOK /\ [Next]_vars => FleetOK'
  <2> SUFFICES ASSUME FleetOK, [Next]_vars PROVE FleetOK'
    OBVIOUS
  <2>1. ASSUME NEW on, Execute(on) PROVE FleetOK'
    <3>1. online' \subseteq Gensets
      BY <2>1 DEF Execute, FleetOK, OnlineAfterTrips, After!Committed, After!CanStart
    <3>2. minutes' \in [Gensets -> 0..F!Settled]
      BY <2>1, <1>1, <1>2 DEF Execute, FleetOK, After!Advanced
    <3>3. critical' \in CriticalLoads /\ heat' \in FirmHeats
      BY <2>1 DEF Execute
    <3> QED BY <3>1, <3>2, <3>3 DEF FleetOK, F!Settled
  <2>2. CASE Fresh
    BY <2>2, <1>2 DEF Fresh, FleetOK, F!Settled
  <2>3. CASE UNCHANGED vars
    BY <2>3 DEF vars, FleetOK, F!Settled
  <2> QED BY <2>1, <2>2, <2>3 DEF Next, EnvStep, BenchmarkStep, EnvReset, NextScenario
<1> QED BY <1>3, <1>4, PTL DEF Spec

\* For every fleet and every schedule of trips, the environment's projection answers a
\* trip in the interval it happens (FaultInjector rewrites the command and the plant
\* before PolarMicrogridEnv.step projects): the cover is there, or no healthy set is left
\* that could be started.
THEOREM CoverSurvivesTrips == Spec => CoverDespiteTrips
<1>1. IInv /\ FleetOK /\ [Next]_vars =>
        [harness = "env" /\ Stepped =>
           \/ F!Capacity[online'] >= critical + ReserveMargin
           \/ \A g \in Gensets \ Tripped(episodeStep) : g \in online' \/ After!LockedOut(g)]_vars
  <2> SUFFICES ASSUME IInv, FleetOK, Next, harness = "env", Stepped
               PROVE  \/ F!Capacity[online'] >= critical + ReserveMargin
                      \/ \A g \in Gensets \ Tripped(episodeStep) : g \in online' \/ After!LockedOut(g)
    OBVIOUS
  <2>1. ~(episodeStep' = 0)
    BY DEF Stepped, IInv
  <2>2. \E on \in SUBSET Gensets : EnvStep(on)
    BY <2>1 DEF Next, BenchmarkStep, EnvReset, NextScenario, Fresh
  <2> QED BY <2>2, EnvCovers
<1> QED BY Invariance, FleetInvariant, <1>1, PTL DEF Spec, CoverDespiteTrips
=============================================================================
