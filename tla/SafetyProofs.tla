--------------------------- MODULE SafetyProofs ----------------------------
(***************************************************************************)
(* Theorems of the safety projection, for every fleet, load, timer, series *)
(* and request: first its commitment (module Fleet), then its bounds in kW *)
(* and the power balance that follows (module Dispatch).                   *)
(*                                                                         *)
(* CoverEveryInterval is an action property, so its proof needs no history *)
(* beyond the type invariant: what a step leaves behind is worked out from *)
(* the observation the projection reads (Understates), the loops that add  *)
(* sets (RestoreEnds), and the fact that adding a set to a commitment      *)
(* never takes a set off line (EffectiveMonotone).                         *)
(*                                                                         *)
(* In kW, everything follows from what a projected command is bound to     *)
(* (Bound), whatever was asked, and from the sums over sets of SumLemmas.  *)
(***************************************************************************)
EXTENDS Fleet, Dispatch, SumLemmas, TLAPS

\* The smallest element of a non-empty set of naturals is an element of it.
LEMMA MinIsElement ==
  ASSUME NEW S, S \subseteq Nat, S # {}
  PROVE  Min(S) \in S
BY LeastOf DEF Min

\* The sums of the projection are numbers, and grow with the commitment.
LEMMA CapacityGrows ==
  /\ \A S \in SUBSET Gensets : Capacity[S] \in Nat /\ RecoverableHeat[S] \in Nat
  /\ \A S, T \in SUBSET Gensets : S \subseteq T =>
       Capacity[S] <= Capacity[T] /\ RecoverableHeat[S] <= RecoverableHeat[T]
<1>1. ASSUME NEW f \in [Gensets -> Nat], NEW T \in SUBSET Gensets, NEW S \in SUBSET T
      PROVE  SumFunctionOnSet(f, S) \in Nat /\ SumFunctionOnSet(f, S) <= SumFunctionOnSet(f, T)
  <2>1. IsFiniteSet(T) /\ IsFiniteSet(S) /\ IsFiniteSet({}) /\ \A g \in T : f[g] \in Int /\ f[g] >= 0
    BY OrderAssumption, FS_Subset, FS_EmptySet
  <2>2. SumFunctionOnSet(f, S) \in Int /\ SumFunctionOnSet(f, {}) = 0
    BY <2>1, SumInt, SumEmpty
  <2>3. {} \in SUBSET S /\ \A g \in S : f[g] \in Int /\ f[g] >= 0
    BY <2>1
  <2>4. SumFunctionOnSet(f, {}) <= SumFunctionOnSet(f, S) /\ SumFunctionOnSet(f, S) <= SumFunctionOnSet(f, T)
    BY <2>1, <2>3, SumPart
  <2> QED BY <2>2, <2>4
<1>2. ASSUME NEW S \in SUBSET Gensets PROVE Capacity[S] \in Nat /\ RecoverableHeat[S] \in Nat
  BY <1>1, LoadAssumption, RatingAssumption DEF Capacity, RecoverableHeat
<1>3. ASSUME NEW S \in SUBSET Gensets, NEW T \in SUBSET Gensets, S \subseteq T
      PROVE  Capacity[S] <= Capacity[T] /\ RecoverableHeat[S] <= RecoverableHeat[T]
  BY <1>1, <1>3, LoadAssumption, RatingAssumption DEF Capacity, RecoverableHeat
<1> QED BY <1>2, <1>3

-----------------------------------------------------------------------------
(***************************************************************************)
(* Type correctness.                                                       *)
(***************************************************************************)

\* The timers saturate within their range.
LEMMA ElapsedInRange == \A m \in 0..Settled : Elapsed(m) \in 0..Settled
BY TimerAssumption DEF Elapsed, Settled

\* Both values a timer is given outright are within its range.
LEMMA ResetTimersInRange == Settled \in 0..Settled /\ 0 \in 0..Settled
BY TimerAssumption DEF Settled

\* Whatever is projected and executed, the state keeps its shape: the timers of
\* Genset.set_commitment and apply_power stay in range for every command.
THEOREM TypeCorrect == Spec => []TypeOK
<1>1. Init => TypeOK
  BY ResetTimersInRange DEF Init, TypeOK
<1>2. TypeOK /\ [Next]_vars => TypeOK'
  <2> SUFFICES ASSUME TypeOK, [Next]_vars PROVE TypeOK'
    OBVIOUS
  <2>1. ASSUME NEW proposed \in Proposals, NEW s \in Sensing, Interval(proposed, s)
        PROVE  TypeOK'
    <3>1. online' \subseteq Gensets
      BY <2>1 DEF TypeOK, Interval, Committed, CanStart
    <3>2. minutes' \in [Gensets -> 0..Settled]
      BY <2>1, ElapsedInRange, ResetTimersInRange DEF TypeOK, Interval, Advanced
    <3>3. critical' \in CriticalLoads /\ heat' \in FirmHeats /\ step' \in 0..2
      BY <2>1 DEF Interval
    <3> QED BY <3>1, <3>2, <3>3 DEF TypeOK
  <2>2. CASE Reset
    BY <2>2, ResetTimersInRange DEF Reset, TypeOK
  <2>3. CASE UNCHANGED vars
    BY <2>3 DEF vars, TypeOK
  <2> QED BY <2>1, <2>2, <2>3 DEF Next, SomeInterval
<1> QED BY <1>1, <1>2, PTL DEF Spec

-----------------------------------------------------------------------------
(***************************************************************************)
(* The loops of the projection.                                            *)
(***************************************************************************)

\* A loop over the sorted sets that runs to its end has visited every set.
LEMMA VisitedAll == Visited(N) = Gensets
BY OrderAssumption DEF Visited

\* What a loop visits are sets of the station.
LEMMA VisitedGensets == \A n \in 0..N : Visited(n) \subseteq Gensets
BY OrderAssumption DEF Visited

\* A loop of _enforce_capacity keeps every set it was given, adds only
\* candidates, and ends covered or with every candidate added.
LEMMA RestoreEnds ==
  ASSUME NEW on \in SUBSET Gensets, NEW candidates \in SUBSET Gensets, NEW obs
  PROVE  /\ on \subseteq Restore(on, candidates, obs)
         /\ Restore(on, candidates, obs) \subseteq on \union candidates
         /\ \/ Covers(Restore(on, candidates, obs), obs)
            \/ candidates \subseteq Restore(on, candidates, obs)
<1> DEFINE after(n) == on \union (candidates \intersect Visited(n))
           ends     == {n \in 0..N : n = N \/ Covers(after(n), obs)}
<1>1. N \in ends
  BY OrderAssumption
<1>2. Min(ends) \in ends
  <2>1. ends \subseteq Nat /\ ends # {}
    BY <1>1
  <2> HIDE DEF ends
  <2> QED BY <2>1, MinIsElement
<1>3. Restore(on, candidates, obs) = after(Min(ends))
  BY DEF Restore
<1>4. Min(ends) = N \/ Covers(after(Min(ends)), obs)
  BY <1>2
<1>5. candidates \subseteq after(N)
  BY VisitedAll
<1> HIDE DEF ends
<1>6. \/ Covers(Restore(on, candidates, obs), obs)
      \/ candidates \subseteq Restore(on, candidates, obs)
  BY <1>3, <1>4, <1>5
<1>7. on \subseteq after(Min(ends)) /\ after(Min(ends)) \subseteq on \union candidates
  OBVIOUS
<1> QED BY <1>3, <1>6, <1>7

\* _enforce_heat only adds sets.
LEMMA HeatOnlyAdds ==
  ASSUME NEW on \in SUBSET Gensets, NEW obs
  PROVE  on \subseteq EnforceHeat(on, obs) /\ EnforceHeat(on, obs) \subseteq Gensets
<1> DEFINE after(n) == on \union Visited(n)
           ends     == {n \in 0..N : n = N \/ RecoverableHeat[after(n)] >= HeatShortfall(obs)}
<1>1. N \in ends
  BY OrderAssumption
<1>2. Min(ends) \in ends
  <2>1. ends \subseteq Nat /\ ends # {}
    BY <1>1
  <2> HIDE DEF ends
  <2> QED BY <2>1, MinIsElement
<1>3. Min(ends) \in 0..N
  BY <1>2
<1>4. EnforceHeat(on, obs) = on \/ EnforceHeat(on, obs) = after(Min(ends))
  BY DEF EnforceHeat
<1> HIDE DEF ends
<1>5. on \subseteq after(Min(ends)) /\ after(Min(ends)) \subseteq Gensets
  BY <1>3, VisitedGensets
<1> QED BY <1>4, <1>5

-----------------------------------------------------------------------------
(***************************************************************************)
(* The cover.                                                              *)
(***************************************************************************)

\* The faults of the sensors that the projection survives: whole fields lost but for
\* genset_can_stop, entries read as False but of genset_can_stop as True, and a load
\* that a lost load sensor does not understate.
SoundSensors ==
  \A s \in Sensing :
    /\ "genset_can_stop" \notin s.lost
    /\ \A e \in s.garbled : e.reads <=> e.field = "genset_can_stop"
    /\ "critical_load_kw" \in s.lost => \A c \in CriticalLoads : c <= Capacity[Gensets]

\* A list that is read entry by entry is the list itself where nothing is garbled, and is
\* only garbled towards what its entries read.
LEMMA ReadsEntries ==
  ASSUME NEW s \in Faulty, NEW field \in BoolFields, NEW sets \in SUBSET Gensets
  PROVE  /\ BoolArray(sets, field, s) \in SUBSET Gensets
         /\ (\A e \in s.garbled : e.field = field => ~e.reads) => BoolArray(sets, field, s) \subseteq sets
         /\ field \notin s.lost /\ (\A e \in s.garbled : e.field = field => e.reads)
              => sets \subseteq BoolArray(sets, field, s)
         /\ field \notin s.lost /\ s.garbled = {} => BoolArray(sets, field, s) = sets
BY DEF BoolArray, Faulty

\* Sound sensors show the plant as it is.
LEMMA SoundReads ==
  ASSUME TypeOK
  PROVE  Observation(Sound) = [critical |-> critical, heat |-> heat, online |-> online,
                               canStart |-> CanStart, canStop |-> CanStop]
<1>1. Sound \in Faulty /\ Sound.lost = {} /\ Sound.garbled = {}
  BY DEF Sound, Faulty
<1>2. \A field \in BoolFields, sets \in SUBSET Gensets : BoolArray(sets, field, Sound) = sets
  BY <1>1, ReadsEntries
<1>3. online \in SUBSET Gensets /\ CanStart \in SUBSET Gensets /\ CanStop \in SUBSET Gensets
  BY DEF TypeOK, CanStart, CanStop
<1>4. \A value, worstCase, field : Scalar(value, worstCase, field, Sound) = value
  BY <1>1 DEF Scalar
<1> HIDE DEF Sound
<1> QED BY <1>2, <1>3, <1>4 DEF Observation, BoolFields

\* What the projection reads never overstates what a set can do, nor understates
\* the load.
LEMMA Understates ==
  ASSUME TypeOK, SoundSensors, NEW s \in Sensing
  PROVE  LET obs == Observation(s) IN
         /\ obs.online \subseteq online
         /\ obs.canStart \subseteq CanStart
         /\ CanStop \subseteq obs.canStop
         /\ obs.critical \in Nat /\ critical \in Nat
         /\ obs.critical >= critical
<1>1. critical \in Nat
  BY LoadAssumption, RatingAssumption DEF TypeOK
<1>2. Capacity[Gensets] \in Nat
  BY CapacityGrows
<1>3. Observation(s).critical \in Nat /\ Observation(s).critical >= critical
  BY <1>1, <1>2 DEF Observation, Scalar, SoundSensors, TypeOK
<1>4. /\ s \in Faulty /\ "genset_can_stop" \notin s.lost
      /\ \A e \in s.garbled : e.reads <=> e.field = "genset_can_stop"
  BY LoadAssumption DEF SoundSensors
<1>5. online \in SUBSET Gensets /\ CanStart \in SUBSET Gensets /\ CanStop \in SUBSET Gensets
  BY DEF TypeOK, CanStart, CanStop
<1>6. /\ BoolArray(online, "genset_online", s) \subseteq online
      /\ BoolArray(CanStart, "genset_can_start", s) \subseteq CanStart
      /\ CanStop \subseteq BoolArray(CanStop, "genset_can_stop", s)
  BY <1>4, <1>5, ReadsEntries DEF BoolFields
<1> QED BY <1>1, <1>3, <1>6 DEF Observation

\* A set that is commanded on as well never takes another off line.
LEMMA EffectiveMonotone ==
  ASSUME NEW obs, NEW on, NEW more, on \subseteq more
  PROVE  EffectiveOnline(on, obs) \subseteq EffectiveOnline(more, obs)
BY DEF EffectiveOnline

\* A commitment that covers the load still does with more sets in it.
LEMMA CoversMonotone ==
  ASSUME NEW obs, NEW on, NEW more, on \subseteq more, Covers(on, obs), Required(obs) \in Nat
  PROVE  Covers(more, obs)
<1>1. EffectiveOnline(on, obs) \in SUBSET Gensets /\ EffectiveOnline(more, obs) \in SUBSET Gensets
  BY DEF EffectiveOnline
<1>2. Capacity[EffectiveOnline(on, obs)] <= Capacity[EffectiveOnline(more, obs)]
  BY <1>1, EffectiveMonotone, CapacityGrows
<1>3. /\ Capacity[EffectiveOnline(on, obs)] \in Nat
      /\ Capacity[EffectiveOnline(more, obs)] \in Nat
  BY <1>1, CapacityGrows
<1> QED BY <1>2, <1>3 DEF Covers

\* Whatever was proposed, the projected commitment covers the observed load or
\* commands the whole fleet.
LEMMA ProjectedCovers ==
  ASSUME NEW proposed \in SUBSET Gensets, NEW obs, obs.online \subseteq Gensets,
         Required(obs) \in Nat
  PROVE  /\ Projected(proposed, obs) \subseteq Gensets
         /\ Covers(Projected(proposed, obs), obs) \/ Projected(proposed, obs) = Gensets
<1> DEFINE kept    == CancelStops(proposed, obs)
           started == StartCold(kept, obs)
<1>1. kept \in SUBSET Gensets
  BY RestoreEnds DEF CancelStops
<1>2. /\ started \in SUBSET Gensets
      /\ Covers(started, obs) \/ Gensets \subseteq started
  <2> HIDE DEF kept
  <2> QED BY <1>1, RestoreEnds DEF StartCold
<1>3. Projected(proposed, obs) = EnforceHeat(started, obs)
  BY DEF Projected, EnforceCapacity
<1> HIDE DEF started
<1>4. started \subseteq Projected(proposed, obs) /\ Projected(proposed, obs) \subseteq Gensets
  BY <1>2, <1>3, HeatOnlyAdds
<1>5. CASE Covers(started, obs)
  BY <1>4, <1>5, CoversMonotone
<1>6. CASE Gensets \subseteq started
  BY <1>4, <1>6
<1> QED BY <1>2, <1>4, <1>5, <1>6

\* The sets set_commitment leaves turning are at least those the projection
\* counted on.
LEMMA CommittedCountsOn ==
  ASSUME NEW on \in SUBSET Gensets, TypeOK, NEW obs,
         obs.online \subseteq online, obs.canStart \subseteq CanStart, CanStop \subseteq obs.canStop
  PROVE  /\ EffectiveOnline(on, obs) \subseteq Committed(on)
         /\ Committed(on) \subseteq Gensets
BY DEF EffectiveOnline, Committed, CanStart, CanStop, TypeOK

\* One interval leaves the cover behind, or nothing that could be started.
LEMMA IntervalCovers ==
  ASSUME TypeOK, SoundSensors,
         NEW proposed \in Proposals, NEW s \in Sensing, Interval(proposed, s)
  PROVE  \/ Capacity[online'] >= critical + ReserveMargin
         \/ \A g \in Gensets : g \in online' \/ LockedOut(g)
<1> DEFINE obs == Observation(s)
           on  == Projected(proposed, obs)
<1>1. online' = Committed(on)
  BY DEF Interval
<1>2. proposed \in SUBSET Gensets
  BY DEF Proposals, SanitisedBools
<1>3. /\ obs.online \subseteq online /\ obs.canStart \subseteq CanStart /\ CanStop \subseteq obs.canStop
      /\ obs.critical \in Nat /\ critical \in Nat /\ obs.critical >= critical
  BY Understates
<1> HIDE DEF obs
<1>4. obs.online \subseteq Gensets /\ Required(obs) \in Nat
  BY <1>3, LoadAssumption, RatingAssumption DEF TypeOK, Required
<1>5. on \in SUBSET Gensets /\ (Covers(on, obs) \/ on = Gensets)
  BY <1>2, <1>4, ProjectedCovers
<1> HIDE DEF on
<1>6. CASE Covers(on, obs)
  <2>1. EffectiveOnline(on, obs) \subseteq Committed(on) /\ Committed(on) \subseteq Gensets
    BY <1>3, <1>5, CommittedCountsOn
  <2>2. /\ Capacity[EffectiveOnline(on, obs)] <= Capacity[Committed(on)]
        /\ Capacity[EffectiveOnline(on, obs)] \in Nat /\ Capacity[Committed(on)] \in Nat
    BY <2>1, CapacityGrows
  <2>3. Capacity[EffectiveOnline(on, obs)] >= critical + ReserveMargin
    BY <1>3, <1>6, <2>2, LoadAssumption, RatingAssumption DEF Covers, Required
  <2> QED BY <1>1, <1>3, <2>2, <2>3, LoadAssumption, RatingAssumption
<1>7. CASE on = Gensets
  <2> SUFFICES ASSUME NEW g \in Gensets, g \notin Committed(on) PROVE LockedOut(g)
    BY <1>1
  <2>1. g \notin online /\ g \notin CanStart
    BY <1>7 DEF Committed
  <2>2. minutes[g] \in Nat /\ MinDownTime \in Nat
    BY TimerAssumption DEF TypeOK, Settled
  <2> QED BY <2>1, <2>2 DEF CanStart, LockedOut
<1> QED BY <1>5, <1>6, <1>7

\* The projection keeps its first two guarantees on the machines, for every
\* station and every controller, while the fields it depends on are sound: after
\* every interval the turning sets cover life support and the reserve, or every
\* set turns or is held off by its down time.
THEOREM CoverKept == SoundSensors => (Spec => CoverEveryInterval)
<1> SUFFICES ASSUME SoundSensors PROVE Spec => CoverEveryInterval
  OBVIOUS
<1> DEFINE Kept == \/ Capacity[online'] >= critical + ReserveMargin
                   \/ \A g \in Gensets : g \in online' \/ LockedOut(g)
<1>1. TypeOK /\ [Next]_vars => [step' # 0 => Kept]_vars
  <2> SUFFICES ASSUME TypeOK, Next, step' # 0 PROVE Kept
    OBVIOUS
  <2>1. SomeInterval
    BY DEF Next, Reset
  <2> QED BY <2>1, IntervalCovers DEF SomeInterval
<1> QED BY <1>1, TypeCorrect, PTL DEF Spec, CoverEveryInterval

-----------------------------------------------------------------------------
(***************************************************************************)
(* The heat.                                                               *)
(***************************************************************************)

\* A heat demand that a lost heat sensor does not understate.
SoundHeatSensor ==
  (\E s \in Sensing : "firm_thermal_kw" \in s.lost) =>
    \A h \in FirmHeats : h <= BoilerRated + RecoverableHeat[Gensets]

\* _enforce_heat ends with enough recovered heat commanded, or with every set
\* commanded.
LEMMA HeatEnds ==
  ASSUME NEW on \in SUBSET Gensets, NEW obs, HeatShortfall(obs) \in Int
  PROVE  LET after == EnforceHeat(on, obs) IN
         RecoverableHeat[after] >= HeatShortfall(obs) \/ after = Gensets
<1> DEFINE after(n) == on \union Visited(n)
           ends     == {n \in 0..N : n = N \/ RecoverableHeat[after(n)] >= HeatShortfall(obs)}
<1>1. CASE HeatShortfall(obs) <= 0
  <2>1. EnforceHeat(on, obs) = on
    BY <1>1 DEF EnforceHeat
  <2>2. RecoverableHeat[on] \in Nat
    BY CapacityGrows
  <2> QED BY <1>1, <2>1, <2>2
<1>2. CASE ~(HeatShortfall(obs) <= 0)
  <2>1. EnforceHeat(on, obs) = after(Min(ends))
    BY <1>2 DEF EnforceHeat
  <2>2. N \in ends
    BY OrderAssumption
  <2>3. Min(ends) \in ends
    <3>1. ends \subseteq Nat /\ ends # {}
      BY <2>2
    <3> HIDE DEF ends
    <3> QED BY <3>1, MinIsElement
  <2>4. Min(ends) = N \/ RecoverableHeat[after(Min(ends))] >= HeatShortfall(obs)
    BY <2>3
  <2>5. after(N) = Gensets
    BY VisitedAll
  <2> HIDE DEF ends
  <2> QED BY <2>1, <2>4, <2>5
<1> QED BY <1>1, <1>2

\* One interval in which no set is held off leaves the heat covered or the whole
\* fleet turning.
LEMMA IntervalHeats ==
  ASSUME TypeOK, SoundHeatSensor, \A g \in Gensets : ~LockedOut(g),
         NEW proposed \in Proposals, NEW s \in Sensing, Interval(proposed, s)
  PROVE  RecoverableHeat[online'] >= heat - BoilerRated \/ online' = Gensets
<1> DEFINE obs      == Observation(s)
           electric == EnforceCapacity(proposed, obs)
           on       == Projected(proposed, obs)
<1>1. online' = Committed(on) /\ on = EnforceHeat(electric, obs)
  BY DEF Interval, Projected
<1>2. obs.heat \in Int /\ heat \in Int /\ obs.heat >= heat
  <2>1. RecoverableHeat[Gensets] \in Nat /\ BoilerRated \in Nat /\ heat \in Nat
    BY CapacityGrows, LoadAssumption, RatingAssumption DEF TypeOK
  <2> QED BY <2>1 DEF Observation, Scalar, SoundHeatSensor, TypeOK
<1>3. electric \in SUBSET Gensets
  <2>1. proposed \in SUBSET Gensets /\ obs.online \in SUBSET Gensets
    <3>1. s \in Faulty /\ online \in SUBSET Gensets
      BY LoadAssumption DEF TypeOK
    <3>2. BoolArray(online, "genset_online", s) \in SUBSET Gensets
      BY <3>1, ReadsEntries DEF BoolFields
    <3> QED BY <3>2 DEF Proposals, SanitisedBools, Observation
  <2>2. CancelStops(proposed, obs) \in SUBSET Gensets
    BY <2>1, RestoreEnds DEF CancelStops
  <2> HIDE DEF obs
  <2> QED BY <2>2, RestoreEnds DEF EnforceCapacity, StartCold
<1> HIDE DEF obs, electric
<1>4. HeatShortfall(obs) \in Int /\ HeatShortfall(obs) >= heat - BoilerRated
  BY <1>2, LoadAssumption, RatingAssumption DEF HeatShortfall
<1>5. /\ on \subseteq Gensets
      /\ RecoverableHeat[on] >= HeatShortfall(obs) \/ on = Gensets
  BY <1>1, <1>3, <1>4, HeatOnlyAdds, HeatEnds
<1> HIDE DEF on
  \* Nothing is held off, so every set commanded on turns.
<1>6. on \subseteq online' /\ online' \subseteq Gensets
  <2>1. \A g \in Gensets : minutes[g] \in Int /\ MinDownTime \in Int
    BY TimerAssumption DEF TypeOK, Settled
  <2> QED BY <1>1, <1>5, <2>1 DEF Committed, CanStart, CanStop, LockedOut, TypeOK
<1>7. RecoverableHeat[on] <= RecoverableHeat[online']
  BY <1>5, <1>6, CapacityGrows
<1>8. RecoverableHeat[on] \in Nat /\ RecoverableHeat[online'] \in Nat
  BY <1>5, <1>6, CapacityGrows
<1>9. CASE RecoverableHeat[on] >= HeatShortfall(obs)
  <2>1. heat - BoilerRated \in Int
    BY <1>2, LoadAssumption, RatingAssumption
  <2> QED BY <1>4, <1>7, <1>8, <1>9, <2>1
<1>10. CASE on = Gensets
  BY <1>6, <1>10
<1> QED BY <1>5, <1>9, <1>10

\* Guarantee 5 for every station and every controller where the timers hold no
\* set off: the turning sets recover what the boilers cannot make, or all turn.
THEOREM HeatKept == SoundHeatSensor => (Spec => HeatWhenNoneLocked)
<1> SUFFICES ASSUME SoundHeatSensor PROVE Spec => HeatWhenNoneLocked
  OBVIOUS
<1>1. TypeOK /\ [Next]_vars =>
        [step' # 0 /\ (\A g \in Gensets : ~LockedOut(g)) =>
           \/ RecoverableHeat[online'] >= heat - BoilerRated
           \/ online' = Gensets]_vars
  <2> SUFFICES ASSUME TypeOK, Next, step' # 0, \A g \in Gensets : ~LockedOut(g)
               PROVE  RecoverableHeat[online'] >= heat - BoilerRated \/ online' = Gensets
    OBVIOUS
  <2>1. SomeInterval
    BY DEF Next, Reset
  <2> QED BY <2>1, IntervalHeats DEF SomeInterval
<1> QED BY <1>1, TypeCorrect, PTL DEF Spec, HeatWhenNoneLocked

-----------------------------------------------------------------------------
(***************************************************************************)
(* Idempotence.                                                            *)
(***************************************************************************)

\* The smallest element of a set of naturals that holds zero is zero.
LEMMA MinIsZero ==
  ASSUME NEW S, S \subseteq Nat, 0 \in S
  PROVE  Min(S) = 0
<1>1. \A y \in S : 0 <= y
  OBVIOUS
<1>2. Min(S) \in S /\ \A y \in S : Min(S) <= y
  BY <1>1 DEF Min
<1>3. Min(S) \in Nat /\ Min(S) <= 0
  BY <1>2
<1> QED BY <1>3

\* A loop that ends before its first iteration has visited nothing.
LEMMA VisitedNone == Visited(0) = {}
BY DEF Visited

\* A loop that finds the cover in place, or nothing to add, adds nothing.
LEMMA RestoreSatisfied ==
  ASSUME NEW on \in SUBSET Gensets, NEW candidates, NEW obs,
         Covers(on, obs) \/ candidates \subseteq on
  PROVE  Restore(on, candidates, obs) = on
<1> DEFINE after(n) == on \union (candidates \intersect Visited(n))
           ends     == {n \in 0..N : n = N \/ Covers(after(n), obs)}
<1>1. Restore(on, candidates, obs) = after(Min(ends))
  BY DEF Restore
<1>2. CASE candidates \subseteq on
  BY <1>1, <1>2
<1>3. CASE Covers(on, obs)
  <2>1. after(0) = on
    BY VisitedNone
  <2>2. 0 \in ends
    <3>1. 0 \in 0..N
      BY OrderAssumption
    <3>2. Covers(after(0), obs)
      BY <1>3, <2>1
    <3> QED BY <3>1, <3>2
  <2>3. ends \subseteq Nat
    OBVIOUS
  <2> HIDE DEF ends
  <2>4. Min(ends) = 0
    BY <2>2, <2>3, MinIsZero
  <2> QED BY <1>1, <2>1, <2>4
<1> QED BY <1>2, <1>3

\* _enforce_heat adds nothing where the heat is in place or every set is on.
LEMMA HeatSatisfied ==
  ASSUME NEW on \in SUBSET Gensets, NEW obs,
         RecoverableHeat[on] >= HeatShortfall(obs) \/ on = Gensets
  PROVE  EnforceHeat(on, obs) = on
<1> DEFINE after(n) == on \union Visited(n)
           ends     == {n \in 0..N : n = N \/ RecoverableHeat[after(n)] >= HeatShortfall(obs)}
<1>1. EnforceHeat(on, obs) = on \/ EnforceHeat(on, obs) = after(Min(ends))
  BY DEF EnforceHeat
<1>2. CASE on = Gensets
  BY <1>2, HeatOnlyAdds
<1>3. CASE RecoverableHeat[on] >= HeatShortfall(obs)
  <2>1. after(0) = on
    BY VisitedNone
  <2>2. 0 \in ends
    <3>1. 0 \in 0..N
      BY OrderAssumption
    <3>2. RecoverableHeat[after(0)] >= HeatShortfall(obs)
      BY <1>3, <2>1
    <3> QED BY <3>1, <3>2
  <2>3. ends \subseteq Nat
    OBVIOUS
  <2> HIDE DEF ends
  <2>4. Min(ends) = 0
    BY <2>2, <2>3, MinIsZero
  <2> QED BY <1>1, <2>1, <2>4
<1> QED BY <1>2, <1>3

\* A projected commitment is a fixed point of the projection, in every reachable
\* state: the two layers that may both project a command agree.
THEOREM ProjectedOnce == Spec => []ProjectionIdempotent
<1>1. TypeOK => ProjectionIdempotent
  <2> SUFFICES ASSUME TypeOK, NEW on \in SUBSET Gensets
               PROVE  LET obs == Observation(Sound)
                      IN  Projected(Projected(on, obs), obs) = Projected(on, obs)
    BY DEF ProjectionIdempotent
  <2> DEFINE obs   == Observation(Sound)
             final == Projected(on, obs)
             electric == EnforceCapacity(on, obs)
  <2>1. obs.online \subseteq Gensets /\ obs.critical \in Nat /\ obs.heat \in Nat
    BY SoundReads, LoadAssumption, RatingAssumption DEF TypeOK
  <2> HIDE DEF obs
  <2>2. Required(obs) \in Nat /\ HeatShortfall(obs) \in Int
    BY <2>1, LoadAssumption, RatingAssumption DEF Required, HeatShortfall
  <2>3. final \in SUBSET Gensets /\ (Covers(final, obs) \/ final = Gensets)
    BY <2>1, <2>2, ProjectedCovers
  <2>4. RecoverableHeat[final] >= HeatShortfall(obs) \/ final = Gensets
    <3>1. electric \in SUBSET Gensets
      <4>1. CancelStops(on, obs) \in SUBSET Gensets
        BY <2>1, RestoreEnds DEF CancelStops
      <4> QED BY <4>1, RestoreEnds DEF EnforceCapacity, StartCold
    <3>2. final = EnforceHeat(electric, obs)
      BY DEF Projected
    <3> HIDE DEF electric, final
    <3> QED BY <2>2, <3>1, <3>2, HeatEnds
  <2> HIDE DEF final
  <2>5. CancelStops(final, obs) = final
    BY <2>1, <2>3, RestoreSatisfied DEF CancelStops
  <2>6. StartCold(final, obs) = final
    BY <2>3, RestoreSatisfied DEF StartCold
  <2>7. EnforceHeat(final, obs) = final
    BY <2>3, <2>4, HeatSatisfied
  <2>8. Projected(final, obs) = final
    BY <2>5, <2>6, <2>7 DEF Projected, EnforceCapacity
  <2> QED BY <2>8 DEF final, obs
<1> QED BY <1>1, TypeCorrect, PTL

-----------------------------------------------------------------------------
(***************************************************************************)
(* The order of restoring.                                                 *)
(***************************************************************************)

\* Nothing in a set of naturals is below its smallest element.
LEMMA MinIsLeast ==
  ASSUME NEW S, S \subseteq Nat, NEW x \in S
  PROVE  Min(S) <= x
BY LeastOf DEF Min

\* A loop that added sets, and restored the cover, ended as soon as it could: the
\* last set it added is one the cover cannot do without.
LEMMA RestoreNeedsLast ==
  ASSUME NEW on \in SUBSET Gensets, NEW candidates \in SUBSET Gensets, NEW obs,
         Required(obs) \in Nat, Restore(on, candidates, obs) # on
  PROVE  \E g \in Restore(on, candidates, obs) \ on :
           ~Covers(Restore(on, candidates, obs) \ {g}, obs)
<1> DEFINE final    == Restore(on, candidates, obs)
           after(n) == on \union (candidates \intersect Visited(n))
           ends     == {n \in 0..N : n = N \/ Covers(after(n), obs)}
           m        == Min(ends)
<1>1. N \in ends /\ N \in Nat
  BY OrderAssumption
<1>2. ends \subseteq Nat
  OBVIOUS
<1>3. m \in 0..N /\ (m = N \/ Covers(after(m), obs))
  <2>1. m \in ends
    <3> HIDE DEF ends
    <3> QED BY <1>1, <1>2, MinIsElement
  <2> QED BY <2>1
<1>4. \A n \in 0..N : Covers(after(n), obs) => m <= n
  <2> SUFFICES ASSUME NEW n \in 0..N, Covers(after(n), obs) PROVE m <= n
    OBVIOUS
  <2>1. n \in ends
    OBVIOUS
  <2> HIDE DEF ends
  <2> QED BY <1>2, <2>1, MinIsLeast
<1>5. final = after(m)
  BY DEF Restore
<1> HIDE DEF ends, m, final
<1>6. on \subseteq final /\ final # on
  BY <1>5 DEF final
<1>7. CASE ~Covers(final, obs)
  <2>1. PICK g \in final : g \notin on
    BY <1>6
  <2>2. ~Covers(final \ {g}, obs)
    <3>1. final \ {g} \subseteq final
      OBVIOUS
    <3> QED BY <1>7, <3>1, CoversMonotone
  <2> QED BY <2>1, <2>2 DEF final
<1>8. CASE Covers(final, obs)
  <2>1. m # 0
    BY <1>5, <1>6, VisitedNone
  <2>2. m - 1 \in 0..N /\ m \in 1..N /\ m - 1 < m
    BY <1>1, <1>3, <2>1
  <2>3. ~Covers(after(m - 1), obs)
    <3>1. m \in Int /\ ~(m <= m - 1)
      BY <2>2
    <3> QED BY <1>4, <2>2, <3>1
  <2>4. Visited(m) = Visited(m - 1) \union {Order[m]}
    <3>1. \A i : i \in 1..m <=> i \in 1..m - 1 \/ i = m
      BY <2>2
    <3> QED BY <3>1 DEF Visited
  <2> DEFINE g == Order[m]
  <2>5. after(m) # after(m - 1)
    BY <1>5, <1>8, <2>3
  <2>6. g \in candidates /\ g \notin after(m - 1)
    BY <2>4, <2>5
  <2>7. g \in final /\ g \notin on /\ final \ {g} \subseteq after(m - 1)
    BY <1>5, <2>4, <2>6
  <2> HIDE DEF g
  <2>8. ~Covers(final \ {g}, obs)
    BY <2>3, <2>7, CoversMonotone
  <2> QED BY <2>7, <2>8 DEF final
<1> QED BY <1>7, <1>8

\* Cover is restored in the order that costs a station least, for every fleet and
\* every reachable state: nothing is started before every planned stop is
\* cancelled, and some set that was added is indispensable.
THEOREM CheapestFirst == Spec => []CheapestCover
<1>1. TypeOK => CheapestCover
  <2> SUFFICES ASSUME TypeOK, NEW on \in SUBSET Gensets
               PROVE  LET obs   == Observation(Sound)
                          final == EnforceCapacity(on, obs)
                          added == final \ on
                      IN  /\ (added \ online # {}) => online \subseteq final
                          /\ (added # {}) => \E g \in added : ~Covers(final \ {g}, obs)
    BY DEF CheapestCover
  <2> DEFINE obs   == Observation(Sound)
             kept  == CancelStops(on, obs)
             final == EnforceCapacity(on, obs)
  <2>1. obs.online = online /\ online \in SUBSET Gensets /\ obs.critical \in Nat
    BY SoundReads, LoadAssumption, RatingAssumption DEF TypeOK
  <2> HIDE DEF obs
  <2>2. Required(obs) \in Nat
    BY <2>1, LoadAssumption, RatingAssumption DEF Required
  <2>3. kept = Restore(on, online, obs) /\ final = Restore(kept, Gensets, obs)
    BY <2>1 DEF CancelStops, EnforceCapacity, StartCold
  <2> HIDE DEF kept, final
  <2>4. /\ on \subseteq kept /\ kept \subseteq on \union online
        /\ Covers(kept, obs) \/ online \subseteq kept
    BY <2>1, <2>3, RestoreEnds
  <2>5. kept \in SUBSET Gensets
    BY <2>1, <2>4
  <2>6. kept \subseteq final
    BY <2>3, <2>5, RestoreEnds
  <2>7. Covers(kept, obs) => final = kept
    BY <2>3, <2>5, RestoreSatisfied
  <2>8. ((final \ on) \ online # {}) => online \subseteq final
    BY <2>4, <2>6, <2>7
  <2>9. ASSUME final \ on # {}
        PROVE  \E g \in final \ on : ~Covers(final \ {g}, obs)
    <3>1. CASE final # kept
      <4>1. PICK g \in final \ kept : ~Covers(final \ {g}, obs)
        BY <2>2, <2>3, <2>5, <3>1, RestoreNeedsLast
      <4> QED BY <2>4, <4>1
    <3>2. CASE final = kept
      <4>1. kept # on
        BY <2>9, <3>2
      <4> QED BY <2>1, <2>2, <2>3, <3>2, <4>1, RestoreNeedsLast
    <3> QED BY <3>1, <3>2
  <2> QED BY <2>8, <2>9 DEF final, obs
<1> QED BY <1>1, TypeCorrect, PTL

-----------------------------------------------------------------------------
(***************************************************************************)
(* The bounds in kW.  What a projected command is bound to (Bound) carries *)
(* all three properties of the interval.                                   *)
(***************************************************************************)

LEMMA Clipped ==
  ASSUME NEW x \in Int, NEW lo \in Int, NEW hi \in Int, lo <= hi
  PROVE  /\ Clip(x, lo, hi) \in lo..hi
         /\ x \in lo..hi => Clip(x, lo, hi) = x
         /\ x <= lo => Clip(x, lo, hi) = lo
         /\ Clip(x, lo, hi) >= x \/ Clip(x, lo, hi) = hi
BY DEF Clip, Least, Most

IsPower(f) == f \in [Gensets -> Int] /\ \A g \in Gensets : f[g] \in 0..Rated[g]

\* Setpoints within the bands of the sets, that cover the requirement if the turning sets can.
InBands(f) ==
  /\ IsPower(f)
  /\ \A g \in committed : MinStable[g] <= f[g]
  /\ \A g \in Gensets \ (committed \union turning) : f[g] = 0
  /\ Total(f, turning) >= Least(Requirement, Total(Rated, turning))

\* They recover the heat that is missing, or have no room left.
HeatRaised(f) == Total(f, committed) >= MissingHeat \/ \A g \in committed : f[g] = Rated[g]

\* A battery within its envelope and within what firm supply leaves over life support.
BatteryBound(f, charge, discharge) ==
  /\ charge \in 0..weather.maxCharge /\ discharge \in 0..weather.maxDischarge
  /\ charge <= Most(Total(f, turning) + discharge - weather.critical, 0)

MeltBound(f, charge, discharge, melt) ==
  /\ melt \in 0..MeltCeiling
  /\ melt <= Most(Total(f, turning) + weather.renewable + discharge - weather.critical - charge, 0)

Bound(c) ==
  /\ c \in [setpoint : [Gensets -> Int], charge : Int, discharge : Int, melt : Int]
  /\ InBands(c.setpoint) /\ HeatRaised(c.setpoint)
  /\ BatteryBound(c.setpoint, c.charge, c.discharge)
  /\ MeltBound(c.setpoint, c.charge, c.discharge, c.melt)

IntervalOK ==
  /\ committed \subseteq Gensets /\ turning \subseteq Gensets
  /\ weather \in [electrical : Nat, critical : Nat, heat : Nat, renewable : Nat,
                   maxCharge : Nat, maxDischarge : Nat]

LEMMA TotalInt ==
  ASSUME NEW f, NEW S \in SUBSET Gensets, \A g \in S : f[g] \in Int
  PROVE  IsFiniteSet(S) /\ Total(f, S) \in Int
BY OrderAssumption, FS_Subset, SumInt DEF Total

LEMMA Ratings == \A g \in Gensets : Rated[g] \in Nat /\ MinStable[g] \in Nat /\ MinStable[g] <= Rated[g]
BY RatingAssumption, BandAssumption

LEMMA BoundInBands ==
  ASSUME IntervalOK, NEW asked \in [Gensets -> Int], NEW f \in BoundSetpoints(asked)
  PROVE  InBands(f)
<1> DEFINE clipped == [g \in Gensets |-> IF g \in committed THEN Clip(asked[g], MinStable[g], Rated[g]) ELSE 0]
           covered == Least(Requirement, Total(Rated, turning))
<1>1. \A g \in Gensets : /\ clipped[g] \in Int /\ clipped[g] \in 0..Rated[g]
                         /\ g \in committed => MinStable[g] <= clipped[g]
                         /\ g \notin committed => clipped[g] = 0
  <2> SUFFICES ASSUME NEW g \in Gensets
               PROVE  /\ clipped[g] \in Int /\ clipped[g] \in 0..Rated[g]
                      /\ g \in committed => MinStable[g] <= clipped[g]
                      /\ g \notin committed => clipped[g] = 0
    OBVIOUS
  <2>1. /\ asked[g] \in Int /\ Rated[g] \in Int /\ MinStable[g] \in Int
        /\ 0 <= MinStable[g] /\ MinStable[g] <= Rated[g]
    BY Ratings
  <2>2. clipped[g] = IF g \in committed THEN Clip(asked[g], MinStable[g], Rated[g]) ELSE 0
    OBVIOUS
  <2> HIDE DEF clipped
  <2>3. Clip(asked[g], MinStable[g], Rated[g]) \in MinStable[g]..Rated[g]
    <3> DEFINE x == asked[g]
               lo == MinStable[g]
               hi == Rated[g]
    <3>1. x \in Int /\ lo \in Int /\ hi \in Int /\ lo <= hi
      BY <2>1
    <3> HIDE DEF x, lo, hi
    <3>2. Clip(x, lo, hi) \in lo..hi
      BY <3>1, Clipped
    <3> QED BY <3>2 DEF x, lo, hi
  <2> QED BY <2>1, <2>2, <2>3
<1>2. clipped \in [Gensets -> Int]
  BY <1>1
<1>3. \/ f = clipped /\ Total(clipped, turning) >= covered
      \/ /\ f \in [Gensets -> 0..Max({Rated[g] : g \in Gensets})]
         /\ \A g \in Gensets \ turning : f[g] = clipped[g]
         /\ \A g \in turning : f[g] \in clipped[g]..Rated[g]
         /\ Total(f, turning) = covered
  BY DEF BoundSetpoints
<1>4. covered \in Int
  BY TotalInt, Ratings, RatingAssumption DEF IntervalOK, Least, Requirement
<1> HIDE DEF clipped, covered
<1>5. CASE f = clipped /\ Total(clipped, turning) >= covered
  BY <1>1, <1>2, <1>5 DEF InBands, IsPower, covered, IntervalOK
<1>6. CASE /\ f \in [Gensets -> 0..Max({Rated[g] : g \in Gensets})]
           /\ \A g \in Gensets \ turning : f[g] = clipped[g]
           /\ \A g \in turning : f[g] \in clipped[g]..Rated[g]
           /\ Total(f, turning) = covered
  <2>1. \A g \in Gensets : f[g] = clipped[g] \/ (g \in turning /\ f[g] \in clipped[g]..Rated[g])
    BY <1>6
  <2>2. \A g \in Gensets : /\ f[g] \in Int /\ f[g] \in 0..Rated[g]
                           /\ g \in committed => MinStable[g] <= f[g]
                           /\ g \notin committed \union turning => f[g] = 0
    BY <1>1, <2>1, Ratings
  <2>3. f \in [Gensets -> Int]
    BY <1>6, <2>2
  <2> QED BY <1>4, <1>6, <2>2, <2>3 DEF InBands, IsPower, covered, IntervalOK
<1> QED BY <1>3, <1>5, <1>6

\* What the sets are raised by for heat: within their room, and enough unless there is none left.
LEMMA HeatFilled ==
  ASSUME IntervalOK, NEW f, InBands(f)
  PROVE  /\ InBands(RaiseForHeat(f)) /\ HeatRaised(RaiseForHeat(f))
         /\ HeatRaised(f) => RaiseForHeat(f) = f
<1> DEFINE place(g)  == CHOOSE i \in 1..Len(Order) : Order[i] = g
           room      == [g \in Gensets |-> IF g \in committed THEN Rated[g] - f[g] ELSE 0]
           ahead(g)  == {h \in Gensets : place(h) < place(g)}
           before(g) == Total(room, ahead(g))
           missing   == Most(MissingHeat - Total(f, committed), 0)
           extra     == [g \in Gensets |-> Clip(missing - before(g), 0, room[g])]
           raised    == [g \in Gensets |-> f[g] + extra[g]]
<1>1. RaiseForHeat(f) = raised
  BY DEF RaiseForHeat
<1>2. \A g \in Gensets : place(g) \in Nat
  BY OrderAssumption DEF N
<1> HIDE DEF place
<1>3. /\ \A g \in Gensets : f[g] \in Int /\ f[g] \in 0..Rated[g] /\ Rated[g] \in Nat
      /\ committed \subseteq Gensets /\ turning \subseteq Gensets /\ f \in [Gensets -> Int]
  BY Ratings DEF InBands, IsPower, IntervalOK
<1>4. \A g \in Gensets : /\ room[g] \in Int /\ room[g] >= 0
                         /\ g \in committed => room[g] = Rated[g] - f[g]
                         /\ g \notin committed => room[g] = 0
  BY <1>3
<1>5. Total(f, committed) \in Int /\ MissingHeat \in Int
  BY <1>3, TotalInt, RatingAssumption DEF MissingHeat, IntervalOK
<1>6. /\ missing \in Int /\ missing >= 0 /\ missing >= MissingHeat - Total(f, committed)
      /\ Total(f, committed) >= MissingHeat => missing = 0
  BY <1>5 DEF Most
<1> HIDE DEF room
<1>7. \A g \in Gensets : /\ before(g) \in Int /\ before(g) >= 0
                         /\ IsFiniteSet(ahead(g)) /\ ahead(g) \subseteq Gensets
  <2> SUFFICES ASSUME NEW g \in Gensets
               PROVE  /\ before(g) \in Int /\ before(g) >= 0
                      /\ IsFiniteSet(ahead(g)) /\ ahead(g) \subseteq Gensets
    OBVIOUS
  <2>1. ahead(g) \in SUBSET Gensets
    OBVIOUS
  <2> HIDE DEF ahead
  <2>2. before(g) \in Int /\ IsFiniteSet(ahead(g))
    BY <1>4, <2>1, TotalInt
  <2>3. SumFunctionOnSet(room, {}) <= SumFunctionOnSet(room, ahead(g))
    BY <1>4, <2>1, <2>2, SumPart
  <2> QED BY <2>1, <2>2, <2>3, SumEmpty DEF Total
<1> HIDE DEF missing, before, ahead
<1>8. \A g \in Gensets : /\ extra[g] \in Int /\ extra[g] \in 0..room[g]
                         /\ extra[g] >= missing - before(g) \/ extra[g] = room[g]
                         /\ missing = 0 => extra[g] = 0
  <2> SUFFICES ASSUME NEW g \in Gensets
               PROVE  /\ extra[g] \in Int /\ extra[g] \in 0..room[g]
                      /\ extra[g] >= missing - before(g) \/ extra[g] = room[g]
                      /\ missing = 0 => extra[g] = 0
    OBVIOUS
  <2>1. missing - before(g) \in Int /\ room[g] \in Int /\ 0 <= room[g] /\ (missing = 0 => missing - before(g) <= 0)
    BY <1>4, <1>6, <1>7
  <2>2. extra[g] = Clip(missing - before(g), 0, room[g])
    OBVIOUS
  <2> HIDE DEF extra
  <2> QED BY <2>1, <2>2, Clipped
<1> HIDE DEF extra
<1>9. \A g \in Gensets : /\ raised[g] \in Int /\ raised[g] \in 0..Rated[g] /\ f[g] <= raised[g]
                         /\ raised[g] = f[g] + extra[g]
                         /\ g \notin committed => raised[g] = f[g]
  BY <1>3, <1>4, <1>8
<1>10. raised \in [Gensets -> Int]
  BY <1>9
<1>11. InBands(raised)
  <2>1. IsPower(raised)
    BY <1>9, <1>10 DEF IsPower
  <2>2. \A g \in committed : MinStable[g] <= raised[g]
    BY <1>3, <1>9, Ratings DEF InBands
  <2>3. \A g \in Gensets \ (committed \union turning) : raised[g] = 0
    BY <1>9 DEF InBands
  <2>4. Total(f, turning) <= Total(raised, turning) /\ Total(f, turning) \in Int /\ Total(raised, turning) \in Int
    <3>1. IsFiniteSet(turning) /\ \A g \in turning : f[g] \in Int /\ raised[g] \in Int /\ f[g] <= raised[g]
      BY <1>3, <1>9, OrderAssumption, FS_Subset
    <3> HIDE DEF raised
    <3> QED BY <1>3, <3>1, SumMonotone, SumInt DEF Total
  <2>5. Least(Requirement, Total(Rated, turning)) \in Int
    BY <1>3, TotalInt, Ratings, RatingAssumption DEF IntervalOK, Least, Requirement
  <2>6. Total(f, turning) >= Least(Requirement, Total(Rated, turning))
    BY DEF InBands
  <2> HIDE DEF raised
  <2> QED BY <2>1, <2>2, <2>3, <2>4, <2>5, <2>6 DEF InBands
<1>12. Total(raised, committed) = Total(f, committed) + Total(extra, committed) /\ Total(extra, committed) \in Int
  <2>1. IsFiniteSet(committed) /\ \A g \in committed : f[g] \in Int /\ extra[g] \in Int /\ raised[g] = f[g] + extra[g]
    BY <1>3, <1>8, <1>9, OrderAssumption, FS_Subset
  <2> HIDE DEF raised
  <2> QED BY <2>1, SumPlus, SumInt DEF Total
<1>13. Total(extra, committed) >= missing \/ \A g \in committed : extra[g] = room[g]
  <2> DEFINE short == {g \in Gensets : extra[g] # room[g]}
             places == {place(g) : g \in short}
  <2> SUFFICES ASSUME short # {} PROVE Total(extra, committed) >= missing
    BY <1>3
  <2>1. places \subseteq Nat /\ places # {}
    BY <1>2
  <2>2. PICK p \in places : \A q \in places : p <= q
    BY <2>1, LeastOf
  <2>3. PICK g \in short : p = place(g)
    OBVIOUS
  <2>4. g \in Gensets /\ extra[g] # room[g]
    BY <2>3
  <2>5. \A h \in ahead(g) : h \in Gensets /\ extra[h] = room[h]
    <3> SUFFICES ASSUME NEW h \in ahead(g), extra[h] # room[h] PROVE FALSE
      BY DEF ahead
    <3>1. h \in Gensets /\ place(h) < place(g) /\ place(h) \in Nat /\ place(g) \in Nat
      BY <1>2, <2>4 DEF ahead
    <3>2. place(h) \in places
      BY <3>1
    <3> QED BY <2>2, <2>3, <3>1, <3>2
  <2> HIDE DEF short, places
  <2>6. IsFiniteSet(ahead(g)) /\ ahead(g) \subseteq Gensets /\ g \notin ahead(g)
    BY <1>2, <1>7, <2>4 DEF ahead
  <2>7. SumFunctionOnSet(extra, ahead(g)) = before(g)
    BY <1>4, <2>5, <2>6, <1>8, SumSame DEF before, Total
  <2> DEFINE upto == ahead(g) \union {g}
  <2>8. /\ upto \in SUBSET Gensets /\ g \in upto /\ upto \ {g} = ahead(g)
        /\ IsFiniteSet(upto) /\ IsFiniteSet(Gensets) /\ \A h \in Gensets : extra[h] \in Int /\ extra[h] >= 0
    BY <1>4, <1>8, <2>4, <2>6, OrderAssumption, FS_Subset
  <2> HIDE DEF upto
  <2>9. SumFunctionOnSet(extra, upto) = extra[g] + before(g)
    <3>1. \A h \in upto : extra[h] \in Int
      BY <2>8
    <3> QED BY <2>7, <2>8, <3>1, SumRemove
  <2>10. SumFunctionOnSet(extra, upto) <= SumFunctionOnSet(extra, Gensets)
    BY <2>8, SumPart
  <2>11. SumFunctionOnSet(extra, committed) = SumFunctionOnSet(extra, Gensets)
    <3>1. \A h \in Gensets \ committed : extra[h] = 0 /\ extra[h] >= 0
      BY <1>4, <1>8
    <3> QED BY <1>3, <2>8, <3>1, SumPart
  <2>12. extra[g] >= missing - before(g)
    BY <1>8, <2>4
  <2> QED BY <1>6, <1>7, <1>8, <1>12, <2>4, <2>9, <2>10, <2>11, <2>12 DEF Total
<1>14. HeatRaised(raised)
  <2>1. CASE Total(extra, committed) >= missing
    <3>1. Total(raised, committed) >= MissingHeat
      BY <1>5, <1>6, <1>12, <2>1
    <3> QED BY <3>1 DEF HeatRaised
  <2>2. CASE \A g \in committed : extra[g] = room[g]
    <3>1. \A g \in committed : raised[g] = Rated[g]
      BY <1>3, <1>4, <1>9, <2>2
    <3> HIDE DEF raised
    <3> QED BY <3>1 DEF HeatRaised
  <2> QED BY <1>13, <2>1, <2>2
<1>15. HeatRaised(f) => raised = f
  <2> SUFFICES ASSUME HeatRaised(f) PROVE raised = f
    OBVIOUS
  <2>1. \A g \in Gensets : extra[g] = 0
    <3>1. CASE Total(f, committed) >= MissingHeat
      BY <1>6, <1>8, <3>1
    <3>2. CASE \A g \in committed : f[g] = Rated[g]
      <4>1. \A g \in Gensets : room[g] = 0
        BY <1>3, <1>4, <3>2
      <4> QED BY <1>8, <4>1
    <3> QED BY <3>1, <3>2 DEF HeatRaised
  <2>2. \A g \in Gensets : raised[g] = f[g]
    BY <1>3, <1>9, <2>1
  <2> QED BY <1>3, <2>2
<1> QED BY <1>1, <1>11, <1>14, <1>15

\* Bounded once is bounded for good.
LEMMA BoundsFixed ==
  ASSUME IntervalOK, turning \subseteq committed, NEW f, InBands(f) PROVE BoundSetpoints(f) = {f}
<1> DEFINE clipped == [g \in Gensets |-> IF g \in committed THEN Clip(f[g], MinStable[g], Rated[g]) ELSE 0]
           covered == Least(Requirement, Total(Rated, turning))
<1>1. f \in [Gensets -> Int] /\ \A g \in Gensets : f[g] \in 0..Rated[g]
  BY DEF InBands, IsPower
<1>2. ASSUME NEW g \in Gensets PROVE clipped[g] = f[g]
  <2>1. CASE g \in committed
    <3>1. /\ f[g] \in Int /\ MinStable[g] \in Int /\ Rated[g] \in Int
          /\ MinStable[g] <= Rated[g] /\ f[g] \in MinStable[g]..Rated[g]
      BY <1>1, <2>1, Ratings DEF InBands
    <3>2. Clip(f[g], MinStable[g], Rated[g]) = f[g]
      BY <3>1, Clipped
    <3> QED BY <2>1, <3>2
  <2>2. CASE g \notin committed
    BY <2>2 DEF InBands
  <2> QED BY <2>1, <2>2
<1>3. clipped = f
  BY <1>1, <1>2
<1>4. Total(f, turning) >= covered
  BY DEF InBands
<1>5. BoundSetpoints(f) =
        IF Total(clipped, turning) >= covered THEN {clipped}
        ELSE {h \in [Gensets -> 0..Max({Rated[g] : g \in Gensets})] :
                /\ \A g \in Gensets \ turning : h[g] = clipped[g]
                /\ \A g \in turning : h[g] \in clipped[g]..Rated[g]
                /\ Total(h, turning) = covered}
  BY DEF BoundSetpoints
<1> HIDE DEF clipped, covered
<1> QED BY <1>3, <1>4, <1>5

\* The totals and the readings of an interval, as numbers.
LEMMA Numbers ==
  ASSUME IntervalOK, NEW f, InBands(f)
  PROVE  /\ Total(f, turning) \in Nat /\ Total(Rated, turning) \in Nat /\ Total(MinStable, turning) \in Nat
         /\ ReserveMargin \in Nat /\ BoilerRated \in Nat /\ MeltCeiling \in Nat
         /\ weather.electrical \in Nat /\ weather.critical \in Nat /\ weather.heat \in Nat
         /\ weather.renewable \in Nat /\ weather.maxCharge \in Nat /\ weather.maxDischarge \in Nat
<1>1. ASSUME NEW h, \A g \in turning : h[g] \in Int /\ h[g] >= 0 PROVE Total(h, turning) \in Nat
  <2>1. IsFiniteSet(turning) /\ {} \in SUBSET turning
    BY OrderAssumption, FS_Subset DEF IntervalOK
  <2>2. SumFunctionOnSet(h, {}) <= SumFunctionOnSet(h, turning) /\ SumFunctionOnSet(h, turning) \in Int
    BY <1>1, <2>1, SumPart, SumInt
  <2> QED BY <2>2, SumEmpty DEF Total
<1>2. \A g \in turning : /\ f[g] \in Int /\ f[g] >= 0 /\ Rated[g] \in Int /\ Rated[g] >= 0
                         /\ MinStable[g] \in Int /\ MinStable[g] >= 0
  BY Ratings DEF InBands, IsPower, IntervalOK
<1>3. Total(f, turning) \in Nat /\ Total(Rated, turning) \in Nat /\ Total(MinStable, turning) \in Nat
  BY <1>1, <1>2
<1> QED BY <1>3, RatingAssumption, BandAssumption DEF IntervalOK

LEMMA BatteryIsBound ==
  ASSUME IntervalOK, NEW f, InBands(f), NEW charge \in Int, NEW discharge \in Int
  PROVE  LET b == BoundBattery(f, charge, discharge) IN
         /\ b.charge \in Int /\ b.discharge \in Int /\ BatteryBound(f, b.charge, b.discharge)
         /\ BatteryBound(f, charge, discharge) => b.charge = charge /\ b.discharge = discharge
<1> DEFINE b == BoundBattery(f, charge, discharge)
           t == Total(f, turning)
           life == weather.critical
           most == weather.maxCharge
           least == weather.maxDischarge
           out == Clip(discharge, 0, least)
<1>1. t \in Nat /\ life \in Nat /\ most \in Nat /\ least \in Nat
  BY Numbers
<1>2. b.discharge = out /\ b.charge = Least(Clip(charge, 0, most), Most(t + out - life, 0))
  BY DEF BoundBattery
<1>3. BatteryBound(f, charge, discharge) <=>
        /\ charge \in 0..most /\ discharge \in 0..least
        /\ charge <= Most(t + discharge - life, 0)
  BY DEF BatteryBound
<1>4. BatteryBound(f, b.charge, b.discharge) <=>
        /\ b.charge \in 0..most /\ b.discharge \in 0..least
        /\ b.charge <= Most(t + b.discharge - life, 0)
  BY DEF BatteryBound
<1> HIDE DEF t, life, most, least, b
<1>5. out \in 0..least /\ (discharge \in 0..least => out = discharge)
  BY <1>1, Clipped
<1>6. Clip(charge, 0, most) \in 0..most /\ (charge \in 0..most => Clip(charge, 0, most) = charge)
  BY <1>1, Clipped
<1> HIDE DEF out
<1>7. b.charge \in Int /\ b.discharge \in Int /\ BatteryBound(f, b.charge, b.discharge)
  BY <1>1, <1>2, <1>4, <1>5, <1>6 DEF Least, Most
<1>8. BatteryBound(f, charge, discharge) => b.charge = charge /\ b.discharge = discharge
  BY <1>1, <1>2, <1>3, <1>5, <1>6 DEF Least, Most
<1> QED BY <1>7, <1>8 DEF b

LEMMA MeltIsBound ==
  ASSUME IntervalOK, NEW f, InBands(f), NEW battery, battery.charge \in Int, battery.discharge \in Int,
         NEW melt \in Int
  PROVE  LET m == BoundMelt(f, battery, melt) IN
         /\ m \in Int /\ MeltBound(f, battery.charge, battery.discharge, m)
         /\ MeltBound(f, battery.charge, battery.discharge, melt) => m = melt
<1> DEFINE m == BoundMelt(f, battery, melt)
           headroom == Total(f, turning) + weather.renewable + battery.discharge
                         - weather.critical - battery.charge
<1>1. headroom \in Int /\ MeltCeiling \in Nat
  BY Numbers
<1>2. m = Least(Clip(melt, 0, MeltCeiling), Most(headroom, 0))
  BY DEF BoundMelt
<1>3. \A x : MeltBound(f, battery.charge, battery.discharge, x) <=> x \in 0..MeltCeiling /\ x <= Most(headroom, 0)
  BY DEF MeltBound
<1> HIDE DEF m, headroom
<1>4. Clip(melt, 0, MeltCeiling) \in 0..MeltCeiling /\ (melt \in 0..MeltCeiling => Clip(melt, 0, MeltCeiling) = melt)
  BY <1>1, Clipped
<1> QED BY <1>1, <1>2, <1>3, <1>4 DEF Least, Most, m

\* Whatever is asked, the command is bound; and one that is bound already stays as it is.
LEMMA ProjectionBinds ==
  ASSUME IntervalOK, NEW p \in [setpoint : [Gensets -> Int], charge : Int, discharge : Int, melt : Int],
         NEW c \in ProjectedPower(p)
  PROVE  Bound(c)
<1>1. PICK bounded \in BoundSetpoints(p.setpoint) :
        c = LET f       == RaiseForHeat(bounded)
                battery == BoundBattery(f, p.charge, p.discharge)
            IN  [setpoint |-> f, charge |-> battery.charge, discharge |-> battery.discharge,
                 melt |-> BoundMelt(f, battery, p.melt)]
  BY DEF ProjectedPower
<1> DEFINE f == RaiseForHeat(bounded)
           battery == BoundBattery(f, p.charge, p.discharge)
<1>2. /\ c = [setpoint |-> f, charge |-> battery.charge, discharge |-> battery.discharge,
              melt |-> BoundMelt(f, battery, p.melt)]
      /\ p.setpoint \in [Gensets -> Int] /\ p.charge \in Int /\ p.discharge \in Int /\ p.melt \in Int
  BY <1>1
<1>3. InBands(f) /\ HeatRaised(f)
  BY <1>2, BoundInBands, HeatFilled
<1> HIDE DEF f
<1>4. battery.charge \in Int /\ battery.discharge \in Int /\ BatteryBound(f, battery.charge, battery.discharge)
  BY <1>2, <1>3, BatteryIsBound
<1> HIDE DEF battery
<1>5. /\ BoundMelt(f, battery, p.melt) \in Int
      /\ MeltBound(f, battery.charge, battery.discharge, BoundMelt(f, battery, p.melt))
  BY <1>2, <1>3, <1>4, MeltIsBound
<1>6. f \in [Gensets -> Int]
  BY <1>3 DEF InBands, IsPower
<1> QED BY <1>2, <1>3, <1>4, <1>5, <1>6 DEF Bound

LEMMA BoundIsFixed ==
  ASSUME IntervalOK, turning \subseteq committed, NEW c, Bound(c)
  PROVE  ProjectedPower(c) = {c}
<1> DEFINE f == c.setpoint
           battery == BoundBattery(f, c.charge, c.discharge)
<1>1. /\ c \in [setpoint : [Gensets -> Int], charge : Int, discharge : Int, melt : Int]
      /\ InBands(f) /\ HeatRaised(f)
      /\ BatteryBound(f, c.charge, c.discharge) /\ MeltBound(f, c.charge, c.discharge, c.melt)
  BY DEF Bound
<1>2. c.charge \in Int /\ c.discharge \in Int /\ c.melt \in Int
  BY <1>1
<1>3. BoundSetpoints(f) = {f} /\ RaiseForHeat(f) = f
  BY <1>1, BoundsFixed, HeatFilled
<1>4. battery.charge = c.charge /\ battery.discharge = c.discharge
  BY <1>1, <1>2, BatteryIsBound
<1>5. BoundMelt(f, battery, c.melt) = c.melt
  <2> HIDE DEF f, battery
  <2> QED BY <1>1, <1>2, <1>4, MeltIsBound
<1>6. c = [setpoint |-> f, charge |-> c.charge, discharge |-> c.discharge, melt |-> c.melt]
  BY <1>1
<1>7. ProjectedPower(c) =
        {[setpoint |-> RaiseForHeat(bounded),
          charge |-> BoundBattery(RaiseForHeat(bounded), c.charge, c.discharge).charge,
          discharge |-> BoundBattery(RaiseForHeat(bounded), c.charge, c.discharge).discharge,
          melt |-> BoundMelt(RaiseForHeat(bounded),
                             BoundBattery(RaiseForHeat(bounded), c.charge, c.discharge), c.melt)]
           : bounded \in BoundSetpoints(f)}
  BY DEF ProjectedPower
<1>8. ProjectedPower(c) =
        {[setpoint |-> f, charge |-> battery.charge, discharge |-> battery.discharge,
          melt |-> BoundMelt(f, battery, c.melt)]}
  BY <1>3, <1>7
<1> HIDE DEF f, battery
<1> QED BY <1>4, <1>5, <1>6, <1>8

-----------------------------------------------------------------------------
(***************************************************************************)
(* The balance.                                                            *)
(***************************************************************************)

\* The sets follow the load between their floors and their setpoints.
LEMMA LoadFollows ==
  ASSUME IntervalOK, Bound(command), NEW x \in Int, NEW y \in Int, y <= x
  PROVE  /\ LoadFollow(x) \in Int /\ LoadFollow(y) \in Int /\ Floor \in Int /\ Ceiling \in Int
         /\ LoadFollow(y) <= LoadFollow(x)
         /\ LoadFollow(x) > Floor => LoadFollow(x) <= x
         /\ LoadFollow(x) >= x \/ LoadFollow(x) = Ceiling
         /\ Ceiling >= Total(command.setpoint, turning)
<1> DEFINE ceilings == [g \in Gensets |-> Clip(command.setpoint[g], MinStable[g], Rated[g])]
           f == command.setpoint
<1>1. InBands(f) /\ f \in [Gensets -> Int] /\ (\A g \in Gensets : f[g] \in 0..Rated[g]) /\ turning \subseteq Gensets
  BY DEF Bound, InBands, IsPower, IntervalOK
<1>2. ASSUME NEW g \in Gensets
      PROVE  ceilings[g] \in Int /\ MinStable[g] \in Int /\ MinStable[g] <= ceilings[g] /\ f[g] <= ceilings[g]
  <2> DEFINE v == f[g]
             lo == MinStable[g]
             hi == Rated[g]
  <2>1. v \in Int /\ lo \in Int /\ hi \in Int /\ lo <= hi /\ v <= hi
    BY <1>1, Ratings
  <2>2. ceilings[g] = Clip(v, lo, hi)
    OBVIOUS
  <2> HIDE DEF v, hi, lo, ceilings
  <2>3. Clip(v, lo, hi) \in lo..hi /\ (Clip(v, lo, hi) >= v \/ Clip(v, lo, hi) = hi)
    BY <2>1, Clipped
  <2>4. ceilings[g] \in Int /\ lo \in Int /\ lo <= ceilings[g] /\ v <= ceilings[g]
    BY <2>1, <2>2, <2>3
  <2> QED BY <2>4 DEF v, lo
<1>3. Floor = Total(MinStable, turning) /\ Ceiling = Total(ceilings, turning)
  BY DEF Floor, Ceiling
<1> HIDE DEF ceilings
<1>4. /\ Total(MinStable, turning) <= Total(ceilings, turning) /\ Total(f, turning) <= Total(ceilings, turning)
      /\ Total(MinStable, turning) \in Int /\ Total(ceilings, turning) \in Int
  <2>1. /\ IsFiniteSet(turning)
        /\ \A g \in turning : /\ ceilings[g] \in Int /\ MinStable[g] \in Int /\ f[g] \in Int
                              /\ MinStable[g] <= ceilings[g] /\ f[g] <= ceilings[g]
    BY <1>1, <1>2, OrderAssumption, FS_Subset
  <2> HIDE DEF f
  <2> QED BY <2>1, SumMonotone, SumInt DEF Total
<1>5. turning = {} => Floor = 0 /\ Ceiling = 0
  BY <1>3, SumEmpty DEF Total
<1>6. Floor \in Int /\ Ceiling \in Int /\ Floor <= Ceiling /\ Total(f, turning) <= Ceiling
  BY <1>3, <1>4
<1>7. \A z : LoadFollow(z) = IF turning = {} THEN 0 ELSE Clip(z, Floor, Ceiling)
  BY DEF LoadFollow
<1> QED BY <1>5, <1>6, <1>7 DEF Clip, Least, Most

\* More power, more of the melting comes from heat, and never more than is melted.
LEMMA HeatMelts ==
  ASSUME IntervalOK, Bound(command), NEW p \in Int, NEW q \in Int, q <= p
  PROVE  /\ MeltFromHeat(p) \in Int /\ MeltFromHeat(q) \in Int /\ MeltFromHeat(q) <= MeltFromHeat(p)
         /\ 0 <= MeltFromHeat(p) /\ MeltFromHeat(p) <= command.melt /\ 0 <= MeltFromHeat(q)
<1> DEFINE melt == command.melt
           warmth == weather.heat
<1>1. melt \in Int /\ melt >= 0 /\ warmth \in Int
  BY BandAssumption DEF Bound, MeltBound, IntervalOK
<1>2. \A z : MeltFromHeat(z) = Least(Most(z - warmth, 0), melt)
  BY DEF MeltFromHeat
<1> HIDE DEF melt, warmth
<1>3. /\ MeltFromHeat(p) \in Int /\ MeltFromHeat(q) \in Int /\ MeltFromHeat(q) <= MeltFromHeat(p)
      /\ 0 <= MeltFromHeat(p) /\ MeltFromHeat(p) <= melt /\ 0 <= MeltFromHeat(q)
  BY <1>1, <1>2 DEF Least, Most
<1> QED BY <1>3 DEF melt

\* What the balance comes to for whatever renewables the inverters leave.
LEMMA BalanceSound ==
  ASSUME IntervalOK, Bound(command), NEW r \in Nat, r <= weather.renewable
  PROVE  /\ Balance(r).curtailed > 0 => Balance(r).sets <= Floor
         /\ Total(Rated, turning) >= Requirement /\ Balance(r).electricHeat = 0
              => Balance(r).criticalUnserved = 0
<1> DEFINE charge == command.charge
           discharge == command.discharge
           melt == command.melt
           electrical == weather.electrical
           life == weather.critical
           warmth == weather.heat
           firm == Total(command.setpoint, turning)
           charging == Most(charge - discharge, 0)
           discharging == Most(discharge - charge, 0)
           asked1 == electrical + melt + charging - r - discharging
           first == LoadFollow(asked1)
           asked2 == electrical + (melt - MeltFromHeat(first)) + charging - r - discharging
           sets == LoadFollow(asked2)
           meltElectric == melt - MeltFromHeat(sets)
           shortHeat == Most(warmth - sets, 0)
           electricHeat == shortHeat - Least(shortHeat, BoilerRated)
           demand == electrical + electricHeat + meltElectric + charging
           used == Least(r, Most(demand - sets - discharging, 0))
           unserved == Most(demand - sets - discharging - used, 0)
           shedMelt == Least(unserved, meltElectric)
           comfort == Most(electrical - life, 0)
           shedComfort == Least(unserved - shedMelt, comfort)
<1>1. /\ charge \in Int /\ discharge \in Int /\ melt \in Int /\ charge >= 0 /\ discharge >= 0 /\ melt >= 0
      /\ firm \in Int /\ firm >= 0 /\ charge <= Most(firm + discharge - life, 0)
      /\ electrical \in Nat /\ life \in Nat /\ warmth \in Nat /\ BoilerRated \in Nat
  <2>1. InBands(command.setpoint) /\ BatteryBound(command.setpoint, charge, discharge)
        /\ MeltBound(command.setpoint, charge, discharge, melt)
    BY DEF Bound
  <2>2. firm \in Nat /\ weather.maxCharge \in Nat /\ weather.maxDischarge \in Nat /\ MeltCeiling \in Nat
    BY <2>1, Numbers
  <2>3. electrical \in Nat /\ life \in Nat /\ warmth \in Nat /\ BoilerRated \in Nat
    BY <2>1, Numbers
  <2> QED BY <2>1, <2>2, <2>3 DEF BatteryBound, MeltBound
<1>2. Total(Rated, turning) >= Requirement => firm >= life
  <2>1. InBands(command.setpoint)
    BY DEF Bound
  <2>2. firm \in Nat /\ Total(Rated, turning) \in Nat /\ ReserveMargin \in Nat /\ life \in Nat
    BY <2>1, Numbers
  <2>3. firm >= Least(life + ReserveMargin, Total(Rated, turning))
    BY <2>1 DEF InBands, Requirement
  <2>4. Requirement = life + ReserveMargin
    BY DEF Requirement
  <2> HIDE DEF firm, life
  <2> QED BY <2>2, <2>3, <2>4 DEF Least
<1>3. /\ Balance(r).sets = sets /\ Balance(r).curtailed = r - used /\ Balance(r).electricHeat = electricHeat
      /\ Balance(r).criticalUnserved = unserved - shedMelt - shedComfort
  BY DEF Balance, SetPower
<1>4. /\ charging \in Int /\ discharging \in Int /\ charging >= 0 /\ discharging >= 0
      /\ charging - discharging = charge - discharge
  <2> HIDE DEF charge, discharge
  <2> QED BY <1>1 DEF Most
<1> HIDE DEF charge, discharge, melt, electrical, life, warmth, firm, charging, discharging
<1>5. asked1 \in Int
  BY <1>1, <1>4
<1>6. first \in Int
  BY <1>5, LoadFollows
<1> HIDE DEF first, asked1
<1>7. /\ MeltFromHeat(first) \in Int /\ MeltFromHeat(first) >= 0 /\ MeltFromHeat(first) <= melt
      /\ asked2 \in Int /\ asked2 <= asked1
  BY <1>1, <1>4, <1>6, HeatMelts DEF asked1, melt
<1>8. /\ sets \in Int /\ Floor \in Int /\ Ceiling \in Int /\ sets <= first
      /\ sets > Floor => sets <= asked2
      /\ sets >= asked2 \/ sets = Ceiling
      /\ Ceiling >= firm
  <2>1. /\ sets \in Int /\ Floor \in Int /\ Ceiling \in Int
        /\ sets > Floor => sets <= asked2
        /\ sets >= asked2 \/ sets = Ceiling
        /\ Ceiling >= firm
    BY <1>7, LoadFollows DEF firm
  <2>2. sets <= first
    BY <1>5, <1>7, LoadFollows DEF first
  <2> QED BY <2>1, <2>2
<1> HIDE DEF sets
<1>9. /\ MeltFromHeat(sets) \in Int /\ MeltFromHeat(sets) <= MeltFromHeat(first)
      /\ MeltFromHeat(sets) >= 0 /\ MeltFromHeat(sets) <= melt
  <2>1. MeltFromHeat(sets) <= MeltFromHeat(first)
    BY <1>6, <1>8, HeatMelts
  <2>2. /\ MeltFromHeat(sets) \in Int /\ MeltFromHeat(sets) >= 0 /\ MeltFromHeat(sets) <= melt
    BY <1>8, HeatMelts DEF melt
  <2> QED BY <2>1, <2>2
<1>10. meltElectric \in Int /\ meltElectric >= 0 /\ meltElectric >= melt - MeltFromHeat(first)
  BY <1>1, <1>7, <1>9
<1>11. electricHeat \in Int /\ electricHeat >= 0
  BY <1>1, <1>8 DEF Least, Most
<1>12. asked2 = electrical + (melt - MeltFromHeat(first)) + charging - r - discharging
  OBVIOUS
<1> HIDE DEF meltElectric, electricHeat, asked2
<1>13. demand \in Int /\ demand >= asked2 + r + discharging
  BY <1>1, <1>4, <1>7, <1>10, <1>11, <1>12
<1>14. ASSUME r - used > 0 PROVE sets <= Floor
  <2>1. demand - sets - discharging < r
    BY <1>4, <1>8, <1>13, <1>14 DEF Least, Most
  <2> QED BY <1>4, <1>7, <1>8, <1>13, <2>1
<1>15. ASSUME firm >= life, electricHeat = 0 PROVE unserved - shedMelt - shedComfort = 0
  <2>1. charge <= firm + discharge - life
    BY <1>1, <1>15 DEF Most
  <2>2. sets >= asked2 \/ sets >= life + charging - discharging
    BY <1>1, <1>4, <1>8, <2>1
  <2>3. demand = electrical + meltElectric + charging
    BY <1>1, <1>4, <1>10, <1>15
  <2>4. demand - sets - discharging - r <= meltElectric + comfort
    <3>1. CASE sets >= asked2
      <4>1. asked2 \in Int /\ MeltFromHeat(first) \in Int /\ MeltFromHeat(first) <= melt
        BY <1>7
      <4>2. demand - sets - discharging - r <= meltElectric
        BY <1>1, <1>4, <1>8, <1>10, <1>12, <2>3, <3>1, <4>1
      <4>3. comfort >= 0 /\ comfort \in Int
        BY <1>1 DEF Most
      <4> HIDE DEF demand, comfort
      <4> QED BY <1>4, <1>8, <1>10, <1>13, <4>2, <4>3
    <3>2. CASE sets >= life + charging - discharging
      BY <1>1, <1>4, <1>8, <1>10, <2>3, <3>2 DEF Most
    <3> QED BY <2>2, <3>1, <3>2
  <2>5. comfort \in Int /\ comfort >= 0
    BY <1>1 DEF Most
  <2> HIDE DEF demand, comfort
  <2>6. unserved \in Int /\ unserved >= 0 /\ unserved <= meltElectric + comfort
    BY <1>4, <1>8, <1>10, <1>13, <2>4, <2>5 DEF Least, Most
  <2> HIDE DEF unserved
  <2> QED BY <1>10, <2>5, <2>6 DEF Least
<1> HIDE DEF demand, used, unserved, shedMelt, shedComfort
<1> QED BY <1>2, <1>3, <1>14, <1>15

-----------------------------------------------------------------------------
\* The interval is one the plant can be in, a command is bounded once there is
\* one, and an executed interval has been served as it should be.
DInv ==
  /\ IntervalOK
  /\ phase \in {"decide", "execute", "executed"}
  /\ phase # "decide" => Bound(command)
  /\ LifeSupportServed
  /\ CurtailedOnlyAtFloor

\* The floor, the cover and the bounds are functions of the interval and the command.
LEMMA NothingElse ==
  ASSUME UNCHANGED <<weather, committed, turning, command>>
  PROVE  /\ Floor' = Floor
         /\ Covered' <=> Covered
         /\ IntervalOK' <=> IntervalOK
         /\ Bound(command)' <=> Bound(command)
<1>1. Floor' = Floor /\ (Covered' <=> Covered)
  BY DEF Floor, Covered, Requirement
<1>2. (IntervalOK' <=> IntervalOK) /\ (Bound(command)' <=> Bound(command))
  BY DEF IntervalOK, Bound, InBands, IsPower, HeatRaised, BatteryBound, MeltBound, Requirement, MissingHeat
<1> QED BY <1>1, <1>2

LEMMA IntervalInvariant == IntervalSpec => []DInv
<1>1. InitInterval => DInv
  BY RequestAssumption DEF InitInterval, DInv, IntervalOK, Executed, LifeSupportServed, CurtailedOnlyAtFloor
<1>2. DInv /\ [StepInterval]_intervalVars => DInv'
  <2> SUFFICES ASSUME DInv, [StepInterval]_intervalVars PROVE DInv'
    OBVIOUS
  <2>1. CASE Decide
    <3>1. UNCHANGED <<weather, committed, turning>> /\ phase' = "execute"
      BY <2>1 DEF Decide
    <3>2. PICK s \in [Gensets -> Setpoints], c \in Charges, d \in Discharges, m \in Melts :
            command' \in ProjectedPower([setpoint |-> s, charge |-> c, discharge |-> d, melt |-> m])
      BY <2>1 DEF Decide
    <3>3. [setpoint |-> s, charge |-> c, discharge |-> d, melt |-> m]
            \in [setpoint : [Gensets -> Int], charge : Int, discharge : Int, melt : Int]
      BY RequestAssumption
    <3>4. IntervalOK
      BY DEF DInv
    <3> DEFINE next == command'
    <3>5. Bound(next)
      <4> HIDE DEF next
      <4>1. next \in ProjectedPower([setpoint |-> s, charge |-> c, discharge |-> d, melt |-> m])
        BY <3>2 DEF next
      <4> QED BY <3>3, <3>4, <4>1, ProjectionBinds
    <3>6. Bound(command)'
      BY <3>1, <3>5 DEF Bound, InBands, IsPower, HeatRaised, BatteryBound, MeltBound, Requirement, MissingHeat
    <3>7. IntervalOK'
      BY <3>1, <3>4 DEF IntervalOK
    <3>8. ~ Executed'
      BY <3>1 DEF Executed
    <3> QED BY <3>1, <3>6, <3>7, <3>8 DEF DInv, LifeSupportServed, CurtailedOnlyAtFloor
  <2>2. CASE Execute
    <3>1. UNCHANGED <<weather, committed, turning, command>> /\ phase' = "executed" /\ phase = "execute"
      BY <2>2 DEF Execute
    <3>2. PICK r \in 0..weather.renewable : telemetry' = Balance(r)
      BY <2>2 DEF Execute
    <3>3. IntervalOK /\ Bound(command)
      BY <3>1 DEF DInv
    <3>4. IntervalOK' /\ Bound(command)' /\ Floor' = Floor /\ (Covered' <=> Covered)
      BY <3>1, <3>3, NothingElse
    <3> DEFINE balance == Balance(r)
    <3>5. weather.renewable \in Nat
      BY <3>3 DEF IntervalOK
    <3>6. r \in Nat /\ r <= weather.renewable
      BY <3>2, <3>5
    <3>7. telemetry' = balance
      BY <3>2
    <3>8. /\ balance.curtailed > 0 => balance.sets <= Floor
          /\ Covered /\ balance.electricHeat = 0 => balance.criticalUnserved = 0
      BY <3>3, <3>6, BalanceSound DEF Covered
    <3> HIDE DEF balance
    <3>9. LifeSupportServed' /\ CurtailedOnlyAtFloor'
      BY <3>4, <3>7, <3>8 DEF LifeSupportServed, CurtailedOnlyAtFloor
    <3> QED BY <3>1, <3>4, <3>9 DEF DInv
  <2>3. CASE UNCHANGED intervalVars
    BY <2>3, NothingElse DEF intervalVars, DInv, Executed, LifeSupportServed, CurtailedOnlyAtFloor
  <2> QED BY <2>1, <2>2, <2>3 DEF StepInterval
<1> QED BY <1>1, <1>2, PTL DEF IntervalSpec

\* Life support is served in full wherever the commitment left the cover it was
\* meant to leave and heating needs no electricity, whatever the agent asked for
\* and whatever the inverters took away (SafetyProjection.project, then
\* PolarMicrogrid.step).
THEOREM LifeSupport == IntervalSpec => []LifeSupportServed
<1>1. DInv => LifeSupportServed
  BY DEF DInv
<1> QED BY <1>1, IntervalInvariant, PTL

\* No renewable power is turned away while a set is worked above its minimum
\* stable load (the two passes of PolarMicrogrid.step over _load_follow).
THEOREM FreeBeforeFuel == IntervalSpec => []CurtailedOnlyAtFloor
<1>1. DInv => CurtailedOnlyAtFloor
  BY DEF DInv
<1> QED BY <1>1, IntervalInvariant, PTL

\* The bounds of SafetyProjection.project are idempotent: a projected command,
\* proposed again, comes back unchanged while no set is held on against it.
THEOREM PowerIdempotent == IntervalSpec => []ProjectionStable
<1>1. DInv => ProjectionStable
  BY BoundIsFixed DEF ProjectionStable, DInv
<1> QED BY <1>1, IntervalInvariant, PTL
=============================================================================
