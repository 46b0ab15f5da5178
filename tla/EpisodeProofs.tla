--------------------------- MODULE EpisodeProofs ----------------------------
(***************************************************************************)
(* Theorems of module Episode: what the packs hold, what they deliver,     *)
(* what the monitors count, how a schedule is followed and how much water  *)
(* is melted, for every station, every weather and every sequence of       *)
(* intervals and resets.                                                   *)
(***************************************************************************)
EXTENDS Episode, SequenceTheorems, FiniteSetTheorems, TLAPS

\* The packs and where they stand.
PacksOK ==
  /\ air \in Temperatures /\ indoor \in Indoors \union {2}
  /\ energy \in [Packs -> 0..Band]
  /\ books \in [Packs -> Int]

IInv == PacksOK /\ PackConserves /\ EnvelopeHolds

\* A set as the tracker counts it and as the plant does.
SetAgrees(g) ==
  /\ starts[g] \in Nat /\ runs[g] \in Nat
  /\ tracker.sets[g].starts = starts[g] /\ tracker.sets[g].runs = runs[g]
  /\ tracker.sets[g].on <=> g \in online

\* A pack likewise, with the hours the tracker has seen it at either end.
PackAgrees(p) ==
  /\ throughput[p] \in Int
  /\ tracker.packs[p].throughput = throughput[p]
  /\ tracker.packs[p].low \in Nat /\ tracker.packs[p].high \in Nat
  /\ throughput[p] > 0 /\ energy[p] = 0 => tracker.packs[p].low > 0
  /\ throughput[p] > 0 /\ energy[p] = Band => tracker.packs[p].high > 0

\* Water is charged for as it goes unmet, and never given back.
WaterAgrees ==
  /\ owed \in Nat /\ unmet \in Nat
  /\ charged = unmet /\ previous = unmet

MInv ==
  driver = "environment" =>
    /\ \A g \in Gensets : SetAgrees(g)
    /\ \A p \in Packs : PackAgrees(p)
    /\ WaterAgrees

-----------------------------------------------------------------------------
(***************************************************************************)
(* Arithmetic of one pack and one interval.                                *)
(***************************************************************************)
LEMMA DivBound ==
  ASSUME NEW e \in Nat, NEW u \in Nat \ {0}
  PROVE  e \div u \in Nat /\ u * (e \div u) <= e
OBVIOUS

LEMMA Scale ==
  ASSUME NEW x \in Nat, NEW y \in Nat, x <= y, NEW a \in Nat, NEW b \in Nat, a <= b
  PROVE  a * x \in Nat /\ a * x <= b * y /\ a * x <= b * x /\ a * x <= a * y
<1>1. a * x <= a * y
  OBVIOUS
<1>2. a * x <= b * x /\ a * y <= b * y
  OBVIOUS
<1> QED BY <1>1, <1>2

LEMMA AmbientLevel ==
  ASSUME PacksOK, NEW p \in Packs
  PROVE  Ambient(p) \in Levels /\ Derated[p][Ambient(p)] \in Nat
BY StorageAssumption DEF PacksOK, Ambient, Levels

\* The two bounds are natural numbers, and the energy they stand for is there.
LEMMA Bounds ==
  ASSUME PacksOK, NEW p \in Packs, NEW t \in Levels
  PROVE  /\ MaxDischarge(p, t) \in Nat /\ Unit * MaxDischarge(p, t) <= energy[p]
         /\ MaxCharge(p, t) \in Nat
<1> DEFINE a == energy[p] \div Unit
           b == (Band - energy[p]) \div Unit
           d == Derated[p][t]
<1>1. energy[p] \in 0..Band /\ Band \in Nat /\ Unit \in Nat \ {0} /\ d \in Nat
  BY StorageAssumption DEF PacksOK, Levels
<1>2. energy[p] \in Nat /\ Band - energy[p] \in Nat
  BY <1>1
<1>3. a \in Nat /\ Unit * a <= energy[p] /\ b \in Nat
  BY <1>1, <1>2, DivBound
<1>4. MaxDischarge(p, t) = (IF d < a THEN d ELSE a) /\ MaxCharge(p, t) = IF t \in Frozen[p] THEN 0 ELSE IF d < b THEN d ELSE b
  BY DEF MaxDischarge, MaxCharge, Least
<1> HIDE DEF a, b, d
<1>5. MaxDischarge(p, t) \in Nat /\ MaxCharge(p, t) \in Nat /\ MaxDischarge(p, t) <= a
  BY <1>1, <1>3, <1>4
<1>6. Unit * MaxDischarge(p, t) <= Unit * a
  BY <1>1, <1>3, <1>5, Scale
<1>7. Unit * MaxDischarge(p, t) \in Nat /\ Unit * a \in Nat
  BY <1>1, <1>3, <1>5, Scale
<1> QED BY <1>2, <1>3, <1>5, <1>6, <1>7

LEMMA MetBounds ==
  ASSUME PacksOK, NEW p \in Packs, NEW asked \in Int
  PROVE  /\ Met(p, asked) \in Int
         /\ asked >= 0 => Met(p, asked) \in 0..MaxDischarge(p, Ambient(p))
         /\ asked < 0 => Met(p, asked) \in -MaxCharge(p, Ambient(p))..0
         /\ asked \in Observed(p) => Met(p, asked) = asked
BY AmbientLevel, Bounds DEF Met, Least, Observed

\* After an interval a pack is within its band, and holds no more than its books say.
LEMMA PackStep ==
  ASSUME PacksOK, NEW p \in Packs, energy[p] <= books[p], NEW asked \in Int
  PROVE  LET met  == Met(p, asked)
             book == books[p] - (IF met >= 0 THEN Unit ELSE Gain) * met
         IN  book \in Int /\ EnergyAfter(p, met) \in 0..Band /\ EnergyAfter(p, met) <= book
<1> DEFINE met == Met(p, asked)
           limit == MaxDischarge(p, Ambient(p))
<1>1. /\ energy[p] \in Nat /\ energy[p] <= Band /\ books[p] \in Int /\ Band \in Nat
      /\ Unit \in Nat /\ Gain \in Nat /\ Cost \in Nat /\ Unit <= Cost
  BY StorageAssumption DEF PacksOK
<1>2. met \in Int /\ (asked >= 0 => met \in 0..limit) /\ (asked < 0 => met <= 0)
      /\ limit \in Nat /\ Unit * limit <= energy[p]
  BY AmbientLevel, Bounds, MetBounds
<1> HIDE DEF met, limit
<1>3. CASE met >= 0
  <2>1. met \in Nat /\ met <= limit
    BY <1>2, <1>3
  <2>2. Unit * met \in Nat /\ Cost * met \in Nat /\ Unit * met <= Cost * met /\ Unit * met <= Unit * limit /\ Unit * limit \in Nat
    BY <1>1, <1>2, <2>1, Scale
  <2>3. EnergyAfter(p, met) = IF energy[p] - Cost * met > 0 THEN energy[p] - Cost * met ELSE 0
    BY <1>3 DEF EnergyAfter, Most
  <2> QED BY <1>1, <1>2, <1>3, <2>2, <2>3 DEF met
<1>4. CASE met < 0
  <2>1. Gain * (-met) \in Nat /\ Gain * (-met) = -(Gain * met) /\ Gain * met \in Int
    BY <1>1, <1>2, <1>4
  <2>2. EnergyAfter(p, met) = IF energy[p] - Gain * met < Band THEN energy[p] - Gain * met ELSE Band
    BY <1>2, <1>4 DEF EnergyAfter, Least
  <2> QED BY <1>1, <1>2, <1>4, <2>1, <2>2 DEF met
<1> QED BY <1>2, <1>3, <1>4

-----------------------------------------------------------------------------
\* The packs in any interval of any driver.
LEMMA AdvancePacks ==
  ASSUME PacksOK, PackConserves, NEW on, NEW asked \in [Packs -> Int], NEW served, Advance(on, asked, served)
  PROVE  /\ PacksOK' /\ PackConserves'
         /\ (\A p \in Packs : asked[p] \in Observed(p)) => delivered' = [p \in Packs |-> asked[p]]
<1> USE DEF Advance, Exchange
<1>1. air' \in Temperatures /\ indoor' \in Indoors
  OBVIOUS
<1>2. \A p \in Packs : /\ energy'[p] = EnergyAfter(p, Met(p, asked[p]))
                       /\ books'[p] = books[p] - (IF Met(p, asked[p]) >= 0 THEN Unit ELSE Gain) * Met(p, asked[p])
                       /\ delivered'[p] = Met(p, asked[p])
  OBVIOUS
<1>3. \A p \in Packs : books'[p] \in Int /\ energy'[p] \in 0..Band /\ energy'[p] <= books'[p]
  BY <1>2, PackStep DEF PackConserves
<1>4. energy' = [p \in Packs |-> energy'[p]] /\ books' = [p \in Packs |-> books'[p]] /\ delivered' = [p \in Packs |-> delivered'[p]]
  OBVIOUS
<1>5. PacksOK'
  BY <1>1, <1>3, <1>4 DEF PacksOK
<1>6. ASSUME \A p \in Packs : asked[p] \in Observed(p)
      PROVE  delivered' = [p \in Packs |-> asked[p]]
  BY <1>2, <1>4, <1>6, MetBounds
<1> QED BY <1>3, <1>5, <1>6 DEF PackConserves

LEMMA ResetPacks ==
  ASSUME NEW start, NEW level \in Charges, Reset(start, level)
  PROVE  PacksOK' /\ PackConserves' /\ delivered' = [p \in Packs |-> 0]
<1>0. Charges \subseteq 0..Band /\ Band \in Nat
  BY EpisodeAssumption, StorageAssumption
<1>1. level \in 0..Band /\ level \in Int /\ level <= level
  BY <1>0
<1>2. /\ energy' = [p \in Packs |-> level] /\ books' = energy'
      /\ delivered' = [p \in Packs |-> 0]
      /\ air' \in Temperatures /\ indoor' = 2
  BY Zenon DEF Reset
<1> HIDE DEF Reset
<1>3. energy' \in [Packs -> 0..Band] /\ books' \in [Packs -> Int]
  BY <1>1, <1>2
<1>4. \A p \in Packs : energy'[p] <= books'[p]
  BY <1>1, <1>2
<1> QED BY <1>2, <1>3, <1>4 DEF PacksOK, PackConserves

\* Holding a pack still is always within its envelope.
LEMMA StillObserved ==
  ASSUME PacksOK, NEW p \in Packs
  PROVE  0 \in Observed(p)
BY AmbientLevel, Bounds DEF Observed

LEMMA PowerRange == Powers \subseteq Int
BY StorageAssumption DEF Powers, Levels

-----------------------------------------------------------------------------
LEMMA PacksInvariant == Spec => []IInv
<1>1. Init => IInv
  BY EpisodeAssumption, StorageAssumption DEF Init, InitPlant, IInv, PacksOK, PackConserves, EnvelopeHolds
<1>2. IInv /\ [Next]_vars => IInv'
  <2> SUFFICES ASSUME IInv, [Next]_vars PROVE IInv'
    OBVIOUS
  <2> USE DEF IInv
  <2>0. driver' = driver
    BY DEF Next, EnvStep, EnvReset, FallbackStep, AgentStep, GuardReset, OracleStep, vars
  <2>1. CASE EnvStep \/ AgentStep
    <3>1. PICK on \in SUBSET Gensets, power \in [Packs -> Powers], served \in Melts :
            /\ \A p \in Packs : power[p] \in Observed(p)
            /\ Advance(on, power, served) \/ Advance(Safe(on), power, served)
            /\ command' = power
      BY <2>1 DEF EnvStep, AgentStep
    <3>2. power \in [Packs -> Int] /\ power = [p \in Packs |-> power[p]]
      BY PowerRange
    <3>3. PacksOK' /\ PackConserves' /\ delivered' = power
      BY <3>1, <3>2, AdvancePacks
    <3> QED BY <3>1, <3>3 DEF EnvelopeHolds
  <2>2. CASE FallbackStep
    <3> DEFINE still == [p \in Packs |-> 0]
    <3>1. PICK on, served : Advance(on, still, served)
      BY <2>2 DEF FallbackStep
    <3>2. still \in [Packs -> Int] /\ \A p \in Packs : still[p] \in Observed(p)
      BY StillObserved
    <3>3. PacksOK' /\ PackConserves' /\ delivered' = [p \in Packs |-> still[p]]
      BY <3>1, <3>2, AdvancePacks
    <3>4. command' = still
      BY <2>2 DEF FallbackStep
    <3> QED BY <3>3, <3>4 DEF EnvelopeHolds
  <2>3. ASSUME NEW s \in Starts, NEW c \in Charges, EnvReset(s, c) PROVE IInv'
    BY <2>3, ResetPacks DEF EnvReset, EnvelopeHolds
  <2>4. CASE GuardReset
    BY <2>4, ResetPacks DEF GuardReset, EnvelopeHolds
  <2>5. CASE OracleStep
    <3>1. CASE Build
      BY <2>5, <3>1, <2>0 DEF OracleStep, Build, plantVars, PacksOK, PackConserves, EnvelopeHolds
    <3>2. CASE WarmUp
      <4> DEFINE still == [p \in Packs |-> 0]
      <4>1. PICK on : Advance(on, still, 0)
        BY <3>2 DEF WarmUp
      <4>2. still \in [Packs -> Int]
        OBVIOUS
      <4> QED BY <2>0, <2>5, <4>1, <4>2, AdvancePacks DEF OracleStep, EnvelopeHolds
    <3>3. CASE Follow
      <4> HIDE DEF IInv
      <4>1. \E on \in SUBSET Gensets, power \in [Packs -> Powers] : Advance(on, power, 0)
        BY <3>3, Zenon DEF Follow
      <4>3. PICK on \in SUBSET Gensets, power \in [Packs -> Powers] : Advance(on, power, 0)
        BY <4>1
      <4>2. power \in [Packs -> Int]
        BY PowerRange
      <4> QED BY <2>0, <2>5, <4>3, <4>2, AdvancePacks DEF OracleStep, EnvelopeHolds, IInv
    <3> QED BY <2>5, <3>1, <3>2, <3>3 DEF OracleStep
  <2>6. CASE UNCHANGED vars
    BY <2>6 DEF vars, plantVars, PacksOK, PackConserves, EnvelopeHolds
  <2> QED BY <2>1, <2>2, <2>3, <2>4, <2>5, <2>6 DEF Next
<1> QED BY <1>1, <1>2, PTL DEF Spec

-----------------------------------------------------------------------------
(***************************************************************************)
(* The monitors.                                                           *)
(***************************************************************************)
LEMMA SetUpdated ==
  ASSUME NEW h, NEW b \in BOOLEAN
  PROVE  /\ GensetUpdated(h, b).starts = h.starts + IF b /\ ~h.on THEN 1 ELSE 0
         /\ GensetUpdated(h, b).runs = h.runs + IF b THEN 1 ELSE 0
         /\ GensetUpdated(h, b).on = b
<1> DEFINE s == h.starts + IF b /\ ~h.on THEN 1 ELSE 0
           r == h.runs + IF b THEN 1 ELSE 0
<1>1. GensetUpdated(h, b) = [starts |-> s, runs |-> r, on |-> b]
  BY DEF GensetUpdated
<1> HIDE DEF s, r
<1>2. GensetUpdated(h, b).starts = s /\ GensetUpdated(h, b).runs = r /\ GensetUpdated(h, b).on = b
  BY <1>1
<1> QED BY <1>2 DEF s, r

LEMMA TurnAgrees ==
  ASSUME \A g \in Gensets : SetAgrees(g), NEW on, Turn(on), TrackerUpdate
  PROVE  \A g \in Gensets : SetAgrees(g)'
<1> SUFFICES ASSUME NEW g \in Gensets PROVE SetAgrees(g)'
  OBVIOUS
<1> DEFINE turning == F!Committed(on)
<1>1. /\ online' = turning
      /\ starts'[g] = starts[g] + IF g \in turning \ online THEN 1 ELSE 0
      /\ runs'[g] = runs[g] + IF g \in turning THEN 1 ELSE 0
  BY DEF Turn
<1>2. tracker'.sets[g] = GensetUpdated(tracker.sets[g], g \in online')
  BY DEF TrackerUpdate
<1> HIDE DEF turning
<1>3. /\ tracker'.sets[g].starts = tracker.sets[g].starts + IF g \in online' /\ ~tracker.sets[g].on THEN 1 ELSE 0
      /\ tracker'.sets[g].runs = tracker.sets[g].runs + IF g \in online' THEN 1 ELSE 0
      /\ tracker'.sets[g].on <=> g \in online'
  <2> DEFINE h == tracker.sets[g]
             b == (g \in online')
  <2>1. b \in BOOLEAN /\ tracker'.sets[g] = GensetUpdated(h, b)
    BY <1>2
  <2> HIDE DEF h, b
  <2>2. /\ tracker'.sets[g].starts = h.starts + IF b /\ ~h.on THEN 1 ELSE 0
        /\ tracker'.sets[g].runs = h.runs + IF b THEN 1 ELSE 0
        /\ tracker'.sets[g].on = b
    <3>1. /\ GensetUpdated(h, b).starts = h.starts + IF b /\ ~h.on THEN 1 ELSE 0
          /\ GensetUpdated(h, b).runs = h.runs + IF b THEN 1 ELSE 0
          /\ GensetUpdated(h, b).on = b
      BY <2>1, SetUpdated
    <3> QED BY <2>1, <3>1, Zenon
  <2>3. tracker'.sets[g].on <=> b
    BY <2>1, <2>2, Zenon
  <2> QED BY <2>2, <2>3, Zenon DEF h, b
<1>4. SetAgrees(g)
  OBVIOUS
<1>5. CASE g \in turning
  BY <1>1, <1>3, <1>4, <1>5 DEF SetAgrees
<1>6. CASE g \notin turning
  BY <1>1, <1>3, <1>4, <1>6 DEF SetAgrees
<1> QED BY <1>5, <1>6

LEMMA ExchangeAgrees ==
  ASSUME PacksOK, PacksOK', \A p \in Packs : PackAgrees(p),
         NEW asked \in [Packs -> Int], Exchange(asked), TrackerUpdate
  PROVE  \A p \in Packs : PackAgrees(p)'
<1> SUFFICES ASSUME NEW p \in Packs PROVE PackAgrees(p)'
  OBVIOUS
<1> DEFINE met == Met(p, asked[p])
           before == tracker.packs[p]
           after == tracker'.packs[p]
<1>1. delivered'[p] = met /\ throughput'[p] = throughput[p] + Size(met)
  BY DEF Exchange
<1>2. after = BatteryUpdated(before, delivered'[p], energy'[p])
  BY DEF TrackerUpdate
<1>3. met \in Int /\ Size(met) \in Int
  BY MetBounds DEF Size
<1>4. /\ throughput[p] \in Int /\ before.throughput = throughput[p]
      /\ before.low \in Nat /\ before.high \in Nat
  BY DEF PackAgrees
<1>5. energy'[p] \in Int /\ Band \in Nat
  BY StorageAssumption DEF PacksOK
<1> HIDE DEF met, before
<1>6. after.throughput = throughput'[p] /\ throughput'[p] \in Int
  BY <1>1, <1>2, <1>3, <1>4 DEF BatteryUpdated
<1>7. after.low \in Nat /\ (energy'[p] = 0 => after.low > 0)
  BY <1>2, <1>4, <1>5 DEF BatteryUpdated
<1>8. after.high \in Nat /\ (energy'[p] = Band => after.high > 0)
  BY <1>2, <1>4, <1>5 DEF BatteryUpdated
<1> QED BY <1>6, <1>7, <1>8 DEF PackAgrees

LEMMA MeltAgrees ==
  ASSUME WaterAgrees, NEW served \in Nat, Melt(served), Charge
  PROVE  WaterAgrees'
<1>1. DailyMelt \in Nat
  BY StorageAssumption
<1> QED BY <1>1 DEF WaterAgrees, Melt, Charge, OwedToday, Most

LEMMA MonitorsInvariant == Spec => []MInv
<1>1. Init => MInv
  BY StorageAssumption DEF Init, InitPlant, NewTracker, F!Init, MInv, SetAgrees, PackAgrees, WaterAgrees
<1>2. IInv /\ IInv' /\ MInv /\ [Next]_vars => MInv'
  <2> SUFFICES ASSUME IInv, IInv', MInv, [Next]_vars, driver = "environment" PROVE MInv'
    BY DEF MInv, Next, EnvStep, EnvReset, FallbackStep, AgentStep, GuardReset, OracleStep, vars
  <2>1. /\ \A g \in Gensets : SetAgrees(g)
        /\ \A p \in Packs : PackAgrees(p)
        /\ WaterAgrees
    BY DEF MInv
  <2>2. CASE EnvStep
    <3>1. PICK on \in SUBSET Gensets, power \in [Packs -> Powers], served \in Melts :
            Advance(on, power, served)
      BY <2>2 DEF EnvStep
    <3>2. power \in [Packs -> Int] /\ served \in Nat
      BY PowerRange, EpisodeAssumption
    <3>3. Turn(on) /\ Exchange(power) /\ Melt(served)
      BY <3>1 DEF Advance
    <3>4. TrackerUpdate /\ Charge
      BY <2>2 DEF EnvStep
    <3> QED BY <2>1, <3>2, <3>3, <3>4, TurnAgrees, ExchangeAgrees, MeltAgrees DEF MInv, IInv
  <2>3. ASSUME NEW s \in Starts, NEW c \in Charges, EnvReset(s, c) PROVE MInv'
    <3>1. /\ starts' = [g \in Gensets |-> 0] /\ runs' = starts' /\ online' = {}
          /\ throughput' = delivered' /\ delivered' = [p \in Packs |-> 0]
          /\ owed' = DailyMelt /\ unmet' = 0
          /\ tracker' = NewTracker /\ charged' = 0 /\ previous' = unmet'
      BY <2>3, Zenon DEF EnvReset, Reset
    <3> QED BY <3>1, StorageAssumption DEF MInv, NewTracker, SetAgrees, PackAgrees, WaterAgrees
  <2>4. CASE FallbackStep \/ AgentStep \/ GuardReset \/ OracleStep
    BY <2>4 DEF FallbackStep, AgentStep, GuardReset, OracleStep
  <2>5. CASE UNCHANGED vars
    BY <2>1, <2>5 DEF vars, plantVars, fleetVars, bookVars, MInv, SetAgrees, PackAgrees, WaterAgrees
  <2> QED BY <2>2, <2>3, <2>4, <2>5 DEF Next
<1> QED BY PacksInvariant, <1>1, <1>2, PTL DEF Spec

-----------------------------------------------------------------------------
\* For every chemistry, every efficiency and every sequence of requests, a pack
\* holds no more than it was given less what it gave.
THEOREM EnergyConserved == Spec => []PackConserves
<1>1. IInv => PackConserves
  BY DEF IInv
<1> QED BY PacksInvariant, <1>1, PTL

\* For every weather, a command within the observed envelope is delivered whole.
THEOREM EnvelopeDelivered == Spec => []EnvelopeHolds
<1>1. IInv => EnvelopeHolds
  BY DEF IInv
<1> QED BY PacksInvariant, <1>1, PTL

\* For every weather and every sequence of episodes, the tracker's counters and the
\* reward's water are the plant's.
THEOREM BooksBeside == Spec => []MonitorsAgree
<1>1. MInv => MonitorsAgree
  BY DEF MInv, MonitorsAgree, SetAgrees, PackAgrees, WaterAgrees
<1> QED BY MonitorsInvariant, <1>1, PTL

-----------------------------------------------------------------------------
(***************************************************************************)
(* The schedule.  The program bounds starts and stops in windows, the      *)
(* machines count minutes.  What ties the two is that a set whose timer    *)
(* has not run out has a start, or a stop, in the schedule, no further     *)
(* back than its timer says.                                               *)
(***************************************************************************)

\* The windows are no shorter than the timers they stand for: so they are where a
\* timer is a multiple of the interval, or no longer than one, or rounded up.
WindowsSuffice ==
  /\ MinUpTime <= WindowSteps(MinUpTime) * Dt
  /\ MinDownTime <= WindowSteps(MinDownTime) * Dt

\* The machines, and who is at the plant while there is a schedule.
MachinesOK ==
  /\ online \subseteq Gensets
  /\ minutes \in [Gensets -> Nat]
  /\ schedule \in Seq(SUBSET Gensets)
  /\ schedule # <<>> => driver = "oracle"

\* The start that a set owes its timer, or the stop.
Accounted(g) ==
  /\ g \in online /\ minutes[g] < MinUpTime =>
       \E k \in 2..Len(schedule) :
         Started(schedule, g, k) /\ (Len(schedule) - k + 1) * Dt <= minutes[g]
  /\ g \notin online /\ minutes[g] < MinDownTime =>
       \E k \in 2..Len(schedule) :
         Stopped(schedule, g, k) /\ (Len(schedule) - k + 1) * Dt <= minutes[g]

SInv ==
  /\ MachinesOK
  /\ schedule # <<>> /\ settled =>
       online = schedule[Len(schedule)] /\ \A g \in Gensets : Accounted(g)

\* A window is a finite set of intervals, and has something in it if it has an event.
LEMMA WindowSum ==
  ASSUME NEW minimum, NEW t \in Nat, WindowSteps(minimum) \in Int,
         NEW E, E \subseteq Window(minimum, t), Cardinality(E) <= 0
  PROVE  E = {}
<1>1. Most(2, t - WindowSteps(minimum) + 1) \in Int
  BY DEF Most
<1>2. IsFiniteSet(Window(minimum, t))
  BY <1>1, FS_Interval DEF Window
<1>3. IsFiniteSet(E) /\ Cardinality(E) \in Nat
  BY <1>2, FS_Subset, FS_CardinalityType
<1>4. Cardinality(E) = 0
  BY <1>3
<1> QED BY <1>3, <1>4, FS_EmptySet

LEMMA WindowIsInt ==
  ASSUME NEW minimum \in Nat
  PROVE  WindowSteps(minimum) \in Nat \ {0}
<1>1. Dt \in Nat \ {0}
  BY ClockAssumption
<1>2. minimum \div Dt \in Nat
  BY <1>1, DivBound
<1>3. Nearest(minimum) \in Int
  BY <1>2 DEF Nearest
<1> QED BY <1>3 DEF WindowSteps, Most

\* An event within a timer's reach is within its window.
LEMMA Reaches ==
  ASSUME NEW minimum \in Nat, minimum <= WindowSteps(minimum) * Dt,
         NEW n \in Nat, NEW k \in 2..n, NEW m \in Nat, m < minimum, (n - k + 1) * Dt <= m
  PROVE  k \in Window(minimum, n + 1)
<1> DEFINE w == WindowSteps(minimum)
           d == n - k + 1
<1>1. w \in Nat \ {0} /\ Dt \in Nat \ {0} /\ d \in Nat
  BY WindowIsInt, ClockAssumption
<1> HIDE DEF w
<1>2. d < w
  <2> SUFFICES ASSUME w <= d PROVE FALSE
    BY <1>1
  <2> HIDE DEF d
  <2>1. w * Dt <= d * Dt /\ w * Dt \in Int /\ d * Dt \in Int
    BY <1>1
  <2> QED BY <2>1 DEF d, w
<1>3. k <= n + 1 /\ k >= 2 /\ k >= n + 1 - w + 1
  BY <1>1, <1>2
<1> QED BY <1>1, <1>3 DEF Window, Most, w

-----------------------------------------------------------------------------
\* The program lets no set change that its timer would hold back.
LEMMA FeasibleIsAllowed ==
  ASSUME WindowsSuffice, MachinesOK, schedule # <<>>, online = schedule[Len(schedule)],
         NEW g \in Gensets, Accounted(g),
         NEW on \in SUBSET Gensets, Feasible(Append(schedule, on))
  PROVE  /\ g \in online /\ g \notin on => g \in F!CanStop
         /\ g \notin online /\ g \in on => g \in F!CanStart
<1> DEFINE n == Len(schedule)
           s == Append(schedule, on)
<1>1. /\ n \in Nat \ {0} /\ Len(s) = n + 1 /\ s[n + 1] = on
      /\ \A i \in 1..n : s[i] = schedule[i]
  BY EmptySeq, LenProperties, AppendProperties DEF MachinesOK
<1>2. n + 1 \in 2..Len(s) /\ n + 1 \in Nat
  BY <1>1
<1>3. minutes[g] \in Nat /\ MinUpTime \in Nat /\ MinDownTime \in Nat
  BY ClockAssumption DEF MachinesOK
<1>4. WindowSteps(MinUpTime) \in Int /\ WindowSteps(MinDownTime) \in Int
  BY <1>3, WindowIsInt
<1>5. \A k \in 2..n : k \in 1..n /\ k - 1 \in 1..n
  BY <1>1
<1>6. \A k \in 2..n : /\ Started(schedule, g, k) => Started(s, g, k)
                      /\ Stopped(schedule, g, k) => Stopped(s, g, k)
  BY <1>1, <1>5 DEF Started, Stopped
<1> HIDE DEF n, s
<1>7. /\ Cardinality({i \in Window(MinUpTime, n + 1) : Started(s, g, i)})
           <= IF g \in s[n + 1] THEN 1 ELSE 0
      /\ Cardinality({i \in Window(MinDownTime, n + 1) : Stopped(s, g, i)})
           <= IF g \in s[n + 1] THEN 0 ELSE 1
  BY <1>2 DEF Feasible, s
<1>8. ASSUME g \in online, g \notin on PROVE g \in F!CanStop
  <2>1. {i \in Window(MinUpTime, n + 1) : Started(s, g, i)} = {}
    BY <1>1, <1>2, <1>4, <1>7, <1>8, WindowSum
  <2>2. ~(minutes[g] < MinUpTime)
    <3> SUFFICES ASSUME minutes[g] < MinUpTime PROVE FALSE
      OBVIOUS
    <3>1. PICK k \in 2..n : Started(schedule, g, k) /\ (n - k + 1) * Dt <= minutes[g]
      BY <1>8 DEF Accounted, n
    <3>2. k \in Window(MinUpTime, n + 1)
      BY <1>1, <1>3, <3>1, Reaches DEF WindowsSuffice
    <3> QED BY <1>6, <2>1, <3>1, <3>2
  <2> QED BY <1>3, <1>8, <2>2 DEF F!CanStop
<1>9. ASSUME g \notin online, g \in on PROVE g \in F!CanStart
  <2>1. {i \in Window(MinDownTime, n + 1) : Stopped(s, g, i)} = {}
    BY <1>1, <1>2, <1>4, <1>7, <1>9, WindowSum
  <2>2. ~(minutes[g] < MinDownTime)
    <3> SUFFICES ASSUME minutes[g] < MinDownTime PROVE FALSE
      OBVIOUS
    <3>1. PICK k \in 2..n : Stopped(schedule, g, k) /\ (n - k + 1) * Dt <= minutes[g]
      BY <1>9 DEF Accounted, n
    <3>2. k \in Window(MinDownTime, n + 1)
      BY <1>1, <1>3, <3>1, Reaches DEF WindowsSuffice
    <3> QED BY <1>6, <2>1, <3>1, <3>2
  <2> QED BY <1>3, <1>9, <2>2 DEF F!CanStart
<1> QED BY <1>8, <1>9

\* The machines stay machines in every interval.
LEMMA TurnMachines ==
  ASSUME online \subseteq Gensets, minutes \in [Gensets -> Nat], NEW on, Turn(on)
  PROVE  online' \subseteq Gensets /\ minutes' \in [Gensets -> Nat]
<1>1. \A m \in Nat : F!Elapsed(m) \in Nat
  BY ClockAssumption DEF F!Elapsed, F!Settled
<1>2. online' = F!Committed(on) /\ minutes' = F!Advanced(F!Committed(on))
  BY DEF Turn
<1>3. online' \subseteq Gensets
  BY <1>2 DEF F!Committed, F!CanStart
<1>4. minutes' \in [Gensets -> Nat]
  BY <1>1, <1>2 DEF F!Advanced
<1> QED BY <1>3, <1>4

\* A timer that is still short of its limit has counted every interval.
LEMMA StillCounting ==
  ASSUME NEW m \in Nat, NEW limit \in {MinUpTime, MinDownTime}, F!Elapsed(m) < limit
  PROVE  F!Elapsed(m) = m + Dt /\ m < limit
BY ClockAssumption DEF F!Elapsed, F!Settled

\* An event k intervals back is one further back after the next.
LEMMA OneFurtherBack ==
  ASSUME NEW n \in Nat, NEW k \in 2..n, NEW m \in Nat, (n - k + 1) * Dt <= m
  PROVE  ((n + 1) - k + 1) * Dt <= m + Dt
<1> DEFINE d == n - k + 1
<1>1. d \in Nat /\ (n + 1) - k + 1 = d + 1 /\ Dt \in Nat
  BY ClockAssumption
<1> HIDE DEF d
<1>2. (d + 1) * Dt = d * Dt + Dt /\ d * Dt \in Nat
  BY <1>1
<1> QED BY <1>1, <1>2 DEF d

\* The plant follows one more interval of a feasible schedule.
LEMMA FollowsOn ==
  ASSUME WindowsSuffice, SInv, schedule # <<>>, settled, NEW on \in SUBSET Gensets,
         Feasible(Append(schedule, on)), Turn(on), schedule' = Append(schedule, on)
  PROVE  online' = schedule'[Len(schedule')] /\ \A g \in Gensets : Accounted(g)'
<1> DEFINE n == Len(schedule)
<1>1. /\ n \in Nat \ {0} /\ Len(schedule') = n + 1 /\ schedule'[n + 1] = on
      /\ \A i \in 1..n : schedule'[i] = schedule[i]
  BY EmptySeq, LenProperties, AppendProperties DEF SInv, MachinesOK
<1>2. /\ MachinesOK /\ online = schedule[n] /\ \A g \in Gensets : Accounted(g)
  BY DEF SInv
<1>3. online' = F!Committed(on) /\ minutes' = F!Advanced(F!Committed(on))
  BY DEF Turn
<1>4. online' = on
  <2>1. \A g \in Gensets : /\ g \in online /\ g \notin on => g \in F!CanStop
                           /\ g \notin online /\ g \in on => g \in F!CanStart
    BY <1>2, FeasibleIsAllowed
  <2> QED BY <1>2, <1>3, <2>1 DEF F!Committed, F!CanStart, MachinesOK
<1>5. ASSUME NEW g \in Gensets PROVE Accounted(g)'
  <2>1. minutes'[g] = IF (g \in online) # (g \in on) THEN F!Elapsed(0) ELSE F!Elapsed(minutes[g])
    BY <1>3, <1>4 DEF F!Advanced
  <2>2. minutes[g] \in Nat /\ Accounted(g) /\ 0 \in Nat /\ Dt \in Nat
    BY <1>2, ClockAssumption DEF MachinesOK
  <2>3. n + 1 \in 2..n + 1 /\ schedule'[(n + 1) - 1] = online /\ ((n + 1) - (n + 1) + 1) * Dt = Dt
    BY <1>1, <1>2, <2>2
  <2>4. \A k \in 2..n : k \in 2..n + 1 /\ k \in 1..n /\ k - 1 \in 1..n
    BY <1>1
  <2>5. \A k \in 2..n : /\ Started(schedule, g, k) => Started(schedule', g, k)
                        /\ Stopped(schedule, g, k) => Stopped(schedule', g, k)
    BY <1>1, <2>4 DEF Started, Stopped
  <2>6. ASSUME g \in on, minutes'[g] < MinUpTime
        PROVE  \E k \in 2..n + 1 :
                 Started(schedule', g, k) /\ ((n + 1) - k + 1) * Dt <= minutes'[g]
    <3>1. CASE g \notin online
      <4>1. Started(schedule', g, n + 1)
        BY <1>1, <2>3, <2>6, <3>1 DEF Started
      <4>2. minutes'[g] = Dt
        BY <2>1, <2>2, <2>6, <3>1, StillCounting
      <4> QED BY <2>2, <2>3, <4>1, <4>2
    <3>2. CASE g \in online
      <4>1. minutes'[g] = minutes[g] + Dt /\ minutes[g] < MinUpTime
        BY <2>1, <2>2, <2>6, <3>2, StillCounting
      <4>2. PICK k \in 2..n : Started(schedule, g, k) /\ (n - k + 1) * Dt <= minutes[g]
        BY <2>2, <3>2, <4>1 DEF Accounted
      <4>3. ((n + 1) - k + 1) * Dt <= minutes'[g]
        BY <1>1, <2>2, <4>1, <4>2, OneFurtherBack
      <4> QED BY <2>4, <2>5, <4>2, <4>3
    <3> QED BY <3>1, <3>2
  <2>7. ASSUME g \notin on, minutes'[g] < MinDownTime
        PROVE  \E k \in 2..n + 1 :
                 Stopped(schedule', g, k) /\ ((n + 1) - k + 1) * Dt <= minutes'[g]
    <3>1. CASE g \in online
      <4>1. Stopped(schedule', g, n + 1)
        BY <1>1, <2>3, <2>7, <3>1 DEF Stopped
      <4>2. minutes'[g] = Dt
        BY <2>1, <2>2, <2>7, <3>1, StillCounting
      <4> QED BY <2>2, <2>3, <4>1, <4>2
    <3>2. CASE g \notin online
      <4>1. minutes'[g] = minutes[g] + Dt /\ minutes[g] < MinDownTime
        BY <2>1, <2>2, <2>7, <3>2, StillCounting
      <4>2. PICK k \in 2..n : Stopped(schedule, g, k) /\ (n - k + 1) * Dt <= minutes[g]
        BY <2>2, <3>2, <4>1 DEF Accounted
      <4>3. ((n + 1) - k + 1) * Dt <= minutes'[g]
        BY <1>1, <2>2, <4>1, <4>2, OneFurtherBack
      <4> QED BY <2>4, <2>5, <4>2, <4>3
    <3> QED BY <3>1, <3>2
  <2> HIDE DEF n
  <2> QED BY <1>1, <1>4, <2>6, <2>7 DEF Accounted
<1> QED BY <1>1, <1>4, <1>5

\* Settled sets owe their timers nothing when the instance is built.
LEMMA BuiltAccounted ==
  ASSUME MachinesOK, Build, settled'
  PROVE  online' = schedule'[Len(schedule')] /\ \A g \in Gensets : Accounted(g)'
<1>1. schedule' = <<online>> /\ online' = online /\ minutes' = minutes
  BY DEF Build, plantVars, fleetVars
<1>2. Len(schedule') = 1 /\ schedule'[1] = online
  BY <1>1
<1>3. \A g \in Gensets : g \in F!CanStart \union F!CanStop
  BY DEF Build
<1>4. ASSUME NEW g \in Gensets PROVE Accounted(g)'
  <2>1. minutes[g] \in Nat /\ MinUpTime \in Nat /\ MinDownTime \in Nat
    BY ClockAssumption DEF MachinesOK
  <2>2. (g \in online => minutes[g] >= MinUpTime) /\ (g \notin online => minutes[g] >= MinDownTime)
    BY <1>3 DEF F!CanStart, F!CanStop
  <2> QED BY <1>1, <2>1, <2>2 DEF Accounted
<1> QED BY <1>1, <1>2, <1>4

LEMMA ScheduleInvariant == WindowsSuffice => (Spec => []SInv)
<1> SUFFICES ASSUME WindowsSuffice PROVE Spec => []SInv
  OBVIOUS
<1>1. Init => SInv
  BY ClockAssumption, EmptySeq DEF Init, InitPlant, F!Init, F!Settled, SInv, MachinesOK
<1>2. SInv /\ [Next]_vars => SInv'
  <2> SUFFICES ASSUME SInv, [Next]_vars PROVE SInv'
    OBVIOUS
  <2>1. MachinesOK
    BY DEF SInv
  <2>2. ASSUME driver # "oracle", UNCHANGED <<oracleVars, driver>>,
               online' \subseteq Gensets, minutes' \in [Gensets -> Nat]
        PROVE  SInv'
    BY <2>1, <2>2 DEF SInv, MachinesOK, oracleVars
  <2>3. ASSUME driver # "oracle", UNCHANGED <<oracleVars, driver>>,
               NEW on, NEW asked, NEW served, Advance(on, asked, served)
        PROVE  SInv'
    <3>1. online' \subseteq Gensets /\ minutes' \in [Gensets -> Nat]
      BY <2>1, <2>3, TurnMachines DEF Advance, MachinesOK
    <3> QED BY <2>2, <2>3, <3>1
  <2>4. CASE EnvStep \/ AgentStep \/ FallbackStep
    <3>1. driver # "oracle" /\ UNCHANGED <<oracleVars, driver>>
      BY <2>4 DEF EnvStep, AgentStep, FallbackStep
    <3>2. \E on, asked, served : Advance(on, asked, served)
      BY <2>4 DEF EnvStep, AgentStep, FallbackStep
    <3> QED BY <2>3, <3>1, <3>2
  <2>5. ASSUME NEW start, NEW c, Reset(start, c), driver # "oracle", UNCHANGED <<oracleVars, driver>>
        PROVE  SInv'
    <3>1. online' = {} /\ minutes' = [g \in Gensets |-> F!Settled]
      BY <2>5, Zenon DEF Reset
    <3>2. F!Settled \in Nat
      BY ClockAssumption DEF F!Settled
    <3> QED BY <2>2, <2>5, <3>1, <3>2
  <2>6. CASE (\E s \in Starts, c \in Charges : EnvReset(s, c)) \/ GuardReset
    <3>1. driver # "oracle" /\ UNCHANGED <<oracleVars, driver>>
      BY <2>6 DEF EnvReset, GuardReset
    <3>2. \E start, c : Reset(start, c)
      BY <2>6, Zenon DEF EnvReset, GuardReset
    <3> QED BY <2>5, <3>1, <3>2
  <2>7. CASE OracleStep
    <3>1. CASE WarmUp
      <4>1. schedule = <<>> /\ UNCHANGED <<schedule, driver>>
        BY <2>7, <3>1 DEF WarmUp, OracleStep, oracleVars
      <4>2. \E on, asked, served : Advance(on, asked, served)
        BY <3>1 DEF WarmUp
      <4>3. online' \subseteq Gensets /\ minutes' \in [Gensets -> Nat]
        BY <2>1, <4>2, TurnMachines DEF Advance, MachinesOK
      <4> QED BY <2>1, <4>1, <4>3 DEF SInv, MachinesOK
    <3>2. CASE Build
      <4>1. MachinesOK'
        <5>1. schedule' = <<online>> /\ UNCHANGED <<online, minutes>> /\ driver' = "oracle"
          BY <2>7, <3>2 DEF Build, plantVars, fleetVars, OracleStep
        <5>2. <<online>> \in Seq(SUBSET Gensets)
          BY <2>1 DEF MachinesOK
        <5> QED BY <2>1, <5>1, <5>2 DEF MachinesOK
      <4> QED BY <2>1, <3>2, <4>1, BuiltAccounted DEF SInv
    <3>3. CASE Follow
      <4>1. PICK on \in SUBSET Gensets : /\ Feasible(Append(schedule, on))
                                        /\ schedule' = Append(schedule, on)
                                        /\ \E power : Advance(on, power, 0)
        BY <3>3, Zenon DEF Follow
      <4>2. Turn(on) /\ schedule # <<>> /\ UNCHANGED <<settled, driver>>
        BY <2>7, <3>3, <4>1 DEF Advance, Follow, OracleStep
      <4>3. MachinesOK'
        <5>1. online' \subseteq Gensets /\ minutes' \in [Gensets -> Nat]
          BY <2>1, <4>2, TurnMachines DEF MachinesOK
        <5>2. schedule' \in Seq(SUBSET Gensets) /\ driver' = "oracle"
          BY <2>1, <2>7, <4>1, AppendProperties DEF MachinesOK, OracleStep
        <5> QED BY <5>1, <5>2 DEF MachinesOK
      <4>4. settled => online' = schedule'[Len(schedule')] /\ \A g \in Gensets : Accounted(g)'
        BY <4>1, <4>2, FollowsOn
      <4> QED BY <4>2, <4>3, <4>4 DEF SInv
    <3> QED BY <2>7, <3>1, <3>2, <3>3 DEF OracleStep
  <2>8. CASE UNCHANGED vars
    BY <2>8 DEF vars, plantVars, fleetVars, oracleVars, SInv, MachinesOK, Accounted
  <2> QED BY <2>4, <2>6, <2>7, <2>8 DEF Next
<1> QED BY <1>1, <1>2, PTL DEF Spec

\* Every feasible schedule is followed to the interval, for every fleet, horizon and
\* interval that the windows suffice for, by a plant whose sets were past their timers
\* when the instance was built: sums of starts over windows and minutes on a timer are
\* the same rule.
THEOREM OracleFollowed == WindowsSuffice => (Spec => []ScheduleFollowed)
<1>1. SInv => ScheduleFollowed
  BY DEF SInv, ScheduleFollowed
<1> QED BY ScheduleInvariant, <1>1, PTL

-----------------------------------------------------------------------------
(***************************************************************************)
(* The day's water under the fallback.                                     *)
(***************************************************************************)

\* A day is two or more intervals of whole hours.
Day(hours, intervals) ==
  /\ hours \in Nat \ {0} /\ intervals \in Nat /\ intervals >= 2
  /\ Dt = 60 * hours /\ HoursPerDay = hours * intervals

WholeHours == \E hours, intervals \in Nat : Day(hours, intervals)

\* a is q times b and a rest of r.
Divided(a, b, q, r) == b # 0 /\ r < b /\ a = b * q + r

\* A quotient and a remainder are known when they fit.
LEMMA Quotient ==
  ASSUME NEW a \in Nat, NEW b \in Nat, NEW q \in Nat, NEW r \in Nat, Divided(a, b, q, r)
  PROVE  a \div b = q /\ a % b = r
<1> DEFINE p == a \div b
           s == a % b
<1>1. b \in Nat \ {0} /\ r < b /\ a = b * q + r /\ b * q \in Nat
  BY DEF Divided
<1>2. a = b * p + s /\ s \in Nat /\ s < b /\ p \in Int
  BY <1>1
<1> HIDE DEF p, s
<1>3. b * (p - q) = r - s
  BY <1>1, <1>2
<1>4. p - q \in Int
  BY <1>2
<1>5. ~(p - q >= 1)
  <2> SUFFICES ASSUME p - q >= 1 PROVE FALSE
    OBVIOUS
  <2>1. (p - q) - 1 \in Nat
    BY <1>4
  <2>2. b * ((p - q) - 1) >= 0
    BY <2>1
  <2>3. b * ((p - q) - 1) = b * (p - q) - b
    BY <1>4
  <2> QED BY <1>1, <1>2, <1>3, <2>2, <2>3
<1>6. ~(p - q <= -1)
  <2> SUFFICES ASSUME p - q <= -1 PROVE FALSE
    OBVIOUS
  <2>1. (q - p) - 1 \in Nat
    BY <1>2, <1>4
  <2>2. b * ((q - p) - 1) >= 0
    BY <2>1
  <2>3. b * ((q - p) - 1) = -(b * (p - q)) - b
    BY <1>2, <1>4
  <2> QED BY <1>2, <1>3, <2>2, <2>3
<1>7. p = q
  BY <1>2, <1>4, <1>5, <1>6
<1>8. s = r
  BY <1>1, <1>2, <1>7
<1> QED BY <1>7, <1>8 DEF p, s

\* The clock, counted in intervals of a day.
LEMMA Calendar ==
  ASSUME NEW hours \in Nat, NEW intervals \in Nat, NEW i \in Nat, NEW q \in Nat, NEW r \in Nat,
         Day(hours, intervals), Divided(i, intervals, q, r)
  PROVE  DayOf(i) = q /\ Hour(i) = hours * r
<1>1. hours \in Nat \ {0} /\ intervals \in Nat /\ Dt = 60 * hours /\ HoursPerDay = hours * intervals
  BY DEF Day
<1>0. r < intervals /\ i = intervals * q + r
  BY DEF Divided
<1> DEFINE past == hours * r
<1>2. past \in Nat /\ past < HoursPerDay
  <2>1. (intervals - r) - 1 \in Nat
    BY <1>0, <1>1
  <2>2. hours * ((intervals - r) - 1) >= 0
    BY <1>1, <2>1
  <2>3. hours * ((intervals - r) - 1) = hours * intervals - hours * r - hours
    BY <1>1
  <2>4. hours * r \in Nat /\ hours * intervals \in Nat
    BY <1>1
  <2> QED BY <1>1, <2>2, <2>3, <2>4
<1>3. hours * i = HoursPerDay * q + past
  BY <1>0, <1>1
<1> HIDE DEF past
<1>4. HoursPerDay \in Nat \ {0} /\ hours * i \in Nat
  BY <1>1, ClockAssumption
<1>5. i * Dt = 60 * (hours * i)
  BY <1>1
<1>6. (i * Dt) \div 60 = hours * i
  <2> DEFINE h == hours * i
  <2> HIDE DEF h
  <2>1. h \in Nat /\ i * Dt \in Nat
    BY <1>4, <1>5 DEF h
  <2>2. Divided(i * Dt, 60, h, 0)
    BY <1>5, <2>1 DEF Divided, h
  <2>3. (i * Dt) \div 60 = h
    BY <2>1, <2>2, Quotient
  <2> QED BY <2>3 DEF h
<1>7. (hours * i) % HoursPerDay = past
  <2>1. Divided(hours * i, HoursPerDay, q, past)
    BY <1>2, <1>3, <1>4 DEF Divided
  <2> QED BY <1>2, <1>4, <2>1, Quotient
<1>8. (i * Dt) \div (60 * HoursPerDay) = q
  <2> DEFINE b == 60 * HoursPerDay
             s == 60 * past
  <2>1. b \in Nat \ {0} /\ s \in Nat /\ s < b
    BY <1>2, <1>4
  <2>2. i * Dt = b * q + s
    <3>1. HoursPerDay * q \in Nat
      BY <1>4
    <3>2. i * Dt = 60 * (HoursPerDay * q) + s
      <4> DEFINE whole == HoursPerDay * q
      <4>1. hours * i = whole + past /\ whole \in Nat
        BY <1>3, <3>1
      <4> HIDE DEF whole
      <4>2. 60 * (whole + past) = 60 * whole + 60 * past
        BY <1>2, <4>1
      <4> QED BY <1>5, <4>1, <4>2 DEF whole
    <3>3. b * q = 60 * (HoursPerDay * q)
      BY <1>4
    <3> QED BY <3>2, <3>3
  <2> HIDE DEF b, s
  <2>3. i * Dt \in Nat
    BY <1>4, <1>5
  <2>4. Divided(i * Dt, b, q, s)
    BY <2>1, <2>2 DEF Divided
  <2>5. (i * Dt) \div b = q
    BY <2>1, <2>3, <2>4, Quotient
  <2> QED BY <2>5 DEF b
<1> QED BY <1>6, <1>7, <1>8 DEF Hour, DayOf, past

\* Before another day begins, what is owed is melted at once; and the interval is not
\* the first of its day.
LEMMA LastOfDay ==
  ASSUME WholeHours, NEW i \in Nat, DayOf(i + 1) # DayOf(i)
  PROVE  /\ i >= 1 /\ DayOf(i - 1) = DayOf(i)
         /\ Most(60 * (HoursPerDay - Hour(i)), Dt) = Dt
<1>1. PICK hours \in Nat, intervals \in Nat : Day(hours, intervals)
  BY DEF WholeHours
<1>2. hours \in Nat \ {0} /\ intervals >= 2 /\ Dt = 60 * hours /\ HoursPerDay = hours * intervals
  BY <1>1 DEF Day
<1> DEFINE q == i \div intervals
           r == i % intervals
<1>3. q \in Nat /\ r \in Nat /\ r < intervals /\ i = intervals * q + r
  <2>1. q \in Nat
    BY <1>2, DivBound
  <2> QED BY <1>2, <2>1
<1> HIDE DEF q, r
<1>4. DayOf(i) = q /\ Hour(i) = hours * r
  <2>1. Divided(i, intervals, q, r)
    BY <1>2, <1>3 DEF Divided
  <2> QED BY <1>1, <1>3, <2>1, Calendar
<1>5. r = intervals - 1
  <2> SUFFICES ASSUME r + 1 < intervals PROVE FALSE
    BY <1>2, <1>3
  <2>1. intervals * q \in Nat
    BY <1>3
  <2>2. i + 1 = intervals * q + (r + 1) /\ i + 1 \in Nat /\ r + 1 \in Nat
    BY <1>3, <2>1
  <2>3. Divided(i + 1, intervals, q, r + 1)
    BY <1>2, <2>2 DEF Divided
  <2>4. DayOf(i + 1) = q
    BY <1>1, <1>3, <2>2, <2>3, Calendar
  <2> QED BY <1>4, <2>4
<1>6. i >= 1 /\ DayOf(i - 1) = q
  <2>1. intervals * q \in Nat
    BY <1>3
  <2>2. i >= 1 /\ i - 1 = intervals * q + (r - 1) /\ i - 1 \in Nat /\ r - 1 \in Nat /\ r - 1 < intervals
    BY <1>2, <1>3, <1>5, <2>1
  <2>3. Divided(i - 1, intervals, q, r - 1)
    BY <1>2, <2>2 DEF Divided
  <2> QED BY <1>1, <1>3, <2>2, <2>3, Calendar
<1>7. 60 * (HoursPerDay - Hour(i)) = Dt
  <2>1. hours * (intervals - 1) = hours * intervals - hours /\ hours * intervals \in Nat
    BY <1>2
  <2> QED BY <1>2, <1>4, <1>5, <2>1
<1> QED BY <1>4, <1>6, <1>7 DEF Most

\* What is owed and unmet, the day it was last counted on, and that nothing is owed of a
\* day the fallback has brought to its end.
WaterInv ==
  /\ clean => driver = "guard"
  /\ driver = "guard" =>
       /\ index \in Nat /\ owed \in Nat /\ unmet \in Nat
       /\ day = DayOf(IF index = 0 THEN 0 ELSE index - 1)
       /\ clean /\ NewDay => owed = 0

\* A reset owes the day's melting, on the day the series begins.
LEMMA WaterAfterReset ==
  ASSUME index' = 0, owed' = DailyMelt, unmet' = 0, day' = DayOf(0), clean' => driver' = "guard"
  PROVE  WaterInv'
<1>1. ~NewDay'
  BY DEF NewDay, DayOf
<1> QED BY <1>1, StorageAssumption DEF WaterInv, DayOf

\* An interval melts what it is served, of what the day owes.
LEMMA WaterAfterStep ==
  ASSUME WholeHours, WaterInv, driver = "guard", driver' = "guard", NEW served \in Nat, Melt(served),
         index' = index + 1, clean' => served = FallbackMelt
  PROVE  WaterInv'
<1>1. /\ index \in Nat /\ owed \in Nat /\ unmet \in Nat /\ DailyMelt \in Nat
      /\ day = DayOf(IF index = 0 THEN 0 ELSE index - 1)
  BY StorageAssumption DEF WaterInv
<1>2. /\ unmet' = IF NewDay THEN unmet + owed ELSE unmet
      /\ day' = DayOf(index) /\ owed' = Most(OwedToday - served, 0)
  BY DEF Melt
<1>3. OwedToday \in Nat
  BY <1>1 DEF OwedToday
<1>4. owed' \in Nat /\ unmet' \in Nat /\ index' \in Nat /\ index' # 0 /\ index' - 1 = index
  BY <1>1, <1>2, <1>3 DEF Most
<1>5. day' = DayOf(IF index' = 0 THEN 0 ELSE index' - 1)
  BY <1>2, <1>4
<1>6. ASSUME clean', NewDay' PROVE owed' = 0
  <2>1. DayOf(index + 1) # DayOf(index)
    BY <1>2, <1>6 DEF NewDay, DayOf
  <2>2. /\ index >= 1 /\ DayOf(index - 1) = DayOf(index)
        /\ Most(60 * (HoursPerDay - Hour(index)), Dt) = Dt
    BY <1>1, <2>1, LastOfDay
  <2>3. ~NewDay
    BY <1>1, <2>2 DEF NewDay
  <2>4. (owed * Dt) \div Dt = owed
    <3>1. Dt \in Nat \ {0} /\ owed * Dt \in Nat
      BY <1>1, ClockAssumption
    <3>2. Divided(owed * Dt, Dt, owed, 0)
      BY <1>1, <3>1 DEF Divided
    <3> QED BY <1>1, <3>1, <3>2, Quotient
  <2>5. FallbackMelt = owed
    BY <2>2, <2>4 DEF FallbackMelt
  <2>6. served = owed /\ OwedToday = owed
    BY <1>6, <2>3, <2>5 DEF OwedToday
  <2> QED BY <1>1, <1>2, <2>6 DEF Most
<1> QED BY <1>4, <1>5, <1>6 DEF WaterInv

\* The water of a station that the guarded controller runs.
LEMMA WaterKept == ASSUME WholeHours, WaterInv, [Next]_vars PROVE WaterInv'
<1>1. CASE FallbackStep
  <2>1. PICK on \in SUBSET Gensets, served \in 0..Least(FallbackMelt, MeltCeiling) :
          /\ Advance(Safe(on), [p \in Packs |-> 0], served)
          /\ clean' = (served = FallbackMelt /\ (NewDay \/ clean))
    BY <1>1 DEF FallbackStep
  <2>2. served \in Nat /\ Melt(served) /\ index' = index + 1
    BY <2>1 DEF Advance
  <2>3. driver = "guard" /\ driver' = "guard"
    BY <1>1 DEF FallbackStep
  <2> QED BY <2>1, <2>2, <2>3, WaterAfterStep
<1>2. CASE AgentStep
  <2>1. PICK on \in SUBSET Gensets, power \in [Packs -> Powers], served \in Melts :
          Advance(Safe(on), power, served)
    BY <1>2, Zenon DEF AgentStep
  <2>2. served \in Nat /\ Melt(served) /\ index' = index + 1
    BY <2>1, EpisodeAssumption DEF Advance
  <2>3. driver = "guard" /\ driver' = "guard" /\ clean' = FALSE
    BY <1>2 DEF AgentStep
  <2> QED BY <2>2, <2>3, WaterAfterStep
<1>3. CASE GuardReset
  <2>1. driver' = "guard" /\ \E c \in Charges : Reset(0, c)
    BY <1>3, Zenon DEF GuardReset
  <2>2. index' = 0 /\ owed' = DailyMelt /\ day' = DayOf(0) /\ unmet' = 0
    BY <2>1, Zenon DEF Reset
  <2> QED BY <2>1, <2>2, WaterAfterReset
<1>4. ASSUME driver # "guard", driver' = driver, clean' => clean PROVE WaterInv'
  BY <1>4 DEF WaterInv
<1>5. CASE EnvStep \/ \E s \in Starts, c \in Charges : EnvReset(s, c)
  <2>1. driver # "guard" /\ driver' = driver /\ clean' = FALSE
    BY <1>5 DEF EnvStep, EnvReset
  <2> QED BY <1>4, <2>1
<1>6. CASE OracleStep
  <2>1. driver # "guard" /\ driver' = driver /\ clean' = clean
    BY <1>6 DEF OracleStep
  <2> QED BY <1>4, <2>1
<1>7. CASE UNCHANGED vars
  BY <1>7 DEF vars, plantVars, WaterInv, NewDay, DayOf
<1> QED BY <1>1, <1>2, <1>3, <1>5, <1>6, <1>7 DEF Next

\* A step that leaves water unmet ends a day that the fallback did not have to itself.
LEMMA WaterStep == ASSUME WaterInv, [Next]_vars PROVE [unmet' > unmet => ~clean]_vars
<1> SUFFICES ASSUME clean, Next PROVE ~(unmet' > unmet)
  OBVIOUS
<1>1. driver = "guard" /\ unmet \in Nat /\ (NewDay => owed = 0) /\ owed \in Nat
  BY DEF WaterInv
<1>2. CASE FallbackStep \/ AgentStep
  <2>1. \E on, asked, served : Advance(on, asked, served)
    BY <1>2, Zenon DEF FallbackStep, AgentStep
  <2>2. unmet' = IF NewDay THEN unmet + owed ELSE unmet
    BY <2>1, Zenon DEF Advance, Melt
  <2> QED BY <1>1, <2>2
<1>3. CASE GuardReset
  <2>1. unmet' = 0
    BY <1>3, Zenon DEF GuardReset, Reset
  <2> QED BY <1>1, <2>1
<1>4. ~EnvStep /\ ~(\E s \in Starts, c \in Charges : EnvReset(s, c)) /\ ~OracleStep
  BY <1>1 DEF EnvStep, EnvReset, OracleStep
<1> QED BY <1>2, <1>3, <1>4 DEF Next

\* At a station whose intervals are whole hours, and two or more to a day, a day that the
\* fallback has to itself and that is served as it asks leaves no water unmet, whatever
\* the day before has left behind and whatever rounding does to each share.
THEOREM DaysMelted == WholeHours => (Spec => FallbackMeetsWater)
<1> SUFFICES ASSUME WholeHours PROVE Spec => FallbackMeetsWater
  OBVIOUS
<1>1. Init => WaterInv
  <2> SUFFICES ASSUME Init PROVE WaterInv
    OBVIOUS
  <2>1. index = 0 /\ owed = DailyMelt /\ day = 0 /\ unmet = 0
    BY Zenon DEF Init, InitPlant, F!Init
  <2>2. clean = (driver = "guard")
    BY DEF Init
  <2>3. DayOf(0) = 0
    BY ClockAssumption DEF DayOf
  <2> QED BY <2>1, <2>2, <2>3, StorageAssumption DEF WaterInv, NewDay
<1>2. WaterInv /\ [Next]_vars => WaterInv'
  BY WaterKept
<1>3. WaterInv /\ [Next]_vars => [unmet' > unmet => ~clean]_vars
  BY WaterStep
<1> QED BY <1>1, <1>2, <1>3, PTL DEF Spec, FallbackMeetsWater
=============================================================================
