------------------------------- MODULE Fleet -------------------------------
(***************************************************************************)
(* The commitment of a station's generating sets: which sets turn, and     *)
(* how the safety projection rewrites what a controller asks for before    *)
(* the plant sees it.                                                      *)
(*                                                                         *)
(*   agent proposes -> SafetyProjection bounds -> PolarMicrogrid executes  *)
(*                                                                         *)
(* One Interval is one call of SafetyProjection.project followed by the    *)
(* commitment half of PolarMicrogrid.step: the observation is sanitised,   *)
(* the command is sanitised, _enforce_capacity and _enforce_heat add sets, *)
(* Genset.set_commitment applies the result subject to the anti-cycling    *)
(* timers, and Genset.apply_power advances them.  The power each set then  *)
(* delivers is the subject of module Dispatch.                             *)
(*                                                                         *)
(* A capacity, a load or a heat flow is an integer number of kW.  A set of *)
(* gensets stands for the code's list of booleans.                         *)
(***************************************************************************)
EXTENDS Machines, FiniteSetsExt, Functions

CONSTANTS
  Recoverable,    \* rated_kw * chp_heat_ratio of each set
  MinUpTime,      \* min_up_time_min
  MinDownTime,    \* min_down_time_min
  Dt,             \* minutes of one control interval
  CriticalLoads,  \* the values of critical_load_kw the series takes
  FirmHeats,      \* the values of firm_thermal_kw the series takes
  Sensing         \* the ways the observation may reach the projection in one interval

\* The fields of the observation that the commitment reads.
Fields == {"critical_load_kw", "firm_thermal_kw", "genset_online",
           "genset_can_start", "genset_can_stop"}

BoolFields == {"genset_online", "genset_can_start", "genset_can_stop"}

\* An observation without whole fields, and with single entries of the lists that are
\* no booleans: reads is what bool() makes of the entry, True of a NaN, and False of a
\* None or of an entry missing at the end.
Faulty == [lost : SUBSET Fields, garbled : SUBSET [field : BoolFields, set : Gensets, reads : BOOLEAN]]

Sound == [lost |-> {}, garbled |-> {}]

Capacity == [S \in SUBSET Gensets |-> SumFunctionOnSet(Rated, S)]

RecoverableHeat == [S \in SUBSET Gensets |-> SumFunctionOnSet(Recoverable, S)]

ASSUME TimerAssumption ==
  /\ MinUpTime \in Nat
  /\ MinDownTime \in Nat
  /\ Dt \in Nat \ {0}

ASSUME LoadAssumption ==
  /\ CriticalLoads \subseteq Nat
  /\ FirmHeats \subseteq Nat
  /\ Recoverable \in [Gensets -> Nat]
  /\ Sensing \subseteq Faulty

VARIABLES
  online,    \* the sets that are turning
  minutes,   \* minutes_in_state of each set, saturated at Settled
  critical,  \* critical_load_kw of the coming interval
  heat,      \* firm_thermal_kw of the coming interval
  step       \* _i since the last reset: 0, then 1 and 2 in turn

vars == <<online, minutes, critical, heat, step>>

\* minutes_in_state starts at 1e6 and grows without bound; past both timers its
\* value no longer matters, and Settled is that bound.
Settled == IF MinUpTime > MinDownTime THEN MinUpTime ELSE MinDownTime

Elapsed(m) == IF m + Dt > Settled THEN Settled ELSE m + Dt

-----------------------------------------------------------------------------
(***************************************************************************)
(* The anti-cycling timers.                                                *)
(***************************************************************************)
CanStart == {g \in Gensets : g \notin online /\ minutes[g] >= MinDownTime}

CanStop == {g \in Gensets : g \in online /\ minutes[g] >= MinUpTime}

\* Offline and not yet allowed to start: no command makes it turn.
LockedOut(g) == g \notin online /\ minutes[g] < MinDownTime

(***************************************************************************)
(* The observation the projection reads, after _sanitise_observation: a    *)
(* number or a list that is missing is replaced by what the code calls its *)
(* worst case, and an entry of a list that is no boolean is taken for one. *)
(***************************************************************************)
\* scalar.
Scalar(value, worstCase, field, s) == IF field \in s.lost THEN worstCase ELSE value

\* bool_array.
BoolArray(sets, field, s) ==
  LET garbled == {e \in s.garbled : e.field = field}
      sound   == (IF field \in s.lost THEN {} ELSE sets) \ {e.set : e \in garbled}
  IN  sound \union {e.set : e \in {f \in garbled : f.reads}}

Observation(s) ==
  [critical |-> Scalar(critical, Capacity[Gensets], "critical_load_kw", s),
   heat     |-> Scalar(heat, BoilerRated + RecoverableHeat[Gensets], "firm_thermal_kw", s),
   online   |-> BoolArray(online, "genset_online", s),
   canStart |-> BoolArray(CanStart, "genset_can_start", s),
   canStop  |-> BoolArray(CanStop, "genset_can_stop", s)]

\* What an agent can put in genset_on for one set.
Flags == {"on", "off", "nan"}

Commands == [Gensets -> Flags]

\* A flag that is not finite counts as off.
SanitisedBools(raw) == {g \in Gensets : raw[g] = "on"}

Proposals == {SanitisedBools(raw) : raw \in Commands}

Required(obs) == obs.critical + ReserveMargin

\* Mutant: a commitment is taken at its word.
EffectiveOnlineAsCommanded(on, obs) == on

\* The sets that will turn under a commitment, given the timers.
EffectiveOnline(on, obs) ==
  {g \in Gensets : IF g \in on THEN g \in obs.online \/ g \in obs.canStart
                               ELSE g \in obs.online /\ g \notin obs.canStop}

\* The n sets a loop over the sorted sets has visited after n iterations.
Visited(n) == {Order[i] : i \in 1..n}

(***************************************************************************)
(* A loop of _enforce_capacity adds the candidates among the sets visited  *)
(* so far, and ends at the first iteration that finds the cover restored,  *)
(* or after the last set.                                                  *)
(***************************************************************************)
Covers(on, obs) == Capacity[EffectiveOnline(on, obs)] >= Required(obs)

Restore(on, candidates, obs) ==
  LET after(n) == on \union (candidates \intersect Visited(n))
      ends     == {n \in 0..N : n = N \/ Covers(after(n), obs)}
  IN  after(Min(ends))

CancelStops(on, obs) == Restore(on, obs.online, obs)

StartCold(on, obs) == Restore(on, Gensets, obs)

\* Mutant: sets are started before planned stops are cancelled.
EnforceCapacityStartingFirst(on, obs) == CancelStops(StartCold(on, obs), obs)

\* Mutant: one set a call, and the next call adds the next one.
EnforceCapacityByOne(on, obs) ==
  IF Covers(on, obs) \/ on = Gensets THEN on
  ELSE on \union {Order[Min({i \in 1..N : Order[i] \notin on})]}

EnforceCapacity(on, obs) == StartCold(CancelStops(on, obs), obs)

HeatShortfall(obs) == obs.heat - BoilerRated

\* Mutant: the loop ends after the largest set.
EnforceHeatLargestOnly(on, obs) == IF HeatShortfall(obs) <= 0 THEN on ELSE on \union Visited(1)

\* Recovered heat is summed over the sets commanded on.
EnforceHeat(on, obs) ==
  LET after(n) == on \union Visited(n)
      ends     == {n \in 0..N : n = N \/ RecoverableHeat[after(n)] >= HeatShortfall(obs)}
  IN  IF HeatShortfall(obs) <= 0 THEN on ELSE after(Min(ends))

Projected(on, obs) == EnforceHeat(EnforceCapacity(on, obs), obs)

-----------------------------------------------------------------------------
Init ==
  /\ online = {}
  /\ minutes = [g \in Gensets |-> Settled]
  /\ critical \in CriticalLoads
  /\ heat \in FirmHeats
  /\ step = 0

\* Genset.set_commitment for every set at once: the sets that turn afterwards.
Committed(on) == (online \ (CanStop \ on)) \union (CanStart \intersect on)

\* Mutant: the timer of a set that is off starts over every interval.
AdvancedOffline(newOnline) ==
  [g \in Gensets |-> IF g \notin newOnline THEN Elapsed(0) ELSE Elapsed(minutes[g])]

\* set_commitment zeroes the timer of a set that changed state, and apply_power
\* then adds the interval to every timer.
Advanced(newOnline) ==
  [g \in Gensets |->
     IF (g \in online) # (g \in newOnline) THEN Elapsed(0) ELSE Elapsed(minutes[g])]

Interval(proposed, s) ==
  LET on == Projected(proposed, Observation(s))
  IN  /\ online' = Committed(on)
      /\ minutes' = Advanced(Committed(on))
      /\ critical' \in CriticalLoads
      /\ heat' \in FirmHeats
      /\ step' = IF step = 1 THEN 2 ELSE 1

\* PolarMicrogrid.reset builds new Genset objects.
Reset ==
  /\ online' = {}
  /\ minutes' = [g \in Gensets |-> Settled]
  /\ critical' \in CriticalLoads
  /\ heat' \in FirmHeats
  /\ step' = 0

SomeInterval == \E proposed \in Proposals, s \in Sensing : Interval(proposed, s)

Next == SomeInterval \/ Reset

Spec == Init /\ [][Next]_vars

\* The episode loop keeps stepping the plant.
FairSpec == Spec /\ WF_vars(SomeInterval)

-----------------------------------------------------------------------------
(***************************************************************************)
(* Properties.                                                             *)
(***************************************************************************)

\* The shape of the state.
TypeOK ==
  /\ online \subseteq Gensets
  /\ minutes \in [Gensets -> 0..Settled]
  /\ critical \in CriticalLoads
  /\ heat \in FirmHeats
  /\ step \in 0..2

\* Guarantees 1 and 2 of the projection, on the machines and not on the
\* command: whatever the agent asked for, after an interval the sets that turn
\* cover life support plus the reserve of that interval, or the station has
\* nothing left to start, every set turning or held off by its down time.  A
\* set that stops therefore always leaves the cover behind.
CoverEveryInterval ==
  [][step' # 0 => \/ Capacity[online'] >= critical + ReserveMargin
               \/ \A g \in Gensets : g \in online' \/ LockedOut(g)]_vars

\* Guarantee 5 where the timers do not interfere: when no set is held off by
\* its down time, the sets that turn after the interval can recover the heat
\* the boilers cannot make, or the whole fleet turns.
HeatWhenNoneLocked ==
  [][step' # 0 /\ (\A g \in Gensets : ~LockedOut(g)) =>
       \/ RecoverableHeat[online'] >= heat - BoilerRated
       \/ online' = Gensets]_vars

\* Guarantee 5 as the module docstring words it, for every state of the timers:
\* the sets that turn can recover the missing heat, or no set is left that
\* could have been started.  Does not hold in the code, which counts the heat of
\* sets that their timers keep off.
HeatEveryInterval ==
  [][step' # 0 => \/ RecoverableHeat[online'] >= heat - BoilerRated
               \/ \A g \in Gensets : g \in online' \/ LockedOut(g)]_vars

\* Projecting a projected commitment changes nothing.  The training environment
\* and the guarded controller may both project the same command.
ProjectionIdempotent ==
  \A on \in SUBSET Gensets :
    LET obs == Observation(Sound)
    IN  Projected(Projected(on, obs), obs) = Projected(on, obs)

\* Cover is restored in the order that costs the station least: a set the agent
\* left off is started for the electrical cover only if every turning set is
\* kept, and some set the projection added is one the cover cannot do without.
CheapestCover ==
  \A on \in SUBSET Gensets :
    LET obs   == Observation(Sound)
        final == EnforceCapacity(on, obs)
        added == final \ on
    IN  /\ (added \ online # {}) => online \subseteq final
        /\ (added # {}) => \E g \in added : ~Covers(final \ {g}, obs)

\* Down times delay the cover, they never lose it: under a load that stays, which
\* the fleet can carry, the station comes back to covered intervals for good,
\* however the agent behaves.
CoverRegained ==
  \A c \in CriticalLoads :
    <>[](critical = c /\ step # 0)
      => <>[][Capacity[online'] >= c + ReserveMargin]_vars
=============================================================================
