------------------------------ MODULE Dispatch ------------------------------
(***************************************************************************)
(* One control interval in kW: what the safety projection makes of the     *)
(* setpoints, the battery and the melting a controller asks for, and the   *)
(* power balance PolarMicrogrid.step then works out.                       *)
(*                                                                         *)
(* The commitment is an input here: committed is what was projected and    *)
(* turning are the sets that turn under it (module Fleet says which pairs  *)
(* there are).  A power is an integer number of kW, an interval is an      *)
(* hour, and every set recovers one kW of heat per kW it makes.            *)
(* The packs are taken together: charge and discharge are the sums over    *)
(* the packs asked to charge and over those asked to discharge.            *)
(***************************************************************************)
EXTENDS Machines, FiniteSetsExt, Functions

CONSTANTS
  MinStable,      \* min_stable_kw of each set
  MeltCeiling,    \* SafetyProjection.melt_ceiling_kw
  Conditions,     \* the loads, heat, renewables and pack envelopes of an interval
  Setpoints,      \* the setpoints an agent may ask of one set
  Charges,        \* the total charge an agent may ask of the packs
  Discharges,     \* the total discharge an agent may ask of the packs
  Melts,          \* the melting an agent may ask for
  None            \* no command yet, no telemetry yet

ASSUME BandAssumption ==
  /\ MinStable \in [Gensets -> Nat]
  /\ \A g \in Gensets : MinStable[g] <= Rated[g]
  /\ MeltCeiling \in Nat

ASSUME RequestAssumption ==
  /\ Conditions \subseteq [electrical : Nat, critical : Nat, heat : Nat, renewable : Nat,
                            maxCharge : Nat, maxDischarge : Nat]
  /\ Setpoints \subseteq Int /\ Charges \subseteq Int /\ Discharges \subseteq Int /\ Melts \subseteq Int

VARIABLES
  phase,     \* what comes next: "decide", "execute", or nothing, "executed"
  weather,   \* the interval's loads, heat demand, renewables and pack envelopes
  committed, \* the projected commitment
  turning,   \* the sets that turn in this interval
  command,   \* the projected setpoints, charge, discharge and melting
  telemetry  \* what the last executed interval came to

intervalVars == <<phase, weather, committed, turning, command, telemetry>>

Least(a, b) == IF a < b THEN a ELSE b

Most(a, b) == IF a > b THEN a ELSE b

Clip(x, lo, hi) == Least(Most(x, lo), hi)

Total(f, S) == SumFunctionOnSet(f, S)

Requirement == weather.critical + ReserveMargin

MissingHeat == weather.heat - BoilerRated

-----------------------------------------------------------------------------
(***************************************************************************)
(* The bounds of SafetyProjection.project after the commitment.            *)
(***************************************************************************)

\* Mutant: the ceilings of the turning sets are not raised.
BoundSetpointsClipOnly(asked) ==
  {[g \in Gensets |-> IF g \in committed THEN Clip(asked[g], MinStable[g], Rated[g]) ELSE 0]}

\* _bound_setpoints clips each set to its band, then raises the turning sets so
\* that their ceilings cover the requirement.  The code splits the raise in
\* proportion to headroom; any split with that total is allowed here.
BoundSetpoints(asked) ==
  LET clipped == [g \in Gensets |-> IF g \in committed THEN Clip(asked[g], MinStable[g], Rated[g]) ELSE 0]
      covered == Least(Requirement, Total(Rated, turning))
  IN  IF Total(clipped, turning) >= covered THEN {clipped}
      ELSE {f \in [Gensets -> 0..Max({Rated[g] : g \in Gensets})] :
              /\ \A g \in Gensets \ turning : f[g] = clipped[g]
              /\ \A g \in turning : f[g] \in clipped[g]..Rated[g]
              /\ Total(f, turning) = covered}

\* Mutant: the heat is counted over the turning sets and raised over them all.
RaiseForHeatCountingTurning(f) ==
  LET missing == Most(MissingHeat - Total(f, turning), 0)
  IN  [g \in Gensets |-> IF g \in committed THEN Clip(f[g] + missing, 0, Rated[g]) ELSE f[g]]

\* _raise_setpoints_for_heat fills the committed sets up, largest first, until
\* their setpoints would recover the heat the boilers cannot make.
RaiseForHeat(f) ==
  LET place(g)  == CHOOSE i \in 1..Len(Order) : Order[i] = g
      room      == [g \in Gensets |-> IF g \in committed THEN Rated[g] - f[g] ELSE 0]
      before(g) == Total(room, {h \in Gensets : place(h) < place(g)})
      missing   == Most(MissingHeat - Total(f, committed), 0)
  IN  [g \in Gensets |-> f[g] + Clip(missing - before(g), 0, room[g])]

\* _bound_battery: the packs' own envelope, then what firm supply leaves over
\* life support.
BoundBattery(f, charge, discharge) ==
  LET out    == Clip(discharge, 0, weather.maxDischarge)
      budget == Most(Total(f, turning) + out - weather.critical, 0)
  IN  [charge |-> Least(Clip(charge, 0, weather.maxCharge), budget), discharge |-> out]

\* _bound_melt: the melters' rate, then what is left after life support.
BoundMelt(f, battery, melt) ==
  LET headroom == Total(f, turning) + weather.renewable + battery.discharge
                    - weather.critical - battery.charge
  IN  Least(Clip(melt, 0, MeltCeiling), Most(headroom, 0))

\* The commands the projection may return for one proposal.
ProjectedPower(proposal) ==
  {LET f       == RaiseForHeat(bounded)
       battery == BoundBattery(f, proposal.charge, proposal.discharge)
   IN  [setpoint |-> f, charge |-> battery.charge, discharge |-> battery.discharge,
        melt |-> BoundMelt(f, battery, proposal.melt)]
     : bounded \in BoundSetpoints(proposal.setpoint)}

-----------------------------------------------------------------------------
(***************************************************************************)
(* PolarMicrogrid.step after the commitment.                               *)
(***************************************************************************)
Floor == Total(MinStable, turning)

Ceiling == Total([g \in Gensets |-> Clip(command.setpoint[g], MinStable[g], Rated[g])], turning)

\* _load_follow: the sets together hold what the bus asks of them, within their
\* floors and their setpoints.
LoadFollow(asked) == IF turning = {} THEN 0 ELSE Clip(asked, Floor, Ceiling)

\* Melting that spare recovered heat serves when the sets make p kW.
MeltFromHeat(p) == Least(Most(p - weather.heat, 0), command.melt)

\* Mutant: the first pass is taken for the answer.
SetPowerFirstPass(renewable, charging, discharging) ==
  LoadFollow(weather.electrical + command.melt + charging - renewable - discharging)

\* The two passes that settle how much melting is electric.
SetPower(renewable, charging, discharging) ==
  LET deficit(melt) == weather.electrical + melt + charging - renewable - discharging
      first         == LoadFollow(deficit(command.melt))
  IN  LoadFollow(deficit(command.melt - MeltFromHeat(first)))

\* The balance, with melting shed first, then comfort load, then life support.
Balance(renewable) ==
  LET charging     == Most(command.charge - command.discharge, 0)
      discharging  == Most(command.discharge - command.charge, 0)
      sets         == SetPower(renewable, charging, discharging)
      meltElectric == command.melt - MeltFromHeat(sets)
      shortHeat    == Most(weather.heat - sets, 0)
      electricHeat == shortHeat - Least(shortHeat, BoilerRated)
      demand       == weather.electrical + electricHeat + meltElectric + charging
      used         == Least(renewable, Most(demand - sets - discharging, 0))
      unserved     == Most(demand - sets - discharging - used, 0)
      shedMelt     == Least(unserved, meltElectric)
      comfort      == Most(weather.electrical - weather.critical, 0)
      shedComfort  == Least(unserved - shedMelt, comfort)
  IN  [sets |-> sets, used |-> used, curtailed |-> renewable - used,
       electricHeat |-> electricHeat, shedMelt |-> shedMelt, shedComfort |-> shedComfort,
       criticalUnserved |-> unserved - shedMelt - shedComfort]

-----------------------------------------------------------------------------
\* What _enforce_capacity and _enforce_heat leave behind, see module Fleet: a
\* set commanded on may be held off and a set commanded off may be held on.
Committable(c, t, w) ==
  /\ \/ Total(Rated, t) >= w.critical + ReserveMargin
     \/ c = Gensets
  /\ \/ Total(Rated, c) >= w.heat - BoilerRated
     \/ c = Gensets

\* PolarMicrogrid.observe for one interval, and its commitment.  Nothing that
\* this module follows is carried from one interval to the next, so a behaviour
\* is one interval.
InitInterval ==
  /\ phase = "decide"
  /\ weather \in Conditions
  /\ committed \in SUBSET Gensets
  /\ turning \in SUBSET Gensets
  /\ Committable(committed, turning, weather)
  /\ command = None
  /\ telemetry = None

\* The controller proposes and the projection bounds.
Decide ==
  /\ phase = "decide"
  /\ \E s \in [Gensets -> Setpoints], c \in Charges, d \in Discharges, m \in Melts :
       command' \in ProjectedPower([setpoint |-> s, charge |-> c, discharge |-> d, melt |-> m])
  /\ phase' = "execute"
  /\ UNCHANGED <<weather, committed, turning, telemetry>>

\* PolarMicrogrid.step; the inverter layer may have put a ceiling on renewables, at any
\* part of them.
Execute ==
  /\ phase = "execute"
  /\ \E limit \in 0..weather.renewable : telemetry' = Balance(limit)
  /\ phase' = "executed"
  /\ UNCHANGED <<weather, committed, turning, command>>

StepInterval == Decide \/ Execute

IntervalSpec == InitInterval /\ [][StepInterval]_intervalVars

-----------------------------------------------------------------------------
(***************************************************************************)
(* Properties.                                                             *)
(***************************************************************************)
Executed == phase = "executed"

\* The cover the commitment was meant to leave is there.
Covered == Total(Rated, turning) >= Requirement

\* Guarantees 1, 3 and 4 where the heat supply is sound: with the cover in
\* place and no heating left to electricity, life support is served in full,
\* whatever the agent asked of the sets, the packs and the melters and whatever
\* the inverters then took away.
LifeSupportServed ==
  Executed /\ Covered /\ telemetry.electricHeat = 0 => telemetry.criticalUnserved = 0

\* Renewables are free: none is turned away while a set is worked above its
\* minimum stable load.
CurtailedOnlyAtFloor ==
  Executed /\ telemetry.curtailed > 0 => telemetry.sets <= Floor

\* Projecting a projected command again changes nothing, unless a set is held on
\* against its command: such a set is raised above the zero it was commanded and
\* clipped back to it the next time.
ProjectionStable ==
  phase = "execute" /\ turning \subseteq committed => ProjectedPower(command) = {command}

\* "life support only if there is genuinely nothing left": life support goes
\* unserved only when every turning set is at its rating.  Does not hold in the
\* code: heating may become electric after the sets were loaded.
NothingLeft ==
  Executed /\ telemetry.criticalUnserved > 0 => telemetry.sets = Total(Rated, turning)
=============================================================================
