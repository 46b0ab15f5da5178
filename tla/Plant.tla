------------------------------- MODULE Plant -------------------------------
(***************************************************************************)
(* What a station's plant carries from one dispatch interval to the next:  *)
(* the machines' timers and counters, the packs' energy and temperature,   *)
(* and the melting it still owes today.  The fleet is that of module       *)
(* Fleet; the power balance within an interval is module Dispatch.         *)
(*                                                                         *)
(* Energies are counted per interval: owed, DailyMelt and the throughputs  *)
(* in kW times an interval, a pack's energy above soc_min in units of      *)
(* which an interval at 1 kW is Unit at the terminals.  Charging that much *)
(* stores Gain <= Unit of them and discharging it draws Cost >= Unit: the  *)
(* one-way efficiency is Gain/Unit = Unit/Cost.  A temperature is a level, *)
(* at which a pack has the power and the floor of its own chemistry.       *)
(***************************************************************************)
EXTENDS Integers

CONSTANTS
  Gensets, Order, Rated, Recoverable, BoilerRated, ReserveMargin, \* as in
  MinUpTime, MinDownTime, Dt, CriticalLoads, FirmHeats, Sensing,  \* module Fleet
  Packs,        \* the station's packs
  Exterior,     \* those that stand outside
  Temperatures, \* the levels of temperature outside
  Indoors,      \* and inside
  Derated,      \* Derated[p]: the power limit of pack p at each of them, and at 2, the full one
  Frozen,       \* Frozen[p]: those below min_operating_temp_c of its chemistry
  Band,         \* the energy between soc_min and soc_max
  Unit, Gain, Cost,
  HoursPerDay,  \* 24 in the code
  DailyMelt,    \* snow_melt_daily_kwh
  Steps         \* n_steps, the length of the weather series

Levels == Temperatures \union Indoors \union {2}

ASSUME ClockAssumption ==
  /\ MinUpTime \in Nat /\ MinDownTime \in Nat
  /\ Dt \in Nat \ {0} /\ HoursPerDay \in Nat \ {0}

ASSUME StorageAssumption ==
  /\ Exterior \subseteq Packs
  /\ Derated \in [Packs -> [Levels -> Nat]]
  /\ Frozen \in [Packs -> SUBSET Levels]
  /\ Band \in Nat /\ Unit \in Nat \ {0}
  /\ Gain \in 1..Unit /\ Cost \in Nat /\ Unit <= Cost
  /\ DailyMelt \in Nat

VARIABLES
  online, minutes, critical, heat, \* as in module Fleet
  index,       \* step_index
  starts,      \* total_starts of each set
  runs,        \* run_hours of each set
  air, indoor, \* air_temp_c of the coming interval, and indoor_temp_c
  energy,      \* what each pack holds
  temperature, \* temperature_c of each pack
  delivered,   \* power_kw of each pack, negative when it charges
  throughput,  \* throughput_kwh of each pack
  owed,        \* snow_melt_remaining_kwh
  day,         \* current_doy
  unmet,       \* unmet_water_kwh
  books        \* what each pack was given less what it gave, in its own units

fleetVars == <<online, minutes, critical, heat>>

plantVars == <<fleetVars, index, starts, runs, air, indoor, energy, temperature,
               delivered, throughput, owed, day, unmet, books>>

F == INSTANCE Fleet WITH step <- index

Least(a, b) == IF a < b THEN a ELSE b

Most(a, b) == IF a > b THEN a ELSE b

Size(x) == IF x < 0 THEN -x ELSE x

\* The clock: self.index[i].hour and .dayofyear.
Hour(i) == ((i * Dt) \div 60) % HoursPerDay

DayOf(i) == (i * Dt) \div (60 * HoursPerDay)

Done == index >= Steps

-----------------------------------------------------------------------------
(***************************************************************************)
(* Packs.                                                                  *)
(***************************************************************************)

\* Battery.set_temperature.
Ambient(p) == IF p \in Exterior THEN air ELSE indoor

\* The headroom of a pack, and the room it has for an interval's charge.
MaxCharge(p, t) == IF t \in Frozen[p] THEN 0 ELSE Least(Derated[p][t], (Band - energy[p]) \div Unit)

\* Mutant: the bound is the power limit alone.
MaxDischargePowerOnly(p, t) == Derated[p][t]

\* Discharge is permitted colder than charge.
MaxDischarge(p, t) == Least(Derated[p][t], energy[p] \div Unit)

\* Whatever a pack may be asked for, of one of any chemistry.
Powers == UNION {-Derated[p][2]..Derated[p][2] : p \in Packs}

\* Mutant: observe() leaves the temperature the last step set.
ObservedStale(p) == -MaxCharge(p, temperature[p])..MaxDischarge(p, temperature[p])

\* The powers a pack is observed to allow, at the temperature observe() gives it.
Observed(p) == -MaxCharge(p, Ambient(p))..MaxDischarge(p, Ambient(p))

\* What Battery.step makes of a request, at the temperature step() gives the pack.
Met(p, asked) ==
  IF asked >= 0 THEN Least(asked, MaxDischarge(p, Ambient(p)))
                ELSE -Least(-asked, MaxCharge(p, Ambient(p)))

\* The state of charge afterwards, clipped to its band.
EnergyAfter(p, power) ==
  IF power >= 0 THEN Most(energy[p] - Cost * power, 0)
                ELSE Least(energy[p] - Gain * power, Band)

Exchange(asked) ==
  LET met == [p \in Packs |-> Met(p, asked[p])]
  IN  /\ delivered' = met
      /\ energy' = [p \in Packs |-> EnergyAfter(p, met[p])]
      /\ throughput' = [p \in Packs |-> throughput[p] + Size(met[p])]
      /\ books' = [p \in Packs |-> books[p] - (IF met[p] >= 0 THEN Unit ELSE Gain) * met[p]]
      /\ temperature' = [p \in Packs |-> Ambient(p)]

-----------------------------------------------------------------------------
(***************************************************************************)
(* Water.                                                                  *)
(***************************************************************************)

\* _roll_over_day: at midnight what is still owed was simply not done.
NewDay == day # DayOf(index)

OwedToday == IF NewDay THEN DailyMelt ELSE owed

Melt(served) ==
  /\ unmet' = IF NewDay THEN unmet + owed ELSE unmet
  /\ day' = DayOf(index)
  /\ owed' = Most(OwedToday - served, 0)

-----------------------------------------------------------------------------
\* set_commitment and apply_power for every set.
Turn(on) ==
  LET turning == F!Committed(on)
  IN  /\ online' = turning
      /\ minutes' = F!Advanced(turning)
      /\ starts' = [g \in Gensets |-> starts[g] + IF g \in turning \ online THEN 1 ELSE 0]
      /\ runs' = [g \in Gensets |-> runs[g] + IF g \in turning THEN 1 ELSE 0]

\* PolarMicrogrid.step with a commitment, a request to each pack, and the
\* melting that could be served; the series and the heating decide the rest.
Advance(on, asked, served) ==
  /\ ~Done
  /\ Turn(on)
  /\ Exchange(asked)
  /\ Melt(served)
  /\ index' = index + 1
  /\ critical' \in CriticalLoads /\ heat' \in FirmHeats
  /\ air' \in Temperatures /\ indoor' \in Indoors

\* reset(): new machines, and a state whose day rolls over at once.
Reset(start, soc) ==
  /\ online' = {} /\ minutes' = [g \in Gensets |-> F!Settled]
  /\ index' = start
  /\ critical' \in CriticalLoads /\ heat' \in FirmHeats
  /\ starts' = [g \in Gensets |-> 0] /\ runs' = starts'
  /\ air' \in Temperatures /\ indoor' = 2
  /\ energy' = [p \in Packs |-> soc] /\ books' = energy'
  /\ temperature' = [p \in Packs |-> 2]
  /\ delivered' = [p \in Packs |-> 0] /\ throughput' = delivered'
  /\ owed' = DailyMelt /\ day' = DayOf(start) /\ unmet' = 0

\* The plant as StationSimulation builds and resets it.
InitPlant(soc) ==
  /\ F!Init
  /\ starts = [g \in Gensets |-> 0] /\ runs = starts
  /\ air \in Temperatures /\ indoor = 2
  /\ energy = [p \in Packs |-> soc] /\ books = energy
  /\ temperature = [p \in Packs |-> 2]
  /\ delivered = [p \in Packs |-> 0] /\ throughput = delivered
  /\ owed = DailyMelt /\ day = 0 /\ unmet = 0

-----------------------------------------------------------------------------
(***************************************************************************)
(* Properties.                                                             *)
(***************************************************************************)

\* A pack never gives what it was not given.  Its state of charge is clipped to
\* its band after every interval, and a clip that raised it would make energy
\* out of nothing; the bounds on the power have to leave the clip nothing but
\* losses to forget.
PackConserves == \A p \in Packs : energy[p] <= books[p]
=============================================================================
