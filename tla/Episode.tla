------------------------------ MODULE Episode ------------------------------
(***************************************************************************)
(* The three ways a plant is driven, and the books kept beside it.         *)
(*                                                                         *)
(* environment: PolarMicrogridEnv decodes an action, projects it if it is  *)
(* told to, steps the plant, and keeps an asset health tracker and the     *)
(* water it has charged for.                                               *)
(*                                                                         *)
(* guard: run_episode or a StationSimulation steps the plant with what     *)
(* GuardedController makes of its agent, which is the deterministic        *)
(* fallback whenever the agent fails.                                      *)
(*                                                                         *)
(* oracle: the schedule of module Oracle is played through the plant.      *)
(***************************************************************************)
EXTENDS Oracle

CONSTANTS
  MeltCeiling, \* SafetyProjection.melt_ceiling_kw
  Melts,       \* the melting an agent asks for and is served
  Starts,      \* the start indices a reset may draw
  Charges      \* the states of charge a reset may set

ASSUME EpisodeAssumption == Charges \subseteq 0..Band /\ Melts \subseteq Nat /\ MeltCeiling \in Nat

VARIABLES
  driver,   \* "environment", "guard" or "oracle"
  command,  \* battery_kw of the last interval's command
  tracker,  \* AssetHealthTracker: a GensetHealth of each set, a BatteryHealth of each pack
  charged,  \* the unmet water the reward has charged since the reset
  previous, \* _prev_unmet_water
  clean     \* the day so far was the fallback's, and served as it asked

bookVars == <<tracker, charged, previous>>

vars == <<plantVars, oracleVars, driver, command, bookVars, clean>>

NewTracker == [sets |-> [g \in Gensets |-> [starts |-> 0, runs |-> 0, on |-> FALSE]],
               packs |-> [p \in Packs |-> [throughput |-> 0, low |-> 0, high |-> 0]]]

Init ==
  /\ \E c \in Charges : InitPlant(c)
  /\ schedule = <<>> /\ soc = energy /\ settled = FALSE
  /\ driver \in {"environment", "guard", "oracle"}
  /\ command = [p \in Packs |-> 0]
  /\ tracker = NewTracker /\ charged = 0 /\ previous = 0
  /\ clean = (driver = "guard")

-----------------------------------------------------------------------------
(***************************************************************************)
(* The environment.                                                        *)
(***************************************************************************)

\* The commitments that reach the plant when on is asked for.
Safe(on) == F!Projected(on, F!Observation(F!Sound))

\* GensetHealth.update: a start is a change from off to on, as it sees it.
GensetUpdated(h, on) ==
  [starts |-> h.starts + IF on /\ ~h.on THEN 1 ELSE 0,
   runs |-> h.runs + IF on THEN 1 ELSE 0,
   on |-> on]

\* BatteryHealth.update: throughput, and the hours within SOC_EXTREME_BAND, a
\* twentieth, of either end of the band.
BatteryUpdated(h, power, held) ==
  [throughput |-> h.throughput + Size(power),
   low |-> h.low + IF 20 * held <= Band THEN 1 ELSE 0,
   high |-> h.high + IF 20 * held >= 19 * Band THEN 1 ELSE 0]

\* AssetHealthTracker.update, from the telemetry of the interval.
TrackerUpdate ==
  tracker' = [sets |-> [g \in Gensets |-> GensetUpdated(tracker.sets[g], g \in online')],
              packs |-> [p \in Packs |-> BatteryUpdated(tracker.packs[p], delivered'[p], energy'[p])]]

\* The water term of the reward, and what is remembered for the next one.
Charge ==
  /\ charged' = charged + IF unmet' > previous THEN unmet' - previous ELSE 0
  /\ previous' = unmet'

\* PolarMicrogridEnv.step: the action is scaled to the envelope it is decoded
\* with, so the packs are asked for no more than was observed, and any
\* commitment may reach the plant, since apply_safety may be off.
EnvStep ==
  /\ driver = "environment"
  /\ \E on \in SUBSET Gensets, power \in [Packs -> Powers], served \in Melts :
       /\ \A p \in Packs : power[p] \in Observed(p)
       /\ Advance(on, power, served)
       /\ command' = power
  /\ TrackerUpdate /\ Charge
  /\ clean' = FALSE
  /\ UNCHANGED <<oracleVars, driver>>

\* Mutant: the tracker's counters are cleared, what it saw last is not.
EnvResetKeepsSeen(start, c) ==
  /\ driver = "environment"
  /\ Reset(start, c)
  /\ tracker' = [NewTracker EXCEPT !.sets = [g \in Gensets |-> [@[g] EXCEPT !.on = tracker.sets[g].on]]]
  /\ charged' = 0 /\ previous' = unmet'
  /\ command' = [p \in Packs |-> 0]
  /\ clean' = FALSE
  /\ UNCHANGED <<oracleVars, driver>>

\* PolarMicrogridEnv.reset.
EnvReset(start, c) ==
  /\ driver = "environment"
  /\ Reset(start, c)
  /\ tracker' = NewTracker /\ charged' = 0 /\ previous' = unmet'
  /\ command' = [p \in Packs |-> 0]
  /\ clean' = FALSE
  /\ UNCHANGED <<oracleVars, driver>>

-----------------------------------------------------------------------------
(***************************************************************************)
(* The guarded controller.                                                 *)
(***************************************************************************)

\* Mutant: the day's melting is spread over all its hours.
FallbackMeltEvenly == owed \div HoursPerDay

\* DeterministicFallback.act: what the day still owes, over the hours that remain.
\* It is worked out before the step that rolls the day over.
FallbackMelt == (owed * Dt) \div Most(60 * (HoursPerDay - Hour(index)), Dt)

\* An interval under the fallback, which holds the packs still.
FallbackStep ==
  /\ driver = "guard"
  /\ \E on \in SUBSET Gensets, served \in 0..Least(FallbackMelt, MeltCeiling) :
       /\ Advance(Safe(on), [p \in Packs |-> 0], served)
       /\ clean' = (served = FallbackMelt /\ (NewDay \/ clean))
  /\ command' = [p \in Packs |-> 0]
  /\ UNCHANGED <<oracleVars, driver, bookVars>>

\* HybridAgent encodes with the tracker of an environment it never steps.
Encoded == NewTracker

\* An interval under the agent, whatever it proposes.
AgentStep ==
  /\ driver = "guard"
  /\ \E on \in SUBSET Gensets, power \in [Packs -> Powers], served \in Melts :
       /\ \A p \in Packs : power[p] \in Observed(p)
       /\ Advance(Safe(on), power, served)
       /\ command' = power
  /\ clean' = FALSE
  /\ UNCHANGED <<oracleVars, driver, bookVars>>

\* run_episode and StationSimulation.reset start the plant at the beginning.
GuardReset ==
  /\ driver = "guard"
  /\ \E c \in Charges : Reset(0, c)
  /\ command' = [p \in Packs |-> 0]
  /\ clean' = TRUE
  /\ UNCHANGED <<oracleVars, driver, bookVars>>

-----------------------------------------------------------------------------
\* Before its instance is built the oracle's plant has been run by some agent.
WarmUp ==
  /\ driver = "oracle" /\ schedule = <<>>
  /\ \E on \in SUBSET Gensets : Advance(on, [p \in Packs |-> 0], 0)
  /\ UNCHANGED oracleVars

OracleStep ==
  /\ driver = "oracle"
  /\ WarmUp \/ Build \/ Follow
  /\ UNCHANGED <<driver, command, bookVars, clean>>

Next ==
  \/ EnvStep \/ (\E s \in Starts, c \in Charges : EnvReset(s, c))
  \/ FallbackStep \/ AgentStep \/ GuardReset
  \/ OracleStep

Spec == Init /\ [][Next]_vars

-----------------------------------------------------------------------------
(***************************************************************************)
(* Properties.                                                             *)
(***************************************************************************)

\* A pack delivers what it was asked for in the command that was projected: the
\* envelope observe() reports is the one step() applies, though the temperature
\* may have fallen since the last interval.  A charge bounded by a stale envelope
\* leaves the balance short, or the plant without the discharge it counted on.
EnvelopeHolds == driver # "oracle" => delivered = command

\* The environment's monitors and the plant agree since the last reset, whatever
\* resets came before: starts are counted from changes the tracker sees, run
\* hours and throughput from telemetry, all unmet water is charged once, and a pack
\* that is full or empty has been counted so.
MonitorsAgree ==
  driver = "environment" =>
    /\ \A g \in Gensets : /\ tracker.sets[g].starts = starts[g] /\ tracker.sets[g].runs = runs[g]
                          /\ tracker.sets[g].on <=> g \in online
    /\ \A p \in Packs : /\ tracker.packs[p].throughput = throughput[p]
                        /\ throughput[p] > 0 /\ energy[p] = 0 => tracker.packs[p].low > 0
                        /\ throughput[p] > 0 /\ energy[p] = Band => tracker.packs[p].high > 0
    /\ charged = unmet

\* HybridAgent "gives this agent the same observation encoding ... the agents were
\* trained against": the stress it is shown is the plant's.  Does not hold in the
\* code, whose codec has a tracker of its own that nothing updates.
StressIsShown == driver = "guard" => \A g \in Gensets : Encoded.sets[g].starts = starts[g]

\* A day the fallback has to itself and that is served as it asks leaves no water
\* unmet, whatever the day before has left behind.  The first interval of a day
\* is planned on the remainder of the day before, and the others have to make up
\* for it.
FallbackMeetsWater == [][unmet' > unmet => ~clean]_vars
=============================================================================
