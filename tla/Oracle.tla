------------------------------- MODULE Oracle -------------------------------
(***************************************************************************)
(* The offline oracle: a mixed-integer program over the plant's own        *)
(* weather and demand, whose schedule the plant is then held against.      *)
(*                                                                         *)
(* A schedule is grown one interval at a time.  Every constraint of the    *)
(* program that is kept here looks back, so the schedules that can be      *)
(* grown are the feasible ones.  The power balance, the reserve and the    *)
(* heat only take schedules away.                                          *)
(***************************************************************************)
EXTENDS Plant, Sequences, FiniteSets

VARIABLES
  schedule, \* the commitments planned so far, after the one that was found
  soc,      \* the state of charge the program counts on
  settled   \* every set was past its timer when the instance was built

oracleVars == <<schedule, soc, settled>>

\* round(min_time / 60.0 / dt_h), which takes a half to the even side.
Nearest(minimum) ==
  LET whole == minimum \div Dt
      rest  == 2 * (minimum % Dt)
  IN  whole + IF rest > Dt \/ (rest = Dt /\ whole % 2 = 1) THEN 1 ELSE 0

WindowSteps(minimum) == Most(1, Nearest(minimum))

\* Mutant: the windows are one interval short.
WindowShort(minimum, t) == Most(2, t - WindowSteps(minimum) + 2)..t

\* The intervals whose starts, or stops, bind the commitment of interval t.
Window(minimum, t) == Most(2, t - WindowSteps(minimum) + 1)..t

Started(s, g, t) == g \in s[t] \ s[t - 1]

Stopped(s, g, t) == g \in s[t - 1] \ s[t]

\* The sums of starts and stops over their windows, against the commitment.
Feasible(s) ==
  \A g \in Gensets, t \in 2..Len(s) :
    /\ Cardinality({i \in Window(MinUpTime, t) : Started(s, g, i)})
         <= IF g \in s[t] THEN 1 ELSE 0
    /\ Cardinality({i \in Window(MinDownTime, t) : Stopped(s, g, i)})
         <= IF g \in s[t] THEN 0 ELSE 1

\* The program's pack: full power whatever the temperature, and exact losses.
Planned(p, power) == soc[p] - (IF power >= 0 THEN Cost ELSE Gain) * power

PlannedPowers(p) ==
  {x \in -Derated[p][2]..Derated[p][2] : Planned(p, x) \in 0..Band}

\* instance_from_plant, at any moment of a run.
Build ==
  /\ schedule = <<>> /\ ~Done
  /\ schedule' = <<online>>
  /\ soc' = energy
  /\ settled' = \A g \in Gensets : g \in F!CanStart \union F!CanStop
  /\ UNCHANGED plantVars

\* One more interval of a schedule, played through the plant.
Follow ==
  /\ schedule # <<>>
  /\ \E on \in SUBSET Gensets, power \in [Packs -> Powers] :
       /\ Feasible(Append(schedule, on))
       /\ \A p \in Packs : power[p] \in PlannedPowers(p)
       /\ schedule' = Append(schedule, on)
       /\ soc' = [p \in Packs |-> Planned(p, power[p])]
       /\ Advance(on, power, 0)
  /\ UNCHANGED settled

-----------------------------------------------------------------------------
(***************************************************************************)
(* Properties.                                                             *)
(***************************************************************************)

\* The plant follows the commitments of every feasible schedule, to the interval:
\* the windowed sums of the program and the machines' own timers are the same
\* rule, as the module's docstring says, as long as the sets were past their
\* timers when the instance was built.
ScheduleFollowed == schedule # <<>> /\ settled => online = schedule[Len(schedule)]

\* The same of an instance built at any moment, for which the docstring of
\* MILPInstance promises the boundary is "enforced correctly".  Does not hold in
\* the code, which never reads the steps a set has been on or off.
ScheduleFollowedAlways == schedule # <<>> => online = schedule[Len(schedule)]

\* "battery SOC dynamics and bounds ... is exactly what the simulator itself
\* enforces".  Does not hold in the code: the program lets a pack take what fits
\* after the loss, the plant what fits before it, and less when it is cold.
ChargeFollowed == schedule # <<>> => soc = energy
=============================================================================
