-------------------------------- MODULE Rules --------------------------------
(***************************************************************************)
(* The three rule-based ways of proposing a dispatch: the deterministic    *)
(* fallback, the incumbent practice (LegacyNPlusOne), and the best policy  *)
(* that is not learnt (EfficientRuleBased), which StationSimulation uses   *)
(* unless it is given another.                                             *)
(*                                                                         *)
(* Powers are whole numbers.  Shares are computed with \div, and the loads  *)
(* are such that they are whole, see SharesAssumption of module Guard.     *)
(***************************************************************************)
EXTENDS Integers, Sequences, FiniteSets, FiniteSetsExt, Functions

CONSTANTS
  Gensets, Order, \* the sets, and the sets as a sequence, largest first
  Rated,          \* rated_kw of each set
  MinStable,      \* min_stable_kw of each set
  TargetLoad,     \* rated_kw * target_load_frac of each set
  BurnOff,        \* rated_kw * (burn_off_threshold_frac + 0.15) of each set
  ReserveMargin,  \* Criticality.reserve_margin_kw
  MinOnline,      \* LegacyNPlusOne.min_online
  MeltersMax,     \* _melt_ceiling_kw
  Packs           \* the packs, as a sequence

ASSUME RulesAssumption ==
  /\ IsFiniteSet(Gensets) /\ Gensets # {}
  /\ Order \in Seq(Gensets) /\ {Order[i] : i \in 1..Len(Order)} = Gensets
  /\ \A i, j \in 1..Len(Order) : Order[i] = Order[j] => i = j
  /\ \A i, j \in 1..Len(Order) : i <= j => Rated[Order[i]] >= Rated[Order[j]]
  /\ Rated \in [Gensets -> Nat \ {0}]
  /\ {MinStable, TargetLoad, BurnOff} \subseteq [Gensets -> Nat]
  /\ \A g \in Gensets : MinStable[g] <= BurnOff[g] /\ BurnOff[g] <= Rated[g] /\ TargetLoad[g] <= Rated[g]
  /\ {ReserveMargin, MinOnline, MeltersMax} \subseteq Nat
  /\ Len(Packs) \in Nat /\ DOMAIN Packs = 1..Len(Packs)

Total(f, S) == SumFunctionOnSet(f, S)

Capacity(S) == Total(Rated, S)

Clip(x, low, high) == Max({low, Min({x, high})})

Largest(n) == {Order[i] : i \in 1..n}

\* Largest sets first until kw is covered.
Covering(kw) == Largest(Min({n \in 0..Len(Order) : Capacity(Largest(n)) >= kw} \union {Len(Order)}))

-----------------------------------------------------------------------------
(***************************************************************************)
(* DeterministicFallback.act.  Its melting is FallbackMelt of module       *)
(* Episode, and it holds the packs still.                                  *)
(***************************************************************************)

\* Mutant: the set that would complete the cover is left out.
FallbackOnShort(load) ==
  Largest(Max({1} \union {n \in 0..Len(Order) : Capacity(Largest(n)) < load + ReserveMargin}))

\* Covers the firm load, and turns at least one set.
FallbackOn(load) == Covering(load + ReserveMargin) \union Largest(1)

\* The electrical load in equal shares.
FallbackSetpoints(load) ==
  LET on == FallbackOn(load)
  IN  [g \in on |-> Clip(load \div Cardinality(on), MinStable[g], Rated[g])]

-----------------------------------------------------------------------------
(***************************************************************************)
(* LegacyNPlusOne.act, for a demand that includes the nominal melting.  It *)
(* takes the sets as they are configured, not by size; where they are all  *)
(* alike, rated being the same for each, Order is as good as any.          *)
(***************************************************************************)

\* _units_for: how many of the largest set the demand takes.
UnitsFor(kw, rated) ==
  IF kw <= 0 THEN 0
  ELSE LET most == Max({rated[g] : g \in Gensets}) IN Max({1, (kw + most - 1) \div most})

\* One more than needed, and no fewer than MinOnline.
LegacyOn(demand, rated) ==
  Largest(Min({Max({UnitsFor(demand + ReserveMargin, rated) + 1, MinOnline}), Len(Order)}))

LegacySetpoints(demand, rated) ==
  LET on == LegacyOn(demand, rated)
  IN  [g \in on |-> Clip(demand \div Max({Cardinality(on), 1}), 0, rated[g])]

-----------------------------------------------------------------------------
(***************************************************************************)
(* EfficientRuleBased.act.  A situation is what it observes: the           *)
(* electrical load, the melting owed per hour left, the renewables, the    *)
(* power each pack can be charged with and discharged with, the sets that  *)
(* are on and may not stop, and the fouled ones.                           *)
(***************************************************************************)
Net(s) == s.electrical + s.melt - s.renewable

\* Storage stands in for the spare set, and for no more than it.
Reserve(s) == Min({Total(s.discharge, DOMAIN Packs), ReserveMargin})

CommitKw(s) == Max({Net(s) + ReserveMargin - Reserve(s), Net(s), 0})

\* _commit: a set that may not stop stays on.
EfficientOn(s) == Covering(CommitKw(s)) \union s.stuck

\* _commit: the load, within what the sets can do together ...
Target(s) ==
  LET on == EfficientOn(s) IN Min({Max({Net(s), Total(MinStable, on)}), Capacity(on)})

\* ... with every set at the same share of its rating; with nothing to commit, the
\* sets that may not stop are given real load.
Shares(s) ==
  [g \in EfficientOn(s) |->
     IF CommitKw(s) = 0 THEN TargetLoad[g]
     ELSE Clip((Rated[g] * Target(s)) \div Capacity(EfficientOn(s)), MinStable[g], Rated[g])]

\* A fouled set is set to burn off, up or down ...
Raised(s) == [g \in EfficientOn(s) |-> IF g \in s.fouled THEN BurnOff[g] ELSE Shares(s)[g]]

\* ... and what that raises is counted as surplus.
Extra(s) ==
  Total([g \in EfficientOn(s) |-> IF g \in s.fouled THEN Max({BurnOff[g] - Shares(s)[g], 0}) ELSE 0], EfficientOn(s))

Supply(s) == Total(Raised(s), EfficientOn(s)) + s.renewable

\* Mutant: the melting that is asked for anyway is forgotten.
SurplusUnmelted(s) == Max({Supply(s) - s.electrical, 0}) + Extra(s)

\* Whatever Raised added is in Supply already, and is counted here again.
Surplus(s) == Max({Supply(s) - s.electrical - s.melt, 0}) + Extra(s)

\* _absorb: melting takes the surplus first, up to what the melters can do, ...
Melting(s) == s.melt + Min({Surplus(s), Max({MeltersMax - s.melt, 0})})

\* ... and the packs, one after the other, what is left of it.
Charging(s) ==
  LET left[i \in 0..Len(Packs)] ==
        IF i = 0 THEN Surplus(s) - (Melting(s) - s.melt) ELSE left[i - 1] - Min({left[i - 1], s.charge[i]})
  IN  [i \in DOMAIN Packs |-> left[i - 1] - left[i]]

\* What PolarMicrogridEnv plays of a proposal after encode_command and decode_action:
\* the sets within their stable bands, the packs within what they are observed to
\* take, the melters up to their ceiling.
Recoded(s) ==
  [setpoints |-> [g \in EfficientOn(s) |-> Clip(Raised(s)[g], MinStable[g], Rated[g])],
   charging |-> [i \in DOMAIN Packs |-> Clip(Charging(s)[i], 0, s.charge[i])],
   melting |-> Clip(Melting(s), 0, MeltersMax)]

-----------------------------------------------------------------------------
(***************************************************************************)
(* Properties.                                                             *)
(***************************************************************************)

\* A commitment carries kw with the fewest sets that can, or is the whole fleet.
Fewest(on, kw) ==
  /\ Capacity(on) >= kw \/ on = Gensets
  /\ \A S \in SUBSET Gensets : Capacity(S) >= kw => Cardinality(on) <= Cardinality(S)

\* A station whose sets are all like h.
AllLike(h) == [g \in Gensets |-> Rated[h]]

\* Whichever set trips, those that LegacyNPlusOne leaves turning cover the demand
\* and the reserve, and none is asked for more than it can give, if all sets are alike.
SpareSpins(demand, rated) ==
  LET on == LegacyOn(demand, rated)
  IN  on # Gensets => \A g \in on : /\ Total(rated, on \ {g}) >= demand + ReserveMargin
                                    /\ Total(LegacySetpoints(demand, rated), on) = demand
=============================================================================
