------------------------------ MODULE MCFleet ------------------------------
(***************************************************************************)
(* A station of three unequal sets.  The loads call for none, one, two and *)
(* three of them and for more than the fleet has; the heat is within the   *)
(* boilers, within one set, and beyond the fleet.  Dt is shorter than both *)
(* timers, so that sets are held on and held off.                          *)
(***************************************************************************)
EXTENDS Fleet, TLC

CONSTANTS g1, g2, g3

MCGensets == {g1, g2, g3}
MCOrder == <<g1, g2, g3>>
MCRated == g1 :> 5 @@ g2 :> 3 @@ g3 :> 2
MCRecoverable == g1 :> 6 @@ g2 :> 3 @@ g3 :> 2
MCCriticalLoads == {1, 6, 9, 10}
MCServedLoads == {1, 6, 9}
MCHeats == {4, 13, 20}
MCSwings == {1, 9}
MCMild == {4}
MCFirmHeats == {4, 8, 13, 20}
SoundSensing == {Sound}

\* Fields lost, and entries garbled, such that the projection is at most too careful.
SafelyLost == {"critical_load_kw", "firm_thermal_kw", "genset_online", "genset_can_start"}
SafelyGarbled ==
  {[field |-> "genset_online", set |-> g1, reads |-> FALSE],
   [field |-> "genset_can_start", set |-> g2, reads |-> FALSE],
   [field |-> "genset_can_stop", set |-> g3, reads |-> TRUE]}
SafeSensing ==
  {[lost |-> l, garbled |-> {}] : l \in SUBSET SafelyLost}
    \union {[lost |-> {}, garbled |-> e] : e \in SUBSET SafelyGarbled}

\* The other way round: no set is known to stop, or a set that is off is read as on.
CanStopLost == {Sound, [lost |-> {"genset_can_stop"}, garbled |-> {}]}
OnlineGarbled ==
  {Sound, [lost |-> {}, garbled |-> {[field |-> "genset_online", set |-> g1, reads |-> TRUE]}]}
=============================================================================
