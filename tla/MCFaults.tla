------------------------------ MODULE MCFaults ------------------------------
(***************************************************************************)
(* Two unequal sets, one of which can carry the small load alone, and two  *)
(* packs.  The schedules hold a trip of each set, two trips that adjoin,   *)
(* lockouts of one pack that overlap, a lockout that outlasts the episode  *)
(* and a derate.                                                           *)
(***************************************************************************)
EXTENDS Faults, Sequences, TLC

CONSTANTS g1, g2, b1, b2

MCGensets == {g1, g2}
MCOrder == <<g1, g2>>
MCRated == g1 :> 5 @@ g2 :> 3
MCRecoverable == g1 :> 6 @@ g2 :> 3
MCCriticalLoads == {1, 6}
MCFirmHeats == {4, 12}
NotSensed == {}
MCBatteries == {b1, b2}

Trip(g, from, to) == [kind |-> "genset_trip", target |-> g, start |-> from, end |-> to]
Lockout(b, from, to) == [kind |-> "battery_lockout", target |-> b, start |-> from, end |-> to]
Derate(from, to) == [kind |-> "renewable_derate", start |-> from, end |-> to]

MCSchedules ==
  {{Trip(g1, 2, 4), Lockout(b1, 1, 3), Lockout(b1, 2, 4)},
   {Trip(g1, 1, 2), Trip(g1, 2, 4), Trip(g2, 2, 3), Lockout(b2, 3, 9)},
   {Derate(1, 3), Trip(g2, 3, 5), Lockout(b1, 1, 2), Lockout(b2, 2, 4)}}
=============================================================================
