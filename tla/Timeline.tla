------------------------------ MODULE Timeline ------------------------------
(***************************************************************************)
(* What StationSimulation promises to everybody who reaches it: a station  *)
(* is a clock.  It ticks once for every step, it may be set back to zero,  *)
(* and the records kept are always those of the latest ticks, one each.    *)
(* Nothing of tasks, threads, requests or locks can be seen in it.         *)
(***************************************************************************)
EXTENDS Integers

CONSTANTS
  LastStep,   \* the length of the weather series
  HistoryLen  \* the records that are kept

VARIABLES
  clock,   \* the steps since the last reset
  records  \* the steps recorded, oldest first

Kept(n) == IF n < HistoryLen THEN n ELSE HistoryLen

\* The records of a station that has made n steps, which are numbered from zero.
Latest(n) == [i \in 1..Kept(n) |-> n - Kept(n) + i - 1]

Init == clock = 0 /\ records = Latest(0)

Tick == clock < LastStep /\ clock' = clock + 1 /\ records' = Latest(clock')

Restart == clock' = 0 /\ records' = Latest(0)

Next == Tick \/ Restart

Spec == Init /\ [][Next]_<<clock, records>>
=============================================================================
