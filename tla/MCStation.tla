----------------------------- MODULE MCStation -----------------------------
(***************************************************************************)
(* One station with room for two records and a series of three steps, so   *)
(* that the history overflows and the series ends; four start, stop and    *)
(* reset requests in any order, enough for a start, a stop and a second    *)
(* start with a request to spare; a task for each, and a single step.      *)
(***************************************************************************)
EXTENDS Station

CONSTANTS r1, r2, r3, r4, s1

MCRuns == {r1, r2, r3, r4}
MCSingles == {s1}
Nobodies == {}
=============================================================================
