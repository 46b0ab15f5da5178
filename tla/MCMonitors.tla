----------------------------- MODULE MCMonitors -----------------------------
(***************************************************************************)
(* The two monitors, each on its own: a key of two channels that is stale  *)
(* when it repeats itself, and one that may hold still, over three         *)
(* assessments; and two clients with two requests in a window of two       *)
(* ticks.                                                                  *)
(***************************************************************************)
EXTENDS Sensors, RateLimiter

CONSTANTS c1, c2, c3

VARIABLE watched \* "sensors" or "requests"

MCKeys == {"load", "packs"}
MCChannels == [k \in MCKeys |-> IF k = "packs" THEN {c1, c2} ELSE {c3}]
MCMaxStale == [k \in MCKeys |-> IF k = "packs" THEN 1 ELSE 0]
MCReadings == [k \in MCKeys |-> IF k = "packs" THEN {1, 2, Garbage} ELSE {1}]

Init == InitSensors /\ InitLimiter /\ watched \in {"sensors", "requests"}

Watch == watched = "sensors" /\ Monitor /\ UNCHANGED <<limiterVars, watched>>

Limit == watched = "requests" /\ Serve /\ UNCHANGED <<sensorVars, watched>>

Spec == Init /\ [][Watch \/ Limit]_<<sensorVars, limiterVars, watched>>
=============================================================================
