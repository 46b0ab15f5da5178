------------------------------- MODULE Sensors -------------------------------
(***************************************************************************)
(* ObservationHealth grades every reading of an observation, and           *)
(* ControllerConfidence makes of the grades, of the safety projection's    *)
(* report and of the distance from the envelope one measure of trust in    *)
(* the controller.                                                         *)
(*                                                                         *)
(* A key of the observation has one channel per element of its list.       *)
(* Garbage stands for readings that are no number, not finite or out of    *)
(* bounds.  Distances are in sixths of the threshold.                      *)
(***************************************************************************)
EXTENDS Integers, Sequences, FiniteSets

CONSTANTS
  Keys,          \* the keys that have a SensorSpec
  Channels,      \* the channels of each key
  MaxStale,      \* max_stale_steps of each key, 0 if it may hold still
  Readings,      \* the readings a key's channels may give
  Garbage, Missing,
  Interventions, \* intervention_window
  Distances,     \* what mean_squared_z may give
  Threshold,     \* distance_threshold
  MaxCalls       \* bound: calls of assess

ASSUME SensorAssumption ==
  /\ \A k \in Keys : MaxStale[k] \in Nat
  /\ \A k \in Keys : Missing \notin Readings[k]
  /\ {Interventions, Threshold} \subseteq Nat \ {0}
  /\ Distances \subseteq Nat

VARIABLES
  history,    \* SensorHistory of each channel of each key
  window,     \* _recent_interventions
  assessment, \* the last ConfidenceAssessment
  observed,   \* the observation it is about
  received,   \* for the properties: the readings of each key there were,
  reports     \* and the interventions

sensorVars == <<history, window, assessment, observed, received, reports>>

\* What the monitored plant may report: a key may be missing.
Observations ==
  {o \in [Keys -> {Missing} \union UNION {[Channels[k] -> Readings[k]] : k \in Keys}] :
     \A k \in Keys : o[k] = Missing \/ o[k] \in [Channels[k] -> Readings[k]]}

InitSensors ==
  /\ history = [k \in Keys |-> [c \in Channels[k] |-> [last |-> Missing, repeats |-> 0]]]
  /\ window = <<>>
  /\ assessment = [grades |-> [k \in Keys |-> "valid"], trust |-> 1, of |-> 1, flagged |-> FALSE]
  /\ observed = [k \in Keys |-> Missing]
  /\ received = [k \in Keys |-> <<>>]
  /\ reports = <<>>

-----------------------------------------------------------------------------
\* SensorHistory.update.
Updated(h, v) ==
  IF h.last # Missing /\ h.last = v THEN [h EXCEPT !.repeats = @ + 1]
  ELSE [last |-> v, repeats |-> 0]

\* Mutant: a corrupted reading leaves the history as it was.
ClassifiedSkip(h, v, limit) ==
  IF v = Garbage THEN [history |-> h, grade |-> "corrupted"]
  ELSE LET new == Updated(h, v)
       IN  [history |-> new, grade |-> IF limit # 0 /\ new.repeats >= limit THEN "stale" ELSE "valid"]

\* classify: a corrupted reading is entered in the history too.
Classified(h, v, limit) ==
  LET new == Updated(h, v)
  IN  [history |-> new,
       grade |-> IF v = Garbage THEN "corrupted"
                 ELSE IF limit # 0 /\ new.repeats >= limit THEN "stale" ELSE "valid"]

\* worse: the rank of the grades.
Worst(grades) ==
  IF "corrupted" \in grades THEN "corrupted" ELSE IF "stale" \in grades THEN "stale" ELSE "valid"

\* ObservationHealth.check: a missing key is corrupted, and leaves its histories alone.
Grade(o, k) ==
  IF o[k] = Missing THEN "corrupted"
  ELSE Worst({Classified(history[k][c], o[k][c], MaxStale[k]).grade : c \in Channels[k]})

Advanced(o) ==
  [k \in Keys |->
     IF o[k] = Missing THEN history[k]
     ELSE [c \in Channels[k] |-> Classified(history[k][c], o[k][c], MaxStale[k]).history]]

-----------------------------------------------------------------------------
\* The last Interventions reports.
Recent(intervened) ==
  LET all == Append(window, intervened) IN IF Len(all) > Interventions THEN Tail(all) ELSE all

Rate(recent) == Cardinality({i \in DOMAIN recent : recent[i]})

\* The product of the three components, as a fraction, and whether a reason was
\* given: a bad grade, a distance beyond the threshold, or a rate above one half.
Trust(grade, distance, recent) ==
  [trust |-> (IF grade = "valid" THEN 1 ELSE 0)
               * (IF distance < 2 * Threshold THEN 2 * Threshold - distance ELSE 0)
               * (Len(recent) - Rate(recent)),
   of |-> 2 * Threshold * Len(recent),
   flagged |-> grade # "valid" \/ distance > Threshold \/ 2 * Rate(recent) > Len(recent)]

\* ControllerConfidence.assess.
Assess(o, intervened, distance) ==
  LET grades == [k \in Keys |-> Grade(o, k)]
      t == Trust(Worst({grades[k] : k \in Keys}), distance, Recent(intervened))
  IN  /\ Len(reports) < MaxCalls
      /\ history' = Advanced(o)
      /\ window' = Recent(intervened)
      /\ assessment' = [grades |-> grades, trust |-> t.trust, of |-> t.of, flagged |-> t.flagged]
      /\ observed' = o
      /\ received' = [k \in Keys |-> IF o[k] = Missing THEN received[k] ELSE Append(received[k], o[k])]
      /\ reports' = Append(reports, intervened)

Monitor ==
  \E o \in Observations, intervened \in BOOLEAN, distance \in Distances : Assess(o, intervened, distance)

-----------------------------------------------------------------------------
(***************************************************************************)
(* Properties.                                                             *)
(***************************************************************************)

\* A channel is stuck when more readings than it may have repeated itself were the
\* same plausible value, the last one included.
Stuck(k, c) ==
  LET r == received[k]
      n == Len(r)
  IN  /\ MaxStale[k] # 0 /\ n > MaxStale[k]
      /\ r[n][c] # Garbage
      /\ \A i \in n - MaxStale[k]..n : r[i][c] = r[n][c]

\* What is to be said of a key.
GradeOf(k) ==
  IF observed[k] = Missing \/ \E c \in Channels[k] : observed[k][c] = Garbage THEN "corrupted"
  ELSE IF \E c \in Channels[k] : Stuck(k, c) THEN "stale" ELSE "valid"

\* The grades speak of the readings themselves, whatever was corrupted or missing
\* in between: a key is stale if one of its channels is stuck, corrupted if it is
\* missing or has a corrupted channel.  The rate speaks of the last reports, and a
\* controller that is flagged is trusted less than half.
GradesAreRecent ==
  reports # <<>> =>
    /\ assessment.grades = [k \in Keys |-> GradeOf(k)]
    /\ window = [i \in DOMAIN window |-> reports[Len(reports) - Len(window) + i]]
    /\ Len(window) = IF Len(reports) < Interventions THEN Len(reports) ELSE Interventions
    /\ assessment.flagged => 2 * assessment.trust < assessment.of
=============================================================================
