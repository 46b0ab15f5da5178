---------------------------- MODULE GuardProofs -----------------------------
(***************************************************************************)
(* Theorems of the guarded controller, of the rules behind it and of the   *)
(* monitors beside it: the record that is read without the lock, the       *)
(* guard's books, what the rules commit and propose, and the grades of     *)
(* module Sensors, for every length of the series, every station and every *)
(* situation it may be in, every interleaving of the reads with steps,     *)
(* fallbacks and resets, and all keys, channels and readings.              *)
(***************************************************************************)
EXTENDS Guard, Sensors, SumLemmas, SequenceTheorems, FiniteSetTheorems, TLAPS

Counters == {"steps", "fallbacks", "projections"}

StatsTypes == [steps : Nat, fallbacks : Nat, projections : Nat, reasons : [Reasons -> Nat], slow : BOOLEAN]

\* A step is counted before anything of it is, and a counter of it no more than once.
CountsOK ==
  /\ stats \in StatsTypes
  /\ stats.fallbacks <= stats.steps /\ stats.projections <= stats.steps
  /\ phase \in {"asked", "refused"} => stats.fallbacks < stats.steps
  /\ phase \in {"asked", "refused", "noted", "decided", "published", "intervened"} => stats.projections < stats.steps

\* The object the reader reads: the guard's, or the one a reset has put aside.
Viewed(c) == IF reader.object = None THEN stats[c] ELSE reader.object[c]

\* What was read later is no less, where the record compares.
Paired(s) ==
  /\ Len(s) >= 4 => s[2] <= s[4]
  /\ Len(s) >= 5 => s[1] <= s[5] /\ s[4] <= s[5]
  /\ Len(s) >= 6 => s[3] <= s[6]
  /\ Len(s) >= 7 => s[5] <= s[7] /\ s[6] <= s[7]

ReaderOK ==
  reader # None =>
    /\ reader \in [object : {None} \union [Counters -> Nat], seen : Seq(Nat)]
    /\ Len(reader.seen) <= 7
    /\ \A c \in Counters : Viewed(c) \in Nat /\ Viewed(c) <= Viewed("steps")
    /\ \A i \in 1..Len(reader.seen) : reader.seen[i] <= Viewed(Reads[i])
    /\ Paired(reader.seen)

IInv == CountsOK /\ ReaderOK

-----------------------------------------------------------------------------
LEMMA ReadsAre ==
  /\ Reads \in Seq(Counters) /\ Len(Reads) = 7
  /\ Reads[1] = "steps" /\ Reads[2] = "fallbacks" /\ Reads[3] = "projections" /\ Reads[4] = "fallbacks"
  /\ Reads[5] = "steps" /\ Reads[6] = "projections" /\ Reads[7] = "steps"
  /\ Range(Reads) = Counters
  /\ \A i \in 1..7 : Reads[i] \in Counters
<1>1. /\ Reads \in Seq(Counters) /\ Len(Reads) = 7
      /\ Reads[1] = "steps" /\ Reads[2] = "fallbacks" /\ Reads[3] = "projections" /\ Reads[4] = "fallbacks"
      /\ Reads[5] = "steps" /\ Reads[6] = "projections" /\ Reads[7] = "steps"
  BY DEF Reads, Counters
<1>2. DOMAIN Reads = 1..7
  BY <1>1
<1>3. Range(Reads) = Counters
  BY <1>1, <1>2 DEF Range, Counters
<1>4. \A i \in 1..7 : Reads[i] \in Counters
  <2> TAKE i \in 1..7
  <2>1. i = 1 \/ i = 2 \/ i = 3 \/ i = 4 \/ i = 5 \/ i = 6 \/ i = 7
    OBVIOUS
  <2> QED BY <1>1, <2>1, Zenon DEF Counters
<1> QED BY <1>1, <1>3, <1>4

LEMMA FreshTypes == FreshStats \in StatsTypes /\ FreshStats.steps = 0 /\ FreshStats.fallbacks = 0 /\ FreshStats.projections = 0
<1> DEFINE none == [q \in Reasons |-> 0]
<1>1. none \in [Reasons -> Nat]
  OBVIOUS
<1>2. FreshStats = [steps |-> 0, fallbacks |-> 0, projections |-> 0, reasons |-> none, slow |-> FALSE]
  BY DEF FreshStats
<1> HIDE DEF none
<1> QED BY <1>1, <1>2 DEF StatsTypes

\* The counters of the object that a reader may still read only grow.
LEMMA StatsGrow ==
  ASSUME IInv, stats' \in StatsTypes, UNCHANGED reader, CountsOK',
         \A c \in Counters : stats[c] <= stats'[c]
  PROVE  IInv'
<1> SUFFICES ASSUME reader # None PROVE ReaderOK'
  BY DEF IInv, ReaderOK
<1>1. \A c \in Counters : stats[c] \in Nat /\ stats'[c] \in Nat
  BY DEF IInv, CountsOK, StatsTypes, Counters
<1>2. \A c \in Counters : Viewed(c) <= Viewed(c)' /\ Viewed(c) \in Nat /\ Viewed(c)' \in Nat
  BY <1>1 DEF IInv, ReaderOK, Viewed
<1>3. \A c \in Counters : Viewed(c)' <= Viewed("steps")'
  <2>1. CASE reader.object = None
    BY <1>1, <2>1 DEF CountsOK, Viewed, Counters
  <2>2. CASE reader.object # None
    BY <2>2 DEF IInv, ReaderOK, Viewed
  <2> QED BY <2>1, <2>2
<1>4. \A i \in 1..Len(reader.seen) : reader.seen[i] <= Viewed(Reads[i])'
  <2> TAKE i \in 1..Len(reader.seen)
  <2>1. Reads[i] \in Counters /\ reader.seen[i] \in Nat /\ reader.seen[i] <= Viewed(Reads[i])
    <3>1. i \in 1..7 /\ reader.seen \in Seq(Nat) /\ reader.seen[i] <= Viewed(Reads[i])
      BY DEF IInv, ReaderOK
    <3>2. Reads[i] \in Counters
      BY <3>1, ReadsAre
    <3>3. reader.seen[i] \in Nat
      <4> DEFINE s == reader.seen
      <4>1. s \in Seq(Nat) /\ i \in 1..Len(s)
        BY <3>1
      <4> HIDE DEF s
      <4>2. s[i] \in Nat
        BY <4>1
      <4> QED BY <4>2 DEF s
    <3> QED BY <3>1, <3>2, <3>3, Zenon
  <2> QED BY <1>2, <2>1
<1> QED BY <1>2, <1>3, <1>4 DEF IInv, ReaderOK

\* Setting the object aside changes nothing that is read.
LEMMA ResetKeeps == ASSUME IInv, Reset PROVE IInv'
<1>1. CountsOK'
  BY FreshTypes DEF Reset, CountsOK
<1> SUFFICES ASSUME reader' # None PROVE ReaderOK'
  BY <1>1 DEF IInv, ReaderOK
<1>2. reader' = Held
  BY DEF Reset
<1>3. CASE reader = None
  BY <1>2, <1>3 DEF Held
<1>4. CASE reader # None /\ reader.object # None
  <2>1. reader' = reader
    BY <1>2, <1>4 DEF Held
  <2>2. \A c : Viewed(c)' = Viewed(c)
    BY <1>4, <2>1 DEF Viewed
  <2> QED BY <1>4, <2>1, <2>2 DEF IInv, ReaderOK
<1>5. CASE reader # None /\ reader.object = None
  <2> DEFINE aside == [f \in Range(Reads) |-> stats[f]]
  <2>1. reader \in [object : {None} \union [Counters -> Nat], seen : Seq(Nat)]
    BY <1>5 DEF IInv, ReaderOK
  <2>2. aside \in [Counters -> Nat] /\ aside # None /\ \A c \in Counters : aside[c] = stats[c]
    <3>1. \A c \in Counters : stats[c] \in Nat
      BY DEF IInv, CountsOK, StatsTypes, Counters
    <3>2. aside \in [Counters -> Nat] /\ \A c \in Counters : aside[c] = stats[c]
      BY <3>1, ReadsAre
    <3> HIDE DEF aside
    <3> QED BY <3>2, NoneAssumption DEF Counters
  <2>3. reader' = [reader EXCEPT !.object = aside]
    BY <1>2, <1>5 DEF Held
  <2> HIDE DEF aside
  <2>4. /\ reader' \in [object : {None} \union [Counters -> Nat], seen : Seq(Nat)]
        /\ reader'.object = aside /\ reader'.seen = reader.seen
    BY <2>1, <2>2, <2>3
  <2>5. \A c \in Counters : Viewed(c)' = Viewed(c)
    BY <1>5, <2>2, <2>4 DEF Viewed
  <2>6. \A i \in 1..Len(reader.seen) : Reads[i] \in Counters
    <3>1. \A i \in 1..Len(reader.seen) : i \in 1..7
      BY <1>5, <2>1 DEF IInv, ReaderOK
    <3> QED BY <3>1, ReadsAre
  <2>7. "steps" \in Counters
    BY DEF Counters
  <2> QED BY <1>5, <2>4, <2>5, <2>6, <2>7 DEF IInv, ReaderOK
<1> QED BY <1>3, <1>4, <1>5

LEMMA ReadStep == ASSUME IInv, ReadNext PROVE IInv'
<1>1. reader # None /\ Len(reader.seen) < 7 /\ UNCHANGED <<stats, phase>>
  BY ReadsAre DEF ReadNext
<1> DEFINE n == Len(reader.seen)
           s == reader.seen
           v == Viewed(Reads[n + 1])
<1>2. /\ reader \in [object : {None} \union [Counters -> Nat], seen : Seq(Nat)]
      /\ \A c \in Counters : Viewed(c) \in Nat /\ Viewed(c) <= Viewed("steps")
      /\ \A i \in 1..n : s[i] <= Viewed(Reads[i])
      /\ Paired(s) /\ s \in Seq(Nat)
  BY <1>1 DEF IInv, ReaderOK
<1>13. n \in Nat /\ n \in 0..6 /\ n + 1 \in 1..7
  <2>1. s \in Seq(Nat)
    BY <1>2
  <2>2. n \in Nat /\ n < 7
    BY <1>1, <2>1
  <2> HIDE DEF n
  <2> QED BY <2>2
<1>3. \A i \in 1..7 : Reads[i] \in Counters
  BY ReadsAre
<1>4. n + 1 \in 1..7 /\ v \in Nat
  <2>1. n + 1 \in 1..7
    BY <1>13
  <2> QED BY <1>2, <1>3, <2>1
<1>5. reader' = [reader EXCEPT !.seen = Append(s, v)]
  BY <1>1 DEF ReadNext, Viewed
<1> HIDE DEF v
<1>6. /\ reader'.seen = Append(s, v) /\ reader'.object = reader.object
      /\ reader' \in [object : {None} \union [Counters -> Nat], seen : Seq(Nat)]
  <2>1. Append(s, v) \in Seq(Nat)
    BY <1>2, <1>4
  <2> QED BY <1>2, <1>5, <2>1
<1>7. \A c : Viewed(c)' = Viewed(c)
  BY <1>1, <1>6 DEF Viewed
<1>8. /\ Len(Append(s, v)) = n + 1 /\ Append(s, v)[n + 1] = v
      /\ \A i \in 1..n : Append(s, v)[i] = s[i]
  BY <1>2, <1>13, <1>4
<1>9. \A i \in 1..n + 1 : Append(s, v)[i] <= Viewed(Reads[i])
  BY <1>2, <1>4, <1>8 DEF v
<1>10. Paired(Append(s, v))
  <2>1. \A i \in 1..n : s[i] \in Nat
    BY <1>2, <1>13
  <2> HIDE DEF n, s
  <2>2. CASE n \in {0, 1, 2}
    BY <1>8, <2>2 DEF Paired
  <2>3. CASE n = 3
    <3>1. s[2] <= v
      BY <1>2, <2>3, ReadsAre DEF v
    <3> QED BY <1>8, <2>3, <3>1 DEF Paired
  <2>4. CASE n = 4
    <3>1. s[1] <= v /\ s[4] <= v
      <4>1. s[1] <= Viewed("steps") /\ s[4] <= Viewed("fallbacks") /\ v = Viewed("steps") /\ s[4] \in Nat
        BY <1>2, <2>1, <2>4, ReadsAre DEF v
      <4> QED BY <1>2, <4>1 DEF Counters
    <3> QED BY <1>2, <1>13, <1>8, <2>4, <3>1 DEF Paired
  <2>5. CASE n = 5
    <3>1. s[3] <= v
      <4>1. 3 \in 1..n /\ n + 1 = 6
        BY <2>5
      <4>2. v = Viewed("projections") /\ s[3] <= Viewed(Reads[3]) /\ Reads[3] = "projections"
        BY <1>2, <4>1, ReadsAre DEF v
      <4> QED BY <4>2
    <3> QED BY <1>2, <1>13, <1>8, <2>5, <3>1 DEF Paired
  <2>6. CASE n = 6
    <3>1. s[5] <= v /\ s[6] <= v
      <4>1. s[5] <= Viewed("steps") /\ s[6] <= Viewed("projections") /\ v = Viewed("steps") /\ s[6] \in Nat
        BY <1>2, <2>1, <2>6, ReadsAre DEF v
      <4> QED BY <1>2, <4>1 DEF Counters
    <3> QED BY <1>2, <1>13, <1>8, <2>6, <3>1 DEF Paired
  <2> QED BY <1>2, <1>13, <2>2, <2>3, <2>4, <2>5, <2>6
<1>11. ReaderOK'
  <2>1. Len(reader'.seen) = n + 1 /\ n + 1 <= 7
    <3>1. Len(reader'.seen) = n + 1
      BY <1>6, <1>8, Zenon
    <3>2. n + 1 <= 7
      <4> HIDE DEF n
      <4> QED BY <1>13
    <3> QED BY <3>1, <3>2
  <2>2. \A i \in 1..Len(reader'.seen) : reader'.seen[i] <= Viewed(Reads[i])'
    BY <1>6, <1>7, <1>9, <2>1
  <2>3. \A c \in Counters : Viewed(c)' \in Nat /\ Viewed(c)' <= Viewed("steps")'
    BY <1>2, <1>7
  <2> QED BY <1>6, <1>10, <2>1, <2>2, <2>3 DEF ReaderOK
<1> QED BY <1>1, <1>11 DEF IInv, CountsOK

\* A step of the thread that holds the lock.
LEMMA HolderStep ==
  ASSUME IInv,
         \/ Ask \/ Proceed
         \/ \E answer \in {"command", "malformed", "raises"}, late \in BOOLEAN : Answer(answer, late)
  PROVE  IInv'
<1>1. stats \in StatsTypes /\ CountsOK
  BY DEF IInv, CountsOK
<1>2. \A c \in Counters : stats[c] \in Nat /\ stats[c] <= stats[c]
  BY <1>1 DEF StatsTypes, Counters
<1>3. CASE UNCHANGED <<stats, reader>> /\ CountsOK'
  BY <1>1, <1>2, <1>3, StatsGrow
<1>4. CASE Ask
  <2>1. stats' = [stats EXCEPT !.steps = @ + 1] /\ UNCHANGED reader /\ phase' \in {"asked", "refused"}
    BY <1>4 DEF Ask, CountIn
  <2>2. stats' \in StatsTypes /\ CountsOK' /\ \A c \in Counters : stats[c] <= stats'[c]
    BY <1>1, <1>2, <2>1 DEF CountsOK, StatsTypes, Counters
  <2> QED BY <2>1, <2>2, StatsGrow
<1>5. ASSUME NEW answer, NEW late \in BOOLEAN, Answer(answer, late) PROVE IInv'
  <2> DEFINE slow == stats.slow \/ (late /\ answer # "raises")
  <2>1. /\ stats' = [stats EXCEPT !.slow = slow] /\ UNCHANGED reader
        /\ phase = "asked" /\ phase' \in {"decided", "refused"}
    BY <1>1, <1>5 DEF Answer, StatsTypes
  <2>2. slow \in BOOLEAN
    OBVIOUS
  <2> HIDE DEF slow
  <2>3. stats' \in StatsTypes /\ \A c \in Counters : stats'[c] = stats[c]
    BY <1>1, <2>1, <2>2 DEF StatsTypes, Counters
  <2>4. CountsOK'
    BY <1>1, <2>1, <2>3 DEF CountsOK, StatsTypes, Counters
  <2> QED BY <1>2, <2>1, <2>3, <2>4, StatsGrow
<1>6. CASE NoteFallback
  <2>1. stats' = [stats EXCEPT !.fallbacks = @ + 1] /\ UNCHANGED reader /\ phase = "refused" /\ phase' = "noted"
    BY <1>6 DEF NoteFallback, CountIn
  <2>2. stats' \in StatsTypes /\ CountsOK' /\ \A c \in Counters : stats[c] <= stats'[c]
    BY <1>1, <1>2, <2>1 DEF CountsOK, StatsTypes, Counters
  <2> QED BY <2>1, <2>2, StatsGrow
<1>7. CASE NoteReason
  <2>1. /\ stats' = [stats EXCEPT !.reasons[draft.reason] = @ + 1] /\ UNCHANGED reader
        /\ phase = "noted" /\ phase' = "decided"
    BY <1>7 DEF NoteReason
  <2> DEFINE counted == [stats.reasons EXCEPT ![draft.reason] = @ + 1]
  <2>2. stats.reasons \in [Reasons -> Nat] /\ counted \in [Reasons -> Nat]
    <3>1. stats.reasons \in [Reasons -> Nat]
      BY <1>1 DEF StatsTypes
    <3>2. \A q \in Reasons : stats.reasons[q] \in Nat /\ stats.reasons[q] + 1 \in Nat
      BY <3>1
    <3>3. counted = [q \in Reasons |-> IF q = draft.reason THEN stats.reasons[q] + 1 ELSE stats.reasons[q]]
      BY <3>1
    <3> QED BY <3>1, <3>2, <3>3
  <2>3. stats' = [stats EXCEPT !.reasons = counted]
    BY <1>1, <2>1 DEF StatsTypes
  <2> HIDE DEF counted
  <2>4. stats' \in StatsTypes /\ \A c \in Counters : stats'[c] = stats[c]
    BY <1>1, <2>2, <2>3 DEF StatsTypes, Counters
  <2>5. CountsOK'
    BY <1>1, <2>1, <2>4 DEF CountsOK, StatsTypes, Counters
  <2> QED BY <1>2, <2>1, <2>4, <2>5, StatsGrow
<1>8. CASE NoteProjection
  <2>1. stats' = [stats EXCEPT !.projections = @ + 1] /\ UNCHANGED reader /\ phase = "intervened" /\ phase' = "projected"
    BY <1>8 DEF NoteProjection, CountIn
  <2>2. stats' \in StatsTypes /\ CountsOK' /\ \A c \in Counters : stats[c] <= stats'[c]
    BY <1>1, <1>2, <2>1 DEF CountsOK, StatsTypes, Counters
  <2> QED BY <2>1, <2>2, StatsGrow
<1>9. CASE PublishReason \/ (\E intervened \in BOOLEAN : Project(intervened)) \/ Curtail \/ Execute
            \/ ForgetReport \/ ForgetReason
  BY <1>1, <1>3, <1>9 DEF PublishReason, Project, Curtail, Execute, ForgetReport, ForgetReason, CountsOK
<1> QED BY <1>4, <1>5, <1>6, <1>7, <1>8, <1>9 DEF Proceed

LEMMA Counted == Spec => []IInv
<1>1. Init => IInv
  BY FreshTypes DEF Init, IInv, CountsOK, ReaderOK
<1>2. IInv /\ [Next]_vars => IInv'
  <2> SUFFICES ASSUME IInv, [Next]_vars PROVE IInv'
    OBVIOUS
  <2>1. CASE StartReading
    <3>1. reader' = [object |-> None, seen |-> <<>>] /\ UNCHANGED <<stats, phase>>
      BY <2>1 DEF StartReading
    <3>2. /\ reader' \in [object : {None} \union [Counters -> Nat], seen : Seq(Nat)]
          /\ reader'.object = None /\ Len(reader'.seen) = 0
      BY <3>1
    <3>3. \A c \in Counters : Viewed(c)' = stats[c]
      BY <3>1, <3>2 DEF Viewed
    <3>4. \A c \in Counters : stats[c] \in Nat /\ stats[c] <= stats["steps"]
      BY DEF IInv, CountsOK, StatsTypes, Counters
    <3> QED BY <3>1, <3>2, <3>3, <3>4 DEF IInv, CountsOK, ReaderOK, Paired, Counters
  <2>2. CASE Serve
    BY <2>2 DEF Serve, IInv, CountsOK, ReaderOK
  <2>3. CASE UNCHANGED vars
    BY <2>3 DEF vars, IInv, CountsOK, ReaderOK, Viewed
  <2> QED BY <2>1, <2>2, <2>3, ReadStep, ResetKeeps, HolderStep DEF Next, Read
<1> QED BY <1>1, <1>2, PTL DEF Spec

\* For every series and every interleaving, a record served without the lock adds up.
THEOREM RecordsAddUp == Spec => []RecordAddsUp
<1>1. IInv => RecordAddsUp
  BY ReadsAre DEF IInv, ReaderOK, Paired, RecordAddsUp
<1> QED BY <1>1, Counted, PTL

-----------------------------------------------------------------------------
(***************************************************************************)
(* The books.                                                              *)
(***************************************************************************)
AskedPhases == {"asked", "refused", "noted"}

Phases == AskedPhases \union
  {"free", "decided", "published", "intervened", "projected", "commanded", "renewed", "forgetting"}

\* A late answer that will be counted under its reason, but is not yet.
Pending == phase \in {"refused", "noted"} /\ draft.reason = "late"

\* What the thread that holds the lock has in hand.
DraftOK ==
  /\ phase \in Phases
  /\ phase \in AskedPhases =>
       /\ draft \in [load : Loads, reason : Reasons \union {None}, on : {None}]
       /\ HasAgent => draft.reason # "absent"
  /\ phase = "asked" => HasAgent
  /\ phase \in {"refused", "noted"} => draft.reason \in Reasons

\* How far the counters are ahead of the plant and of each other within a step.
LedgerOK ==
  /\ plant \in Nat
  /\ stats.steps = plant + (IF phase \in {"free", "renewed", "forgetting"} THEN 0 ELSE 1)
  /\ stats.fallbacks = Explained + (IF phase = "noted" THEN 1 ELSE 0)
  /\ HasAgent => stats.reasons["absent"] = 0

\* A late answer is on record, or about to be.
LateOK == EnforceBudget => (stats.slow <=> stats.reasons["late"] > 0 \/ Pending)

\* Which of the last reports are already those of this step, or forgotten.
ReportsOK ==
  /\ phase \in {"renewed", "forgetting"} => plant = 0
  /\ phase \in {"published", "intervened", "projected", "commanded"} => reason = stats.steps
  /\ phase \in {"intervened", "projected", "commanded"} => report = stats.steps
  /\ phase = "commanded" => voltage = stats.steps
  /\ phase = "forgetting" => report = None
  /\ phase = "free" =>
       IF plant = 0 THEN reason = None /\ report = None /\ voltage = None
       ELSE reason = stats.steps /\ report = stats.steps /\ (HasInverter => voltage = stats.steps)

BooksInv == DraftOK /\ LedgerOK /\ LateOK /\ ReportsOK

\* The counters and the reasons of a statistics object.
LEMMA StatsFields ==
  ASSUME stats \in StatsTypes
  PROVE  /\ stats.steps \in Nat /\ stats.fallbacks \in Nat /\ stats.projections \in Nat
         /\ \A r \in Reasons : stats.reasons[r] \in Nat
         /\ Explained \in Nat
<1>1. /\ stats.steps \in Nat /\ stats.fallbacks \in Nat /\ stats.projections \in Nat
      /\ stats.reasons \in [Reasons -> Nat]
  BY DEF StatsTypes
<1>2. \A r \in Reasons : stats.reasons[r] \in Nat
  BY <1>1
<1>3. /\ stats.reasons["raised"] \in Nat /\ stats.reasons["late"] \in Nat
      /\ stats.reasons["invalid"] \in Nat /\ stats.reasons["absent"] \in Nat
  BY <1>2 DEF Reasons
<1>4. Explained \in Nat
  BY <1>3 DEF Explained
<1> QED BY <1>1, <1>2, <1>4

\* A new statistics object explains nothing.
LEMMA FreshBooks ==
  /\ FreshStats.reasons["raised"] + FreshStats.reasons["late"]
       + FreshStats.reasons["invalid"] + FreshStats.reasons["absent"] = 0
  /\ FreshStats.reasons["absent"] = 0 /\ FreshStats.reasons["late"] = 0
  /\ ~FreshStats.slow
<1>1. FreshStats.reasons = [r \in Reasons |-> 0]
  BY DEF FreshStats
<1>2. \A r \in Reasons : FreshStats.reasons[r] = 0
  BY <1>1
<1>3. ~FreshStats.slow
  BY DEF FreshStats
<1>4. /\ FreshStats.reasons["raised"] = 0 /\ FreshStats.reasons["late"] = 0
      /\ FreshStats.reasons["invalid"] = 0 /\ FreshStats.reasons["absent"] = 0
  BY <1>2 DEF Reasons
<1> QED BY <1>3, <1>4

\* Asking counts the step that the plant will make.
LEMMA AskBooks == ASSUME IInv, BooksInv, Ask PROVE BooksInv'
<1>1. stats \in StatsTypes
  BY DEF IInv, CountsOK
<1>2. /\ stats'.steps = stats.steps + 1 /\ stats'.fallbacks = stats.fallbacks
      /\ stats'.reasons = stats.reasons /\ stats'.slow = stats.slow
  BY <1>1 DEF Ask, CountIn, StatsTypes
<1>3. phase = "free" /\ phase' = (IF HasAgent THEN "asked" ELSE "refused")
  BY DEF Ask
<1>4. UNCHANGED <<reason, report, voltage, plant>>
  BY DEF Ask
<1>5. PICK load \in Loads : draft' = [load |-> load, reason |-> IF HasAgent THEN None ELSE "absent", on |-> None]
  BY DEF Ask
<1>6. /\ draft'.reason = (IF HasAgent THEN None ELSE "absent")
      /\ draft' \in [load : Loads, reason : Reasons \union {None}, on : {None}]
  BY <1>5 DEF Reasons
<1>7. DraftOK'
  <2>1. CASE HasAgent
    BY <1>3, <1>6, <2>1, NoneAssumption DEF DraftOK, Phases, AskedPhases, Reasons
  <2>2. CASE ~HasAgent
    BY <1>3, <1>6, <2>2 DEF DraftOK, Phases, AskedPhases, Reasons
  <2> QED BY <2>1, <2>2
<1>8. LedgerOK'
  <2>1. Explained' = Explained
    BY <1>2 DEF Explained
  <2> QED BY <1>1, <1>2, <1>3, <1>4, <2>1, StatsFields DEF BooksInv, LedgerOK
<1>9. LateOK'
  <2>1. ~Pending' /\ ~Pending
    BY <1>3, <1>6 DEF Pending
  <2> QED BY <1>2, <2>1, Zenon DEF BooksInv, LateOK
<1>10. ReportsOK'
  BY <1>3 DEF ReportsOK
<1> QED BY <1>7, <1>8, <1>9, <1>10 DEF BooksInv

\* The verdict on an answer, and the lateness that is still to be counted.
LEMMA AnswerBooks ==
  ASSUME IInv, BooksInv, NEW answer \in {"command", "malformed", "raises"}, NEW late \in BOOLEAN, Answer(answer, late)
  PROVE  BooksInv'
<1> DEFINE slow == stats.slow \/ (late /\ answer # "raises")
           verdict == Verdict(answer, late)
<1>1. stats \in StatsTypes
  BY DEF IInv, CountsOK
<1>2. /\ stats'.steps = stats.steps /\ stats'.fallbacks = stats.fallbacks
      /\ stats'.reasons = stats.reasons /\ stats'.slow = slow
  <2>1. stats' = [stats EXCEPT !.slow = slow]
    BY <1>1 DEF Answer, StatsTypes
  <2> HIDE DEF slow
  <2> QED BY <1>1, <2>1 DEF StatsTypes
<1>3. phase = "asked" /\ phase' = (IF verdict = None THEN "decided" ELSE "refused")
  BY DEF Answer
<1>4. UNCHANGED <<reason, report, voltage, plant>>
  BY DEF Answer
<1>5. HasAgent /\ draft \in [load : Loads, reason : Reasons \union {None}, on : {None}]
  BY <1>3 DEF BooksInv, DraftOK, AskedPhases
<1>6. verdict \in Reasons \union {None} /\ verdict # "absent"
  BY NoneAssumption DEF Verdict, Reasons
<1>7. draft'.reason = verdict /\ draft' \in [load : Loads, reason : Reasons \union {None}, on : {None}]
  BY <1>5, <1>6 DEF Answer
<1>8. DraftOK'
  BY <1>3, <1>5, <1>6, <1>7 DEF DraftOK, Phases, AskedPhases
<1>9. LateOK'
  <2>1. ~Pending
    BY <1>3 DEF Pending
  <2>2. EnforceBudget => (slow <=> stats.slow \/ verdict = "late")
    BY NoneAssumption DEF Verdict, Reasons
  <2>3. Pending' <=> verdict = "late"
    BY <1>3, <1>7, NoneAssumption DEF Pending, Reasons
  <2>4. EnforceBudget => (stats'.slow <=> stats'.reasons["late"] > 0 \/ Pending')
    <3>1. EnforceBudget => (stats.slow <=> stats.reasons["late"] > 0)
      BY <2>1, Zenon DEF BooksInv, LateOK
    <3> HIDE DEF slow, verdict
    <3> QED BY <1>2, <2>2, <2>3, <3>1, Zenon
  <2> QED BY <2>4, Zenon DEF LateOK
<1>10. LedgerOK'
  <2>1. Explained' = Explained
    BY <1>2 DEF Explained
  <2> HIDE DEF slow, verdict
  <2> QED BY <1>2, <1>3, <1>4, <2>1 DEF BooksInv, LedgerOK
<1>11. ReportsOK'
  BY <1>3 DEF ReportsOK
<1> QED BY <1>8, <1>9, <1>10, <1>11 DEF BooksInv

LEMMA FallbackBooks == ASSUME IInv, BooksInv, NoteFallback \/ NoteReason PROVE BooksInv'
<1>1. stats \in StatsTypes
  BY DEF IInv, CountsOK
<1>2. /\ phase \in {"refused", "noted"} /\ draft.reason \in Reasons
      /\ draft \in [load : Loads, reason : Reasons \union {None}, on : {None}]
      /\ HasAgent => draft.reason # "absent"
  BY DEF NoteFallback, NoteReason, BooksInv, DraftOK, AskedPhases
<1>3. CASE NoteFallback
  <2>1. /\ stats'.steps = stats.steps /\ stats'.fallbacks = stats.fallbacks + 1
        /\ stats'.reasons = stats.reasons /\ stats'.slow = stats.slow
    BY <1>1, <1>3 DEF NoteFallback, CountIn, StatsTypes
  <2>2. phase = "refused" /\ phase' = "noted" /\ UNCHANGED <<reason, report, voltage, draft, plant>>
    BY <1>3 DEF NoteFallback
  <2>3. DraftOK'
    BY <1>2, <2>2 DEF DraftOK, Phases, AskedPhases
  <2>4. Explained' = Explained /\ (Pending' <=> Pending)
    BY <2>1, <2>2 DEF Explained, Pending
  <2>5. LedgerOK'
    BY <1>1, <2>1, <2>2, <2>4, StatsFields DEF BooksInv, LedgerOK
  <2>6. LateOK'
    BY <2>1, <2>4, Zenon DEF BooksInv, LateOK
  <2>7. ReportsOK'
    BY <2>2 DEF ReportsOK
  <2> QED BY <2>3, <2>5, <2>6, <2>7 DEF BooksInv
<1>4. CASE NoteReason
  <2> DEFINE counted == [stats.reasons EXCEPT ![draft.reason] = @ + 1]
  <2>1. /\ stats'.steps = stats.steps /\ stats'.fallbacks = stats.fallbacks
        /\ stats'.reasons = counted /\ stats'.slow = stats.slow
    BY <1>1, <1>4 DEF NoteReason, StatsTypes
  <2>2. phase = "noted" /\ phase' = "decided" /\ UNCHANGED <<reason, report, voltage, plant>>
    BY <1>4 DEF NoteReason
  <2>3. \A r \in Reasons : counted[r] = stats.reasons[r] + IF r = draft.reason THEN 1 ELSE 0
    <3>1. stats.reasons \in [Reasons -> Nat]
      BY <1>1 DEF StatsTypes
    <3> QED BY <1>2, <3>1
  <2> HIDE DEF counted
  <2>4. Explained' = Explained + 1
    <3>1. /\ counted["raised"] = stats.reasons["raised"] + IF "raised" = draft.reason THEN 1 ELSE 0
          /\ counted["late"] = stats.reasons["late"] + IF "late" = draft.reason THEN 1 ELSE 0
          /\ counted["invalid"] = stats.reasons["invalid"] + IF "invalid" = draft.reason THEN 1 ELSE 0
          /\ counted["absent"] = stats.reasons["absent"] + IF "absent" = draft.reason THEN 1 ELSE 0
      BY <2>3 DEF Reasons
    <3>2. /\ stats.reasons["raised"] \in Nat /\ stats.reasons["late"] \in Nat
          /\ stats.reasons["invalid"] \in Nat /\ stats.reasons["absent"] \in Nat
      BY <1>1, StatsFields DEF Reasons
    <3>3. draft.reason \in {"raised", "late", "invalid", "absent"}
      BY <1>2 DEF Reasons
    <3>4. Explained' = counted["raised"] + counted["late"] + counted["invalid"] + counted["absent"]
      BY <2>1 DEF Explained
    <3>5. \E r \in {"raised", "late", "invalid", "absent"} : r = draft.reason
      BY <3>3
    <3>6. CASE draft.reason = "raised"
      BY <3>1, <3>2, <3>4, <3>6 DEF Explained
    <3>7. CASE draft.reason = "late"
      BY <3>1, <3>2, <3>4, <3>7 DEF Explained
    <3>8. CASE draft.reason = "invalid"
      BY <3>1, <3>2, <3>4, <3>8 DEF Explained
    <3>9. CASE draft.reason = "absent"
      BY <3>1, <3>2, <3>4, <3>9 DEF Explained
    <3> QED BY <3>5, <3>6, <3>7, <3>8, <3>9
  <2>5. HasAgent => stats'.reasons["absent"] = 0
    <3>1. HasAgent => counted["absent"] = stats.reasons["absent"] + 0
      BY <1>2, <2>3 DEF Reasons
    <3>2. HasAgent => stats.reasons["absent"] = 0
      BY DEF BooksInv, LedgerOK
    <3> QED BY <2>1, <3>1, <3>2
  <2>6. LateOK'
    <3>1. ~Pending' /\ (Pending <=> draft.reason = "late")
      BY <2>2 DEF Pending
    <3>2. EnforceBudget => (stats.slow <=> stats.reasons["late"] > 0 \/ Pending)
      BY Zenon DEF BooksInv, LateOK
    <3>3. counted["late"] > 0 <=> stats.reasons["late"] > 0 \/ draft.reason = "late"
      <4>1. stats.reasons["late"] \in Nat
        BY <1>1, StatsFields DEF Reasons
      <4>2. counted["late"] = stats.reasons["late"] + IF "late" = draft.reason THEN 1 ELSE 0
        BY <2>3 DEF Reasons
      <4>3. CASE draft.reason = "late"
        BY <4>1, <4>2, <4>3
      <4>4. CASE draft.reason # "late"
        BY <4>1, <4>2, <4>4
      <4> QED BY <4>3, <4>4
    <3> QED BY <2>1, <3>1, <3>2, <3>3, Zenon DEF LateOK
  <2>7. LedgerOK'
    <3>1. Explained \in Nat
      BY <1>1, StatsFields
    <3> QED BY <2>1, <2>2, <2>4, <2>5, <3>1 DEF BooksInv, LedgerOK
  <2>8. DraftOK' /\ ReportsOK'
    BY <2>2 DEF DraftOK, ReportsOK, Phases, AskedPhases
  <2> QED BY <2>6, <2>7, <2>8 DEF BooksInv
<1> QED BY <1>3, <1>4

\* The rest of a step, which leaves the fallbacks and their reasons alone.
LEMMA RestBooks ==
  ASSUME IInv, BooksInv,
         PublishReason \/ (\E intervened \in BOOLEAN : Project(intervened)) \/ NoteProjection \/ Curtail \/ Execute
  PROVE  BooksInv'
<1>1. stats \in StatsTypes
  BY DEF IInv, CountsOK
<1>2. /\ stats'.steps = stats.steps /\ stats'.fallbacks = stats.fallbacks
      /\ stats'.reasons = stats.reasons /\ stats'.slow = stats.slow
  BY <1>1 DEF PublishReason, Project, NoteProjection, Curtail, Execute, CountIn, StatsTypes
<1>3. /\ phase \in {"decided", "published", "intervened", "projected", "commanded"}
      /\ phase' \in {"published", "intervened", "projected", "commanded", "free"}
      /\ IF phase' = "free" THEN plant' = plant + 1 ELSE plant' = plant
  BY DEF PublishReason, Project, NoteProjection, Curtail, Execute
<1>4. DraftOK'
  BY <1>3 DEF DraftOK, Phases, AskedPhases
<1>5. Explained' = Explained /\ ~Pending /\ ~Pending'
  BY <1>2, <1>3 DEF Explained, Pending
<1>6. LedgerOK'
  <2>1. stats.steps \in Nat /\ stats.fallbacks \in Nat /\ Explained \in Nat
    BY <1>1, StatsFields
  <2>2. /\ stats.steps = plant + 1 /\ plant \in Nat /\ stats.fallbacks = Explained
        /\ HasAgent => stats.reasons["absent"] = 0
    BY <1>3, <2>1 DEF BooksInv, LedgerOK
  <2>3. CASE phase' = "free"
    BY <1>2, <1>3, <1>5, <2>1, <2>2, <2>3 DEF LedgerOK
  <2>4. CASE phase' # "free"
    BY <1>2, <1>3, <1>5, <2>1, <2>2, <2>4 DEF LedgerOK
  <2> QED BY <2>3, <2>4
<1>8. LateOK'
  BY <1>2, <1>5, Zenon DEF BooksInv, LateOK
<1>7. ReportsOK'
  <2>1. CASE PublishReason
    BY <1>2, <2>1 DEF PublishReason, ReportsOK
  <2>2. CASE \E intervened \in BOOLEAN : Project(intervened)
    BY <1>2, <2>2 DEF Project, BooksInv, ReportsOK
  <2>3. CASE NoteProjection \/ Curtail
    BY <1>2, <2>3 DEF NoteProjection, Curtail, BooksInv, ReportsOK
  <2>4. CASE Execute
    <3>1. plant' # 0 /\ phase' = "free" /\ UNCHANGED <<reason, report, voltage>>
      <4>1. plant \in Nat /\ plant' = plant + 1
        BY <2>4 DEF Execute, BooksInv, LedgerOK
      <4> QED BY <2>4, <4>1 DEF Execute
    <3>2. reason = stats.steps /\ report = stats.steps /\ (HasInverter => voltage = stats.steps)
      BY <2>4 DEF Execute, BooksInv, ReportsOK
    <3> QED BY <1>2, <3>1, <3>2 DEF ReportsOK
  <2> QED BY <2>1, <2>2, <2>3, <2>4
<1> QED BY <1>4, <1>6, <1>7, <1>8 DEF BooksInv

\* A reset leaves nothing of the episode before.
LEMMA ResetBooks == ASSUME IInv, BooksInv, Reset \/ ForgetReport \/ ForgetReason PROVE BooksInv'
<1>1. CASE Reset
  <2>1. stats' \in StatsTypes /\ stats'.steps = 0 /\ stats'.fallbacks = 0
    BY <1>1, FreshTypes DEF Reset
  <2>2. Explained' = 0 /\ stats'.reasons["absent"] = 0 /\ stats'.reasons["late"] = 0
    BY <1>1, FreshBooks DEF Reset, Explained
  <2>5. ~stats'.slow
    BY <1>1, FreshBooks DEF Reset
  <2>3. plant' = 0 /\ phase' = "renewed"
    BY <1>1 DEF Reset
  <2>4. ~Pending'
    BY <2>3 DEF Pending
  <2>6. DraftOK' /\ ReportsOK'
    BY <2>3 DEF DraftOK, ReportsOK, Phases, AskedPhases
  <2>7. LedgerOK'
    BY <2>1, <2>2, <2>3 DEF LedgerOK
  <2>8. LateOK'
    BY <2>2, <2>4, <2>5 DEF LateOK
  <2> QED BY <2>6, <2>7, <2>8 DEF BooksInv
<1>2. CASE ForgetReport \/ ForgetReason
  <2>1. /\ UNCHANGED <<stats, plant>>
        /\ phase \in {"renewed", "forgetting"} /\ phase' \in {"forgetting", "free"}
    BY <1>2 DEF ForgetReport, ForgetReason
  <2>2. DraftOK'
    BY <2>1 DEF DraftOK, Phases, AskedPhases
  <2>3. Explained' = Explained /\ ~Pending /\ ~Pending'
    BY <2>1 DEF Explained, Pending
  <2>4. LedgerOK'
    BY <2>1, <2>3 DEF BooksInv, LedgerOK
  <2>6. LateOK'
    BY <2>1, <2>3, Zenon DEF BooksInv, LateOK
  <2>5. ReportsOK'
    BY <1>2, <2>1 DEF ForgetReport, ForgetReason, BooksInv, ReportsOK
  <2> QED BY <2>2, <2>4, <2>5, <2>6 DEF BooksInv
<1> QED BY <1>1, <1>2

LEMMA BooksInvariant == Spec => [](IInv /\ BooksInv)
<1>1. Init => BooksInv
  <2> SUFFICES ASSUME Init PROVE BooksInv
    OBVIOUS
  <2>1. stats \in StatsTypes /\ stats.steps = 0 /\ stats.fallbacks = 0
    BY FreshTypes DEF Init
  <2>2. Explained = 0 /\ stats.reasons["absent"] = 0 /\ stats.reasons["late"] = 0
    BY FreshBooks DEF Init, Explained
  <2>5. ~stats.slow
    BY FreshBooks DEF Init
  <2>3. plant = 0 /\ phase = "free" /\ reason = None /\ report = None /\ voltage = None
    BY DEF Init
  <2>4. ~Pending
    BY <2>3 DEF Pending
  <2>6. DraftOK /\ ReportsOK
    BY <2>3 DEF DraftOK, ReportsOK, Phases, AskedPhases
  <2>7. LedgerOK
    BY <2>1, <2>2, <2>3 DEF LedgerOK
  <2>8. LateOK
    BY <2>2, <2>4, <2>5 DEF LateOK
  <2> QED BY <2>6, <2>7, <2>8 DEF BooksInv
<1>2. IInv /\ BooksInv /\ [Next]_vars => BooksInv'
  <2> SUFFICES ASSUME IInv, BooksInv, [Next]_vars PROVE BooksInv'
    OBVIOUS
  <2>1. CASE Read \/ UNCHANGED vars
    <3>1. UNCHANGED <<stats, reason, report, voltage, phase, draft, plant>>
      BY <2>1 DEF Read, StartReading, ReadNext, Serve, vars
    <3> QED BY <3>1 DEF BooksInv, DraftOK, LedgerOK, LateOK, ReportsOK, Explained, Pending
  <2> QED BY <2>1, AskBooks, AnswerBooks, FallbackBooks, RestBooks, ResetBooks DEF Next, Proceed
<1> QED BY <1>1, <1>2, Counted, PTL DEF Spec

\* Whatever the agent answers and whenever the station is reset, between two steps the
\* guard's statistics and its last reports are those of the steps the plant has made.
THEOREM BooksKept == Spec => []BooksBalance
<1>1. IInv /\ BooksInv => BooksBalance
  <2> SUFFICES ASSUME IInv, BooksInv, phase = "free" PROVE BooksBalance
    BY DEF BooksBalance
  <2>1. EnforceBudget => (stats.slow <=> stats.reasons["late"] > 0)
    <3>1. ~Pending
      BY DEF Pending
    <3> QED BY <3>1, Zenon DEF BooksInv, LateOK
  <2>2. /\ stats.steps \in Nat /\ stats.fallbacks \in Nat /\ stats.projections \in Nat /\ Explained \in Nat
        /\ stats.fallbacks <= stats.steps /\ stats.projections <= stats.steps
    BY StatsFields DEF IInv, CountsOK
  <2>3. /\ stats.steps = plant /\ Explained = stats.fallbacks
        /\ HasAgent => stats.reasons["absent"] = 0
    BY <2>2 DEF BooksInv, LedgerOK
  <2>4. IF plant = 0 THEN {reason, report, voltage} = {None}
        ELSE \A r \in {reason, report} \union (IF HasInverter THEN {voltage} ELSE {}) : r = stats.steps
    BY DEF BooksInv, ReportsOK
  <2> QED BY <2>1, <2>2, <2>3, <2>4, Zenon DEF BooksBalance
<1> QED BY <1>1, BooksInvariant, PTL

-----------------------------------------------------------------------------
(***************************************************************************)
(* The rules of module Rules.                                              *)
(***************************************************************************)
\* How many sets there are.
Count == Len(Order)

\* The largest and the smallest of two or three numbers.
LEMMA MaxIs ==
  ASSUME NEW S, S \subseteq Int, NEW m \in S, \A x \in S : x <= m
  PROVE  Max(S) = m
<1> DEFINE p(x) == \A y \in S : x >= y
           c == CHOOSE x \in S : p(x)
<1>1. p(m) /\ m \in Int
  OBVIOUS
<1>2. Max(S) = c
  BY DEF Max
<1>3. c \in S /\ p(c)
  <2> HIDE DEF p
  <2> QED BY <1>1
<1> HIDE DEF c
<1>4. c >= m /\ c <= m /\ c \in Int
  BY <1>3
<1> QED BY <1>1, <1>2, <1>4

LEMMA MinIs ==
  ASSUME NEW S, S \subseteq Int, NEW m \in S, \A x \in S : m <= x
  PROVE  Min(S) = m
<1> DEFINE p(x) == \A y \in S : x <= y
           c == CHOOSE x \in S : p(x)
<1>1. p(m) /\ m \in Int
  OBVIOUS
<1>2. Min(S) = c
  BY DEF Min
<1>3. c \in S /\ p(c)
  <2> HIDE DEF p
  <2> QED BY <1>1
<1> HIDE DEF c
<1>4. c <= m /\ m <= c /\ c \in Int
  BY <1>3
<1> QED BY <1>1, <1>2, <1>4

LEMMA MaxTwo == ASSUME NEW a \in Int, NEW b \in Int PROVE Max({a, b}) = IF a <= b THEN b ELSE a
<1>1. CASE a <= b
  BY <1>1, MaxIs
<1>2. CASE b < a
  BY <1>2, MaxIs
<1> QED BY <1>1, <1>2

LEMMA MinTwo == ASSUME NEW a \in Int, NEW b \in Int PROVE Min({a, b}) = IF a <= b THEN a ELSE b
<1>1. CASE a <= b
  BY <1>1, MinIs
<1>2. CASE b < a
  BY <1>2, MinIs
<1> QED BY <1>1, <1>2

LEMMA ClipIs ==
  ASSUME NEW x \in Int, NEW low \in Int, NEW high \in Int, low <= high
  PROVE  /\ Clip(x, low, high) \in Int /\ low <= Clip(x, low, high) /\ Clip(x, low, high) <= high
         /\ x <= high => x <= Clip(x, low, high)
         /\ low <= x /\ x <= high => Clip(x, low, high) = x
         /\ x > high => Clip(x, low, high) = high
<1> DEFINE least == Min({x, high})
<1>1. least = IF x <= high THEN x ELSE high
  BY MinTwo
<1>2. Clip(x, low, high) = Max({low, least})
  BY DEF Clip
<1> HIDE DEF least
<1>3. Clip(x, low, high) = IF low <= least THEN least ELSE low
  BY <1>1, <1>2, MaxTwo
<1> QED BY <1>1, <1>3

-----------------------------------------------------------------------------
\* The order, taken from the front, takes one set at a time.
LEMMA LargestStep ==
  /\ Count \in Nat \ {0} /\ Largest(0) = {} /\ Largest(Count) = Gensets
  /\ \A n \in 0..Count : Largest(n) \subseteq Gensets /\ IsFiniteSet(Largest(n))
  /\ \A n \in 1..Count : /\ Order[n] \in Largest(n) /\ Order[n] \in Gensets
                     /\ Largest(n) \ {Order[n]} = Largest(n - 1)
                     /\ Order[n] \notin Largest(n - 1)
<1>0. Count \in Nat /\ \A i \in 1..Count : Order[i] \in Gensets
  <2>1. Order \in Seq(Gensets)
    BY RulesAssumption
  <2> QED BY <2>1 DEF Count
<1>1. Largest(Count) = Gensets /\ Largest(0) = {}
  <2>1. {Order[i] : i \in 1..Len(Order)} = Gensets
    BY RulesAssumption
  <2> QED BY <2>1 DEF Largest, Count
<1>2. Count # 0
  BY <1>1, RulesAssumption
<1>3. ASSUME NEW n \in 0..Count PROVE Largest(n) \subseteq Gensets /\ IsFiniteSet(Largest(n))
  <2>1. Largest(n) \subseteq Gensets
    BY <1>0, <1>3 DEF Largest
  <2> QED BY <2>1, FS_Subset, RulesAssumption
<1>4. ASSUME NEW n \in 1..Count
      PROVE /\ Order[n] \in Largest(n) /\ Order[n] \in Gensets
            /\ Largest(n) \ {Order[n]} = Largest(n - 1)
            /\ Order[n] \notin Largest(n - 1)
  <2>1. \A i \in 1..n - 1 : i \in 1..Count /\ i # n
    BY <1>0, <1>4
  <2>2. \A i \in 1..n - 1 : Order[i] # Order[n]
    BY <1>4, <2>1, RulesAssumption DEF Count
  <2>3. 1..n = (1..n - 1) \union {n}
    BY <1>0, <1>4
  <2>4. Largest(n) = Largest(n - 1) \union {Order[n]}
    BY <2>3 DEF Largest
  <2>5. Order[n] \notin Largest(n - 1)
    BY <2>2 DEF Largest
  <2> QED BY <1>0, <2>4, <2>5
<1> QED BY <1>0, <1>1, <1>2, <1>3, <1>4

LEMMA CapacityIs ==
  /\ \A S \in SUBSET Gensets : IsFiniteSet(S) /\ Capacity(S) \in Int
  /\ \A g \in Gensets : Rated[g] \in Nat \ {0}
  /\ \A S \in SUBSET Gensets : \A g \in S : Capacity(S) = Rated[g] + Capacity(S \ {g})
  /\ Capacity({}) = 0
<1>1. \A g \in Gensets : Rated[g] \in Nat \ {0}
  BY RulesAssumption
<1>2. ASSUME NEW S \in SUBSET Gensets
      PROVE /\ IsFiniteSet(S) /\ Capacity(S) \in Int
            /\ \A g \in S : Capacity(S) = Rated[g] + Capacity(S \ {g})
  <2>1. IsFiniteSet(S)
    BY FS_Subset, RulesAssumption
  <2>2. \A g \in S : Rated[g] \in Int
    BY <1>1
  <2>3. SumFunctionOnSet(Rated, S) \in Int
    BY <2>1, <2>2, SumInt
  <2>4. \A g \in S : SumFunctionOnSet(Rated, S) = Rated[g] + SumFunctionOnSet(Rated, S \ {g})
    BY <2>1, <2>2, SumRemove
  <2> QED BY <2>1, <2>3, <2>4 DEF Capacity, Total
<1>3. Capacity({}) = 0
  BY SumEmpty DEF Capacity, Total
<1> QED BY <1>1, <1>2, <1>3

LEMMA CapacityGrows ==
  ASSUME NEW T \in SUBSET Gensets, NEW S \in SUBSET T
  PROVE  Capacity(S) <= Capacity(T)
<1>1. IsFiniteSet(T) /\ \A g \in T : Rated[g] \in Int /\ Rated[g] >= 0
  BY CapacityIs
<1>2. \A g \in T \ S : Rated[g] >= 0
  BY <1>1
<1>3. SumFunctionOnSet(Rated, S) <= SumFunctionOnSet(Rated, T)
  BY <1>1, <1>2, SumPart
<1> QED BY <1>3 DEF Capacity, Total

\* The first n of the order are n sets.
LEMMA LargestCount == \A n \in 0..Count : Cardinality(Largest(n)) = n
<1> DEFINE C == {n \in 0..Count : Cardinality(Largest(n)) # n}
<1> SUFFICES ASSUME C # {} PROVE FALSE
  OBVIOUS
<1>1. Count \in Nat /\ C \subseteq Nat
  BY LargestStep
<1>2. PICK m \in C : \A k \in C : m <= k
  BY <1>1, LeastOf
<1>3. m \in 0..Count /\ Cardinality(Largest(m)) # m
  OBVIOUS
<1>4. m # 0
  BY <1>3, LargestStep, FS_EmptySet
<1>5. m \in 1..Count /\ m - 1 \in 0..Count
  BY <1>1, <1>3, <1>4
<1>6. m - 1 \notin C
  BY <1>1, <1>2, <1>5
<1>7. Cardinality(Largest(m - 1)) = m - 1
  BY <1>5, <1>6
<1>8. /\ IsFiniteSet(Largest(m)) /\ Order[m] \in Largest(m) /\ Largest(m) \ {Order[m]} = Largest(m - 1)
  BY <1>3, <1>5, LargestStep
<1>9. Cardinality(Largest(m - 1)) = Cardinality(Largest(m)) - 1 /\ Cardinality(Largest(m)) \in Nat
  BY <1>8, FS_RemoveElement, FS_CardinalityType
<1> QED BY <1>3, <1>5, <1>7, <1>9

\* No sets carry more than as many of the largest.
LEMMA Greedy ==
  ASSUME NEW S \in SUBSET Gensets
  PROVE  Cardinality(S) \in 0..Count /\ Capacity(S) <= Capacity(Largest(Cardinality(S)))
<1> DEFINE ok(U) == Capacity(U) <= Capacity(Largest(Cardinality(U)))
           C == {U \in SUBSET S : ~ok(U)}
<1>0. \A U \in SUBSET S : IsFiniteSet(U) /\ Cardinality(U) \in 0..Count
  <2> SUFFICES ASSUME NEW U \in SUBSET S PROVE IsFiniteSet(U) /\ Cardinality(U) \in 0..Count
    OBVIOUS
  <2>1. Gensets = Largest(Count) /\ Count \in 0..Count
    BY LargestStep
  <2>2. Cardinality(Gensets) = Count
    BY <2>1, LargestCount
  <2>3. IsFiniteSet(U) /\ Cardinality(U) <= Cardinality(Gensets)
    BY RulesAssumption, FS_Subset
  <2>4. Cardinality(U) \in Nat
    BY <2>3, FS_CardinalityType
  <2> QED BY <2>1, <2>2, <2>3, <2>4
<1>1. C \in SUBSET (SUBSET S) /\ (~ok(S) => C # {})
  OBVIOUS
<1>2. \A T : T \in C <=> T \in SUBSET S /\ ~ok(T)
  OBVIOUS
<1> HIDE DEF C, ok
<1> SUFFICES ASSUME C # {} PROVE FALSE
  BY <1>0, <1>1 DEF ok
<1>3. PICK T \in C : \A U \in SUBSET T : U # T => U \notin C
  BY <1>0, <1>1, LeastSubset
<1>4. T \in SUBSET S /\ T \in SUBSET Gensets /\ ~ok(T)
  BY <1>2, <1>3
<1> DEFINE n == Cardinality(T)
<1>5. IsFiniteSet(T) /\ n \in 0..Count
  BY <1>0, <1>4
<1>6. n # 0
  <2> SUFFICES ASSUME n = 0 PROVE FALSE
    OBVIOUS
  <2>1. T = {}
    BY <1>5, FS_EmptySet
  <2>2. Capacity(T) = 0 /\ Capacity(Largest(Cardinality(T))) = 0
    BY <2>1, LargestStep, CapacityIs, FS_EmptySet
  <2>3. ok(T)
    BY <2>2 DEF ok
  <2> QED BY <1>4, <2>3
<1>7. Count \in Nat /\ n \in 1..Count /\ n - 1 \in 0..Count
  BY <1>5, <1>6, LargestStep
\* One of them is no earlier in the order than there are of them.
<1>8. PICK g \in T : Rated[g] <= Rated[Order[n]]
  <2>1. \E g \in T : g \notin Largest(n - 1)
    <3> SUFFICES ASSUME T \subseteq Largest(n - 1) PROVE FALSE
      OBVIOUS
    <3>1. IsFiniteSet(Largest(n - 1)) /\ Cardinality(Largest(n - 1)) = n - 1
      BY <1>7, LargestStep, LargestCount
    <3>2. n <= n - 1
      BY <3>1, FS_Subset
    <3> QED BY <1>7, <3>2
  <2>2. PICK g \in T : g \notin Largest(n - 1)
    BY <2>1
  <2>3. PICK i \in 1..Count : g = Order[i]
    BY <1>4, <2>2, RulesAssumption DEF Count
  <2>4. i >= n
    <3> SUFFICES ASSUME i < n PROVE FALSE
      BY <1>7
    <3>1. i \in 1..n - 1
      BY <1>7
    <3> QED BY <2>2, <2>3, <3>1 DEF Largest
  <2>5. Rated[Order[n]] >= Rated[Order[i]]
    BY <1>7, <2>4, RulesAssumption DEF Count
  <2>6. Rated[Order[n]] \in Nat /\ Rated[g] \in Nat
    BY <1>4, <1>7, LargestStep, CapacityIs
  <2> QED BY <2>3, <2>5, <2>6
<1> DEFINE rest == T \ {g}
<1>9. rest \in SUBSET T /\ rest # T /\ rest \in SUBSET S
  BY <1>4
<1>10. ok(rest)
  BY <1>2, <1>3, <1>9
<1>11. Cardinality(rest) = n - 1
  BY <1>5, FS_RemoveElement
<1>12. Capacity(rest) <= Capacity(Largest(n - 1))
  BY <1>10, <1>11 DEF ok
<1>13. Capacity(T) = Rated[g] + Capacity(rest) /\ Capacity(rest) \in Int /\ Rated[g] \in Int
  BY <1>4, <1>8, CapacityIs
<1>14. /\ Capacity(Largest(n)) = Rated[Order[n]] + Capacity(Largest(n - 1))
       /\ Capacity(Largest(n - 1)) \in Int /\ Rated[Order[n]] \in Int
  <2>1. /\ Largest(n) \in SUBSET Gensets /\ Order[n] \in Largest(n) /\ Largest(n) \ {Order[n]} = Largest(n - 1)
        /\ Largest(n - 1) \in SUBSET Gensets /\ Order[n] \in Gensets
    BY <1>7, LargestStep
  <2> QED BY <2>1, CapacityIs
<1> HIDE DEF rest
<1>15. Capacity(T) <= Capacity(Largest(n))
  BY <1>8, <1>12, <1>13, <1>14
<1> QED BY <1>4, <1>15 DEF ok

\* Largest first, until it is covered: no fewer sets cover it.
LEMMA CoveringFewest ==
  ASSUME NEW kw \in Int
  PROVE  /\ \E m \in 0..Count : Covering(kw) = Largest(m) /\ (kw > 0 => m >= 1)
         /\ Fewest(Covering(kw), kw)
<1> DEFINE K == {n \in 0..Len(Order) : Capacity(Largest(n)) >= kw} \union {Len(Order)}
<1>1. Count \in Nat /\ K \subseteq 0..Count /\ K # {} /\ Count \in K
  BY LargestStep DEF Count
<1>2. \A n \in K : n = Count \/ Capacity(Largest(n)) >= kw
  BY DEF Count
<1>3. \A n \in 0..Count : Capacity(Largest(n)) >= kw => n \in K
  BY DEF Count
<1>4. Covering(kw) = Largest(Min(K))
  BY DEF Covering
<1> HIDE DEF K
<1>a. K \subseteq Nat /\ K \subseteq Int
  BY <1>1
<1>5. PICK m \in K : \A k \in K : m <= k
  BY <1>1, <1>a, LeastOf
<1>6. Min(K) = m /\ m \in 0..Count
  BY <1>1, <1>a, <1>5, MinIs
<1>7. Covering(kw) = Largest(m) /\ Cardinality(Largest(m)) = m
  BY <1>4, <1>6, LargestCount
<1>8. kw > 0 => m >= 1
  <2> SUFFICES ASSUME kw > 0, m = 0 PROVE FALSE
    BY <1>1, <1>6
  <2>1. Capacity(Largest(0)) = 0 /\ Count # 0
    BY LargestStep, CapacityIs
  <2> QED BY <1>2, <2>1
<1>9. Capacity(Largest(m)) >= kw \/ Largest(m) = Gensets
  BY <1>2, LargestStep
<1>10. ASSUME NEW S \in SUBSET Gensets, Capacity(S) >= kw PROVE m <= Cardinality(S)
  <2>1. Cardinality(S) \in 0..Count /\ Capacity(S) <= Capacity(Largest(Cardinality(S)))
    BY Greedy
  <2>2. Largest(Cardinality(S)) \in SUBSET Gensets
    BY <2>1, LargestStep
  <2>3. Capacity(S) \in Int /\ Capacity(Largest(Cardinality(S))) \in Int
    BY <2>2, CapacityIs
  <2>4. Capacity(Largest(Cardinality(S))) >= kw
    BY <1>10, <2>1, <2>3
  <2> QED BY <1>3, <1>5, <2>1, <2>4
<1> QED BY <1>6, <1>7, <1>8, <1>9, <1>10 DEF Fewest

\* The fallback turns at least one set, and is Covering where there is something to cover.
LEMMA FallbackFewest ==
  ASSUME NEW load \in Loads
  PROVE  /\ FallbackOn(load) \subseteq Gensets /\ FallbackOn(load) # {}
         /\ Fewest(FallbackOn(load), load + ReserveMargin)
<1> DEFINE kw == load + ReserveMargin
<1>1. kw \in Int /\ kw > 0
  BY SituationAssumption, RulesAssumption
<1>2. FallbackOn(load) = Covering(kw) \union Largest(1)
  BY DEF FallbackOn
<1> HIDE DEF kw
<1>3. PICK m \in 0..Count : Covering(kw) = Largest(m) /\ m >= 1
  BY <1>1, CoveringFewest
<1>4. 1..1 \subseteq 1..m
  BY <1>3, LargestStep
<1>5. Largest(1) \subseteq Largest(m)
  BY <1>4 DEF Largest
<1>6. 1 \in 1..Count
  BY <1>3, LargestStep
<1>7. Order[1] \in Largest(1) /\ Largest(m) \subseteq Gensets
  BY <1>6, LargestStep
<1>8. FallbackOn(load) = Covering(kw)
  BY <1>2, <1>3, <1>5
<1> QED BY <1>1, <1>3, <1>5, <1>7, <1>8, CoveringFewest DEF kw

\* What a situation is made of, in numbers.
LEMMA SituationNumbers ==
  ASSUME NEW s \in Situations
  PROVE  /\ s.electrical \in Nat /\ s.melt \in Nat /\ s.renewable \in Nat
         /\ s.stuck \subseteq Gensets /\ ReserveMargin \in Nat /\ MeltersMax \in Nat
         /\ \A i \in DOMAIN Packs : s.charge[i] \in Nat /\ s.discharge[i] \in Nat
         /\ IsFiniteSet(DOMAIN Packs)
         /\ Net(s) \in Int /\ Net(s) = s.electrical + s.melt - s.renewable
         /\ Reserve(s) \in Int /\ Reserve(s) <= ReserveMargin
         /\ CommitKw(s) \in Nat /\ CommitKw(s) >= Net(s) /\ CommitKw(s) + Reserve(s) >= Net(s) + ReserveMargin
<1>1. s.electrical \in Nat /\ s.melt \in Nat /\ s.renewable \in Nat /\ s.stuck \subseteq Gensets
  BY SituationAssumption
<1>2. s.charge \in [DOMAIN Packs -> Nat] /\ s.discharge \in [DOMAIN Packs -> Nat]
  BY SituationAssumption
<1>3. ReserveMargin \in Nat /\ MeltersMax \in Nat
  BY RulesAssumption
<1>4. IsFiniteSet(DOMAIN Packs)
  <2>1. Len(Packs) \in Int /\ DOMAIN Packs = 1..Len(Packs)
    BY RulesAssumption
  <2> QED BY <2>1, FS_Interval
<1>5. Net(s) \in Int /\ Net(s) = s.electrical + s.melt - s.renewable
  BY <1>1 DEF Net
<1> DEFINE held == Total(s.discharge, DOMAIN Packs)
<1>6. held \in Int
  BY <1>2, <1>4, SumInt DEF Total
<1>7. Reserve(s) = Min({held, ReserveMargin})
  BY DEF Reserve
<1> HIDE DEF held
<1>8. Reserve(s) \in Int /\ Reserve(s) <= ReserveMargin
  BY <1>3, <1>6, <1>7, MinTwo
<1> DEFINE a == Net(s) + ReserveMargin - Reserve(s)
           b == Net(s)
<1>9. CommitKw(s) = Max({a, b, 0}) /\ a \in Int /\ b \in Int
  BY <1>3, <1>5, <1>8 DEF CommitKw
<1>10. a + Reserve(s) = Net(s) + ReserveMargin
  BY <1>3, <1>5, <1>8
<1> HIDE DEF a, b
<1>11. CommitKw(s) \in Nat /\ CommitKw(s) >= a /\ CommitKw(s) >= b
  <2>1. \E m \in {a, b, 0} : \A x \in {a, b, 0} : x <= m
    BY <1>9
  <2>2. PICK m \in {a, b, 0} : \A x \in {a, b, 0} : x <= m
    BY <2>1
  <2>3. Max({a, b, 0}) = m
    BY <1>9, <2>2, MaxIs
  <2> QED BY <1>9, <2>2, <2>3
<1>12. CommitKw(s) >= Net(s) /\ CommitKw(s) + Reserve(s) >= Net(s) + ReserveMargin
  BY <1>5, <1>8, <1>9, <1>10, <1>11, <1>3 DEF b
<1> QED BY <1>1, <1>2, <1>3, <1>4, <1>5, <1>8, <1>11, <1>12

\* What EfficientRuleBased commits.
LEMMA EfficientCommits ==
  ASSUME NEW s \in Situations
  PROVE  /\ EfficientOn(s) \subseteq Gensets /\ IsFiniteSet(EfficientOn(s))
         /\ Fewest(Covering(CommitKw(s)), CommitKw(s))
         /\ EfficientOn(s) \ Covering(CommitKw(s)) \subseteq s.stuck /\ s.stuck \subseteq EfficientOn(s)
         /\ Capacity(EfficientOn(s)) \in Int
         /\ Capacity(EfficientOn(s)) >= CommitKw(s) \/ EfficientOn(s) = Gensets
<1> DEFINE kw == CommitKw(s)
<1>1. kw \in Int /\ s.stuck \subseteq Gensets
  BY SituationNumbers
<1>2. EfficientOn(s) = Covering(kw) \union s.stuck
  BY DEF EfficientOn
<1> HIDE DEF kw
<1>3. Fewest(Covering(kw), kw) /\ Covering(kw) \subseteq Gensets
  BY <1>1, CoveringFewest, LargestStep
<1>4. EfficientOn(s) \subseteq Gensets
  BY <1>1, <1>2, <1>3
<1>5. Capacity(Covering(kw)) <= Capacity(EfficientOn(s))
  BY <1>2, <1>4, CapacityGrows
<1>6. Capacity(Covering(kw)) \in Int /\ Capacity(EfficientOn(s)) \in Int /\ IsFiniteSet(EfficientOn(s))
  BY <1>3, <1>4, CapacityIs
<1>7. Capacity(Covering(kw)) >= kw \/ Covering(kw) = Gensets
  BY <1>3 DEF Fewest
<1>8. Capacity(EfficientOn(s)) >= kw \/ EfficientOn(s) = Gensets
  BY <1>1, <1>2, <1>4, <1>5, <1>6, <1>7
<1> QED BY <1>2, <1>3, <1>4, <1>6, <1>8 DEF kw

LEMMA EfficientIsFewest == EfficientFewest
<1> SUFFICES ASSUME NEW s \in Situations
             PROVE  /\ Fewest(Covering(CommitKw(s)), CommitKw(s))
                    /\ EfficientOn(s) \ Covering(CommitKw(s)) \subseteq s.stuck /\ s.stuck \subseteq EfficientOn(s)
                    /\ Capacity(EfficientOn(s)) >= Net(s) \/ EfficientOn(s) = Gensets
                    /\ Capacity(EfficientOn(s)) + Reserve(s) >= Net(s) + ReserveMargin \/ EfficientOn(s) = Gensets
  BY DEF EfficientFewest
<1> DEFINE on == EfficientOn(s)
           carried == Capacity(on)
<1>1. carried \in Int /\ (carried >= CommitKw(s) \/ on = Gensets)
  BY EfficientCommits
<1>2. /\ Net(s) \in Int /\ Reserve(s) \in Int /\ ReserveMargin \in Nat
      /\ CommitKw(s) \in Nat /\ CommitKw(s) >= Net(s) /\ CommitKw(s) + Reserve(s) >= Net(s) + ReserveMargin
  BY SituationNumbers
<1>3. carried >= Net(s) \/ on = Gensets
  <2> HIDE DEF carried, on
  <2> QED BY <1>1, <1>2
<1>4. carried + Reserve(s) >= Net(s) + ReserveMargin \/ on = Gensets
  <2> HIDE DEF carried, on
  <2> QED BY <1>1, <1>2
<1> QED BY <1>3, <1>4, EfficientCommits

-----------------------------------------------------------------------------
\* A quotient rounded up.
LEMMA RoundedUp ==
  ASSUME NEW d \in Nat, NEW m \in Nat \ {0}, d > 0
  PROVE  /\ (d + m - 1) \div m \in Nat /\ (d + m - 1) \div m >= 1
         /\ d <= m * ((d + m - 1) \div m)
<1> DEFINE q == (d + m - 1) \div m
           r == (d + m - 1) % m
<1>1. d + m - 1 \in Nat
  OBVIOUS
<1>2. d + m - 1 = m * q + r /\ r \in 0..m - 1 /\ q \in Int
  BY <1>1
<1> HIDE DEF q, r
<1>3. m * q >= d
  BY <1>2
<1>4. q >= 1
  <2> SUFFICES ASSUME q <= 0 PROVE FALSE
    BY <1>2
  <2>1. m * q <= 0
    BY <1>2
  <2> QED BY <1>2, <1>3, <2>1
<1> QED BY <1>2, <1>3, <1>4 DEF q

\* Sets all like h, and how many of them LegacyNPlusOne turns.
LEMMA LegacyTurns ==
  ASSUME NEW h \in Gensets, NEW demand \in Nat
  PROVE  \E k \in 0..Count :
           /\ LegacyOn(demand, AllLike(h)) = Largest(k)
           /\ k < Count => k >= 1 /\ (k - 1) * Rated[h] >= demand + ReserveMargin
<1> DEFINE kw == demand + ReserveMargin
           most == Rated[h]
           needed == UnitsFor(kw, AllLike(h))
           more == Max({needed + 1, MinOnline})
           k == Min({more, Len(Order)})
<1>1. Count \in Nat /\ ReserveMargin \in Nat /\ MinOnline \in Nat /\ most \in Nat \ {0}
  BY LargestStep, RulesAssumption
<1>2. LegacyOn(demand, AllLike(h)) = Largest(k)
  BY DEF LegacyOn
<1>3. kw \in Nat
  BY <1>1
<1>4. needed \in Nat /\ needed * most >= kw
  <2>1. {AllLike(h)[g] : g \in Gensets} = {most}
    BY DEF AllLike
  <2>2. Max({most}) = most
    BY <1>1, MaxIs
  <2>3. CASE kw = 0
    <3>1. needed = 0
      BY <2>3 DEF UnitsFor
    <3> QED BY <1>1, <2>3, <3>1
  <2>4. CASE kw > 0
    <3> DEFINE up == (kw + most - 1) \div most
    <3> HIDE DEF kw
    <3>1. ~(kw <= 0)
      BY <1>3, <2>4
    <3>2. needed = Max({1, up})
      BY <2>1, <2>2, <3>1 DEF UnitsFor
    <3> HIDE DEF most, needed
    <3>3. up \in Nat /\ up >= 1 /\ kw <= most * up
      BY <1>1, <1>3, <2>4, RoundedUp
    <3> HIDE DEF up
    <3>4. needed = up
      BY <3>2, <3>3, MaxTwo
    <3> QED BY <1>1, <3>3, <3>4
  <2> QED BY <1>3, <2>3, <2>4
<1> HIDE DEF needed
<1>5. more \in Nat /\ more >= needed + 1
  BY <1>1, <1>4, MaxTwo
<1> HIDE DEF more
<1>6. k \in 0..Count /\ (k < Count => k = more)
  BY <1>1, <1>5, MinTwo DEF Count
<1> HIDE DEF k
<1>7. k < Count => k >= 1 /\ (k - 1) * most >= kw
  <2> SUFFICES ASSUME k < Count PROVE k >= 1 /\ (k - 1) * most >= kw
    OBVIOUS
  <2>1. k \in Nat /\ k - 1 >= needed
    BY <1>1, <1>4, <1>5, <1>6
  <2>2. (k - 1) * most >= needed * most
    <3>1. (k - 1) - needed \in Nat
      BY <1>4, <2>1
    <3>2. ((k - 1) - needed) * most >= 0
      BY <1>1, <3>1
    <3> HIDE DEF most
    <3>3. ((k - 1) - needed) * most = (k - 1) * most - needed * most
      BY <1>1, <1>4, <2>1
    <3> QED BY <1>1, <1>4, <2>1, <3>2, <3>3
  <2> HIDE DEF most, kw
  <2>3. (k - 1) * most \in Int /\ needed * most \in Int
    BY <1>1, <1>4, <2>1
  <2> QED BY <1>1, <1>3, <1>4, <2>1, <2>2, <2>3
<1> QED BY <1>2, <1>6, <1>7 DEF kw, most

\* Whichever of the sets trips, the others carry what was asked for.
LEMMA SparesDoSpin == SparesSpin
<1> SUFFICES ASSUME NEW s \in Situations, NEW h \in Gensets PROVE SpareSpins(s.electrical + s.melt, AllLike(h))
  BY DEF SparesSpin
<1> DEFINE demand == s.electrical + s.melt
           rated == AllLike(h)
           most == Rated[h]
           on == LegacyOn(demand, rated)
<1>1. demand \in Nat /\ ReserveMargin \in Nat /\ most \in Nat \ {0} /\ Count \in Nat
  BY SituationNumbers, CapacityIs, LargestStep
<1>2. demand % Cardinality(on) = 0
  BY SharesAssumption
<1> HIDE DEF demand
<1>3. PICK k \in 0..Count :
        on = Largest(k) /\ (k < Count => k >= 1 /\ (k - 1) * most >= demand + ReserveMargin)
  BY <1>1, LegacyTurns
<1>4. on \subseteq Gensets /\ IsFiniteSet(on) /\ Cardinality(on) = k
  BY <1>3, LargestStep, LargestCount
<1>5. \A x \in on : rated[x] = most
  BY <1>4 DEF AllLike
<1> SUFFICES ASSUME on # Gensets, NEW g \in on
             PROVE  Total(rated, on \ {g}) >= demand + ReserveMargin /\ Total(LegacySetpoints(demand, rated), on) = demand
  BY DEF SpareSpins, demand
<1>6. k \in Nat /\ k >= 1 /\ (k - 1) * most >= demand + ReserveMargin
  <2>1. k # Count
    BY <1>3, LargestStep
  <2> QED BY <1>1, <1>3, <2>1
<1> DEFINE asked == LegacySetpoints(demand, rated)
           share == demand \div k
<1>7. asked = [x \in on |-> Clip(demand \div Max({Cardinality(on), 1}), 0, rated[x])]
  BY DEF LegacySetpoints
<1> HIDE DEF on, rated, most, asked
<1>8. Total(rated, on \ {g}) >= demand + ReserveMargin
  <2> DEFINE rest == on \ {g}
  <2>1. IsFiniteSet(rest) /\ Cardinality(rest) = k - 1 /\ \A x \in rest : rated[x] = most
    BY <1>4, <1>5, FS_RemoveElement
  <2> HIDE DEF rest
  <2>2. SumFunctionOnSet(rated, rest) = Cardinality(rest) * most
    <3>1. most \in Int
      BY <1>1
    <3>2. IsFiniteSet(rest) /\ \A x \in rest : rated[x] = most
      BY <2>1
    <3> QED BY <3>1, <3>2, SumConstant
  <2> QED BY <1>6, <2>1, <2>2 DEF rest, Total
<1>9. Total(asked, on) = demand
  <2>1. k * share = demand /\ share \in Nat
    BY <1>1, <1>2, <1>4, <1>6
  <2> HIDE DEF share
  <2>2. share <= most
    <3> SUFFICES ASSUME share >= most + 1 PROVE FALSE
      BY <1>1, <2>1
    <3>1. k * share >= k * (most + 1)
      <4>1. share - (most + 1) \in Nat
        BY <1>1, <2>1
      <4>2. k * (share - (most + 1)) >= 0
        BY <1>6, <4>1
      <4>3. k * (share - (most + 1)) = k * share - k * (most + 1)
        BY <1>1, <1>6, <2>1
      <4> QED BY <1>1, <1>6, <2>1, <4>2, <4>3
    <3>2. k * (most + 1) = (k - 1) * most + most + k
      BY <1>1, <1>6
    <3> QED BY <1>1, <1>6, <2>1, <3>1, <3>2
  <2>3. Max({Cardinality(on), 1}) = k
    BY <1>4, <1>6, MaxTwo
  <2>4. Clip(share, 0, most) = share
    <3>1. share \in Int /\ 0 \in Int /\ most \in Int /\ 0 <= most /\ 0 <= share
      BY <1>1, <2>1
    <3> QED BY <2>2, <3>1, ClipIs
  <2>5. \A x \in on : asked[x] = share
    BY <1>5, <1>7, <2>3, <2>4 DEF share
  <2>6. SumFunctionOnSet(asked, on) = Cardinality(on) * share
    BY <1>4, <2>1, <2>5, SumConstant
  <2> QED BY <1>4, <2>1, <2>6 DEF Total
<1> QED BY <1>8, <1>9 DEF asked

-----------------------------------------------------------------------------
(***************************************************************************)
(* What the fallback proposes in a step.                                   *)
(***************************************************************************)

\* A proposal is the fallback's for the load of its step.
Planned ==
  draft # None => draft.load \in Loads /\ (draft.on # None => draft.on = FallbackOn(draft.load))

\* It stays so until the step is executed.
LEMMA PlannedKept == BooksInv /\ Planned /\ [Next]_vars => Planned'
<1> SUFFICES ASSUME BooksInv, Planned, [Next]_vars PROVE Planned'
  OBVIOUS
<1>1. phase \in AskedPhases => draft \in [load : Loads, reason : Reasons \union {None}, on : {None}]
  BY DEF BooksInv, DraftOK
<1>2. CASE Ask
  <2>1. PICK load \in Loads :
          draft' = [load |-> load, reason |-> IF HasAgent THEN None ELSE "absent", on |-> None]
    BY <1>2 DEF Ask
  <2> QED BY <2>1 DEF Planned
<1>3. ASSUME NEW answer \in {"command", "malformed", "raises"}, NEW late \in BOOLEAN, Answer(answer, late)
      PROVE  Planned'
  <2>1. phase \in AskedPhases /\ draft' = [draft EXCEPT !.reason = Verdict(answer, late)]
    BY <1>3 DEF Answer, AskedPhases
  <2>2. draft'.load = draft.load /\ draft'.on = None /\ draft.load \in Loads
    BY <1>1, <2>1
  <2> QED BY <2>2 DEF Planned
<1>4. CASE NoteReason
  <2>1. phase \in AskedPhases /\ draft' = [draft EXCEPT !.on = FallbackOn(draft.load)]
    BY <1>4 DEF NoteReason, AskedPhases
  <2>2. draft'.load = draft.load /\ draft'.on = FallbackOn(draft.load) /\ draft.load \in Loads
    BY <1>1, <2>1
  <2> QED BY <2>2 DEF Planned
<1>5. CASE Execute
  BY <1>5 DEF Execute, Planned
<1>6. CASE UNCHANGED draft
  BY <1>6 DEF Planned
<1>7. ASSUME NEW intervened \in BOOLEAN, Project(intervened) PROVE UNCHANGED draft
  BY <1>7 DEF Project
<1>8. CASE \/ NoteFallback \/ PublishReason \/ NoteProjection \/ Curtail \/ ForgetReport \/ ForgetReason
           \/ Reset \/ Read \/ UNCHANGED vars
  <2>1. UNCHANGED draft
    BY <1>8 DEF NoteFallback, PublishReason, NoteProjection, Curtail, ForgetReport, ForgetReason, Reset,
                Read, StartReading, ReadNext, Serve, vars
  <2> QED BY <1>6, <2>1
<1> QED BY <1>2, <1>3, <1>4, <1>5, <1>6, <1>7, <1>8 DEF Next, Proceed

\* For every station and every situation, the rules turn the fewest sets that will do, and the
\* incumbent practice can lose any one of its sets.
THEOREM FewestCommitted == Spec => []RulesCommitFewest
<1>1. Init => Planned
  BY DEF Init, Planned
<1>2. Planned => RulesCommitFewest
  BY FallbackFewest, EfficientIsFewest, SparesDoSpin DEF Planned, RulesCommitFewest
<1> QED BY BooksInvariant, PlannedKept, <1>1, <1>2, PTL DEF Spec

-----------------------------------------------------------------------------
(***************************************************************************)
(* What is proposed adds up.                                               *)
(***************************************************************************)

\* The sets' bands.
LEMMA Bands ==
  \A g \in Gensets : /\ MinStable[g] \in Nat /\ TargetLoad[g] \in Nat /\ BurnOff[g] \in Nat /\ Rated[g] \in Nat \ {0}
                     /\ MinStable[g] <= BurnOff[g] /\ BurnOff[g] <= Rated[g] /\ TargetLoad[g] <= Rated[g]
<1>1. MinStable \in [Gensets -> Nat] /\ TargetLoad \in [Gensets -> Nat] /\ BurnOff \in [Gensets -> Nat]
  BY RulesAssumption
<1>2. Rated \in [Gensets -> Nat \ {0}]
  BY RulesAssumption
<1>3. \A g \in Gensets : MinStable[g] <= BurnOff[g] /\ BurnOff[g] <= Rated[g] /\ TargetLoad[g] <= Rated[g]
  BY RulesAssumption
<1> QED BY <1>1, <1>2, <1>3

\* Equal shares carry the load, unless one is more than a set can give.
LEMMA FallbackCarries ==
  ASSUME NEW load \in Loads
  PROVE  LET on == FallbackOn(load)
             shares == FallbackSetpoints(load)
         IN  Total(shares, on) >= load \/ \E g \in on : shares[g] = Rated[g]
<1> DEFINE on == FallbackOn(load)
           n == Cardinality(on)
           share == load \div n
           shares == FallbackSetpoints(load)
<1>1. on \subseteq Gensets /\ on # {} /\ load \in Nat /\ load % n = 0
  BY FallbackFewest, SituationAssumption, SharesAssumption
<1>2. shares = [g \in on |-> Clip(share, MinStable[g], Rated[g])]
  BY DEF FallbackSetpoints
<1> HIDE DEF on
<1>3. IsFiniteSet(on) /\ n \in Nat \ {0}
  <2>1. IsFiniteSet(on)
    BY <1>1, CapacityIs
  <2> QED BY <1>1, <2>1, FS_CardinalityType, FS_EmptySet
<1> HIDE DEF n, shares
<1>4. share \in Int /\ n * share = load
  BY <1>1, <1>3
<1> HIDE DEF share
<1> SUFFICES ASSUME \A g \in on : shares[g] # Rated[g] PROVE Total(shares, on) >= load
  BY DEF on, shares
<1>5. ASSUME NEW g \in on PROVE shares[g] \in Int /\ share <= shares[g]
  <2>1. MinStable[g] \in Int /\ Rated[g] \in Int /\ MinStable[g] <= Rated[g]
    BY <1>1, Bands
  <2>2. shares[g] = Clip(share, MinStable[g], Rated[g])
    BY <1>2
  <2>3. ~(share > Rated[g])
    BY <1>4, <2>1, <2>2, ClipIs
  <2>4. share <= Rated[g]
    BY <1>4, <2>1, <2>3
  <2>5. Clip(share, MinStable[g], Rated[g]) \in Int /\ share <= Clip(share, MinStable[g], Rated[g])
    BY <1>4, <2>1, <2>4, ClipIs
  <2> QED BY <2>2, <2>5
<1> DEFINE equal == [g \in on |-> share]
<1>6. \A g \in on : equal[g] = share
  OBVIOUS
<1> HIDE DEF equal
<1>7. SumFunctionOnSet(equal, on) = n * share
  BY <1>3, <1>4, <1>6, SumConstant DEF n
<1>8. SumFunctionOnSet(equal, on) <= SumFunctionOnSet(shares, on) /\ SumFunctionOnSet(shares, on) \in Int
  BY <1>3, <1>4, <1>5, <1>6, SumMonotone, SumInt
<1> QED BY <1>1, <1>4, <1>7, <1>8 DEF Total

-----------------------------------------------------------------------------
\* Something is poured into vessels one after the other, each as far as it goes.
Poured(n, amount, room, left) ==
  left = [i \in 0..n |-> IF i = 0 THEN amount ELSE left[i - 1] - Min({left[i - 1], room[i]})]

\* None is poured beyond a vessel, none is lost, and what is left has filled them all.
PoursAll(n, amount, room, left) ==
  /\ \A i \in 0..n : left[i] \in Nat
  /\ left[0] = amount
  /\ \A i \in 1..n : left[i - 1] - left[i] \in 0..room[i]
  /\ left[n] > 0 => \A i \in 1..n : left[i - 1] - left[i] = room[i]
  /\ SumFunctionOnSet([i \in 1..n |-> left[i - 1] - left[i]], 1..n) = amount - left[n]

\* It can be poured whatever there is of it.
LEMMA PouringEnds ==
  ASSUME NEW n \in Nat, NEW amount, NEW room
  PROVE  \E left : Poured(n, amount, room, left)
<1> DEFINE C == {k \in 0..n : ~\E left : Poured(k, amount, room, left)}
<1> SUFFICES ASSUME C # {} PROVE FALSE
  OBVIOUS
<1>1. C \subseteq Nat /\ \A k : k \in C <=> k \in 0..n /\ ~\E left : Poured(k, amount, room, left)
  OBVIOUS
<1> HIDE DEF C
<1>2. PICK k \in C : \A j \in C : k <= j
  BY <1>1, LeastOf
<1>3. k \in 0..n /\ ~\E left : Poured(k, amount, room, left)
  BY <1>1
<1>4. CASE k = 0
  <2> DEFINE left == [i \in 0..0 |-> amount]
  <2>1. left = [i \in 0..0 |-> IF i = 0 THEN amount ELSE left[i - 1] - Min({left[i - 1], room[i]})]
    OBVIOUS
  <2> QED BY <1>3, <1>4, <2>1 DEF Poured
<1>5. CASE k # 0
  <2>1. k - 1 \in 0..n /\ k - 1 \notin C /\ k \in Nat
    BY <1>2, <1>3, <1>5
  <2>2. PICK before : Poured(k - 1, amount, room, before)
    BY <1>1, <2>1
  <2> DEFINE amountAt(f, i) == IF i = 0 THEN amount ELSE f[i - 1] - Min({f[i - 1], room[i]})
             last == amountAt(before, k)
             left == [i \in 0..k |-> IF i = k THEN last ELSE before[i]]
  <2>3. before = [i \in 0..k - 1 |-> amountAt(before, i)]
    BY <2>2 DEF Poured
  <2> HIDE DEF last
  <2>4. ASSUME NEW i \in 0..k PROVE left[i] = amountAt(left, i)
    <3>1. i # 0 => left[i - 1] = before[i - 1]
      BY <2>1
    <3>2. i # k => before[i] = amountAt(before, i)
      <4> HIDE DEF amountAt
      <4> QED BY <2>1, <2>3
    <3>3. amountAt(left, i) = amountAt(before, i)
      <4> HIDE DEF left
      <4> QED BY <3>1
    <3>4. left[i] = IF i = k THEN last ELSE before[i]
      OBVIOUS
    <3> HIDE DEF left, amountAt
    <3> QED BY <3>2, <3>3, <3>4 DEF last
  <2>5. left = [i \in 0..k |-> amountAt(left, i)]
    <3>1. left = [i \in 0..k |-> left[i]]
      OBVIOUS
    <3> HIDE DEF left, amountAt
    <3> QED BY <2>4, <3>1
  <2>6. Poured(k, amount, room, left)
    <3> HIDE DEF left
    <3> QED BY <2>5 DEF Poured
  <2> QED BY <1>3, <2>6
<1> QED BY <1>4, <1>5

LEMMA PouringSound ==
  ASSUME NEW n \in Nat, NEW amount \in Nat, NEW room, \A i \in 1..n : room[i] \in Nat,
         NEW left, Poured(n, amount, room, left)
  PROVE  PoursAll(n, amount, room, left)
<1>1. left = [i \in 0..n |-> IF i = 0 THEN amount ELSE left[i - 1] - Min({left[i - 1], room[i]})]
  BY DEF Poured
<1>2. left[0] = amount
  BY <1>1
<1>3. \A i \in 1..n : left[i] = left[i - 1] - Min({left[i - 1], room[i]})
  <2> SUFFICES ASSUME NEW i \in 1..n PROVE left[i] = left[i - 1] - Min({left[i - 1], room[i]})
    OBVIOUS
  <2>1. i \in 0..n /\ i # 0
    OBVIOUS
  <2> QED BY <1>1, <2>1
<1>4. ASSUME NEW i \in 1..n, left[i - 1] \in Nat
      PROVE  left[i] = IF left[i - 1] <= room[i] THEN 0 ELSE left[i - 1] - room[i]
  <2>1. Min({left[i - 1], room[i]}) = IF left[i - 1] <= room[i] THEN left[i - 1] ELSE room[i]
    BY <1>4, MinTwo
  <2> QED BY <1>3, <1>4, <2>1
<1>5. \A i \in 0..n : left[i] \in Nat
  <2> DEFINE C == {i \in 0..n : left[i] \notin Nat}
  <2> SUFFICES ASSUME C # {} PROVE FALSE
    OBVIOUS
  <2>1. C \subseteq Nat
    OBVIOUS
  <2>2. PICK k \in C : \A j \in C : k <= j
    BY <2>1, LeastOf
  <2>3. k \in 0..n /\ left[k] \notin Nat /\ k # 0
    BY <1>2
  <2>4. k \in 1..n /\ k - 1 \in 0..n /\ k - 1 \notin C
    BY <2>2, <2>3
  <2>5. left[k - 1] \in Nat
    BY <2>4
  <2>6. room[k] \in Nat
    BY <2>4
  <2> QED BY <1>4, <2>3, <2>4, <2>5, <2>6
<1>6. ASSUME NEW i \in 1..n
      PROVE  /\ left[i - 1] \in Nat /\ left[i] \in Nat /\ room[i] \in Nat
             /\ left[i] = IF left[i - 1] <= room[i] THEN 0 ELSE left[i - 1] - room[i]
  <2>1. i - 1 \in 0..n /\ i \in 0..n
    OBVIOUS
  <2> QED BY <1>4, <1>5, <2>1
<1>7. \A i \in 1..n : left[i - 1] - left[i] \in 0..room[i]
  BY <1>6
\* Where nothing is left, nothing is left after.
<1>8. ASSUME NEW i \in 0..n, left[i] = 0 PROVE left[n] = 0
  <2> DEFINE C == {j \in i..n : left[j] # 0}
  <2> SUFFICES ASSUME C # {} PROVE FALSE
    BY <1>8
  <2>1. C \subseteq Nat
    OBVIOUS
  <2>2. PICK k \in C : \A j \in C : k <= j
    BY <2>1, LeastOf
  <2>3. k \in i..n /\ left[k] # 0 /\ k # i
    BY <1>8
  <2>4. k \in 1..n /\ k - 1 \in i..n /\ k - 1 \notin C
    BY <2>2, <2>3
  <2>5. left[k - 1] = 0
    BY <2>4
  <2> QED BY <1>6, <2>3, <2>4, <2>5
<1>9. ASSUME left[n] > 0, NEW i \in 1..n PROVE left[i - 1] - left[i] = room[i]
  <2>1. i \in 0..n /\ left[i] # 0
    BY <1>8, <1>9
  <2> QED BY <1>6, <2>1
<1> DEFINE poured == [i \in 1..n |-> left[i - 1] - left[i]]
<1>10. \A i \in 1..n : poured[i] = left[i - 1] - left[i] /\ poured[i] \in Int
  BY <1>6
<1>11. SumFunctionOnSet(poured, 1..n) = amount - left[n]
  <2> DEFINE ok(k) == SumFunctionOnSet(poured, 1..k) = amount - left[k]
             C == {k \in 0..n : ~ok(k)}
  <2>1. C \subseteq Nat /\ \A k : k \in C <=> k \in 0..n /\ ~ok(k)
    OBVIOUS
  <2> HIDE DEF poured, ok, C
  <2>2. ASSUME C # {} PROVE FALSE
    <3>1. PICK k \in C : \A j \in C : k <= j
      BY <2>1, <2>2, LeastOf
    <3>2. k \in 0..n /\ ~ok(k)
      BY <2>1
    <3>3. k # 0
      <4>1. 1..0 = {} /\ amount - left[0] = 0
        BY <1>2
      <4>2. ok(0)
        BY <4>1, SumEmpty DEF ok
      <4> QED BY <3>2, <4>2
    <3>4. k \in 1..n /\ k - 1 \in 0..n /\ k - 1 \notin C
      BY <3>1, <3>2, <3>3
    <3>5. SumFunctionOnSet(poured, 1..k - 1) = amount - left[k - 1]
      BY <2>1, <3>4 DEF ok
    <3> DEFINE upto == 1..k
    <3>6. upto \ {k} = 1..k - 1 /\ k \in upto /\ \A j \in upto : j \in 1..n
      BY <3>4
    <3>a. IsFiniteSet(upto)
      BY <3>4, FS_Interval
    <3>7. SumFunctionOnSet(poured, 1..k) = poured[k] + SumFunctionOnSet(poured, 1..k - 1)
      <4> HIDE DEF upto
      <4>1. \A j \in upto : poured[j] \in Int
        BY <1>10, <3>6
      <4>2. SumFunctionOnSet(poured, upto) = poured[k] + SumFunctionOnSet(poured, upto \ {k})
        BY <3>6, <3>a, <4>1, SumRemove
      <4> QED BY <3>6, <4>2 DEF upto
    <3>8. poured[k] = left[k - 1] - left[k] /\ left[k - 1] \in Nat /\ left[k] \in Nat
      BY <1>6, <1>10, <3>4
    <3>9. ok(k)
      BY <3>5, <3>7, <3>8 DEF ok
    <3> QED BY <3>2, <3>9
  <2>3. n \in 0..n
    OBVIOUS
  <2> QED BY <2>1, <2>2, <2>3 DEF ok
<1> QED BY <1>2, <1>5, <1>7, <1>9, <1>11 DEF PoursAll

-----------------------------------------------------------------------------
\* What the environment can play of a proposal: the target load is a stable one, and the
\* melting owed is no more than the melters do.  Where it is more, encode_command clips it.
Playable ==
  /\ \A g \in Gensets : MinStable[g] <= TargetLoad[g]
  /\ \A s \in Situations : s.melt <= MeltersMax

\* What is committed, together, and how much of it is asked for.
LEMMA CarriedTogether ==
  ASSUME NEW s \in Situations, CommitKw(s) # 0
  PROVE  /\ Capacity(EfficientOn(s)) \in Nat \ {0} /\ Target(s) \in Int
         /\ Target(s) <= Capacity(EfficientOn(s))
         /\ Capacity(EfficientOn(s)) >= CommitKw(s) => Target(s) >= Net(s)
<1> DEFINE on == EfficientOn(s)
           carried == Capacity(on)
           mins == Total(MinStable, on)
           wanted == Max({Net(s), mins})
<1>1. /\ Net(s) \in Int /\ CommitKw(s) \in Nat \ {0} /\ CommitKw(s) >= Net(s)
  BY SituationNumbers
<1>2. on \subseteq Gensets /\ IsFiniteSet(on) /\ carried \in Int /\ (carried >= CommitKw(s) \/ on = Gensets)
  BY EfficientCommits
<1>3. mins \in Int
  <2>1. \A g \in on : MinStable[g] \in Int
    BY <1>2, Bands
  <2> QED BY <1>2, <2>1, SumInt DEF Total
<1>4. Target(s) = Min({wanted, carried})
  BY DEF Target
<1> HIDE DEF on, carried, mins
<1>5. wanted \in Int /\ wanted >= Net(s)
  BY <1>1, <1>3, MaxTwo
<1> HIDE DEF wanted
<1>6. Target(s) \in Int /\ Target(s) <= carried /\ (carried >= CommitKw(s) => Target(s) >= Net(s))
  BY <1>1, <1>2, <1>4, <1>5, MinTwo
<1>7. carried > 0
  <2>1. CASE carried >= CommitKw(s)
    BY <1>1, <1>2, <2>1
  <2>2. CASE on = Gensets
    <3>1. PICK g \in Gensets : TRUE
      BY RulesAssumption
    <3>2. {g} \in SUBSET Gensets /\ {g} \ {g} = {}
      OBVIOUS
    <3>3. Capacity({g}) = Rated[g] + Capacity({}) /\ Capacity({}) = 0 /\ Rated[g] \in Nat \ {0}
      BY <3>2, CapacityIs
    <3>4. Capacity({g}) <= Capacity(Gensets)
      BY CapacityGrows
    <3> QED BY <1>2, <2>2, <3>3, <3>4 DEF carried
  <2> QED BY <1>2, <2>1, <2>2
<1> QED BY <1>2, <1>6, <1>7 DEF on, carried

\* What the sets are asked for is within their bands.
LEMMA SharesInBand ==
  ASSUME Playable, NEW s \in Situations, NEW g \in EfficientOn(s)
  PROVE  /\ Shares(s)[g] \in Nat /\ MinStable[g] <= Shares(s)[g] /\ Shares(s)[g] <= Rated[g]
         /\ Raised(s)[g] \in Nat /\ MinStable[g] <= Raised(s)[g] /\ Raised(s)[g] <= Rated[g]
<1>1. g \in Gensets
  BY EfficientCommits
<1>2. /\ MinStable[g] \in Nat /\ TargetLoad[g] \in Nat /\ BurnOff[g] \in Nat /\ Rated[g] \in Nat
      /\ MinStable[g] <= BurnOff[g] /\ BurnOff[g] <= Rated[g] /\ TargetLoad[g] <= Rated[g]
      /\ MinStable[g] <= TargetLoad[g]
  BY <1>1, Bands DEF Playable
<1> DEFINE share == (Rated[g] * Target(s)) \div Capacity(EfficientOn(s))
           clipped == Clip(share, MinStable[g], Rated[g])
<1>3. Shares(s)[g] = IF CommitKw(s) = 0 THEN TargetLoad[g] ELSE clipped
  BY DEF Shares
<1>4. CommitKw(s) # 0 => share \in Int
  <2> SUFFICES ASSUME CommitKw(s) # 0 PROVE share \in Int
    OBVIOUS
  <2>1. Capacity(EfficientOn(s)) \in Nat \ {0} /\ Target(s) \in Int
    BY CarriedTogether
  <2> QED BY <1>2, <2>1
<1> HIDE DEF share
<1>5. CommitKw(s) # 0 => clipped \in Int /\ MinStable[g] <= clipped /\ clipped <= Rated[g]
  <2>1. MinStable[g] \in Int /\ Rated[g] \in Int /\ MinStable[g] <= Rated[g]
    BY <1>2
  <2> QED BY <1>4, <2>1, ClipIs
<1> HIDE DEF clipped
<1>6. Shares(s)[g] \in Nat /\ MinStable[g] <= Shares(s)[g] /\ Shares(s)[g] <= Rated[g]
  BY <1>2, <1>3, <1>5
<1>7. Raised(s)[g] = IF g \in s.fouled THEN BurnOff[g] ELSE Shares(s)[g]
  BY DEF Raised
<1> QED BY <1>2, <1>6, <1>7

\* The shares carry the net load, or there is nothing left to commit.
LEMMA SharesCarry ==
  ASSUME Playable, NEW s \in Situations
  PROVE  /\ Total(Shares(s), EfficientOn(s)) \in Int
         /\ Total(Shares(s), EfficientOn(s)) >= Net(s) \/ EfficientOn(s) = Gensets
<1> DEFINE on == EfficientOn(s)
           carried == Capacity(on)
           target == Target(s)
           shares == Shares(s)
           asked == SumFunctionOnSet(shares, on)
<1>1. on \subseteq Gensets /\ IsFiniteSet(on) /\ carried \in Int /\ (carried >= CommitKw(s) \/ on = Gensets)
  BY EfficientCommits
<1>2. \A g \in on : shares[g] \in Nat
  BY SharesInBand
<1>3. Net(s) \in Int /\ CommitKw(s) \in Nat /\ CommitKw(s) >= Net(s)
  BY SituationNumbers
<1>4. asked \in Int /\ asked >= 0
  <2> HIDE DEF on, shares
  <2>1. \A g \in on : shares[g] \in Int
    BY <1>2
  <2>2. asked \in Int
    BY <1>1, <2>1, SumInt
  <2>3. {} \in SUBSET on /\ \A g \in on \ {} : shares[g] >= 0
    BY <1>2
  <2>4. SumFunctionOnSet(shares, {}) <= asked
    BY <1>1, <2>1, <2>3, SumPart
  <2>5. SumFunctionOnSet(shares, {}) = 0
    BY SumEmpty
  <2> QED BY <2>2, <2>4, <2>5
<1> SUFFICES ASSUME on # Gensets PROVE asked >= Net(s)
  BY <1>4 DEF Total
<1>5. CASE CommitKw(s) = 0
  BY <1>3, <1>4, <1>5
<1>6. CASE CommitKw(s) # 0
  <2> DEFINE share(g) == (Rated[g] * target) \div carried
             part == [g \in on |-> share(g)]
             whole == [g \in on |-> carried * part[g]]
  <2>1. carried \in Nat \ {0} /\ target \in Int /\ target <= carried /\ target >= Net(s)
    BY <1>1, <1>6, CarriedTogether
  <2>2. \A g \in on : (Rated[g] * target) % carried = 0
    BY <1>6, SharesAssumption
  <2>3. \A g \in on : shares[g] = Clip(share(g), MinStable[g], Rated[g])
    BY <1>6 DEF Shares
  <2> HIDE DEF on, carried, target, shares
  <2>4. ASSUME NEW g \in on
        PROVE  share(g) \in Int /\ carried * share(g) = Rated[g] * target /\ share(g) <= Rated[g]
    <3> DEFINE r == Rated[g]
    <3>1. r \in Nat \ {0}
      BY <1>1, Bands
    <3>2. r * target \in Int /\ (r * target) % carried = 0
      BY <2>1, <2>2, <3>1
    <3>3. share(g) \in Int /\ carried * share(g) = r * target
      BY <2>1, <3>2
    <3> DEFINE x == share(g)
    <3> HIDE DEF r, x
    <3>4. x <= r
      <4> SUFFICES ASSUME x >= r + 1 PROVE FALSE
        BY <3>1, <3>3 DEF x
      <4>1. x \in Int /\ carried * x = r * target
        BY <3>3 DEF x
      <4>2. carried * (x - r) >= carried
        <5>1. (x - r) - 1 \in Nat
          BY <3>1, <4>1
        <5>2. carried * ((x - r) - 1) >= 0
          BY <2>1, <5>1
        <5>3. carried * ((x - r) - 1) = carried * (x - r) - carried
          BY <2>1, <3>1, <4>1
        <5>4. carried * (x - r) \in Int
          BY <2>1, <3>1, <4>1
        <5> QED BY <2>1, <5>2, <5>3, <5>4
      <4>3. r * (carried - target) >= 0
        <5>1. carried - target \in Nat
          BY <2>1
        <5> QED BY <3>1, <5>1
      <4>4. carried * (x - r) = carried * x - carried * r
        BY <2>1, <3>1, <4>1
      <4>5. r * (carried - target) = carried * r - r * target
        BY <2>1, <3>1
      <4>6. carried * x \in Int /\ carried * r \in Int /\ r * target \in Int
        BY <2>1, <3>1, <4>1
      <4> QED BY <2>1, <4>1, <4>2, <4>3, <4>4, <4>5, <4>6
    <3> QED BY <3>3, <3>4 DEF r, x
  <2> HIDE DEF share
  <2>5. \A g \in on : part[g] = share(g) /\ part[g] \in Int /\ whole[g] = carried * part[g]
    BY <2>4
  <2>6. \A g \in on : Rated[g] \in Int /\ whole[g] = target * Rated[g] /\ whole[g] \in Int
    <3> SUFFICES ASSUME NEW g \in on PROVE Rated[g] \in Int /\ whole[g] = target * Rated[g] /\ whole[g] \in Int
      OBVIOUS
    <3>1. Rated[g] \in Int
      BY <1>1, Bands
    <3>2. whole[g] = Rated[g] * target
      BY <2>4, <2>5
    <3> HIDE DEF whole
    <3> QED BY <2>1, <3>1, <3>2
  <2>7. SumFunctionOnSet(Rated, on) = carried
    BY DEF carried, Capacity, Total
  <2> HIDE DEF part, whole
  <2>8. SumFunctionOnSet(whole, on) = carried * SumFunctionOnSet(part, on)
    BY <1>1, <2>1, <2>5, SumScaled
  <2>9. SumFunctionOnSet(whole, on) = target * carried
    <3>1. SumFunctionOnSet(whole, on) = target * SumFunctionOnSet(Rated, on)
      BY <1>1, <2>1, <2>6, SumScaled
    <3> QED BY <2>7, <3>1
  <2> DEFINE parts == SumFunctionOnSet(part, on)
  <2>10. parts \in Int
    BY <1>1, <2>5, SumInt
  <2> HIDE DEF parts
  <2>11. parts = target
    <3>1. carried * parts = target * carried
      BY <2>8, <2>9 DEF parts
    <3>2. carried * (parts - target) = 0
      BY <2>1, <2>10, <3>1
    <3> QED BY <2>1, <2>10, <3>2
  <2>12. ASSUME NEW g \in on PROVE shares[g] \in Int /\ part[g] <= shares[g]
    <3>1. MinStable[g] \in Int /\ Rated[g] \in Int /\ MinStable[g] <= Rated[g]
      BY <1>1, Bands
    <3>2. share(g) \in Int /\ share(g) <= Rated[g]
      BY <2>4
    <3>3. Clip(share(g), MinStable[g], Rated[g]) \in Int /\ share(g) <= Clip(share(g), MinStable[g], Rated[g])
      BY <3>1, <3>2, ClipIs
    <3> QED BY <2>3, <2>5, <3>3
  <2>13. parts <= asked
    BY <1>1, <2>5, <2>12, SumMonotone DEF parts
  <2> HIDE DEF asked
  <2> QED BY <1>3, <1>4, <2>1, <2>10, <2>11, <2>13
<1> QED BY <1>5, <1>6

\* Melting and charging take what is left over, as far as they can, and no more.
LEMMA Absorbed ==
  ASSUME Playable, NEW s \in Situations, Surplus(s) \in Nat
  PROVE  \E left \in Nat :
           /\ Melting(s) \in Nat /\ s.melt <= Melting(s) /\ Melting(s) <= MeltersMax
           /\ \A i \in DOMAIN Packs : Charging(s)[i] \in 0..s.charge[i]
           /\ Charging(s) = [i \in DOMAIN Packs |-> Charging(s)[i]]
           /\ Melting(s) + Total(Charging(s), DOMAIN Packs) = s.melt + Surplus(s) - left
           /\ left > 0 => Melting(s) >= MeltersMax /\ \A i \in DOMAIN Packs : Charging(s)[i] = s.charge[i]
<1> DEFINE surplus == Surplus(s)
           room == MeltersMax - s.melt
           melted == Min({surplus, Max({room, 0})})
           n == Len(Packs)
           amount == surplus - (Melting(s) - s.melt)
<1>1. s.melt \in Nat /\ MeltersMax \in Nat /\ s.melt <= MeltersMax /\ \A i \in DOMAIN Packs : s.charge[i] \in Nat
  BY SituationNumbers DEF Playable
<1>2. n \in Nat /\ DOMAIN Packs = 1..n
  BY RulesAssumption
<1>3. Melting(s) = s.melt + melted
  BY DEF Melting
<1>4. melted \in Nat /\ melted <= surplus /\ melted <= room /\ (melted < surplus => melted = room)
  <2>1. room \in Nat
    BY <1>1
  <2> HIDE DEF room, surplus
  <2>2. Max({room, 0}) = room
    BY <2>1, MaxTwo
  <2>3. melted = Min({surplus, room})
    BY <2>2
  <2>4. surplus \in Nat
    BY DEF surplus
  <2> HIDE DEF melted
  <2> QED BY <2>1, <2>3, <2>4, MinTwo
<1> HIDE DEF melted
<1>5. amount \in Nat /\ amount = surplus - melted
  BY <1>1, <1>3, <1>4
<1>6. PICK left : Poured(n, amount, s.charge, left)
                  /\ Charging(s) = [i \in DOMAIN Packs |-> left[i - 1] - left[i]]
  <2> DEFINE L0 == CHOOSE left : left = [i \in 0..n |-> IF i = 0 THEN amount ELSE left[i - 1] - Min({left[i - 1], s.charge[i]})]
  <2>1. Charging(s) = [i \in DOMAIN Packs |-> L0[i - 1] - L0[i]]
    BY DEF Charging
  <2>2. \E left : left = [i \in 0..n |-> IF i = 0 THEN amount ELSE left[i - 1] - Min({left[i - 1], s.charge[i]})]
    <3> HIDE DEF amount, n
    <3>1. \E left : Poured(n, amount, s.charge, left)
      BY <1>2, PouringEnds
    <3> QED BY <3>1 DEF Poured
  <2>3. Poured(n, amount, s.charge, L0)
    <3> HIDE DEF amount, n
    <3> QED BY <2>2 DEF Poured
  <2> QED BY <2>1, <2>3
<1> HIDE DEF amount, n, surplus
<1>7. /\ \A i \in 0..n : left[i] \in Nat
      /\ \A i \in 1..n : left[i - 1] - left[i] \in 0..s.charge[i]
      /\ left[n] > 0 => \A i \in 1..n : left[i - 1] - left[i] = s.charge[i]
      /\ SumFunctionOnSet([i \in 1..n |-> left[i - 1] - left[i]], 1..n) = amount - left[n]
      /\ left[0] = amount
  <2>1. amount \in Nat /\ n \in Nat /\ \A i \in 1..n : s.charge[i] \in Nat
    BY <1>1, <1>2, <1>5
  <2>2. Poured(n, amount, s.charge, left)
    BY <1>6
  <2> DEFINE vessels == s.charge
  <2>3. \A i \in 1..n : vessels[i] \in Nat
    BY <2>1
  <2>4. Poured(n, amount, vessels, left)
    BY <2>2
  <2> HIDE DEF vessels
  <2>5. /\ \A i \in 0..n : left[i] \in Nat
        /\ left[0] = amount
        /\ \A i \in 1..n : left[i - 1] - left[i] \in 0..vessels[i]
        /\ left[n] > 0 => \A i \in 1..n : left[i - 1] - left[i] = vessels[i]
        /\ SumFunctionOnSet([i \in 1..n |-> left[i - 1] - left[i]], 1..n) = amount - left[n]
    <3>1. amount \in Nat /\ n \in Nat
      BY <2>1
    <3>2. PoursAll(n, amount, vessels, left)
      BY <3>1, <2>3, <2>4, PouringSound
    <3> QED BY <3>2, Zenon DEF PoursAll
  <2> QED BY <2>5, Zenon DEF vessels
<1>8. left[n] \in Nat
  BY <1>2, <1>7
<1>9. Total(Charging(s), DOMAIN Packs) = amount - left[n]
  BY <1>2, <1>6, <1>7 DEF Total
<1>10. \A i \in DOMAIN Packs : Charging(s)[i] = left[i - 1] - left[i]
  BY <1>6
<1>11. \A i \in DOMAIN Packs : Charging(s)[i] \in 0..s.charge[i]
  BY <1>2, <1>7, <1>10
<1>12. left[n] > 0 => melted < surplus
  <2>0. melted < surplus \/ amount = 0
    BY <1>4, <1>5 DEF surplus
  <2> SUFFICES ASSUME left[n] > 0, amount = 0 PROVE FALSE
    BY <2>0
  <2> DEFINE charged == [i \in 1..n |-> left[i - 1] - left[i]]
  <2>1. \A i \in 1..n : charged[i] \in Int /\ charged[i] >= 0
    <3> SUFFICES ASSUME NEW i \in 1..n PROVE charged[i] \in Int /\ charged[i] >= 0
      OBVIOUS
    <3>1. left[i - 1] \in Nat /\ left[i] \in Nat /\ s.charge[i] \in Nat
      BY <1>1, <1>2, <1>7
    <3>2. charged[i] = left[i - 1] - left[i]
      OBVIOUS
    <3>3. charged[i] \in 0..s.charge[i]
      BY <1>7
    <3> HIDE DEF charged
    <3> QED BY <3>1, <3>2, <3>3
  <2>2. IsFiniteSet(1..n) /\ {} \in SUBSET (1..n)
    BY <1>2, FS_Interval
  <2> HIDE DEF charged
  <2>3. SumFunctionOnSet(charged, {}) <= SumFunctionOnSet(charged, 1..n)
    BY <2>1, <2>2, SumPart
  <2>4. SumFunctionOnSet(charged, {}) = 0
    BY SumEmpty
  <2>5. SumFunctionOnSet(charged, 1..n) = amount - left[n]
    BY <1>7 DEF charged
  <2> QED BY <1>8, <2>3, <2>4, <2>5
<1>13. left[n] > 0 => Melting(s) >= MeltersMax /\ \A i \in DOMAIN Packs : Charging(s)[i] = s.charge[i]
  <2>1. left[n] > 0 => \A i \in DOMAIN Packs : Charging(s)[i] = s.charge[i]
    BY <1>2, <1>7, <1>10
  <2>2. melted < surplus => Melting(s) >= MeltersMax
    <3>1. melted < surplus => melted = MeltersMax - s.melt
      BY <1>4
    <3> QED BY <1>1, <1>3, <1>4, <3>1
  <2> QED BY <1>12, <2>1, <2>2
<1>14. Melting(s) \in Nat /\ s.melt <= Melting(s) /\ Melting(s) <= MeltersMax
  BY <1>1, <1>3, <1>4
<1>15. Melting(s) + Total(Charging(s), DOMAIN Packs) = s.melt + surplus - left[n]
  <2>1. surplus \in Nat
    BY DEF surplus
  <2> QED BY <1>1, <1>3, <1>4, <1>5, <1>8, <1>9, <2>1
<1> QED BY <1>6, <1>8, <1>10, <1>11, <1>13, <1>14, <1>15 DEF surplus

\* EfficientRuleBased asks for what it makes, and the environment plays it as it is.
LEMMA EfficientAddsUp == ASSUME Playable PROVE EfficientBalances
<1> SUFFICES ASSUME NEW s \in Situations
             PROVE  /\ Recoded(s) = [setpoints |-> Raised(s), charging |-> Charging(s), melting |-> Melting(s)]
                    /\ s.fouled \intersect EfficientOn(s) = {} =>
                         LET used == s.electrical + Melting(s) + Total(Charging(s), DOMAIN Packs)
                         IN  /\ used <= Supply(s) \/ EfficientOn(s) = Gensets
                             /\ used >= Supply(s) \/ (Melting(s) >= MeltersMax /\ \A i \in DOMAIN Packs : Charging(s)[i] = s.charge[i])
  BY DEF EfficientBalances
<1> DEFINE on == EfficientOn(s)
<1>1. /\ s.electrical \in Nat /\ s.melt \in Nat /\ s.renewable \in Nat /\ MeltersMax \in Nat
      /\ \A i \in DOMAIN Packs : s.charge[i] \in Nat
      /\ Net(s) = s.electrical + s.melt - s.renewable
  BY SituationNumbers
<1>2. on \subseteq Gensets /\ IsFiniteSet(on)
  BY EfficientCommits
<1>3. \A g \in on : /\ Shares(s)[g] \in Nat /\ MinStable[g] <= Shares(s)[g] /\ Shares(s)[g] <= Rated[g]
                    /\ Raised(s)[g] \in Nat /\ MinStable[g] <= Raised(s)[g] /\ Raised(s)[g] <= Rated[g]
  BY SharesInBand
<1>4. Supply(s) \in Int /\ Supply(s) = Total(Raised(s), on) + s.renewable
  <2>1. \A g \in on : Raised(s)[g] \in Int
    BY <1>3
  <2>2. SumFunctionOnSet(Raised(s), on) \in Int
    BY <1>2, <2>1, SumInt
  <2> QED BY <1>1, <2>2 DEF Supply, Total
<1> DEFINE more == [g \in on |-> IF g \in s.fouled THEN Max({BurnOff[g] - Shares(s)[g], 0}) ELSE 0]
<1>5. Extra(s) = SumFunctionOnSet(more, on)
  BY DEF Extra, Total
<1>6. \A g \in on : more[g] \in Nat
  <2> SUFFICES ASSUME NEW g \in on PROVE more[g] \in Nat
    OBVIOUS
  <2>1. BurnOff[g] \in Nat /\ Shares(s)[g] \in Nat
    BY <1>2, <1>3, Bands
  <2> DEFINE d == BurnOff[g] - Shares(s)[g]
  <2>2. d \in Int
    BY <2>1
  <2> HIDE DEF d
  <2>3. Max({d, 0}) \in Nat
    BY <2>2, MaxTwo
  <2> QED BY <2>3 DEF d
<1>7. s.fouled \intersect on = {} => \A g \in on : more[g] = 0
  OBVIOUS
<1> HIDE DEF on, more
<1>8. Extra(s) \in Nat /\ (s.fouled \intersect on = {} => Extra(s) = 0)
  <2>1. \A g \in on : more[g] \in Int /\ more[g] >= 0
    BY <1>6
  <2>2. SumFunctionOnSet(more, on) \in Int
    BY <1>2, <2>1, SumInt
  <2>3. {} \in SUBSET on /\ SumFunctionOnSet(more, {}) = 0
    BY SumEmpty
  <2>4. SumFunctionOnSet(more, {}) <= SumFunctionOnSet(more, on)
    BY <1>2, <2>1, <2>3, SumPart
  <2>5. (\A g \in on : more[g] = 0) => SumFunctionOnSet(more, {}) = SumFunctionOnSet(more, on)
    BY <1>2, <2>1, <2>3, SumPart
  <2> QED BY <1>5, <1>7, <2>2, <2>3, <2>4, <2>5
<1> DEFINE over == Supply(s) - s.electrical - s.melt
<1>9. Surplus(s) = Max({over, 0}) + Extra(s) /\ over \in Int
  BY <1>1, <1>4 DEF Surplus
<1> HIDE DEF over
<1>10. Surplus(s) \in Nat /\ Surplus(s) = (IF over <= 0 THEN 0 ELSE over) + Extra(s)
  BY <1>8, <1>9, MaxTwo
<1>11. PICK left \in Nat :
         /\ Melting(s) \in Nat /\ s.melt <= Melting(s) /\ Melting(s) <= MeltersMax
         /\ \A i \in DOMAIN Packs : Charging(s)[i] \in 0..s.charge[i]
         /\ Charging(s) = [i \in DOMAIN Packs |-> Charging(s)[i]]
         /\ Melting(s) + Total(Charging(s), DOMAIN Packs) = s.melt + Surplus(s) - left
         /\ left > 0 => Melting(s) >= MeltersMax /\ \A i \in DOMAIN Packs : Charging(s)[i] = s.charge[i]
  BY <1>10, Absorbed
<1>12. Recoded(s) = [setpoints |-> Raised(s), charging |-> Charging(s), melting |-> Melting(s)]
  <2>1. [g \in EfficientOn(s) |-> Clip(Raised(s)[g], MinStable[g], Rated[g])] = Raised(s)
    <3>1. ASSUME NEW g \in EfficientOn(s) PROVE Clip(Raised(s)[g], MinStable[g], Rated[g]) = Raised(s)[g]
      <4>1. /\ MinStable[g] \in Int /\ Rated[g] \in Int /\ MinStable[g] <= Rated[g]
            /\ Raised(s)[g] \in Int /\ MinStable[g] <= Raised(s)[g] /\ Raised(s)[g] <= Rated[g]
        BY <1>2, <1>3, Bands DEF on
      <4> QED BY <4>1, ClipIs
    <3>2. Raised(s) = [g \in EfficientOn(s) |-> Raised(s)[g]]
      BY DEF Raised
    <3> QED BY <3>1, <3>2
  <2>2. [i \in DOMAIN Packs |-> Clip(Charging(s)[i], 0, s.charge[i])] = Charging(s)
    <3>1. ASSUME NEW i \in DOMAIN Packs PROVE Clip(Charging(s)[i], 0, s.charge[i]) = Charging(s)[i]
      <4>1. /\ s.charge[i] \in Int /\ 0 \in Int /\ 0 <= s.charge[i]
            /\ Charging(s)[i] \in Int /\ 0 <= Charging(s)[i] /\ Charging(s)[i] <= s.charge[i]
        BY <1>1, <1>11
      <4> QED BY <4>1, ClipIs
    <3> QED BY <1>11, <3>1
  <2>3. Clip(Melting(s), 0, MeltersMax) = Melting(s)
    <3>1. /\ Melting(s) \in Int /\ 0 \in Int /\ MeltersMax \in Int /\ 0 <= MeltersMax
          /\ 0 <= Melting(s) /\ Melting(s) <= MeltersMax
      BY <1>1, <1>11
    <3> QED BY <3>1, ClipIs
  <2> QED BY <2>1, <2>2, <2>3 DEF Recoded
<1> DEFINE used == s.electrical + Melting(s) + Total(Charging(s), DOMAIN Packs)
<1>13. Total(Charging(s), DOMAIN Packs) \in Int
  <2>1. \A i \in DOMAIN Packs : Charging(s)[i] \in Int
    BY <1>1, <1>11
  <2>2. IsFiniteSet(DOMAIN Packs)
    BY SituationNumbers
  <2> QED BY <2>1, <2>2, SumInt DEF Total
<1>14. used \in Int /\ used = s.electrical + s.melt + Surplus(s) - left
  BY <1>1, <1>10, <1>11, <1>13
<1> HIDE DEF used
<1>15. ASSUME s.fouled \intersect on = {}
       PROVE  /\ used <= Supply(s) \/ on = Gensets
              /\ used >= Supply(s) \/ (Melting(s) >= MeltersMax /\ \A i \in DOMAIN Packs : Charging(s)[i] = s.charge[i])
  <2>1. Extra(s) = 0
    BY <1>8, <1>15
  <2>2. Total(Raised(s), on) = Total(Shares(s), on)
    <3>1. \A g \in on : Raised(s)[g] \in Int /\ Raised(s)[g] = Shares(s)[g]
      BY <1>3, <1>15 DEF Raised, on
    <3> QED BY <1>2, <3>1, SumSame DEF Total
  <2>4. Total(Shares(s), on) \in Int /\ (Total(Shares(s), on) >= Net(s) \/ on = Gensets)
    BY SharesCarry DEF on
  <2>5. over >= 0 \/ on = Gensets
    BY <1>1, <1>4, <2>2, <2>4 DEF over
  <2>6. used <= Supply(s) \/ on = Gensets
    BY <1>1, <1>4, <1>10, <1>14, <2>1, <2>5 DEF over
  <2>7. left = 0 => used >= Supply(s)
    BY <1>1, <1>4, <1>10, <1>14, <2>1 DEF over
  <2> QED BY <1>11, <2>6, <2>7
<1> QED BY <1>12, <1>15 DEF on, used

\* For every station and every situation with whole shares, what the rules propose adds up.
THEOREM ProposalsAddUp == Playable => (Spec => []ProposalBalances)
<1> SUFFICES ASSUME Playable PROVE Spec => []ProposalBalances
  OBVIOUS
<1>1. Init => Planned
  BY DEF Init, Planned
<1>2. Planned => ProposalBalances
  BY FallbackCarries, EfficientAddsUp DEF Planned, ProposalBalances
<1> QED BY BooksInvariant, PlannedKept, <1>1, <1>2, PTL DEF Spec

-----------------------------------------------------------------------------
(***************************************************************************)
(* The monitors of sensors and controller: what they say of the last       *)
(* observations and interventions.                                         *)
(***************************************************************************)
SensorSpec == InitSensors /\ [][Monitor]_sensorVars

\* What has been read on a channel, the latest last.
LastRun(k, c) ==
  LET r == received[k] n == Len(r) h == history[k][c]
  IN  IF n = 0 THEN h = [last |-> Missing, repeats |-> 0]
      ELSE /\ h.last = r[n][c]
           /\ h.repeats < n
           /\ \A i \in n - h.repeats..n : r[i][c] = r[n][c]
           /\ h.repeats + 1 < n => r[n - h.repeats - 1][c] # r[n][c]

ReadingsKept ==
  /\ \A k \in Keys : received[k] \in Seq([Channels[k] -> Readings[k]])
  /\ DOMAIN received = Keys /\ received = [k \in Keys |-> received[k]]
  /\ \A k \in Keys : history[k] \in [Channels[k] -> [last : Readings[k] \union {Missing}, repeats : Nat]]
  /\ history = [k \in Keys |-> history[k]]
  /\ \A k \in Keys : \A c \in Channels[k] : LastRun(k, c)

WindowKept ==
  /\ reports \in Seq(BOOLEAN)
  /\ window \in Seq(BOOLEAN)
  /\ Len(window) = IF Len(reports) < Interventions THEN Len(reports) ELSE Interventions
  /\ \A i \in 1..Len(window) : window[i] = reports[Len(reports) - Len(window) + i]

Assessed ==
  reports # <<>> =>
    /\ assessment.grades = [k \in Keys |-> GradeOf(k)]
    /\ assessment.flagged => 2 * assessment.trust < assessment.of

SensorInv == ReadingsKept /\ WindowKept /\ Assessed

LEMMA SensorStart == InitSensors => SensorInv
<1>. SUFFICES ASSUME InitSensors PROVE SensorInv
  OBVIOUS
<1>1. ReadingsKept
  <2>. USE SensorAssumption DEF InitSensors
  <2>1. ASSUME NEW k \in Keys PROVE received[k] = <<>> /\ Len(received[k]) = 0
    OBVIOUS
  <2>2. ASSUME NEW k \in Keys PROVE received[k] \in Seq([Channels[k] -> Readings[k]])
    BY <2>1
  <2>3. ASSUME NEW k \in Keys, NEW c \in Channels[k] PROVE LastRun(k, c)
    BY <2>1 DEF LastRun
  <2>. QED BY <2>1, <2>2, <2>3 DEF ReadingsKept
<1>2. WindowKept
  BY SensorAssumption DEF WindowKept, InitSensors
<1>3. Assessed
  BY DEF Assessed, InitSensors
<1>. QED BY <1>1, <1>2, <1>3 DEF SensorInv

-----------------------------------------------------------------------------
\* A window holds the last interventions after one more.
LEMMA WindowStep ==
  ASSUME WindowKept, NEW b \in BOOLEAN, window' = Recent(b), reports' = Append(reports, b)
  PROVE  WindowKept' /\ Len(window') \in Nat \ {0}
<1>. DEFINE w == Append(window, b)
            L == Len(window)
<1>0. L \in Nat /\ Len(reports) \in Nat /\ Len(w) = L + 1 /\ Len(reports') = Len(reports) + 1
  BY DEF WindowKept
<1>1. /\ L \in Nat /\ Len(reports) \in Nat /\ w \in Seq(BOOLEAN) /\ Len(w) = L + 1
      /\ \A i \in 1..L + 1 : w[i] = IF i = L + 1 THEN b ELSE window[i]
  BY DEF WindowKept
<1>2. /\ reports' \in Seq(BOOLEAN) /\ Len(reports') = Len(reports) + 1
      /\ \A i \in 1..Len(reports) + 1 : reports'[i] = IF i = Len(reports) + 1 THEN b ELSE reports[i]
  BY DEF WindowKept
<1>3. Interventions \in Nat \ {0}
  BY SensorAssumption
<1>4. ASSUME NEW i \in 1..L + 1 PROVE w[i] = reports'[Len(reports) - L + i]
  <2>0. L <= Len(reports)
    BY <1>0, <1>3 DEF WindowKept
  <2>1. \A j \in 1..L : window[j] = reports[Len(reports) - L + j]
    BY DEF WindowKept
  <2>. HIDE DEF w, L
  <2>2. CASE i = L + 1
    BY <1>0, <1>1, <1>2, <2>2
  <2>3. CASE i # L + 1
    <3>1. i \in 1..L /\ Len(reports) - L + i \in 1..Len(reports)
      BY <1>0, <2>0, <2>3
    <3>. QED BY <1>1, <1>2, <2>1, <2>3, <3>1
  <2>. QED BY <2>2, <2>3
<1>5. CASE L + 1 > Interventions
  <2>1. L = Interventions /\ Len(reports) >= L
    BY <1>1, <1>3, <1>5 DEF WindowKept
  <2>2. window' = Tail(w)
    BY <1>1, <1>5 DEF Recent
  <2>3. /\ window' \in Seq(BOOLEAN) /\ Len(window') = L
        /\ \A i \in 1..L : window'[i] = w[i + 1]
    <3>. HIDE DEF w
    <3>. QED BY <1>1, <2>2
  <2>4. ASSUME NEW i \in 1..L PROVE window'[i] = reports'[Len(reports') - L + i]
    <3>1. i + 1 \in 1..L + 1 /\ Len(reports) - L + (i + 1) = Len(reports') - L + i
      BY <1>1, <1>2
    <3>. HIDE DEF w, L
    <3>. QED BY <1>4, <2>3, <3>1
  <2>. QED
    <3>. HIDE DEF w, L
    <3>1. Len(window') = IF Len(reports') < Interventions THEN Len(reports') ELSE Interventions
      BY <1>1, <1>2, <1>3, <2>1, <2>3
    <3>2. \A i \in 1..Len(window') : window'[i] = reports'[Len(reports') - Len(window') + i]
      BY <2>3, <2>4
    <3>. QED BY <1>2, <1>3, <2>1, <2>3, <3>1, <3>2 DEF WindowKept
<1>6. CASE ~(L + 1 > Interventions)
  <2>1. window' = w
    BY <1>1, <1>6 DEF Recent
  <2>2. L = Len(reports)
    BY <1>1, <1>3, <1>6 DEF WindowKept
  <2>. QED
    <3>. HIDE DEF w, L
    <3>1. Len(window') = IF Len(reports') < Interventions THEN Len(reports') ELSE Interventions
      BY <1>1, <1>2, <1>3, <1>6, <2>1, <2>2
    <3>2. \A i \in 1..Len(window') : window'[i] = reports'[Len(reports') - Len(window') + i]
      <4>1. Len(window') = L + 1 /\ Len(reports') - Len(window') = Len(reports) - L
        BY <1>0, <2>1
      <4>. QED BY <1>4, <2>1, <4>1
    <3>3. window' \in Seq(BOOLEAN) /\ Len(window') \in Nat \ {0}
      BY <1>0, <1>1, <2>1
    <3>. QED BY <1>2, <3>1, <3>2, <3>3 DEF WindowKept
<1>. QED BY <1>5, <1>6

-----------------------------------------------------------------------------
\* One more reading of a channel.
LEMMA HeldStep ==
  ASSUME NEW k \in Keys, NEW c \in Channels[k], ReadingsKept,
         NEW v \in [Channels[k] -> Readings[k]],
         received'[k] = Append(received[k], v),
         history'[k][c] = Updated(history[k][c], v[c])
  PROVE  /\ LastRun(k, c)'
         /\ history'[k][c] \in [last : Readings[k] \union {Missing}, repeats : Nat]
<1>. DEFINE r == received[k]
            n == Len(received[k])
            h == history[k][c]
            R == received'[k]
            H == history'[k][c]
<1>1. /\ r \in Seq([Channels[k] -> Readings[k]]) /\ n \in Nat
      /\ R \in Seq([Channels[k] -> Readings[k]]) /\ Len(R) = n + 1
      /\ \A i \in 1..n : R[i] = r[i]
      /\ R[n + 1] = v
  BY DEF ReadingsKept
<1>2. h \in [last : Readings[k] \union {Missing}, repeats : Nat] /\ LastRun(k, c)
  BY DEF ReadingsKept
<1>3. v[c] \in Readings[k] /\ v[c] # Missing
  BY SensorAssumption
<1>4. H = IF h.last # Missing /\ h.last = v[c] THEN [h EXCEPT !.repeats = @ + 1] ELSE [last |-> v[c], repeats |-> 0]
  BY DEF Updated
<1>5. H \in [last : Readings[k] \union {Missing}, repeats : Nat] /\ H.last = v[c]
  <2>. HIDE DEF h, H
  <2>. QED BY <1>2, <1>3, <1>4
<1>6. H.repeats < n + 1 /\ (\A i \in n + 1 - H.repeats..n + 1 : R[i][c] = R[n + 1][c])
        /\ (H.repeats + 1 < n + 1 => R[n + 1 - H.repeats - 1][c] # R[n + 1][c])
  <2>1. CASE n = 0
    <3>1. h = [last |-> Missing, repeats |-> 0]
      BY <1>2, <2>1 DEF LastRun
    <3>2. H = [last |-> v[c], repeats |-> 0]
      <4>. HIDE DEF h, H
      <4>. QED BY <1>4, <3>1
    <3>. HIDE DEF h, H, R, n
    <3>. QED BY <1>1, <2>1, <3>2
  <2>2. CASE n > 0 /\ h.last = v[c]
    <3>1. /\ h.last = r[n][c] /\ h.repeats < n
          /\ \A i \in n - h.repeats..n : r[i][c] = r[n][c]
          /\ h.repeats + 1 < n => r[n - h.repeats - 1][c] # r[n][c]
      BY <1>1, <1>2, <2>2 DEF LastRun
    <3>2. H.repeats = h.repeats + 1 /\ h.repeats \in Nat
      <4>. HIDE DEF h, H
      <4>. QED BY <1>2, <1>3, <1>4, <2>2
    <3>. HIDE DEF h, H, R, r, n
    <3>3. ASSUME NEW i \in n + 1 - H.repeats..n + 1 PROVE R[i][c] = R[n + 1][c]
      <4>1. CASE i = n + 1
        BY <4>1
      <4>2. CASE i # n + 1
        <5>1. i \in n - h.repeats..n /\ i \in 1..n
          BY <1>1, <3>1, <3>2, <4>2
        <5>. QED BY <1>1, <2>2, <3>1, <5>1
      <4>. QED BY <4>1, <4>2
    <3>4. ASSUME H.repeats + 1 < n + 1 PROVE R[n + 1 - H.repeats - 1][c] # R[n + 1][c]
      <4>1. n + 1 - H.repeats - 1 = n - h.repeats - 1 /\ n - h.repeats - 1 \in 1..n /\ h.repeats + 1 < n
        BY <1>1, <3>1, <3>2, <3>4
      <4>. QED BY <1>1, <2>2, <3>1, <4>1
    <3>. QED BY <1>1, <3>1, <3>2, <3>3, <3>4
  <2>3. CASE n > 0 /\ h.last # v[c]
    <3>1. h.last = r[n][c]
      BY <1>1, <1>2, <2>3 DEF LastRun
    <3>2. H.repeats = 0
      <4>. HIDE DEF h, H
      <4>. QED BY <1>4, <2>3
    <3>. HIDE DEF h, H, R, r, n
    <3>. QED BY <1>1, <2>3, <3>1, <3>2
  <2>4. n = 0 \/ n > 0
    BY <1>1
  <2>. HIDE DEF h, H, R, r, n
  <2>. QED BY <2>1, <2>2, <2>3, <2>4
<1>7. R[n + 1][c] = v[c] /\ n + 1 # 0
  BY <1>1
<1>. QED
  <2>1. LastRun(k, c)' = (IF Len(R) = 0 THEN H = [last |-> Missing, repeats |-> 0]
                       ELSE /\ H.last = R[Len(R)][c]
                            /\ H.repeats < Len(R)
                            /\ \A i \in Len(R) - H.repeats..Len(R) : R[i][c] = R[Len(R)][c]
                            /\ H.repeats + 1 < Len(R) => R[Len(R) - H.repeats - 1][c] # R[Len(R)][c])
    BY DEF LastRun
  <2>. HIDE DEF h, H, R, r, n
  <2>2. LastRun(k, c)'
    BY <1>1, <1>5, <1>6, <1>7, <2>1
  <2>. QED BY <1>5, <2>2 DEF H

\* A history that counts what a channel held lately knows whether it is stuck.
LEMMA StuckKnown ==
  ASSUME NEW k \in Keys, NEW c \in Channels[k], NEW r \in Seq([Channels[k] -> Readings[k]]),
         NEW h, h.repeats \in Nat, r # <<>>,
         /\ h.last = r[Len(r)][c]
         /\ h.repeats < Len(r)
         /\ \A i \in Len(r) - h.repeats..Len(r) : r[i][c] = r[Len(r)][c]
         /\ h.repeats + 1 < Len(r) => r[Len(r) - h.repeats - 1][c] # r[Len(r)][c]
  PROVE  (/\ MaxStale[k] # 0 /\ Len(r) > MaxStale[k]
          /\ r[Len(r)][c] # Garbage
          /\ \A i \in Len(r) - MaxStale[k]..Len(r) : r[i][c] = r[Len(r)][c])
           <=> (h.last # Garbage /\ MaxStale[k] # 0 /\ h.repeats >= MaxStale[k])
<1>. DEFINE n == Len(r)
            m == MaxStale[k]
            stuck == /\ m # 0 /\ n > m /\ r[n][c] # Garbage
                     /\ \A i \in n - m..n : r[i][c] = r[n][c]
<1>1. m \in Nat /\ n \in Nat /\ n # 0 /\ h.repeats \in Nat
  BY SensorAssumption
<1>2. /\ h.last = r[n][c] /\ h.repeats < n
      /\ \A i \in n - h.repeats..n : r[i][c] = r[n][c]
      /\ h.repeats + 1 < n => r[n - h.repeats - 1][c] # r[n][c]
  OBVIOUS
<1>3. stuck <=> /\ m # 0 /\ n > m /\ r[n][c] # Garbage
                /\ \A i \in n - m..n : r[i][c] = r[n][c]
  OBVIOUS
<1>. HIDE DEF n, m, stuck
<1>4. ASSUME h.last # Garbage, m # 0, h.repeats >= m PROVE stuck
  <2>1. \A i \in n - m..n : i \in n - h.repeats..n
    BY <1>1, <1>4
  <2>. QED BY <1>1, <1>2, <1>3, <1>4, <2>1
<1>5. ASSUME stuck PROVE h.last # Garbage /\ m # 0 /\ h.repeats >= m
  <2>1. SUFFICES ASSUME h.repeats < m PROVE FALSE
    BY <1>1, <1>2, <1>3, <1>5
  <2>2. n - h.repeats - 1 \in n - m..n /\ h.repeats + 1 < n
    BY <1>1, <1>3, <1>5, <2>1
  <2>. QED BY <1>2, <1>3, <1>5, <2>2
<1>. QED BY <1>4, <1>5 DEF n, m, stuck

\* The assessment grades every key for what it has become.
LEMMA GradeStep ==
  ASSUME NEW k \in Keys, NEW o \in Observations, ReadingsKept, ReadingsKept',
         history' = Advanced(o), observed' = o,
         o[k] # Missing => received'[k] = Append(received[k], o[k])
  PROVE  Grade(o, k) = GradeOf(k)'
<1>1. CASE o[k] = Missing
  BY <1>1 DEF Grade, GradeOf
<1>2. CASE o[k] # Missing
  <2>. DEFINE v == o[k]
              m == MaxStale[k]
              g(c) == Classified(history[k][c], v[c], m).grade
  <2>1. v \in [Channels[k] -> Readings[k]]
    BY <1>2 DEF Observations
  <2>2. received'[k] \in Seq([Channels[k] -> Readings[k]]) /\ received'[k] # <<>>
    <3>1. received[k] \in Seq([Channels[k] -> Readings[k]]) /\ received'[k] = Append(received[k], v)
      BY <1>2 DEF ReadingsKept
    <3>. HIDE DEF v
    <3>. QED BY <2>1, <3>1
  <2>3. ASSUME NEW c \in Channels[k]
        PROVE  /\ v[c] = Garbage => g(c) = "corrupted"
               /\ v[c] # Garbage => g(c) = IF Stuck(k, c)' THEN "stale" ELSE "valid"
    <3>. DEFINE u == Updated(history[k][c], v[c])
    <3>1. history'[k][c] = u
      BY <1>2 DEF Advanced, Classified
    <3>2. /\ history'[k][c] \in [last : Readings[k] \union {Missing}, repeats : Nat]
          /\ LastRun(k, c)'
      BY DEF ReadingsKept
    <3>3. u.last = v[c] /\ u.repeats \in Nat
      <4>1. u.last = v[c]
        <5>1. history[k][c] \in [last : Readings[k] \union {Missing}, repeats : Nat]
          BY DEF ReadingsKept
        <5>. HIDE DEF v
        <5>. QED BY <5>1 DEF Updated
      <4>. QED BY <3>1, <3>2, <4>1
    <3>4. Stuck(k, c)' <=> u.last # Garbage /\ m # 0 /\ u.repeats >= m
      <4>1. Stuck(k, c)' <=> /\ history'[k][c].last # Garbage
                             /\ MaxStale[k] # 0 /\ history'[k][c].repeats >= MaxStale[k]
        <5>. DEFINE r == received'[k]
                    h == history'[k][c]
        <5>1. h.repeats \in Nat /\ Len(r) # 0 /\ r \in Seq([Channels[k] -> Readings[k]]) /\ r # <<>>
          BY <2>2, <3>2
        <5>2. /\ h.last = r[Len(r)][c] /\ h.repeats < Len(r)
              /\ \A i \in Len(r) - h.repeats..Len(r) : r[i][c] = r[Len(r)][c]
              /\ h.repeats + 1 < Len(r) => r[Len(r) - h.repeats - 1][c] # r[Len(r)][c]
          BY <3>2, <5>1 DEF LastRun
        <5>3. Stuck(k, c)' <=> /\ MaxStale[k] # 0 /\ Len(r) > MaxStale[k]
                               /\ r[Len(r)][c] # Garbage
                               /\ \A i \in Len(r) - MaxStale[k]..Len(r) : r[i][c] = r[Len(r)][c]
          BY DEF Stuck
        <5>. HIDE DEF v, m, g, u, r, h
        <5>4. Stuck(k, c)' <=> /\ h.last # Garbage /\ MaxStale[k] # 0 /\ h.repeats >= MaxStale[k]
          BY <5>1, <5>2, <5>3, StuckKnown
        <5>. QED BY <5>4 DEF h
      <4>. QED BY <3>1, <4>1
    <3>5. g(c) = IF v[c] = Garbage THEN "corrupted" ELSE IF m # 0 /\ u.repeats >= m THEN "stale" ELSE "valid"
      BY DEF Classified
    <3>. HIDE DEF v, m, g, u
    <3>. QED BY <3>3, <3>4, <3>5
  <2>4. Grade(o, k) = Worst({g(c) : c \in Channels[k]})
    BY <1>2 DEF Grade
  <2>5. GradeOf(k)' = IF \E c \in Channels[k] : v[c] = Garbage THEN "corrupted"
                      ELSE IF \E c \in Channels[k] : Stuck(k, c)' THEN "stale" ELSE "valid"
    BY <1>2 DEF GradeOf
  <2>. HIDE DEF v, m, g
  <2>6. CASE \E c \in Channels[k] : v[c] = Garbage
    BY <2>3, <2>4, <2>5, <2>6 DEF Worst
  <2>7. CASE ~\E c \in Channels[k] : v[c] = Garbage
    <3>1. "corrupted" \notin {g(c) : c \in Channels[k]}
      BY <2>3, <2>7
    <3>2. "stale" \in {g(c) : c \in Channels[k]} <=> \E c \in Channels[k] : Stuck(k, c)'
      BY <2>3, <2>7
    <3>. QED BY <2>4, <2>5, <2>7, <3>1, <3>2 DEF Worst
  <2>. QED BY <2>6, <2>7
<1>. QED BY <1>1, <1>2

-----------------------------------------------------------------------------
LEMMA Products ==
  ASSUME NEW T \in Nat \ {0}, NEW L \in Nat \ {0}, NEW d \in 0..2 * T, NEW a \in 0..L,
         d < T \/ 2 * a < L
  PROVE  2 * (d * a) < 2 * T * L
<1>1. CASE d < T
  <2>1. d * (L - a) >= 0 /\ (T - d) * L > 0
    BY <1>1
  <2>2. d * (L - a) = d * L - d * a /\ (T - d) * L = T * L - d * L
    OBVIOUS
  <2>3. d * L \in Int /\ d * a \in Int /\ T * L \in Int /\ 2 * T * L = 2 * (T * L)
    OBVIOUS
  <2>. QED BY <2>1, <2>2, <2>3
<1>2. CASE 2 * a < L
  <2>1. (2 * T - d) * a >= 0 /\ T * (L - 2 * a) > 0
    BY <1>2
  <2>2. (2 * T - d) * a = 2 * (T * a) - d * a /\ T * (L - 2 * a) = T * L - 2 * (T * a)
    OBVIOUS
  <2>3. T * a \in Int /\ d * a \in Int /\ T * L \in Int /\ 2 * T * L = 2 * (T * L)
    OBVIOUS
  <2>. QED BY <2>1, <2>2, <2>3
<1>. QED BY <1>1, <1>2

\* Who is flagged is trusted less than half.
LEMMA TrustBelowHalf ==
  ASSUME NEW g, NEW distance \in Distances, NEW recent \in Seq(BOOLEAN), Len(recent) \in Nat \ {0},
         Trust(g, distance, recent).flagged
  PROVE  2 * Trust(g, distance, recent).trust < Trust(g, distance, recent).of
<1>. DEFINE T == Threshold
            L == Len(recent)
            R == Rate(recent)
            d == IF distance < 2 * T THEN 2 * T - distance ELSE 0
            x == IF g = "valid" THEN 1 ELSE 0
<1>1. T \in Nat \ {0} /\ distance \in Nat
  BY SensorAssumption
<1>2. R \in 0..L
  <2>1. /\ {i \in 1..L : recent[i]} \subseteq 1..L /\ DOMAIN recent = 1..L
    OBVIOUS
  <2>2. IsFiniteSet(1..L) /\ Cardinality(1..L) = L
    BY FS_Interval
  <2>3. Cardinality({i \in 1..L : recent[i]}) \in Nat /\ Cardinality({i \in 1..L : recent[i]}) <= L
    BY <2>1, <2>2, FS_Subset, FS_CardinalityType
  <2>4. Rate(recent) = Cardinality({i \in 1..L : recent[i]})
    BY <2>1 DEF Rate
  <2>. HIDE DEF L
  <2>. QED BY <2>2, <2>3, <2>4 DEF L
<1>3. /\ Trust(g, distance, recent).trust = x * d * (L - R)
      /\ Trust(g, distance, recent).of = 2 * T * L
      /\ g # "valid" \/ distance > T \/ 2 * R > L
  BY DEF Trust
<1>4. d \in 0..2 * T /\ (distance > T => d < T)
  BY <1>1
<1>. HIDE DEF T, L, R, d, x
<1>5. L - R \in 0..L /\ (2 * R > L => 2 * (L - R) < L) /\ L \in Nat \ {0}
  BY <1>2 DEF L
<1>6. CASE g # "valid"
  <2>1. x = 0 /\ x * d * (L - R) = 0
    BY <1>4, <1>5, <1>6 DEF x
  <2>2. 2 * T * L > 0
    BY <1>1, <1>5
  <2>. QED BY <1>3, <2>1, <2>2
<1>7. CASE g = "valid"
  <2>1. x * d * (L - R) = d * (L - R)
    BY <1>4, <1>5, <1>7 DEF x
  <2>2. 2 * (d * (L - R)) < 2 * T * L
    <3>1. d < T \/ 2 * (L - R) < L
      BY <1>3, <1>4, <1>5, <1>7
    <3>. QED BY <1>1, <1>4, <1>5, <3>1, Products
  <2>. QED BY <1>3, <2>1, <2>2
<1>. QED BY <1>6, <1>7

-----------------------------------------------------------------------------
LEMMA MonitorKept == ASSUME SensorInv, Monitor PROVE SensorInv'
<1>1. PICK o \in Observations, b \in BOOLEAN, distance \in Distances : Assess(o, b, distance)
  BY DEF Monitor
<1>. DEFINE grades == [k \in Keys |-> Grade(o, k)]
            t == Trust(Worst({grades[k] : k \in Keys}), distance, Recent(b))
<1>2. /\ history' = Advanced(o) /\ window' = Recent(b) /\ observed' = o
      /\ assessment' = [grades |-> grades, trust |-> t.trust, of |-> t.of, flagged |-> t.flagged]
      /\ received' = [k \in Keys |-> IF o[k] = Missing THEN received[k] ELSE Append(received[k], o[k])]
      /\ reports' = Append(reports, b)
  BY <1>1 DEF Assess
<1>3. ReadingsKept'
  <2>0. ReadingsKept
    BY DEF SensorInv
  <2>1. ASSUME NEW k \in Keys
        PROVE  /\ received'[k] \in Seq([Channels[k] -> Readings[k]])
               /\ history'[k] \in [Channels[k] -> [last : Readings[k] \union {Missing}, repeats : Nat]]
               /\ \A c \in Channels[k] : LastRun(k, c)'
    <3>1. CASE o[k] = Missing
      <4>1. received'[k] = received[k] /\ history'[k] = history[k]
        BY <1>2, <3>1 DEF Advanced
      <4>. QED BY <2>0, <4>1 DEF ReadingsKept, LastRun
    <3>2. CASE o[k] # Missing
      <4>1. o[k] \in [Channels[k] -> Readings[k]]
        BY <3>2 DEF Observations
      <4>2. received'[k] = Append(received[k], o[k])
        BY <1>2, <3>2
      <4>3. /\ history'[k] = [c \in Channels[k] |-> history'[k][c]]
            /\ \A c \in Channels[k] : history'[k][c] = Updated(history[k][c], o[k][c])
        BY <1>2, <3>2 DEF Advanced, Classified
      <4>4. \A c \in Channels[k] : LastRun(k, c)' /\ history'[k][c] \in [last : Readings[k] \union {Missing}, repeats : Nat]
        BY <2>0, <4>1, <4>2, <4>3, HeldStep
      <4>5. history'[k] \in [Channels[k] -> [last : Readings[k] \union {Missing}, repeats : Nat]]
        BY <4>3, <4>4
      <4>6. received'[k] \in Seq([Channels[k] -> Readings[k]])
        <5>1. received[k] \in Seq([Channels[k] -> Readings[k]])
          BY <2>0 DEF ReadingsKept
        <5>. QED BY <4>1, <4>2, <5>1
      <4>. QED BY <4>4, <4>5, <4>6
    <3>. QED BY <3>1, <3>2
  <2>2. DOMAIN received' = Keys /\ received' = [k \in Keys |-> received'[k]] /\ history' = [k \in Keys |-> history'[k]]
    BY <1>2 DEF Advanced
  <2>. QED BY <2>1, <2>2 DEF ReadingsKept
<1>4. WindowKept' /\ Len(window') \in Nat \ {0}
  BY <1>2, WindowStep DEF SensorInv
<1>5. Assessed'
  <2>1. assessment'.grades = grades /\ assessment'.trust = t.trust /\ assessment'.of = t.of /\ assessment'.flagged = t.flagged
    BY <1>2
  <2>2. \A k \in Keys : Grade(o, k) = GradeOf(k)'
    BY <1>2, <1>3, GradeStep DEF SensorInv
  <2>3. assessment'.grades = [k \in Keys |-> GradeOf(k)']
    BY <2>1, <2>2
  <2>4. t.flagged => 2 * t.trust < t.of
    <3>1. Recent(b) \in Seq(BOOLEAN) /\ Len(Recent(b)) \in Nat \ {0}
      BY <1>2, <1>4 DEF WindowKept
    <3>. QED BY <3>1, TrustBelowHalf
  <2>. QED
    <3>. HIDE DEF t, grades
    <3>. QED BY <2>1, <2>3, <2>4 DEF Assessed
<1>. QED BY <1>3, <1>4, <1>5 DEF SensorInv

\* The monitors' grades and their trust follow from what was received lately.
THEOREM GradesFollow == SensorSpec => []GradesAreRecent
<1>1. ASSUME SensorInv, [Monitor]_sensorVars PROVE SensorInv'
  <2>1. CASE Monitor
    BY <1>1, <2>1, MonitorKept
  <2>2. CASE UNCHANGED sensorVars
    <3>. USE <1>1, <2>2 DEF sensorVars
    <3>1. ReadingsKept'
      BY DEF SensorInv, ReadingsKept, LastRun
    <3>2. WindowKept'
      BY DEF SensorInv, WindowKept
    <3>3. Assessed'
      <4>1. \A k \in Keys : GradeOf(k)' = GradeOf(k)
        BY DEF GradeOf, Stuck
      <4>. QED BY <4>1 DEF SensorInv, Assessed
    <3>. QED BY <3>1, <3>2, <3>3 DEF SensorInv
  <2>. QED BY <1>1, <2>1, <2>2
<1>2. SensorInv => GradesAreRecent
  <2>1. ASSUME SensorInv PROVE window = [i \in DOMAIN window |-> reports[Len(reports) - Len(window) + i]]
    BY <2>1 DEF SensorInv, WindowKept
  <2>. QED BY <2>1 DEF SensorInv, WindowKept, Assessed, GradesAreRecent
<1>. QED BY <1>1, <1>2, SensorStart, PTL DEF SensorSpec
=============================================================================
