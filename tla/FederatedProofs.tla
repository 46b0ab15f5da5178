-------------------------- MODULE FederatedProofs ---------------------------
(***************************************************************************)
(* Theorems of modules Training and Federated, for every number of         *)
(* stations, rounds, jobs and steps and every size of the replay buffer.   *)
(***************************************************************************)
EXTENDS Federated, FiniteSetTheorems, TLAPS

-----------------------------------------------------------------------------
(***************************************************************************)
(* The replay buffer.  The slots before the pointer hold the last          *)
(* transitions, and those behind it the ones before them, BufferSize older *)
(* than their place says.                                                  *)
(***************************************************************************)
Slots == 0..BufferSize - 1

RingType ==
  /\ step \in Nat
  /\ buffer \in [slots : [Slots -> Nat], ptr : Slots, size : 0..BufferSize]

RingOrder ==
  /\ buffer.size = IF step < BufferSize THEN step ELSE BufferSize
  /\ step < BufferSize => buffer.ptr = step
  /\ \A i \in 0..buffer.size - 1 :
       buffer.slots[i] = IF i < buffer.ptr THEN step - buffer.ptr + 1 + i
                                           ELSE step - buffer.ptr + 1 + i - BufferSize

Ring == RingType /\ RingOrder

LEMMA Wraps ==
  ASSUME NEW n \in Nat \ {0}, NEW i \in 0..n - 1
  PROVE  (i + 1) % n = IF i + 1 = n THEN 0 ELSE i + 1
OBVIOUS

\* A transition added to the ring is its newest.
LEMMA AddKeepsRing ==
  ASSUME Ring, step' = step + 1, buffer' = Added(step + 1)
  PROVE  Ring'
<1> DEFINE p == buffer.ptr
           next == IF p + 1 = BufferSize THEN 0 ELSE p + 1
<1>1. BufferSize \in Nat \ {0} /\ p \in Slots /\ p \in 0..BufferSize - 1
  BY TrainingAssumption DEF Ring, RingType, Slots
<1>2. (p + 1) % BufferSize = next
  BY <1>1, Wraps
<1>3. /\ buffer'.slots = [buffer.slots EXCEPT ![p] = step + 1]
      /\ buffer'.ptr = next
      /\ buffer'.size = IF buffer.size < BufferSize THEN buffer.size + 1 ELSE BufferSize
      /\ buffer' = [slots |-> buffer'.slots, ptr |-> buffer'.ptr, size |-> buffer'.size]
  BY <1>2 DEF Added
<1>4. RingType'
  <2>1. buffer'.slots \in [Slots -> Nat]
    BY <1>1, <1>3 DEF Ring, RingType
  <2>2. next \in Slots
    BY <1>1 DEF Slots
  <2>3. buffer'.size \in 0..BufferSize
    BY <1>1, <1>3 DEF Ring, RingType
  <2> QED BY <1>3, <2>1, <2>2, <2>3 DEF Ring, RingType
<1>5. RingOrder'
  <2>1. buffer'.size = IF step' < BufferSize THEN step' ELSE BufferSize
    BY <1>1, <1>3 DEF Ring, RingType, RingOrder
  <2>2. step' < BufferSize => buffer'.ptr = step'
    BY <1>1, <1>3 DEF Ring, RingType, RingOrder
  <2>3. ASSUME NEW i \in 0..buffer'.size - 1
        PROVE  buffer'.slots[i] = IF i < next THEN step' - next + 1 + i
                                              ELSE step' - next + 1 + i - BufferSize
    <3>1. i \in Slots /\ i \in Int /\ step \in Nat
      BY <1>1, <2>1 DEF Slots, Ring, RingType
    <3>2. CASE i = p
      <4>1. buffer'.slots[i] = step + 1
        BY <1>1, <1>3, <3>1, <3>2 DEF Ring, RingType
      <4> QED BY <4>1, <1>1, <3>1, <3>2
    <3>3. CASE i # p
      <4>1. buffer'.slots[i] = buffer.slots[i]
        BY <1>1, <1>3, <3>1, <3>3 DEF Ring, RingType
      <4>2. i \in 0..buffer.size - 1
        BY <1>1, <1>3, <2>1, <3>1, <3>3 DEF Ring, RingType, RingOrder
      <4>3. buffer.slots[i] = IF i < p THEN step - p + 1 + i ELSE step - p + 1 + i - BufferSize
        BY <4>2 DEF Ring, RingOrder
      <4> QED BY <4>1, <4>3, <1>1, <3>1, <3>3 DEF Slots
    <3> QED BY <3>2, <3>3
  <2> QED BY <1>3, <2>1, <2>2, <2>3 DEF RingOrder
<1> QED BY <1>4, <1>5 DEF Ring

LEMMA RingInvariant == Spec => []Ring
<1>1. Init => Ring
  BY TrainingAssumption DEF Init, InitTraining, Ring, RingType, RingOrder, Slots
<1>2. Ring /\ [Next]_vars => Ring'
  <2> SUFFICES ASSUME Ring, [Next]_vars PROVE Ring'
    OBVIOUS
  <2>1. ASSUME NEW from, NEW interval, Begin(from, interval) PROVE Ring'
    BY <2>1, TrainingAssumption DEF Begin, Ring, RingType, RingOrder, Slots
  <2>2. CASE TrainStep
    BY <2>2, AddKeepsRing DEF TrainStep
  <2>3. CASE UNCHANGED <<step, buffer>>
    BY <2>3 DEF Ring, RingType, RingOrder
  <2>4. \/ \E from, interval : Begin(from, interval)
        \/ TrainStep
        \/ UNCHANGED <<step, buffer>>
    BY DEF Next, vars, trainingVars, TrainAlone, LeaveAlone, Work, Saved, Finish, StartCampaign, Campaign,
           LocalUpdate, LocalUpdateDone, Aggregate, NextRound, Judge, Kill, Killed
  <2> QED BY <2>1, <2>2, <2>3, <2>4
<1> QED BY <1>1, <1>2, PTL DEF Spec

\* For every size of the buffer and every number of steps, kills and jobs, what
\* may be sampled is the newest transitions of the running job, and nothing else.
THEOREM NewestSampled == Spec => []BufferHoldsNewest
<1>1. Ring => BufferHoldsNewest
  <2> SUFFICES ASSUME Ring PROVE BufferHoldsNewest
    OBVIOUS
  <2> DEFINE p == buffer.ptr
             n == buffer.size
             oldest == IF step > BufferSize THEN step - BufferSize + 1 ELSE 1
  <2>1. BufferSize \in Nat \ {0} /\ p \in 0..BufferSize - 1 /\ n \in 0..BufferSize /\ step \in Nat
    BY TrainingAssumption DEF Ring, RingType, Slots
  <2>2. ASSUME NEW i \in 0..n - 1 PROVE buffer.slots[i] \in oldest..step
    BY <2>1 DEF Ring, RingOrder
  <2>3. ASSUME NEW t \in oldest..step PROVE \E i \in 0..n - 1 : buffer.slots[i] = t
    <3> DEFINE i == IF t > step - p THEN t - (step - p) - 1 ELSE t - (step - p) - 1 + BufferSize
    <3>1. i \in 0..n - 1
      BY <2>1 DEF Ring, RingOrder
    <3>2. buffer.slots[i] = t
      BY <2>1, <3>1 DEF Ring, RingOrder
    <3> QED BY <3>1, <3>2
  <2> QED BY <2>2, <2>3 DEF BufferHoldsNewest, Sampled
<1> QED BY RingInvariant, <1>1, PTL

-----------------------------------------------------------------------------
(***************************************************************************)
(* Rejected rounds.  A checkpoint is free of some jobs if no step of any   *)
(* of them went into it.  What keeps a rejected round from leaving a trace *)
(* is more than that the global models are free of it: until a round is    *)
(* judged nobody knows whether it will be rejected, so they have to be     *)
(* free of the round under way as well, and of the job in training.        *)
(***************************************************************************)
Free(c, jobs) == \A e \in c.past : e[1] \notin jobs

Model(f) == disk[f].model

IsCheckpoint(c) == c = [env |-> c.env, trained |-> c.trained, policy |-> c.policy, past |-> c.past]

TypeOK ==
  /\ job \in 0..MaxJobs /\ round \in 0..MaxRounds
  /\ phase \in {"off", "training", "saving", "saved", "done"} /\ (phase # "off" => job > 0)
  /\ stage \in {"local", "aggregated", "judged"}
  /\ disk = [f \in Files |-> disk[f]]
  /\ IsCheckpoint(agent) /\ \A f \in Files : IsCheckpoint(Model(f))

\* Jobs to come have left nothing anywhere.
FutureClean ==
  /\ locals \subseteq 1..job /\ rejected \subseteq 1..job
  /\ \A e \in agent.past : e[1] \in 1..job
  /\ \A f \in Files : \A e \in Model(f).past : e[1] \in 1..job
  /\ \A j \in 1..MaxJobs : j > job => Model(Local(j)).past = {}

\* Where run_rounds may be.
Stages ==
  /\ round = 0 => stage = "local" /\ locals = {}
  /\ stage # "local" => phase = "off"
  /\ mode = "solo" => round = 0 /\ rejected = {}
  /\ stage = "aggregated" => disk[Candidate(round)].state = "whole"
  /\ stage = "judged" /\ verdict => Global(round) \in Readable
  /\ round > 0 => current \in {None} \union {f \in Readable : \E r \in 1..MaxRounds : f = Global(r)}

\* The global models, and the round under way.
RoundClean ==
  /\ \A r \in 1..MaxRounds : Free(Model(Global(r)), rejected)
  /\ stage # "judged" => locals \intersect rejected = {}
  /\ stage # "judged" => \A r \in 1..MaxRounds : Free(Model(Global(r)), locals)
  /\ stage = "local" => \A j \in locals : Free(Model(Local(j)), rejected)
  /\ stage = "aggregated" => Free(Model(Candidate(round)), rejected)

\* The job in training.
JobClean ==
  round > 0 /\ phase # "off" =>
    /\ job \notin locals \union rejected
    /\ \A r \in 1..MaxRounds : Free(Model(Global(r)), {job})
    /\ Free(agent, rejected)
    /\ Free(Model(Local(job)), rejected)

CInv == TypeOK /\ FutureClean /\ Stages /\ RoundClean /\ JobClean

-----------------------------------------------------------------------------
LEMMA FileNames ==
  /\ \A j \in 1..MaxJobs : Local(j) \in Files
  /\ \A r \in 1..MaxRounds : Global(r) \in Files /\ Candidate(r) \in Files
  /\ \A i, j : Local(i) = Local(j) => i = j
  /\ \A q, r : Global(q) = Global(r) => q = r
  /\ \A j, r : Local(j) # Global(r)
  /\ \A j, r : Local(j) # Candidate(r)
  /\ \A q, r : Global(q) # Candidate(r)
BY DEF Files, Local, Global, Candidate

LEMMA Blank == IsCheckpoint(Fresh) /\ Fresh.past = {} /\ Torn.model = Fresh /\ Absent.model = Fresh
BY DEF IsCheckpoint, Fresh, Torn, Absent

\* Writing one file leaves the others.
LEMMA WriteFile ==
  ASSUME TypeOK, NEW f \in Files, NEW v, disk' = [disk EXCEPT ![f] = v]
  PROVE  /\ disk' = [g \in Files |-> disk'[g]]
         /\ disk'[f] = v
         /\ \A g \in Files : g # f => disk'[g] = disk[g]
<1> DEFINE d == [g \in Files |-> IF g = f THEN v ELSE disk[g]]
<1>1. disk' = d
  BY DEF TypeOK
<1> QED BY <1>1

\* Two fields of a checkpoint are changed one after the other.
LEMMA EditCheckpoint ==
  ASSUME NEW e, NEW n, NEW m, NEW p, NEW x, NEW y
  PROVE  LET c == [env |-> e, trained |-> n, policy |-> m, past |-> p]
         IN  /\ [c EXCEPT !.env = x, !.past = y] = [env |-> x, trained |-> n, policy |-> m, past |-> y]
             /\ [c EXCEPT !.trained = x, !.policy = y] = [env |-> e, trained |-> x, policy |-> y, past |-> p]
<1> DEFINE c == [env |-> e, trained |-> n, policy |-> m, past |-> p]
           d == [c EXCEPT !.env = x]
           f == [c EXCEPT !.trained = x]
<1>1. d = [env |-> x, trained |-> n, policy |-> m, past |-> p]
  OBVIOUS
<1>2. f = [env |-> e, trained |-> x, policy |-> m, past |-> p]
  OBVIOUS
<1>3. [c EXCEPT !.env = x, !.past = y] = [d EXCEPT !.past = y]
  OBVIOUS
<1>4. [c EXCEPT !.trained = x, !.policy = y] = [f EXCEPT !.policy = y]
  OBVIOUS
<1> HIDE DEF c, d, f
<1>5. [d EXCEPT !.past = y] = [env |-> x, trained |-> n, policy |-> m, past |-> y]
  BY <1>1
<1>6. [f EXCEPT !.policy = y] = [env |-> e, trained |-> x, policy |-> y, past |-> p]
  BY <1>2
<1> QED BY <1>3, <1>4, <1>5, <1>6 DEF c

\* A step of the loop adds itself to what went into the weights, and learning
\* adds nothing; each counts on its own counters.
LEMMA StepPast ==
  ASSUME NEW c, IsCheckpoint(c)
  PROVE  /\ IsCheckpoint(Acted(c)) /\ Acted(c).past = c.past \union {<<job, step + 1>>}
         /\ Acted(c).env = c.env + 1 /\ Acted(c).trained = c.trained /\ Acted(c).policy = c.policy
         /\ IsCheckpoint(Learnt(c)) /\ Learnt(c).past = c.past
         /\ Learnt(c).env = c.env /\ Learnt(c).trained = c.trained + 1
         /\ Learnt(c).policy = c.policy + IF (c.trained + 1) % PolicyDelay = 0 THEN 1 ELSE 0
<1> DEFINE e == c.env
           n == c.trained
           m == c.policy
           p == c.past
           q == p \union {<<job, step + 1>>}
           k == m + IF (n + 1) % PolicyDelay = 0 THEN 1 ELSE 0
<1>1. c = [env |-> e, trained |-> n, policy |-> m, past |-> p]
  BY Zenon DEF IsCheckpoint
<1>2. Acted(c) = [c EXCEPT !.env = e + 1, !.past = q]
  BY DEF Acted
<1>3. Learnt(c) = [c EXCEPT !.trained = n + 1, !.policy = k]
  BY DEF Learnt
<1> HIDE DEF e, n, m, p, q, k
<1>4. Acted(c) = [env |-> e + 1, trained |-> n, policy |-> m, past |-> q]
  BY <1>1, <1>2, EditCheckpoint, Zenon
<1>5. Learnt(c) = [env |-> e, trained |-> n + 1, policy |-> k, past |-> p]
  BY <1>1, <1>3, EditCheckpoint, Zenon
<1>6. IsCheckpoint(Acted(c)) /\ Acted(c).past = q /\ IsCheckpoint(Learnt(c)) /\ Learnt(c).past = p
  BY <1>4, <1>5 DEF IsCheckpoint
<1>7. Acted(c).env = e + 1 /\ Acted(c).trained = n /\ Acted(c).policy = m
  BY <1>4
<1>8. Learnt(c).env = e /\ Learnt(c).trained = n + 1 /\ Learnt(c).policy = k
  BY <1>5
<1> QED BY <1>6, <1>7, <1>8 DEF e, n, m, p, q, k

-----------------------------------------------------------------------------
\* A job begins from a checkpoint that is free of the rejected rounds, or on its own.
LEMMA BeginKeeps ==
  ASSUME CInv, NEW from \in Files \union {None}, NEW interval, Begin(from, interval),
         UNCHANGED <<round, stage, locals, current, verdict, rejected, mode>>,
         round = 0 \/ (stage = "local" /\ from = current)
  PROVE  CInv'
<1> USE DEF CInv
<1>1. /\ job \in Nat /\ job' = job + 1 /\ job' \in 1..MaxJobs /\ disk' = disk /\ phase' = "training"
      /\ agent' = Loaded(from)
  BY TrainingAssumption DEF Begin, TypeOK
<1>2. from # None => from \in Files
  OBVIOUS
<1>3. IsCheckpoint(agent') /\ \A e \in agent'.past : e[1] \in 1..job
  BY <1>1, <1>2, Blank DEF Loaded, TypeOK, FutureClean, Model
<1>4. TypeOK'
  BY <1>1, <1>3 DEF TypeOK, Model
<1>5. FutureClean'
  BY <1>1, <1>3 DEF FutureClean, Model
<1>6. Stages' /\ RoundClean'
  BY <1>1 DEF Stages, RoundClean, Model, Readable, Free, Begin
<1>7. JobClean'
  <2> SUFFICES ASSUME round > 0 PROVE JobClean'
    BY DEF JobClean
  <2>0. round \in Nat /\ round # 0
    BY TrainingAssumption DEF TypeOK
  <2>1. job' \notin locals \union rejected
    BY <1>1 DEF FutureClean
  <2>2. \A r \in 1..MaxRounds : Free(Model(Global(r)), {job'})
    BY <1>1, FileNames DEF Free, FutureClean
  <2>3. Free(agent', rejected)
    <3>1. CASE from = None
      BY <1>1, <3>1, Blank DEF Loaded, Free
    <3>2. CASE from # None
      <4>1. PICK r \in 1..MaxRounds : from = Global(r)
        BY <2>0, <3>2 DEF Stages
      <4> QED BY <1>1, <3>2, <4>1 DEF Loaded, Free, RoundClean, Model
    <3> QED BY <3>1, <3>2
  <2>4. Free(Model(Local(job')), rejected)
    BY <1>1 DEF Free, FutureClean
  <2> QED BY <1>1, <2>1, <2>2, <2>3, <2>4 DEF JobClean, Free, Model
<1> QED BY <1>4, <1>5, <1>6, <1>7

\* Training writes the file of its own job only.
LEMMA TrainStepKeeps ==
  ASSUME CInv, TrainStep, UNCHANGED <<round, stage, locals, current, verdict, rejected, mode>>
  PROVE  CInv'
<1> USE DEF CInv
<1>1. job' = job /\ job \in 1..MaxJobs /\ phase' \in {"saving", "training"} /\ phase = "training" /\ stage = "local"
  BY TrainingAssumption DEF TrainStep, TypeOK, Stages
<1>2. IsCheckpoint(agent') /\ agent'.past = agent.past \union {<<job, step + 1>>}
  <2>1. IsCheckpoint(Acted(agent)) /\ Acted(agent).past = agent.past \union {<<job, step + 1>>}
    BY StepPast DEF TypeOK
  <2>2. IsCheckpoint(Learnt(Acted(agent))) /\ Learnt(Acted(agent)).past = Acted(agent).past
    BY <2>1, StepPast
  <2> QED BY <2>1, <2>2 DEF TrainStep
<1>3. disk' = disk \/ disk' = [disk EXCEPT ![Local(job)] = Torn]
  BY DEF TrainStep
<1>4. /\ disk' = [f \in Files |-> disk'[f]]
      /\ \A f \in Files : f # Local(job) => disk'[f] = disk[f]
      /\ disk'[Local(job)] = disk[Local(job)] \/ disk'[Local(job)] = Torn
  BY <1>1, <1>3, FileNames, WriteFile DEF TypeOK
<1>5. IsCheckpoint(Model(Local(job))') /\ (Model(Local(job))'.past = Model(Local(job)).past \/ Model(Local(job))'.past = {})
  BY <1>1, <1>4, Blank, FileNames DEF TypeOK, Model
<1>6. \A f \in Files : f # Local(job) => Model(f)' = Model(f)
  BY <1>4 DEF Model
<1>7. TypeOK'
  BY <1>1, <1>2, <1>4, <1>5, <1>6 DEF TypeOK
<1>8. FutureClean'
  BY <1>1, <1>2, <1>5, <1>6, FileNames DEF FutureClean
<1>9. \A r \in 1..MaxRounds : Model(Global(r))' = Model(Global(r)) /\ disk'[Global(r)] = disk[Global(r)]
  BY <1>4, <1>6, FileNames
<1>10. Stages'
  BY <1>1, <1>9, FileNames DEF Stages, Readable
<1>11. RoundClean'
  <2>1. \A j \in locals : Free(Model(Local(j))', rejected)
    BY <1>1, <1>5, <1>6, FileNames, TrainingAssumption DEF RoundClean, Free, FutureClean, TypeOK
  <2> QED BY <1>1, <1>9, <2>1 DEF RoundClean, Free
<1>12. JobClean'
  BY <1>1, <1>2, <1>5, <1>9 DEF JobClean, Free
<1> QED BY <1>7, <1>8, <1>10, <1>11, <1>12

LEMMA SavedKeeps ==
  ASSUME CInv, Saved, UNCHANGED <<round, stage, locals, current, verdict, rejected, mode>>
  PROVE  CInv'
<1> USE DEF CInv
<1>1. /\ job' = job /\ agent' = agent /\ job \in 1..MaxJobs
      /\ phase' \in {"saved", "training"} /\ phase = "saving" /\ stage = "local"
  BY TrainingAssumption DEF Saved, TypeOK, Stages
<1>2. disk' = [disk EXCEPT ![Local(job)] = Whole(agent)] /\ Whole(agent).model = agent
  BY DEF Saved, Whole
<1>3. /\ disk' = [f \in Files |-> disk'[f]]
      /\ \A f \in Files : f # Local(job) => disk'[f] = disk[f]
      /\ disk'[Local(job)] = Whole(agent)
  BY <1>1, <1>2, FileNames, WriteFile
<1>4. Model(Local(job))' = agent /\ \A f \in Files : f # Local(job) => Model(f)' = Model(f)
  BY <1>1, <1>2, <1>3 DEF Model
<1>5. TypeOK'
  BY <1>1, <1>3, <1>4 DEF TypeOK
<1>6. FutureClean'
  BY <1>1, <1>4, FileNames DEF FutureClean
<1>7. \A r \in 1..MaxRounds : Model(Global(r))' = Model(Global(r)) /\ disk'[Global(r)] = disk[Global(r)]
  BY <1>3, <1>4, FileNames
<1>8. Stages'
  BY <1>1, <1>7, FileNames DEF Stages, Readable
<1>9. RoundClean'
  <2>1. ASSUME NEW j \in locals PROVE Free(Model(Local(j))', rejected)
    <3>1. round > 0 /\ j \in 1..MaxJobs
      BY TrainingAssumption DEF Stages, FutureClean, TypeOK
    <3>2. Local(j) # Local(job)
      BY <1>1, <3>1, FileNames DEF JobClean
    <3> QED BY <1>1, <1>4, <3>1, <3>2, FileNames DEF RoundClean
  <2> QED BY <1>1, <1>7, <2>1 DEF RoundClean, Free
<1>10. JobClean'
  BY <1>1, <1>4, <1>7 DEF JobClean, Free
<1> QED BY <1>5, <1>6, <1>8, <1>9, <1>10

\* Whatever ends a job or a campaign, and writes no file.
LEMMA QuietStepKeeps ==
  ASSUME CInv,
         UNCHANGED <<job, agent, disk, mode>>,
         \/ Finish /\ UNCHANGED <<round, stage, locals, current, verdict, rejected>>
         \/ LeaveAlone
         \/ LocalUpdateDone
         \/ StartCampaign
         \/ NextRound
         \/ Kill
         \/ UNCHANGED vars
  PROVE  CInv'
<1> USE DEF CInv
<1>0. TypeOK' /\ FutureClean'
  BY TrainingAssumption DEF TypeOK, FutureClean, Model, Finish, LeaveAlone, LocalUpdateDone, StartCampaign, NextRound,
     NextGlobal, Kill, Killed, roundVars, trainingVars, vars
<1>1. ASSUME UNCHANGED <<round, stage, locals, current, verdict, rejected>>,
             phase' = phase \/ phase' = "off" \/ (phase = "saved" /\ phase' = "done")
      PROVE  CInv'
  BY <1>0, <1>1 DEF Stages, RoundClean, JobClean, Readable, Free, Model
<1>2. CASE Finish /\ UNCHANGED <<round, stage, locals, current, verdict, rejected>>
  BY <1>1, <1>2 DEF Finish
<1>3. CASE LeaveAlone
  BY <1>1, <1>3 DEF LeaveAlone, Killed, roundVars
<1>4. CASE LocalUpdateDone
  <2> USE <1>4 DEF LocalUpdateDone, Killed
  <2>1. stage = "local" /\ locals' = locals \union {job} /\ round > 0 /\ phase # "off"
    OBVIOUS
  <2>2. Stages'
    BY DEF Stages, Readable
  <2>3. RoundClean'
    BY <2>1 DEF RoundClean, JobClean, Free, Model
  <2>4. JobClean'
    BY DEF JobClean
  <2> QED BY <1>0, <2>2, <2>3, <2>4
<1>5. CASE StartCampaign
  <2> USE <1>5 DEF StartCampaign, trainingVars
  <2>1. /\ round' = 1 /\ stage' = "local" /\ locals' = {} /\ phase' = "off" /\ mode = "rounds" /\ rejected' = rejected
        /\ current' \in {f \in Readable : f[1] = "global"} \union {None}
    OBVIOUS
  <2>2. \A f \in Readable : f[1] = "global" => \E r \in 1..MaxRounds : f = Global(r)
    BY DEF Readable, Files, Local, Global
  <2>3. Stages'
    BY <2>1, <2>2 DEF Stages, Readable
  <2>4. RoundClean'
    BY <2>1 DEF RoundClean, Free, Model
  <2> QED BY <1>0, <2>1, <2>3, <2>4 DEF JobClean
<1>6. CASE NextRound
  <2> USE <1>6 DEF NextRound, trainingVars
  <2>1. /\ stage = "judged" /\ stage' = "local" /\ locals' = {} /\ phase' = "off" /\ rejected' = rejected
        /\ current' = NextGlobal
        /\ round > 0 /\ round \in 1..MaxRounds
    BY TrainingAssumption DEF Stages, TypeOK
  <2>2. current' \in {None} \union {f \in Readable : \E r \in 1..MaxRounds : f = Global(r)}
    BY <2>1 DEF NextGlobal, Stages
  <2>3. Stages'
    <3>1. mode' # "solo"
      BY <2>1 DEF Stages
    <3> QED BY <2>1, <2>2, <3>1 DEF Stages, Readable
  <2>4. RoundClean'
    BY <2>1 DEF RoundClean, Free, Model
  <2> QED BY <1>0, <2>1, <2>3, <2>4 DEF JobClean
<1>7. CASE Kill
  <2> USE <1>7 DEF Kill, Killed
  <2>1. round' = 0 /\ stage' = "local" /\ locals' = {} /\ phase' = "off" /\ rejected' = rejected
    OBVIOUS
  <2>2. Stages' /\ RoundClean' /\ JobClean'
    BY <2>1 DEF Stages, RoundClean, JobClean, Free, Model
  <2> QED BY <1>0, <2>2
<1>8. CASE UNCHANGED vars
  BY <1>1, <1>8 DEF vars, trainingVars, roundVars
<1> QED BY <1>2, <1>3, <1>4, <1>5, <1>6, <1>7, <1>8

-----------------------------------------------------------------------------
\* The candidate has the experience of the round's jobs, and of nothing else.
LEMMA AggregateKeeps == ASSUME CInv, Aggregate PROVE CInv'
<1> USE DEF CInv, Aggregate
<1> DEFINE c == FedAvg(locals)
<1>1. round \in 1..MaxRounds /\ stage = "local" /\ phase = "off"
  BY TrainingAssumption DEF TypeOK
<1>2. Whole(c).model = c /\ Whole(c).state = "whole"
  BY DEF Whole
<1>3. IsCheckpoint(c) /\ c.past = UNION {disk[Local(j)].model.past : j \in locals}
  BY DEF FedAvg, IsCheckpoint
<1>4. \A j \in locals : Local(j) \in Files
  BY FileNames, TrainingAssumption DEF FutureClean, TypeOK
<1>5. /\ disk' = [f \in Files |-> disk'[f]]
      /\ \A f \in Files : f # Candidate(round) => disk'[f] = disk[f]
      /\ disk'[Candidate(round)] = Whole(c)
  BY <1>1, FileNames, WriteFile
<1>6. Model(Candidate(round))' = c /\ \A f \in Files : f # Candidate(round) => Model(f)' = Model(f)
  BY <1>1, <1>2, <1>5 DEF Model
<1>7. \A e \in c.past : e[1] \in 1..job /\ e[1] \notin rejected
  BY <1>1, <1>3, <1>4 DEF FutureClean, RoundClean, Free, Model
<1>8. TypeOK'
  BY <1>3, <1>5, <1>6 DEF TypeOK
<1>9. FutureClean'
  BY <1>6, <1>7, FileNames DEF FutureClean
<1>10. \A r \in 1..MaxRounds : Model(Global(r))' = Model(Global(r)) /\ disk'[Global(r)] = disk[Global(r)]
  BY <1>5, <1>6, FileNames
<1>11. Stages'
  BY <1>1, <1>2, <1>5, <1>10, FileNames DEF Stages, Readable
<1>12. RoundClean'
  BY <1>1, <1>6, <1>7, <1>10 DEF RoundClean, Free
<1>13. JobClean'
  BY <1>1 DEF JobClean
<1> QED BY <1>8, <1>9, <1>11, <1>12, <1>13

\* An accepted candidate becomes the global model of its round; a rejected one
\* makes its jobs rejected, of which the global models are free.
LEMMA JudgeKeeps == ASSUME CInv, NEW accepted \in BOOLEAN, Judge(accepted) PROVE CInv'
<1> USE DEF CInv, Judge
<1>1. round \in 1..MaxRounds /\ stage = "aggregated" /\ phase' = "off" /\ stage' = "judged" /\ verdict' = accepted
  BY TrainingAssumption DEF TypeOK, Stages
<1>2. CASE ~accepted
  <2>1. disk' = disk /\ rejected' = rejected \union locals
    BY <1>2
  <2>2. TypeOK' /\ FutureClean'
    BY <1>1, <2>1 DEF TypeOK, FutureClean, Model
  <2>3. Stages'
    BY <1>1, <1>2, <2>1 DEF Stages, Readable
  <2>4. RoundClean'
    BY <1>1, <2>1 DEF RoundClean, Free, Model
  <2> QED BY <1>1, <2>2, <2>3, <2>4 DEF JobClean
<1>3. CASE accepted
  <2> DEFINE new == disk[Candidate(round)]
             mid == [disk EXCEPT ![Global(round)] = new]
  <2>1. disk' = [mid EXCEPT ![Candidate(round)] = Absent] /\ rejected' = rejected
    BY <1>3
  <2>2. disk' = [f \in Files |-> IF f = Candidate(round) THEN Absent ELSE IF f = Global(round) THEN new ELSE disk[f]]
    BY <1>1, <2>1, FileNames DEF TypeOK
  <2>3. /\ disk' = [f \in Files |-> disk'[f]]
        /\ disk'[Candidate(round)] = Absent /\ disk'[Global(round)] = new
        /\ \A f \in Files : f # Candidate(round) /\ f # Global(round) => disk'[f] = disk[f]
    BY <1>1, <2>2, FileNames
  <2> HIDE DEF mid, Judge
  <2>4. new.state = "whole" /\ IsCheckpoint(new.model) /\ Free(new.model, rejected)
        /\ \A e \in new.model.past : e[1] \in 1..job
    BY <1>1, FileNames DEF Stages, TypeOK, RoundClean, FutureClean, Model
  <2> HIDE DEF new
  <2>a. \A r \in 1..MaxRounds : disk'[Global(r)] = IF r = round THEN new ELSE disk[Global(r)]
    BY <1>1, <2>3, FileNames
  <2>5. \A f \in Files : IsCheckpoint(Model(f)') /\ \A e \in Model(f)'.past : e[1] \in 1..job
    BY <2>3, <2>4, Blank DEF Model, TypeOK, FutureClean
  <2>6. TypeOK'
    BY <1>1, <2>3, <2>5 DEF TypeOK, Judge
  <2>7. FutureClean'
    <3>1. UNCHANGED <<locals, job, agent, rejected>>
      BY <2>1 DEF Judge
    <3>2. \A j \in 1..MaxJobs : Model(Local(j))' = Model(Local(j))
      BY <1>1, <2>3, FileNames DEF Model
    <3> QED BY <2>5, <3>1, <3>2 DEF FutureClean
  <2>8. \A r \in 1..MaxRounds : Free(Model(Global(r))', rejected)
    <3> SUFFICES ASSUME NEW r \in 1..MaxRounds PROVE Free(Model(Global(r))', rejected)
      OBVIOUS
    <3>1. Free(Model(Global(r)), rejected)
      BY DEF RoundClean
    <3>2. Model(Global(r))' = IF r = round THEN new.model ELSE Model(Global(r))
      BY <2>a DEF Model
    <3> QED BY <2>4, <3>1, <3>2
  <2>9. \A r \in 1..MaxRounds : Global(r) \in Readable => disk'[Global(r)].state = "whole"
    BY <2>a, <2>4 DEF Readable
  <2>10. Stages' /\ UNCHANGED <<mode, round, current>>
    <3>1. Global(round) \in Readable'
      BY <1>1, <2>a, <2>4, FileNames DEF Readable
    <3>2. current' \in {None} \union {f \in Readable' : \E r \in 1..MaxRounds : f = Global(r)}
      <4>1. current' = current /\ round # 0 /\ round > 0
        BY <1>1 DEF Judge
      <4>2. CASE current # None
        <5>1. PICK r \in 1..MaxRounds : current = Global(r) /\ current \in Readable
          BY <4>1, <4>2 DEF Stages
        <5>2. current \in Files /\ disk'[current].state = "whole"
          BY <2>9, <5>1, FileNames
        <5> QED BY <4>1, <5>1, <5>2 DEF Readable
      <4> QED BY <4>1, <4>2
    <3> QED BY <1>1, <3>1, <3>2, <2>1 DEF Stages, Judge
  <2>11. RoundClean'
    BY <1>1, <2>1, <2>8 DEF RoundClean
  <2> QED BY <1>1, <2>6, <2>7, <2>10, <2>11 DEF JobClean
<1> QED BY <1>2, <1>3

-----------------------------------------------------------------------------
LEMMA CampaignInvariant == Spec => []CInv
<1>1. Init => CInv
  BY TrainingAssumption, Blank, FileNames
  DEF Init, InitTraining, CInv, TypeOK, FutureClean, Stages, RoundClean, JobClean, Free, Model
<1>2. CInv /\ [Next]_vars => CInv'
  <2> SUFFICES ASSUME CInv, [Next]_vars PROVE CInv'
    OBVIOUS
  <2>1. CASE TrainAlone
    BY <2>1, BeginKeeps DEF TrainAlone, roundVars, CInv, Stages, Readable
  <2>2. CASE LocalUpdate
    <3>1. current \in Files \union {None}
      BY <2>2 DEF LocalUpdate, CInv, Stages, Readable
    <3> QED BY <2>2, <3>1, BeginKeeps DEF LocalUpdate, roundVars
  <2>3. CASE Work
    BY <2>3, TrainStepKeeps, SavedKeeps, QuietStepKeeps DEF Work, roundVars, Finish
  <2>4. CASE LeaveAlone \/ LocalUpdateDone \/ StartCampaign \/ NextRound \/ Kill \/ UNCHANGED vars
    <3>1. UNCHANGED <<job, agent, disk, mode>>
      BY <2>4 DEF LeaveAlone, LocalUpdateDone, StartCampaign, NextRound, Kill, Killed, vars, trainingVars
    <3> QED BY <2>4, <3>1, QuietStepKeeps
  <2>5. CASE Aggregate
    BY <2>5, AggregateKeeps
  <2>6. ASSUME NEW o \in Outcomes, Judge(Accepted(o)) PROVE CInv'
    <3>1. Accepted(o) \in BOOLEAN
      BY DEF Accepted
    <3> QED BY <2>6, <3>1, JudgeKeeps
  <2> QED BY <2>1, <2>2, <2>3, <2>4, <2>5, <2>6 DEF Next, Campaign
<1> QED BY <1>1, <1>2, PTL DEF Spec

\* For every number of stations and rounds and every sequence of verdicts, kills
\* and campaigns in the same directories: no step of a rejected round is in a
\* global model or in the weights a round trains, and what is carried forward
\* can be read.
THEOREM NoTrace == Spec => []RejectedLeaveNoTrace
<1>1. CInv => RejectedLeaveNoTrace
  <2> SUFFICES ASSUME CInv PROVE RejectedLeaveNoTrace
    OBVIOUS
  <2>1. \A r \in 1..MaxRounds : \A e \in disk[Global(r)].model.past : e[1] \notin rejected
    BY DEF CInv, RoundClean, Free, Model
  <2>2. round > 0 /\ phase # "off" => \A e \in agent.past : e[1] \notin rejected
    BY DEF CInv, JobClean, Free
  <2>3. round > 0 /\ current # None => current \in Readable
    BY DEF CInv, Stages
  <2> QED BY <2>1, <2>2, <2>3 DEF RejectedLeaveNoTrace
<1> QED BY CampaignInvariant, <1>1, PTL

-----------------------------------------------------------------------------
(***************************************************************************)
(* Killed jobs.  What is on disk of a job is its first k steps, and k is   *)
(* short of where the job is by what it has done since its last multiple   *)
(* of checkpoint_every; whatever a job on its own takes up was written by  *)
(* one, with counters that fit its experience.                             *)
(***************************************************************************)

\* Counters that fit the experience and each other.
Sound(c) ==
  /\ IsFiniteSet(c.past) /\ c.env = Cardinality(c.past)
  /\ c.trained \in Nat /\ c.policy = c.trained \div PolicyDelay

\* Of an agent on its own, and of everything it can be loaded from.
SoundAlone == mode = "solo" => Sound(agent) /\ \A f \in Files : Sound(Model(f))

\* The steps of the job that is running, of which there are n.
Steps(past, n) == {e \in past : e[1] = job} = {<<job, i>> : i \in 1..n}

\* The loop of a job: its own steps are in its weights, and it saves when it is due.
Looping ==
  /\ every \in Nat /\ (every # 0 => mode = "solo")
  /\ phase # "off" => Steps(agent.past, step)
  /\ phase = "saving" => CheckpointDue(step)

\* A job that takes checkpoints has saved all but its last steps.
Progress ==
  job > 0 /\ every # 0 /\ disk[Local(job)] # Torn =>
    \E k \in 0..step :
      /\ Steps(Model(Local(job)).past, k)
      /\ step - k <= every
      /\ phase = "training" => step - k = step % every

\* A record that says finished has its checkpoint, and no job to come has a file.
Filed ==
  /\ records = [j \in 1..MaxJobs |-> records[j]]
  /\ \A j \in 1..MaxJobs :
       /\ j > job => disk[Local(j)] = Absent /\ records[j] # "finished"
       /\ records[j] = "finished" => disk[Local(j)].state = "whole"
  /\ phase \in {"training", "saving", "saved"} => records[job] # "finished"
  /\ phase = "saved" => disk[Local(job)].state = "whole"

KInv == SoundAlone /\ Looping /\ Progress /\ Filed

\* A quotient and its remainder, as the loop counts on by one.
LEMMA CountOn ==
  ASSUME NEW s \in Nat, NEW n \in Nat \ {0}
  PROVE  /\ s % n \in 0..n - 1
         /\ (s + 1) \div n = s \div n + IF (s + 1) % n = 0 THEN 1 ELSE 0
         /\ (s + 1) % n = IF (s % n) + 1 = n THEN 0 ELSE (s % n) + 1
<1> DEFINE q == s \div n
           r == s % n
<1>1. s = n * q + r /\ r \in 0..n - 1 /\ q \in Nat
  OBVIOUS
<1>2. ASSUME NEW p \in Int, NEW o \in 0..n - 1
      PROVE  (n * p + o) \div n = p /\ (n * p + o) % n = o
  OBVIOUS
<1> HIDE DEF q, r
<1>3. CASE r + 1 = n
  <2>1. s + 1 = n * (q + 1) + 0 /\ q + 1 \in Int /\ 0 \in 0..n - 1
    BY <1>1, <1>3
  <2>2. (s + 1) % n = 0 /\ (s + 1) \div n = q + 1
    BY <1>2, <2>1
  <2> QED BY <1>1, <1>3, <2>2 DEF q, r
<1>4. CASE r + 1 # n
  <2>1. s + 1 = n * q + (r + 1) /\ r + 1 \in 0..n - 1 /\ r + 1 # 0
    BY <1>1, <1>4
  <2>2. (s + 1) % n = r + 1 /\ (s + 1) \div n = q
    BY <1>1, <1>2, <2>1
  <2> QED BY <1>1, <1>4, <2>1, <2>2 DEF q, r
<1> QED BY <1>3, <1>4

\* There are as many steps of a job as it has done.
LEMMA CountSteps ==
  ASSUME NEW j, NEW n \in Nat
  PROVE  Cardinality({<<j, i>> : i \in 1..n}) = n
<1> DEFINE S == {<<j, i>> : i \in 1..n}
           f == [i \in 1..n |-> <<j, i>>]
<1>1. f \in Bijection(1..n, S)
  BY DEF Bijection, Injection, Surjection, IsInjective
<1>2. IsFiniteSet(1..n) /\ Cardinality(1..n) = n
  BY FS_Interval
<1> HIDE DEF S, f
<1>3. Cardinality(S) = n
  BY <1>1, FS_CountingElements DEF ExistsBijection
<1> QED BY <1>3 DEF S

LEMMA FreshSound == Sound(Fresh)
<1>1. 0 \div PolicyDelay = 0
  BY TrainingAssumption
<1> QED BY <1>1, FS_EmptySet DEF Sound, Fresh

\* A step of the loop keeps the counters with the experience: it is a new one.
LEMMA StepSound ==
  ASSUME NEW c, IsCheckpoint(c), Sound(c), <<job, step + 1>> \notin c.past
  PROVE  Sound(Acted(c)) /\ Sound(Learnt(Acted(c)))
<1> DEFINE a == Acted(c)
           b == Learnt(a)
<1>1. /\ IsCheckpoint(a) /\ a.past = c.past \union {<<job, step + 1>>}
      /\ a.env = c.env + 1 /\ a.trained = c.trained /\ a.policy = c.policy
  BY StepPast
<1> HIDE DEF a
<1>2. /\ b.past = a.past /\ b.env = a.env /\ b.trained = a.trained + 1
      /\ b.policy = a.policy + IF (a.trained + 1) % PolicyDelay = 0 THEN 1 ELSE 0
  BY <1>1, StepPast
<1> HIDE DEF b
<1>3. IsFiniteSet(a.past) /\ Cardinality(a.past) = Cardinality(c.past) + 1
  <2> DEFINE new == <<job, step + 1>>
  <2>1. IsFiniteSet(c.past) /\ new \notin c.past /\ a.past = c.past \union {new}
    BY <1>1 DEF Sound
  <2> HIDE DEF new
  <2> QED BY <2>1, FS_AddElement
<1>4. Sound(a)
  BY <1>1, <1>3 DEF Sound
<1>5. PolicyDelay \in Nat \ {0} /\ a.trained \in Nat
  BY <1>4, TrainingAssumption DEF Sound
<1>6. (a.trained + 1) \div PolicyDelay
        = a.trained \div PolicyDelay + IF (a.trained + 1) % PolicyDelay = 0 THEN 1 ELSE 0
  BY <1>5, CountOn
<1>7. Sound(b)
  BY <1>2, <1>4, <1>5, <1>6 DEF Sound
<1> QED BY <1>4, <1>7 DEF a, b

-----------------------------------------------------------------------------
\* A job begins with nothing of its own, in its weights or on disk.
LEMMA BeginCounts ==
  ASSUME CInv, KInv, NEW from \in Files \union {None}, NEW interval \in Nat, Begin(from, interval),
         interval # 0 => mode = "solo", UNCHANGED mode
  PROVE  KInv'
<1>1. /\ job \in Nat /\ job' = job + 1 /\ job' \in 1..MaxJobs /\ job' > 0 /\ disk' = disk
      /\ phase' = "training" /\ every' = interval /\ step' = 0
      /\ agent' = Loaded(from) /\ records' = [records EXCEPT ![job + 1] = "started"]
  BY TrainingAssumption DEF Begin, CInv, TypeOK, Registered
<1>2. agent' = Fresh \/ (\E f \in Files : agent' = Model(f))
  BY <1>1, FilesAssumption DEF Loaded, Model
<1>3. SoundAlone'
  BY <1>1, <1>2, FreshSound DEF KInv, SoundAlone, Model
<1>4. \A i : i \notin 1..0
  OBVIOUS
<1>5. ASSUME NEW past, \A e \in past : e[1] \in 1..job
      PROVE  {e \in past : e[1] = job'} = {<<job', i>> : i \in 1..0}
  BY <1>1, <1>4, <1>5
<1>6. \A e \in agent'.past : e[1] \in 1..job
  BY <1>2, Blank DEF CInv, FutureClean
<1>7. Looping'
  BY <1>1, <1>5, <1>6 DEF Looping, Steps
<1>8. Progress'
  <2>1. disk'[Local(job')].model = Fresh
    <3>1. job' > job
      BY <1>1
    <3> QED BY <1>1, <3>1, Blank DEF KInv, Filed
  <2>2. {e \in Fresh.past : e[1] = job'} = {<<job', i>> : i \in 1..0}
    BY <1>5, Blank
  <2>3. every' # 0 => 0 - 0 <= every' /\ 0 - 0 = 0 % every'
    BY <1>1
  <2> QED BY <1>1, <2>1, <2>2, <2>3 DEF Progress, Steps, Model
<1>9. Filed'
  <2>1. /\ records' = [j \in 1..MaxJobs |-> records'[j]] /\ records'[job'] = "started"
        /\ \A j \in 1..MaxJobs : j # job' => records'[j] = records[j]
    BY <1>1 DEF KInv, Filed
  <2> QED BY <1>1, <2>1 DEF KInv, Filed
<1> QED BY <1>3, <1>7, <1>8, <1>9 DEF KInv

\* A step of the loop is one more of its own, and one more that is not saved.
LEMMA TrainStepCounts ==
  ASSUME CInv, Ring, KInv, TrainStep, UNCHANGED mode
  PROVE  KInv'
<1> DEFINE due == CheckpointDue(step + 1)
<1>1. /\ job \in 1..MaxJobs /\ job > 0 /\ step \in Nat /\ step' = step + 1 /\ phase = "training"
      /\ UNCHANGED <<job, every, records>>
      /\ Local(job) \in Files /\ IsCheckpoint(agent)
  BY FileNames, TrainingAssumption DEF TrainStep, CInv, TypeOK, Ring, RingType
<1>2. agent' = Acted(agent) \/ agent' = Learnt(Acted(agent))
  BY DEF TrainStep
<1>3. agent'.past = agent.past \union {<<job, step + 1>>}
  BY <1>1, <1>2, StepPast
<1>4. Steps(agent.past, step)
  BY <1>1 DEF KInv, Looping
<1>5. <<job, step + 1>> \notin agent.past
  <2>1. \A i \in 1..step : <<job, i>> # <<job, step + 1>>
    BY <1>1
  <2> QED BY <1>4, <2>1 DEF Steps
<1>6. Steps(agent'.past, step + 1)
  <2>1. \A i : i \in 1..step + 1 <=> i \in 1..step \/ i = step + 1
    BY <1>1
  <2> QED BY <1>3, <1>4, <2>1 DEF Steps
<1>7. due => /\ phase' = "saving" /\ disk'[Local(job)] = Torn
             /\ \A f \in Files : f # Local(job) => disk'[f] = disk[f]
  BY <1>1, WriteFile DEF TrainStep, CInv
<1>8. ~due => phase' = "training" /\ disk' = disk
  BY DEF TrainStep
<1>9. SoundAlone'
  <2> SUFFICES ASSUME mode = "solo" PROVE Sound(agent') /\ \A f \in Files : Sound(Model(f)')
    BY DEF SoundAlone
  <2>1. Sound(agent')
    BY <1>1, <1>2, <1>5, StepSound DEF KInv, SoundAlone
  <2>2. \A f \in Files : Model(f)' = Model(f) \/ Model(f)' = Fresh
    BY <1>7, <1>8, Blank DEF Model
  <2> QED BY <2>1, <2>2, FreshSound DEF KInv, SoundAlone
<1>10. Looping'
  <2>1. phase' = "saving" => due
    BY <1>7, <1>8
  <2>2. phase' = "saving" => CheckpointDue(step)'
    BY <1>1, <2>1 DEF CheckpointDue
  <2>3. Steps(agent.past, step)'
    BY <1>1, <1>6 DEF Steps
  <2> QED BY <1>1, <2>2, <2>3 DEF KInv, Looping
<1>11. Progress'
  <2> SUFFICES ASSUME every # 0, disk'[Local(job)] # Torn
               PROVE  \E k \in 0..step + 1 :
                        /\ Steps(disk'[Local(job)].model.past, k)
                        /\ step + 1 - k <= every
                        /\ phase' = "training" => step + 1 - k = (step + 1) % every
    BY <1>1 DEF Progress, Steps, Model
  <2>1. ~due /\ disk' = disk /\ phase' = "training" /\ every \in Nat \ {0}
    BY <1>7, <1>8 DEF KInv, Looping
  <2>2. PICK k \in 0..step : Steps(Model(Local(job)).past, k) /\ step - k = step % every
    BY <1>1, <2>1 DEF KInv, Progress
  <2>3. (step + 1) % every # 0
    BY <2>1 DEF CheckpointDue
  <2>4. (step + 1) % every = (step % every) + 1 /\ (step + 1) % every \in 0..every - 1
    BY <1>1, <2>1, <2>3, CountOn, step + 1 \in Nat
  <2>5. step + 1 - k = (step + 1) % every /\ step + 1 - k <= every /\ k \in 0..step + 1
    BY <1>1, <2>1, <2>2, <2>4
  <2> QED BY <2>1, <2>2, <2>5 DEF Model
<1>12. Filed'
  <2>1. \A j \in 1..MaxJobs : Local(j) \in Files /\ (j # job => disk'[Local(j)] = disk[Local(j)])
    BY <1>7, <1>8, FileNames
  <2>2. phase' # "saved" /\ records[job] # "finished" /\ phase' \in {"training", "saving"}
    BY <1>1, <1>7, <1>8 DEF KInv, Filed
  <2>3. \A j \in 1..MaxJobs : j > job => j # job
    BY <1>1
  <2> QED BY <1>1, <2>1, <2>2, <2>3 DEF KInv, Filed
<1> QED BY <1>9, <1>10, <1>11, <1>12 DEF KInv

\* A checkpoint that is through holds every step of the job so far.
LEMMA SavedCounts ==
  ASSUME CInv, Ring, KInv, Saved, UNCHANGED mode
  PROVE  KInv'
<1>1. /\ job \in 1..MaxJobs /\ job > 0 /\ step \in Nat /\ phase = "saving"
      /\ phase' = IF step = TotalSteps THEN "saved" ELSE "training"
      /\ UNCHANGED <<job, every, step, agent, records>>
      /\ Local(job) \in Files
  BY FileNames, TrainingAssumption DEF Saved, CInv, TypeOK, Ring, RingType
<1>2. /\ disk'[Local(job)] = Whole(agent)
      /\ \A f \in Files : f # Local(job) => disk'[f] = disk[f]
  BY <1>1, WriteFile DEF Saved, CInv
<1>3. /\ Whole(agent).model = agent /\ Whole(agent).state = "whole"
      /\ disk'[Local(job)].model = agent
      /\ \A f \in Files : Model(f)' = Model(f) \/ Model(f)' = agent
  BY <1>1, <1>2 DEF Whole, Model
<1>4. SoundAlone'
  BY <1>1, <1>3 DEF KInv, SoundAlone
<1>5. Looping'
  BY <1>1 DEF KInv, Looping, Steps
<1>6. Progress'
  <2> SUFFICES ASSUME every # 0
               PROVE  \E k \in 0..step :
                        /\ Steps(disk'[Local(job)].model.past, k)
                        /\ step - k <= every
                        /\ phase' = "training" => step - k = step % every
    BY <1>1 DEF Progress, Steps, Model
  <2>1. every \in Nat \ {0} /\ Steps(agent.past, step) /\ CheckpointDue(step)
    BY <1>1 DEF KInv, Looping
  <2>2. phase' = "training" => step % every = 0
    BY <1>1, <2>1 DEF CheckpointDue
  <2>3. step \in 0..step /\ step - step = 0 /\ 0 <= every
    BY <1>1, <2>1
  <2> QED BY <1>3, <2>1, <2>2, <2>3
<1>7. Filed'
  <2>1. \A j \in 1..MaxJobs : Local(j) \in Files /\ (j # job => disk'[Local(j)] = disk[Local(j)])
    BY <1>2, FileNames
  <2>2. disk'[Local(job)].state = "whole" /\ records[job] # "finished"
    BY <1>1, <1>2, <1>3 DEF KInv, Filed
  <2>3. \A j \in 1..MaxJobs : j > job => j # job
    BY <1>1
  <2> QED BY <1>1, <2>1, <2>2, <2>3 DEF KInv, Filed
<1> QED BY <1>4, <1>5, <1>6, <1>7 DEF KInv

\* A campaign's own files are not those of a job, and it takes no checkpoints on the way.
LEMMA CampaignCounts ==
  ASSUME CInv, KInv, UNCHANGED <<job, every, step, agent, phase, records, mode>>,
         mode # "solo", \A j \in 1..MaxJobs : disk'[Local(j)] = disk[Local(j)]
  PROVE  KInv'
<1>1. every = 0
  BY DEF KInv, Looping
<1>2. SoundAlone' /\ Progress'
  BY <1>1 DEF SoundAlone, Progress
<1>3. Looping'
  BY DEF KInv, Looping, Steps, CheckpointDue
<1>4. phase = "saved" => job \in 1..MaxJobs
  BY TrainingAssumption DEF CInv, TypeOK
<1>5. Filed'
  BY <1>4 DEF KInv, Filed
<1> QED BY <1>2, <1>3, <1>5 DEF KInv

\* The end of a job writes no file.
LEMMA QuietStepCounts ==
  ASSUME CInv, KInv, UNCHANGED <<job, every, step, agent, disk, mode>>,
         \/ Finish
         \/ phase' = "off" /\ UNCHANGED records
         \/ UNCHANGED <<phase, records>>
  PROVE  KInv'
<1>1. phase' = phase \/ phase' \in {"off", "done"}
  BY DEF Finish
<1>2. phase' # "off" => phase # "off"
  BY DEF Finish
<1>3. SoundAlone' /\ Looping' /\ Progress'
  BY <1>1, <1>2 DEF KInv, SoundAlone, Looping, Progress, Steps, Model, CheckpointDue
<1>4. Filed'
  <2>1. CASE Finish
    <3>1. job \in 1..MaxJobs /\ phase = "saved" /\ phase' = "done"
      BY <2>1, TrainingAssumption DEF Finish, CInv, TypeOK
    <3>2. /\ records' = [j \in 1..MaxJobs |-> records'[j]]
          /\ \A j \in 1..MaxJobs : j # job => records'[j] = records[j]
      BY <2>1, <3>1 DEF Finish, KInv, Filed
    <3>3. disk'[Local(job)].state = "whole" /\ \A j \in 1..MaxJobs : j > job => j # job
      BY <3>1 DEF KInv, Filed
    <3> QED BY <3>1, <3>2, <3>3 DEF KInv, Filed
  <2>2. CASE UNCHANGED records /\ (phase' = phase \/ phase' = "off")
    BY <2>2 DEF KInv, Filed
  <2> QED BY <2>1, <2>2
<1> QED BY <1>3, <1>4 DEF KInv

LEMMA CountInvariant == Spec => []KInv
<1>1. Init => KInv
  <2> SUFFICES ASSUME Init PROVE KInv
    OBVIOUS
  <2>1. SoundAlone
    BY FreshSound, Blank DEF Init, InitTraining, SoundAlone, Model
  <2>2. Looping /\ Progress
    BY DEF Init, InitTraining, Looping, Progress
  <2>3. Filed
    BY FileNames DEF Init, InitTraining, Filed
  <2> QED BY <2>1, <2>2, <2>3 DEF KInv
<1>2. CInv /\ Ring /\ KInv /\ [Next]_vars => KInv'
  <2> SUFFICES ASSUME CInv, Ring, KInv, [Next]_vars PROVE KInv'
    OBVIOUS
  <2>1. CASE TrainAlone
    <3>1. PICK from \in Readable \union {None}, interval \in Intervals : Begin(from, interval)
      BY <2>1 DEF TrainAlone
    <3>2. from \in Files \union {None} /\ interval \in Nat
      BY IntervalAssumption DEF Readable
    <3> QED BY <2>1, <3>1, <3>2, BeginCounts DEF TrainAlone
  <2>2. CASE LocalUpdate
    <3>1. current \in Files \union {None}
      BY <2>2 DEF LocalUpdate, CInv, Stages, Readable
    <3> QED BY <2>2, <3>1, BeginCounts, 0 \in Nat DEF LocalUpdate
  <2>3. CASE Work
    <3>1. CASE TrainStep
      BY <2>3, <3>1, TrainStepCounts DEF Work
    <3>2. CASE Saved
      BY <2>3, <3>2, SavedCounts DEF Work
    <3>3. CASE Finish
      BY <2>3, <3>3, QuietStepCounts DEF Work, Finish
    <3> QED BY <2>3, <3>1, <3>2, <3>3 DEF Work
  <2>4. CASE LeaveAlone \/ LocalUpdateDone \/ StartCampaign \/ NextRound \/ Kill \/ UNCHANGED vars
    BY <2>4, QuietStepCounts
    DEF LeaveAlone, LocalUpdateDone, StartCampaign, NextRound, Kill, Killed, vars, trainingVars
  <2>5. CASE Aggregate \/ \E o \in Outcomes : Judge(Accepted(o))
    <3>1. round > 0 /\ round \in 1..MaxRounds /\ mode # "solo"
      BY <2>5, TrainingAssumption DEF Aggregate, Judge, CInv, TypeOK, Stages
    <3>2. UNCHANGED <<job, every, step, agent, phase, records, mode>>
      BY <2>5 DEF Aggregate, Judge
    <3>3. \A j \in 1..MaxJobs : disk'[Local(j)] = disk[Local(j)]
      <4> SUFFICES ASSUME NEW j \in 1..MaxJobs PROVE disk'[Local(j)] = disk[Local(j)]
        OBVIOUS
      <4>1. /\ Local(j) \in Files /\ Local(j) # Candidate(round) /\ Local(j) # Global(round)
        BY <3>1, FileNames
      <4>2. disk = [f \in Files |-> disk[f]]
        BY DEF CInv, TypeOK
      <4>3. ASSUME NEW d, NEW f, NEW v, d = [g \in Files |-> d[g]], f # Local(j)
            PROVE  /\ [d EXCEPT ![f] = v][Local(j)] = d[Local(j)]
                   /\ [d EXCEPT ![f] = v] = [g \in Files |-> [d EXCEPT ![f] = v][g]]
        BY <4>1, <4>3
      <4>4. CASE Aggregate
        BY <4>1, <4>2, <4>3, <4>4 DEF Aggregate
      <4>5. ASSUME NEW accepted \in BOOLEAN, Judge(accepted)
            PROVE  disk'[Local(j)] = disk[Local(j)]
        <5> DEFINE mid == [disk EXCEPT ![Global(round)] = disk[Candidate(round)]]
        <5>1. mid[Local(j)] = disk[Local(j)] /\ mid = [g \in Files |-> mid[g]]
          BY <4>1, <4>2, <4>3
        <5>2. disk' = disk \/ disk' = [mid EXCEPT ![Candidate(round)] = Absent]
          BY <4>5 DEF Judge
        <5> HIDE DEF mid
        <5> QED BY <4>1, <4>3, <5>1, <5>2
      <4> QED BY <2>5, <4>4, <4>5 DEF Accepted
    <3> QED BY <3>1, <3>2, <3>3, CampaignCounts
  <2> QED BY <2>1, <2>2, <2>3, <2>4, <2>5 DEF Next, Campaign
<1> QED BY CampaignInvariant, RingInvariant, <1>1, <1>2, PTL DEF Spec

\* For every checkpoint_every, every number of steps and every sequence of kills and
\* resumed jobs: what a kill takes away is at most checkpoint_every steps, unless it
\* falls into the writing of the file, the counters that were saved are those of the
\* experience that was saved, the delayed updates go on where they were, and a
\* record that says finished has a checkpoint that can be read.
THEOREM LossIsBounded == Spec => []LossBounded
<1>1. CInv /\ Ring /\ KInv => LossBounded
  <2> SUFFICES ASSUME CInv, Ring, KInv PROVE LossBounded
    OBVIOUS
  <2>1. ASSUME phase = "off", job > 0, every # 0, disk[Local(job)] # Torn
        PROVE  LET saved == disk[Local(job)].model
               IN  /\ step - Cardinality({e \in saved.past : e[1] = job}) <= every
                   /\ saved.env = Cardinality(saved.past)
    <3> DEFINE saved == disk[Local(job)].model
    <3>1. job \in 1..MaxJobs /\ Local(job) \in Files /\ step \in Nat
      BY <2>1, FileNames, TrainingAssumption DEF CInv, TypeOK, Ring, RingType
    <3>2. PICK k \in 0..step : Steps(saved.past, k) /\ step - k <= every
      BY <2>1 DEF KInv, Progress, Model
    <3>3. Cardinality({e \in saved.past : e[1] = job}) = k
      <4>1. {e \in saved.past : e[1] = job} = {<<job, i>> : i \in 1..k} /\ k \in Nat
        BY <3>1, <3>2 DEF Steps
      <4> QED BY <4>1, CountSteps
    <3>4. saved.env = Cardinality(saved.past)
      BY <2>1, <3>1 DEF KInv, Looping, SoundAlone, Sound, Model
    <3> QED BY <3>2, <3>3, <3>4
  <2>2. every # 0 => agent.policy = agent.trained \div PolicyDelay
    BY DEF KInv, Looping, SoundAlone, Sound
  <2>3. \A j \in 1..MaxJobs : records[j] = "finished" => Local(j) \in Readable
    BY FileNames DEF KInv, Filed, Readable
  <2> QED BY <2>1, <2>2, <2>3 DEF LossBounded
<1> QED BY CampaignInvariant, RingInvariant, CountInvariant, <1>1, PTL
=============================================================================
