------------------------------ MODULE Training ------------------------------
(***************************************************************************)
(* train(): one agent on one station, from scratch or from a checkpoint,   *)
(* with its replay buffer and the checkpoint it writes in place, every so  *)
(* many steps and at the end.  The process may be killed at any moment.    *)
(*                                                                         *)
(* A checkpoint stands for the experience that went into its weights: the  *)
(* set of steps <<job, step>>, next to the two counters it carries.        *)
(***************************************************************************)
EXTENDS Integers, Sequences, FiniteSets

CONSTANTS
  TotalSteps,   \* total_steps of a job
  Warmup,       \* warmup_steps
  BufferSize,   \* buffer_capacity
  PolicyDelay,  \* SDDPGConfig.policy_delay
  MaxJobs,      \* bound: calls of train
  MaxRounds,    \* rounds of a federated campaign, see module Federated
  None

ASSUME TrainingAssumption ==
  /\ {TotalSteps, BufferSize, PolicyDelay, MaxRounds} \subseteq Nat \ {0}
  /\ {Warmup, MaxJobs} \subseteq Nat

VARIABLES
  phase,  \* "off", "training", "saving", "saved" or "done"
  job,    \* the number of the call
  every,  \* its checkpoint_every
  step,   \* its loop variable
  agent,  \* the weights and counters in memory, with the updates of SDDPG's policy
  buffer, \* the replay buffer: the transition in each slot, _ptr and _size
  disk,   \* the checkpoint files, see Whole, Absent and Torn
  records \* how far the record.json of each job has come

trainingVars == <<phase, job, every, step, agent, buffer, disk, records>>

Local(j) == <<"local", j>>
Files == {Local(j) : j \in 1..MaxJobs} \union ({"candidate", "global"} \X (1..MaxRounds))

ASSUME FilesAssumption == None \notin Files

\* build_agents: random weights.
Fresh == [env |-> 0, trained |-> 0, policy |-> 0, past |-> {}]

\* What there may be of a file: all of it, none, or the beginning.
Whole(checkpoint) == [state |-> "whole", model |-> checkpoint]
Absent == [state |-> "absent", model |-> Fresh]
Torn == [state |-> "torn", model |-> Fresh]

\* The files that torch.load can read.
Readable == {f \in Files : disk[f].state = "whole"}

InitTraining ==
  /\ phase = "off" /\ job = 0 /\ every = 0 /\ step = 0
  /\ agent = Fresh
  /\ buffer = [slots |-> [i \in 0..BufferSize - 1 |-> 0], ptr |-> 0, size |-> 0]
  /\ disk = [f \in Files |-> Absent]
  /\ records = [j \in 1..MaxJobs |-> "none"]

-----------------------------------------------------------------------------
\* Mutant: the ring wraps round at what it holds.
AddedShort(t) ==
  LET size == IF buffer.size < BufferSize THEN buffer.size + 1 ELSE BufferSize
  IN  [slots |-> [buffer.slots EXCEPT ![buffer.ptr] = t],
       ptr |-> (buffer.ptr + 1) % size,
       size |-> size]

\* ReplayBuffer.add.
Added(t) ==
  [slots |-> [buffer.slots EXCEPT ![buffer.ptr] = t],
   ptr |-> (buffer.ptr + 1) % BufferSize,
   size |-> IF buffer.size < BufferSize THEN buffer.size + 1 ELSE BufferSize]

\* The transitions that ReplayBuffer.sample may return.
Sampled == {buffer.slots[i] : i \in 0..buffer.size - 1}

\* Mutant: a checkpoint is taken only when something has been learnt since.
CheckpointDueLearnt(n) == n = TotalSteps \/ (every # 0 /\ n % every = 0 /\ buffer.size + 1 >= Warmup)

\* A checkpoint is written when step is a multiple of checkpoint_every, and at the end.
CheckpointDue(n) == n = TotalSteps \/ (every # 0 /\ n % every = 0)

\* ExperimentTracker(): a directory of its own with a record that is not finished.
Registered(j) == [records EXCEPT ![j] = "started"]

\* load_state_dict takes the counters along with the weights.
Loaded(from) == IF from = None THEN Fresh ELSE disk[from].model

\* train() up to its loop, with init_checkpoint unless it is None.
Begin(from, interval) ==
  /\ phase = "off" /\ job < MaxJobs
  /\ phase' = "training"
  /\ job' = job + 1 /\ every' = interval /\ step' = 0
  /\ agent' = Loaded(from)
  /\ buffer' = [slots |-> [i \in 0..BufferSize - 1 |-> 0], ptr |-> 0, size |-> 0]
  /\ records' = Registered(job + 1)
  /\ UNCHANGED disk

\* BranchingDQN.act counts the step that went into the experience.
Acted(a) == [a EXCEPT !.env = @ + 1, !.past = @ \union {<<job, step + 1>>}]

\* One update of both agents: SDDPG's policy and the targets follow every
\* PolicyDelay updates of its critic.
Learnt(a) ==
  [a EXCEPT !.trained = @ + 1, !.policy = @ + IF (a.trained + 1) % PolicyDelay = 0 THEN 1 ELSE 0]

\* One turn of the loop: act, step the environment, remember the transition, learn from
\* a sample once there are enough, and open the file of a checkpoint that is due, which
\* empties it.
TrainStep ==
  /\ phase = "training"
  /\ step' = step + 1
  /\ buffer' = Added(step + 1)
  /\ agent' = IF buffer'.size >= Warmup THEN Learnt(Acted(agent)) ELSE Acted(agent)
  /\ phase' = IF CheckpointDue(step + 1) THEN "saving" ELSE "training"
  /\ disk' = IF CheckpointDue(step + 1) THEN [disk EXCEPT ![Local(job)] = Torn] ELSE disk
  /\ UNCHANGED <<job, every, records>>

\* torch.save is through.
Saved ==
  /\ phase = "saving"
  /\ disk' = [disk EXCEPT ![Local(job)] = Whole(agent)]
  /\ phase' = IF step = TotalSteps THEN "saved" ELSE "training"
  /\ UNCHANGED <<job, every, step, agent, buffer, records>>

\* tracker.finish.
Finish ==
  /\ phase = "saved"
  /\ records' = [records EXCEPT ![job] = "finished"]
  /\ phase' = "done"
  /\ UNCHANGED <<job, every, step, agent, buffer, disk>>

Killed ==
  /\ phase' = "off"
  /\ UNCHANGED <<job, every, step, agent, buffer, disk, records>>

-----------------------------------------------------------------------------
\* Sampling sees the newest transitions of this job, as many as the buffer holds: none that
\* was overwritten, none of an earlier job, and no slot that was never filled.
BufferHoldsNewest ==
  Sampled = (IF step > BufferSize THEN step - BufferSize + 1 ELSE 1)..step

\* A killed job that took checkpoints has lost no more than checkpoint_every steps, unless it was
\* killed while it wrote one; what it saved carries the counters of that moment, so that a job that
\* takes it up again goes on with the delayed updates where it left off; and a record that says
\* finished has its checkpoint.
LossBounded ==
  /\ phase = "off" /\ job > 0 /\ every # 0 /\ disk[Local(job)] # Torn =>
       LET saved == disk[Local(job)].model
       IN  /\ step - Cardinality({e \in saved.past : e[1] = job}) <= every
           /\ saved.env = Cardinality(saved.past)
  /\ every # 0 => agent.policy = agent.trained \div PolicyDelay
  /\ \A j \in 1..MaxJobs : records[j] = "finished" => Local(j) \in Readable

\* A killed job "loses at most that many steps' progress instead of the entire run".
\* Does not hold in the code, which writes over the only checkpoint.
NeverLosesAll == phase = "off" /\ job > 0 /\ every # 0 /\ step > every => Local(job) \in Readable
=============================================================================
