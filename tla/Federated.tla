----------------------------- MODULE Federated ------------------------------
(***************************************************************************)
(* Campaigns of federated rounds (run_rounds), each round training every   *)
(* station from the current global model (module Training), averaging the  *)
(* checkpoints, validating the candidate and promoting it or not; and jobs *)
(* of training on their own, which the user takes up again from whichever  *)
(* checkpoint is left.  A campaign that was killed is started again, from  *)
(* round 1, in the same directories.                                       *)
(***************************************************************************)
EXTENDS Training, FiniteSetsExt

CONSTANTS
  NumStations, \* participating stations
  Intervals,   \* the checkpoint_every of jobs on their own
  MaxAlone,    \* bound: jobs on their own
  MaxKills     \* bound: kills

\* checkpoint_every, of which 0 stands for none.
ASSUME IntervalAssumption == Intervals \subseteq Nat

VARIABLES
  mode,     \* "solo" or "rounds", what the machine is used for
  round,    \* round_num, 0 while no campaign runs
  stage,    \* where run_round is: "local", "aggregated", "judged"
  locals,   \* the jobs of the round that are done
  current,  \* current_global_checkpoint
  verdict,  \* validation.accepted
  rejected, \* the jobs of rejected rounds, for the properties
  kills

roundVars == <<round, stage, locals, current, verdict, rejected>>
vars == <<trainingVars, roundVars, mode, kills>>

Candidate(r) == <<"candidate", r>>
Global(r) == <<"global", r>>

Init ==
  /\ InitTraining
  /\ mode \in {"solo", "rounds"}
  /\ round = 0 /\ stage = "local" /\ locals = {}
  /\ current = None /\ verdict = FALSE
  /\ rejected = {} /\ kills = 0

-----------------------------------------------------------------------------
\* python -m allotrope.train, perhaps with --init-checkpoint.
TrainAlone ==
  /\ mode = "solo" /\ job < MaxAlone
  /\ \E from \in Readable \union {None}, interval \in Intervals : Begin(from, interval)
  /\ UNCHANGED <<roundVars, mode, kills>>

LeaveAlone ==
  /\ mode = "solo" /\ phase = "done"
  /\ Killed
  /\ UNCHANGED <<roundVars, mode, kills>>

Work ==
  /\ TrainStep \/ Saved \/ Finish
  /\ UNCHANGED <<roundVars, mode, kills>>

-----------------------------------------------------------------------------
\* run_rounds begins, with an initial_checkpoint promoted by a campaign before or without.
StartCampaign ==
  /\ mode = "rounds" /\ round = 0 /\ phase = "off"
  /\ \E from \in {f \in Readable : f[1] = "global"} \union {None} : current' = from
  /\ round' = 1 /\ stage' = "local" /\ locals' = {}
  /\ UNCHANGED <<trainingVars, verdict, rejected, mode, kills>>

\* run_local_update trains the next station, without periodic checkpoints.
LocalUpdate ==
  /\ round > 0 /\ stage = "local" /\ Cardinality(locals) < NumStations
  /\ Begin(current, 0)
  /\ UNCHANGED <<roundVars, mode, kills>>

LocalUpdateDone ==
  /\ round > 0 /\ stage = "local" /\ phase = "done"
  /\ locals' = locals \union {job}
  /\ Killed
  /\ UNCHANGED <<round, stage, current, verdict, rejected, mode, kills>>

\* fedavg_checkpoint: the weights are averaged, the counters summed.
FedAvg(jobs) ==
  [env |-> MapThenSumSet(LAMBDA j : disk[Local(j)].model.env, jobs),
   trained |-> MapThenSumSet(LAMBDA j : disk[Local(j)].model.trained, jobs),
   policy |-> MapThenSumSet(LAMBDA j : disk[Local(j)].model.policy, jobs),
   past |-> UNION {disk[Local(j)].model.past : j \in jobs}]

Aggregate ==
  /\ round > 0 /\ stage = "local" /\ phase = "off" /\ Cardinality(locals) = NumStations
  /\ disk' = [disk EXCEPT ![Candidate(round)] = Whole(FedAvg(locals))]
  /\ stage' = "aggregated"
  /\ UNCHANGED <<phase, job, every, step, agent, buffer, records, round, locals, current, verdict, rejected, mode, kills>>

\* default_validator runs the guarded candidate and the incumbent at every station: a
\* candidate passes that sheds no critical load and burns no more.
Outcomes == [1..NumStations -> {"passes", "sheds", "burns more"}]

Accepted(outcome) == \A s \in 1..NumStations : outcome[s] = "passes"

\* The candidate is judged, and one that is accepted renamed.
Judge(accepted) ==
  /\ stage = "aggregated"
  /\ verdict' = accepted
  /\ disk' = IF accepted THEN [disk EXCEPT ![Global(round)] = disk[Candidate(round)], ![Candidate(round)] = Absent] ELSE disk
  /\ rejected' = IF accepted THEN rejected ELSE rejected \union locals
  /\ stage' = "judged"
  /\ UNCHANGED <<phase, job, every, step, agent, buffer, records, round, locals, current, mode, kills>>

\* Mutant: the record's candidate_checkpoint_path, which is always there, is carried forward.
NextGlobalCandidate == IF verdict THEN Global(round) ELSE Candidate(round)

\* The global model the next round starts from.
NextGlobal == IF verdict THEN Global(round) ELSE current

\* The record is written, and the next round begins, if there is one.
NextRound ==
  /\ stage = "judged"
  /\ current' = NextGlobal
  /\ round' = IF round < MaxRounds THEN round + 1 ELSE 0
  /\ stage' = "local" /\ locals' = {}
  /\ UNCHANGED <<trainingVars, verdict, rejected, mode, kills>>

Campaign == LocalUpdate \/ LocalUpdateDone \/ Aggregate \/ NextRound \/ \E o \in Outcomes : Judge(Accepted(o))

-----------------------------------------------------------------------------
\* The process is killed, or raises.
Kill ==
  /\ kills < MaxKills
  /\ phase # "off" \/ round > 0
  /\ kills' = kills + 1
  /\ Killed
  /\ round' = 0 /\ stage' = "local" /\ locals' = {}
  /\ UNCHANGED <<current, verdict, rejected, mode>>

Next == TrainAlone \/ LeaveAlone \/ Work \/ StartCampaign \/ Campaign \/ Kill

Spec == Init /\ [][Next]_vars

-----------------------------------------------------------------------------
\* Nothing of a rejected round reaches a global model or the weights in training, whatever
\* verdicts, kills and campaigns in the same directories came before.
RejectedLeaveNoTrace ==
  /\ \A r \in 1..MaxRounds : Global(r) \in Readable => \A e \in disk[Global(r)].model.past : e[1] \notin rejected
  /\ round > 0 /\ phase # "off" => \A e \in agent.past : e[1] \notin rejected
  /\ round > 0 /\ current # None => current \in Readable

\* "Counters: summed, since FedAvg pools experience": the counter of a global model is
\* the number of steps that went into it.  Does not hold in the code, where every station
\* brings the counter of the global model along.
CountersPoolExperience ==
  \A r \in 1..MaxRounds : Global(r) \in Readable => disk[Global(r)].model.env = Cardinality(disk[Global(r)].model.past)
=============================================================================
