-------------------------------- MODULE Guard --------------------------------
(***************************************************************************)
(* GuardedController: an agent behind the deterministic fallback, the      *)
(* safety projection and the inverter layer, stepping a plant, while       *)
(* another thread reads the guard's account of itself.                     *)
(*                                                                         *)
(* StationSimulation.step and reset hold the station's lock (module        *)
(* Station); StationSimulation.safety takes no lock, so every attribute    *)
(* the guard writes and every attribute safety() reads is a step of its    *)
(* own here.                                                               *)
(***************************************************************************)
EXTENDS Rules

CONSTANTS
  HasAgent, HasInverter, \* whether an agent and an inverter layer are configured
  EnforceBudget,  \* enforce_latency_budget
  Loads,          \* the electrical loads there may be
  Situations,     \* what EfficientRuleBased may observe, see module Rules
  Steps,          \* n_steps, the length of the series
  None

ASSUME GuardAssumption ==
  /\ {HasAgent, HasInverter, EnforceBudget} \subseteq BOOLEAN
  /\ Steps \in Nat

\* What the plant may report: there is something to cover, and no share of a load is broken.
ASSUME SituationAssumption ==
  /\ \A load \in Loads : load \in Nat /\ load + ReserveMargin > 0
  /\ \A s \in Situations :
       /\ {s.electrical, s.melt, s.renewable} \subseteq Nat
       /\ {s.charge, s.discharge} \subseteq [DOMAIN Packs -> Nat]
       /\ s.stuck \subseteq Gensets

ASSUME SharesAssumption ==
  /\ \A load \in Loads : load % Cardinality(FallbackOn(load)) = 0
  /\ \A s \in Situations :
       /\ CommitKw(s) # 0 => \A g \in EfficientOn(s) : (Rated[g] * Target(s)) % Capacity(EfficientOn(s)) = 0
       /\ \A h \in Gensets :
            (s.electrical + s.melt) % Cardinality(LegacyOn(s.electrical + s.melt, AllLike(h))) = 0

Reasons == {"raised", "late", "invalid", "absent"}

\* What stands for no object, and for no reason, is none.
ASSUME NoneAssumption ==
  /\ None \notin [{"steps", "fallbacks", "projections"} -> Nat]
  /\ None \notin Reasons

VARIABLES
  stats,   \* the guard's GuardStats object
  reason,  \* the step last_fallback_reason is of
  report,  \* the step last_report is of
  voltage, \* the step last_voltage_report is of
  phase,   \* where the thread that holds the lock is, "free" if none does
  draft,   \* its local variables
  plant,   \* the plant's step index
  reader   \* the thread in safety(): the object it fetched and what it has read

vars == <<stats, reason, report, voltage, phase, draft, plant, reader>>

\* GuardStats(), counting the reasons apart; slow stands for a max_latency_ms
\* above the budget.
FreshStats == [steps |-> 0, fallbacks |-> 0, projections |-> 0,
               reasons |-> [r \in Reasons |-> 0], slow |-> FALSE]

\* The counters in the order safety() reads them: as they are, then again for the two
\* rates, the numerator of each before its denominator.
Reads == <<"steps", "fallbacks", "projections", "fallbacks", "steps", "projections", "steps">>

CountIn(f) == stats' = [stats EXCEPT ![f] = @ + 1]

-----------------------------------------------------------------------------
(***************************************************************************)
(* The thread that holds the lock: StationSimulation.step.                 *)
(***************************************************************************)
Init ==
  /\ stats = FreshStats
  /\ reason = None /\ report = None /\ voltage = None
  /\ phase = "free" /\ draft = None
  /\ plant = 0
  /\ reader = None

\* The step is counted, and the agent is asked if there is one.
Ask ==
  /\ phase = "free" /\ plant < Steps
  /\ CountIn("steps")
  /\ \E load \in Loads :
       draft' = [load |-> load, reason |-> IF HasAgent THEN None ELSE "absent", on |-> None]
  /\ phase' = IF HasAgent THEN "asked" ELSE "refused"
  /\ UNCHANGED <<reason, report, voltage, plant, reader>>

\* _propose, after the agent is back.
Verdict(answer, late) ==
  IF answer = "raises" THEN "raised"
  ELSE IF EnforceBudget /\ late THEN "late"
  ELSE IF answer = "malformed" THEN "invalid" ELSE None

\* The agent returns, in time or late, with a command or without.  It need not
\* return at all: nothing interrupts it.
Answer(answer, late) ==
  /\ phase = "asked"
  /\ stats' = [stats EXCEPT !.slow = @ \/ (late /\ answer # "raises")]
  /\ draft' = [draft EXCEPT !.reason = Verdict(answer, late)]
  /\ phase' = IF Verdict(answer, late) = None THEN "decided" ELSE "refused"
  /\ UNCHANGED <<reason, report, voltage, plant, reader>>

\* note_fallback counts the fallback, then its reason ...
NoteFallback ==
  /\ phase = "refused"
  /\ CountIn("fallbacks")
  /\ phase' = "noted"
  /\ UNCHANGED <<reason, report, voltage, draft, plant, reader>>

\* ... and the fallback proposes in the agent's place.
NoteReason ==
  /\ phase = "noted"
  /\ stats' = [stats EXCEPT !.reasons[draft.reason] = @ + 1]
  /\ draft' = [draft EXCEPT !.on = FallbackOn(draft.load)]
  /\ phase' = "decided"
  /\ UNCHANGED <<reason, report, voltage, plant, reader>>

\* Mutant: the reason is kept only when there is one.
PublishReasonIfAny ==
  /\ phase = "decided"
  /\ reason' = IF draft.reason = None THEN reason ELSE stats.steps
  /\ phase' = "published"
  /\ UNCHANGED <<stats, report, voltage, draft, plant, reader>>

PublishReason ==
  /\ phase = "decided"
  /\ reason' = stats.steps
  /\ phase' = "published"
  /\ UNCHANGED <<stats, report, voltage, draft, plant, reader>>

\* SafetyProjection.project, see modules Fleet and Dispatch.
Project(intervened) ==
  /\ phase = "published"
  /\ report' = stats.steps
  /\ phase' = IF intervened THEN "intervened" ELSE "projected"
  /\ UNCHANGED <<stats, reason, voltage, draft, plant, reader>>

NoteProjection ==
  /\ phase = "intervened"
  /\ CountIn("projections")
  /\ phase' = "projected"
  /\ UNCHANGED <<reason, report, voltage, draft, plant, reader>>

\* InverterVoltageLayer.apply.
Curtail ==
  /\ phase = "projected" /\ HasInverter
  /\ voltage' = stats.steps
  /\ phase' = "commanded"
  /\ UNCHANGED <<stats, reason, report, draft, plant, reader>>

\* PolarMicrogrid.step.
Execute ==
  /\ phase = IF HasInverter THEN "commanded" ELSE "projected"
  /\ plant' = plant + 1
  /\ draft' = None
  /\ phase' = "free"
  /\ UNCHANGED <<stats, reason, report, voltage, reader>>

\* Mutant: the counters are set to zero in the object there is.
HeldInPlace == reader

\* Whoever fetched the guard's object keeps it, as it is, when reset() makes a
\* new one.
Held == IF reader # None /\ reader.object = None THEN [reader EXCEPT !.object = [f \in Range(Reads) |-> stats[f]]] ELSE reader

\* StationSimulation.reset: the plant, then the guard, attribute by attribute.
Reset ==
  /\ phase = "free"
  /\ plant' = 0
  /\ stats' = FreshStats
  /\ reader' = Held
  /\ phase' = "renewed"
  /\ UNCHANGED <<reason, report, voltage, draft>>

ForgetReport ==
  /\ phase = "renewed"
  /\ report' = None
  /\ phase' = "forgetting"
  /\ UNCHANGED <<stats, reason, voltage, draft, plant, reader>>

ForgetReason ==
  /\ phase = "forgetting"
  /\ reason' = None /\ voltage' = None
  /\ phase' = "free"
  /\ UNCHANGED <<stats, report, draft, plant, reader>>

-----------------------------------------------------------------------------
(***************************************************************************)
(* StationSimulation.safety, one attribute at a time.                      *)
(***************************************************************************)
\* Mutant: the endpoint waits for the lock.
MayReadLocked == phase = "free"

\* No lock is taken.
MayRead == TRUE

\* The statistics object is fetched, together with the last reports, ...
StartReading ==
  /\ reader = None /\ MayRead
  /\ reader' = [object |-> None, seen |-> <<>>]
  /\ UNCHANGED <<stats, reason, report, voltage, phase, draft, plant>>

\* ... then its counters ...
ReadNext ==
  /\ reader # None /\ Len(reader.seen) < Len(Reads)
  /\ LET object == IF reader.object = None THEN stats ELSE reader.object
     IN  reader' = [reader EXCEPT !.seen = Append(@, object[Reads[Len(@) + 1]])]
  /\ UNCHANGED <<stats, reason, report, voltage, phase, draft, plant>>

\* ... and the record is served.
Serve ==
  /\ reader # None /\ Len(reader.seen) = Len(Reads)
  /\ reader' = None
  /\ UNCHANGED <<stats, reason, report, voltage, phase, draft, plant>>

-----------------------------------------------------------------------------
\* The code of a step once the agent is back.
Proceed ==
  \/ NoteFallback \/ NoteReason \/ PublishReason
  \/ \E intervened \in BOOLEAN : Project(intervened)
  \/ NoteProjection \/ Curtail
  \/ Execute \/ ForgetReport \/ ForgetReason

Read == StartReading \/ ReadNext \/ Serve

Next ==
  \/ Ask
  \/ \E answer \in {"command", "malformed", "raises"}, late \in BOOLEAN : Answer(answer, late)
  \/ Proceed
  \/ Reset
  \/ Read

Spec == Init /\ [][Next]_vars

\* A thread that can run does, and endpoints are asked again and again.  Nothing
\* makes an agent return.
FairSpec == Spec /\ WF_vars(Proceed) /\ WF_vars(Read)

-----------------------------------------------------------------------------
(***************************************************************************)
(* Properties.                                                             *)
(***************************************************************************)
\* The fallbacks that have a reason.
Explained ==
  stats.reasons["raised"] + stats.reasons["late"] + stats.reasons["invalid"] + stats.reasons["absent"]

\* Between two steps the guard's books balance: it has counted the steps of the
\* plant, each fallback has one reason and each late answer is one of them, and
\* the last reports are all of the last step, or none is left of an old episode.
BooksBalance ==
  phase = "free" =>
    /\ stats.steps = plant
    /\ Explained = stats.fallbacks /\ stats.fallbacks <= stats.steps
    /\ stats.projections <= stats.steps
    /\ HasAgent => stats.reasons["absent"] = 0
    /\ EnforceBudget => (stats.slow <=> stats.reasons["late"] > 0)
    /\ IF plant = 0 THEN {reason, report, voltage} = {None}
       ELSE \A r \in {reason, report} \union (IF HasInverter THEN {voltage} ELSE {}) : r = stats.steps

\* A record served without the lock still adds up, whatever steps and resets
\* pass while it is read: no rate is above one, and no count is larger than the
\* one the rates use.
RecordAddsUp ==
  reader # None /\ Len(reader.seen) = Len(Reads) =>
    LET seen == reader.seen
    IN  /\ seen[4] <= seen[5] /\ seen[6] <= seen[7]
        /\ seen[2] <= seen[4] /\ seen[3] <= seen[6] /\ seen[1] <= seen[5] /\ seen[5] <= seen[7]

\* EfficientRuleBased commits the fewest sets for what storage does not stand in
\* for, and sets beyond them only if they may not stop; storage left aside, they
\* carry the load itself.
EfficientFewest ==
  \A s \in Situations :
    /\ Fewest(Covering(CommitKw(s)), CommitKw(s))
    /\ EfficientOn(s) \ Covering(CommitKw(s)) \subseteq s.stuck /\ s.stuck \subseteq EfficientOn(s)
    /\ Capacity(EfficientOn(s)) >= Net(s) \/ EfficientOn(s) = Gensets
    /\ Capacity(EfficientOn(s)) + Reserve(s) >= Net(s) + ReserveMargin \/ EfficientOn(s) = Gensets

SparesSpin ==
  \A s \in Situations, h \in Gensets : SpareSpins(s.electrical + s.melt, AllLike(h))

\* The fewest sets that can carry it: the fallback for the firm load, at every step
\* it proposes in the agent's place, and EfficientRuleBased for the load less the
\* storage reserve; while LegacyNPlusOne can lose any one of its sets.
RulesCommitFewest ==
  /\ draft # None /\ draft.on # None =>
       /\ draft.on # {}
       /\ Fewest(draft.on, draft.load + ReserveMargin)
  /\ EfficientFewest
  /\ SparesSpin

\* With no fouled set on, EfficientRuleBased asks for as much as it makes: no more
\* is melted and charged than is left over, none is left over while a melter or a
\* pack could take it, and storage is not called on unless the whole fleet is short;
\* and the environment that scores it plays every proposal as it was made.
EfficientBalances ==
  \A s \in Situations :
    /\ Recoded(s) = [setpoints |-> Raised(s), charging |-> Charging(s), melting |-> Melting(s)]
    /\ s.fouled \intersect EfficientOn(s) = {} =>
         LET used == s.electrical + Melting(s) + Total(Charging(s), DOMAIN Packs)
         IN  /\ used <= Supply(s) \/ EfficientOn(s) = Gensets
             /\ used >= Supply(s) \/ (Melting(s) >= MeltersMax /\ \A i \in DOMAIN Packs : Charging(s)[i] = s.charge[i])

\* What is proposed adds up: the fallback's shares carry the electrical load unless
\* one of its sets is at its rating, and EfficientRuleBased asks for what it makes.
ProposalBalances ==
  /\ draft # None /\ draft.on # None =>
       LET shares == FallbackSetpoints(draft.load)
       IN  Total(shares, draft.on) >= draft.load \/ \E g \in draft.on : shares[g] = Rated[g]
  /\ EfficientBalances

\* The safety endpoint is served again and again, also while an agent hangs
\* with the lock held.
SafetyAnswers == []<>(reader # None) /\ []<>(reader = None)

\* The fallback is for an agent "raising, hanging, or returning tensors full of
\* NaN": a step that has asked the agent ends.  Does not hold in the code, which
\* looks at the clock when the agent is back.
HangingAgentReplaced == phase = "asked" ~> phase = "free"
=============================================================================
