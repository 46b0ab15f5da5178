# Allotrope in TLA+

Allotrope runs the power supply of an Antarctic station: a learning agent
proposes, every control interval, which diesel sets turn and how hard, what the
batteries and the snow melters do; a safety layer bounds the proposal; a plant
model executes it. Around that loop stand a REST API, a gRPC control plane, an
MQTT telemetry path, a training environment, a fault injector and federated
training. This directory models the parts whose behaviour comes from control
(order, interleaving, timers, failure) rather than from numerics.

Every definition that stands for code is listed in `PROJECT.json` under `map`
with the lines it was translated from; the names follow the source.

## 1. The system

| component | state it keeps | operations | what makes it correct |
|---|---|---|---|
| Safety projection (`safety/projection.py`) | none; reads an observation | `project`: sanitise, `_enforce_capacity`, `_enforce_heat`, `_bound_setpoints`, `_raise_setpoints_for_heat`, `_bound_battery`, `_bound_melt` | after any proposal the machines can carry life support, the reserve and the heat, and a projected command is not moved again |
| Generating sets (`sim/assets.py`) | `online`, `minutes_in_state`, deposits | `set_commitment`, `apply_power` | anti-cycling timers hold, and never lose the cover for good |
| Plant (`sim/plant.py`) | sets, packs, clock, thermal and water accounts | `reset`, `observe`, `step` | shedding in the stated order, renewables before diesel |
| Guarded controller (`safety/fallback.py`) | statistics, last report, last reason | `act`, `reset` | an unusable agent never reaches the plant; the accounts match |
| Station simulation (`api/simulation.py`) | plant, controller, history, counters, `running`, a lock | `step`, `reset`, `state`, `safety`, ... | one step at a time, on a fresh observation, with counters that agree |
| Simulation manager and REST handlers (`api/app.py`) | one background task a station, the rate limiter's windows | `start`, `stop`, `reset`, single step | every request answered; stop ends the loop, start starts one |
| Fault injection (`faults/`, `resilience/benchmark.py`) | schedule, episode step, locked packs, patched instances, derated arrays | `apply_command_faults`, `apply_renewable_derates`, `reset` | a fault lasts its window, on its target, and the same way every time |
| Training environment (`envs/polar_microgrid.py`) | the plant and episode bookkeeping | `reset`, `step`, `decode_action` | the agent learns through the same bounds that protect the station |
| Rule-based controllers (`control/baseline.py`) | none | `act` of `LegacyNPlusOne`, `EfficientRuleBased` | the fewest sets that will do, and proposals that add up |
| Inverter layer (`safety/voltage.py`, `sim/network.py`) | the last report | `apply` | renewables are turned away only as far as the voltage demands |
| Control plane (`controlplane/server.py`) | sequence numbers, stream slots | `GetState`, `StreamState`, `Heartbeat` | slots are given back, single calls are always served |
| Telemetry (`mqtt/`, `scripts/run_station_service.py`, `scripts/run_timescale_bridge.py`) | connection, a database transaction, counters | publish, subscribe, write a row | counted is stored, in order and once |
| Live feed (`api/live.py`, `api/routes/live.py`, `webapp/`) | latest values, sockets | broadcast, join, leave | a page ends up with the newest record |
| Training and records (`train.py`, `experiment.py`, `agents/replay_buffer.py`) | checkpoint file, record, replay buffer | train, checkpoint, add, sample | a kill loses no more than it must |
| Federated rounds (`federated/`) | the global checkpoint | `run_round`, `run_rounds` | a rejected model is never carried forward |
| MILP oracle (`optimization/`) | an instance taken from a plant | `instance_from_plant`, `solve` | the plant can follow the schedule |
| Sensor health, confidence, asset health (`safety/sensor_health.py`, `intelligence/`) | counters and windows | `update`, `classify`, `assess` | they count what happened, lately |
| Forecasting, climate and load generators, power flow, evaluation scripts, web pages | - | - | numerical, or presentation |

How they meet: a background task or a request thread calls
`StationSimulation.step`, which takes the station's lock, observes the plant, asks
the guarded controller (agent, fallback, projection, inverter layer), and hands
its command to the plant. The REST handlers run on one asyncio event loop, the
steps in worker threads. The control plane, the live poller and `safety()` read the
same objects without the lock. The environment and the benchmark drive the same
plant without the API.

What is hard here: the projection counts on machines that may not follow the
command, because their timers hold them on or off, and on observations of which
fields may be missing; a task, its worker thread, its cancellation and its
`finally` clause are four things that happen at four times; two harnesses
apply one fault schedule at two places of the pipeline; streams, sockets and links are
abandoned at any moment by whoever is at their other end; processes are killed while they
write; and counters kept beside the plant (by the guard, the tracker, the reward, the
bridge) have to stay in step with it over resets and restarts.

## 2. The modules

### `Fleet` - commitment and the anti-cycling timers

The machines themselves (the sets, their order and ratings, the boilers, the margin) are the constants of module `Machines`,
which `Fleet`, `Dispatch` and `Faults` extend.

One `Interval` is `SafetyProjection.project` followed by the commitment half of
`PolarMicrogrid.step`. The state is the sets that turn (`online`), their
`minutes_in_state` saturated at the longer timer (`Settled`), the loads of the
coming interval, and a flag that tells an interval from a reset. The action takes
a proposal, any flags an agent can send, NaN included, and what the sensors do to the observation (`Sensing`):
whole fields that are lost, and single entries of a list that are no booleans, as `bool_array` reads them. The two
loops of `_enforce_capacity` and the one of `_enforce_heat` are translated as "the
first iteration at which the loop condition holds": `Restore` is the shape of both
capacity loops, `Visited(n)` the sets after n iterations of the sorted order. Of the
observation `_sanitise_observation` builds, the five fields that the commitment
reads are there (`Observation`).

Loads, heat and capacities are integers of kW. The load of each interval is any
member of the given sets, so every series is covered.

### `Dispatch` - setpoints, battery, melting and the power balance

One interval, as arithmetic on integers: the commitment and the sets that turn are inputs,
restricted by what the loops of `Fleet` leave (`Committable`). `Decide` is
the rest of `project`; `Execute` is the balance of `PolarMicrogrid.step`. Two
abstractions: where the code splits a raise in proportion to headroom, any split with
that total is allowed; all packs are taken together, by the sum of what is asked in each
direction. Every set recovers one kW of heat for a kW of power. The
inverter layer may leave any part of the renewables.

### `Station` - the REST API's loop, handlers and worker threads

The event loop is a FIFO of ready callbacks (`ready`): requests and tasks, one at a time. A handler
that needs `sim.lock` blocks the loop (`blocked`), as `with sim.lock` does in an
`async def`. A background task moves from new to stepping (its
thread works), stepped, sleeping, awake, and ends through `finally`; a cancellation puts it into the
queue and is taken when it runs. `asyncio.to_thread` hands the step to a worker
thread which a cancellation does not stop once it has begun. A thread takes the lock in `Observe`
and releases it in `Execute`; between the two, handlers and other threads go on until they
need the lock. asyncio itself is not in the repository: `ready`, `Called`,
`TakeCancellation`, `StartThread` and `Return` model it from how the code uses it, and no property is about it alone.

### `Timeline` - what a station promises

An abstract station: a clock that ticks once a step, may be set back to zero, and keeps the records
of its latest ticks. `Station` implements it with `clock <- plant` and `records <- history` (`IsTimeline`):
nothing of the tasks, threads, requests and the lock can be seen by somebody who reads the plant and the history.

### `Faults` - scripted failures over the fleet

Instantiates `Fleet` twice, as the fleet stands and as the trips of this step leave it
(`After`), because a trip switches a set off in the middle of an interval. `EnvStep`
is `FaultInjector` in the environment: faults, projection, plant. `BenchmarkStep` is
`run_episode` with the hook of `run_scenario`: controller, faults, plant; any
controller, guarded or not. `EnvReset` is written in the order of the
code: the environment replaces the packs first, and the injector then unlocks the ones it remembers.

### `Rules` and `Guard` - proposals, and the controller around them

`Rules` has the three rule-based proposals as functions of what they observe: the commitment and
the shares of `DeterministicFallback`, `LegacyNPlusOne`, and `EfficientRuleBased` (which the API uses unless it is
given another) with its burn-off, its surplus and what the melters and packs absorb of it, and the way
the environment turns a command into an action and back. Powers are whole numbers, and the situations those in
which the shares are whole too (`SharesAssumption`); nothing else is asked of a load.

`Guard` is `GuardedController.act` between `Observe` and `Execute` of a step, one write of an attribute at a
time, because `StationSimulation.safety` takes no lock: `Ask`, `Answer` (a command, nonsense, an exception; early or late), the
fallback and its reason, the projection, the inverter layer, the statistics. A reader fetches
the statistics object and then reads its counters one by one while steps and resets go on; a reset replaces
the object, so the reader may hold the old one.

### `Plant`, `Oracle` and `Episode` - what is carried from interval to interval

`Plant` adds to the fleet of module `Fleet` the clock, the packs at the temperature of the coming
interval, the melting still owed and the counters. A pack's energy is counted above `soc_min`, in units that make the
losses whole numbers (`Unit`, `Gain`, `Cost`); each pack has the power and the floor of its own chemistry (`Derated`, `Frozen`). `Oracle` is the program of `optimization/milp.py`: the windows of starts
and stops, and the packs' dynamics. Every constraint kept looks back, so a schedule is grown one interval
at a time (`Follow`), and played through the plant by a controller that commands what it says; nothing in the
repository replays one, `run_episode` with such a controller would. The other constraints and the objective only choose among
these schedules. `Episode` drives one plant in three ways: by `PolarMicrogridEnv` with its tracker
and the water its reward has charged for; by the guarded controller, with the fallback's plan for the day's
melting; and by the oracle.

### `Sensors`, `RateLimiter` - the monitors

`Sensors`: `SensorHistory`, the grade of every channel of a key, keys that are missing, and `ControllerConfidence` with its window
of interventions, beside the readings and reports there were (`received`, `reports`, kept for the properties). `RateLimiter`: the middleware of `create_app`, the buckets and their expiry. They share
nothing; `MCMonitors` runs them side by side, one or the other in a behaviour.

### `ControlPlane` - the gRPC server

A pool of workers, single calls and streams as actors. A stream waits for a worker, takes one of the slots or
is refused, loops, and gives its slot back in the `finally` of its generator, whether the client goes away while it computes, sleeps
or has not been served. gRPC's thread pool is external. A sequence number is abstracted to whether it has grown
since this call last received one.

### `Telemetry` and `LiveFeed` - from the station to the table and to the page

`Telemetry`: records published at QoS 0, two subscribers with links that break, and the bridge: the
network thread that runs before the callback is registered, the insertion and the commit as two
steps, rows the database refuses, a transaction nobody rolls back, a connection that breaks in
the commit, a kill, also during the commit, and a restart. `LiveFeed` composes with it: `LiveState` on the MQTT thread, one broadcast
a record on the event loop with an await for each socket, the coroutines of the WebSockets, and the browser's hook that
reconnects and switches stations. Safety reports and observations over gRPC take the same path as the
telemetry. Sends to one socket are first in, first out (`InSendOrder`, which is the event loop's and the transport's doing and no code
of the repository's); a Python set that changes its size under a loop raises,
one that changes and keeps its size may skip members.

### `Training` and `Federated` - jobs, buffers, checkpoints, rounds

`Training`: `train()` from scratch or from a checkpoint; a checkpoint stands for the set of steps
that went into its weights, next to the counters it carries. Opening the file empties it (`Torn`), `torch.save` fills it
(`Whole`), and the process may be killed in between. `Federated`: `run_rounds` over `Training`, the average, the
verdict, the renamed candidate, kills at any point, and a campaign started again in the same directories.

### Composition

`Faults` composes with `Fleet` by `INSTANCE`, and so does `Plant` (`F`). `Dispatch` takes from `Fleet` the
relation between a commitment and the sets that turn. `Station` implements `Timeline` by `INSTANCE ... WITH`,
and treats a step as the unit the other modules describe; `Guard` opens that unit. `Guard` extends `Rules`, `Episode`
extends `Oracle` and `Plant`, `LiveFeed` extends `Telemetry`, `Federated` extends `Training`.

## 3. The runs

| run | question | bounds and why they are enough |
|---|---|---|
| `MCFleet` | idempotence, cheapest cover, `CoverEveryInterval` and `HeatWhenNoneLocked` with any of four fields lost, and entries misread | three unequal sets, so that which set is chosen matters; loads that need none, one, two, three sets and more than all; heat within the boilers, within one set, beyond the fleet; timers of two and three intervals, so that sets are held on and off |
| `MCFleetLive` | `CoverRegained` under an agent that does its worst | two loads, one needing the fleet; the sets always have a down time to run out |
| `MCDispatch` | life support, curtailment, stability of the projection | two sets with a floor, a grid of loads around one and two ratings, surplus and absent renewables, requests beyond every band |
| `MCStation` | lock discipline, accounts, the refinement of `Timeline`, the loop that a stop finds, answers, stops, progress of the loops | four requests in any order, enough for start, stop, start and a request to spare; a series of three steps so that it ends while loops are alive; a history of two so that it overflows; one single step |
| `MCStationStartStarts` (violated) | does a start start? | three requests, no single step, so that no behaviour can be blamed on one |
| `MCFaults` | lockouts, trips, cover | two sets, one of which can carry the small load; three schedules with overlapping, adjoining and outlasting events; six intervals with resets at any time |
| `MCGuard` | books, records read without the lock, the rules' commitments and balances, answers | three unequal sets, so that one or two may be the fewest; loads within one set, beyond two; every combination of stuck and fouled sets and of room in two packs; two steps and any number of resets, so that a reader may see both statistics objects |
| `MCControlPlane` | slots and workers | two streams for one slot of a pool of two, two single calls; every call may be made again for ever |
| `MCTelemetry` | the bridge's counters and table; the pages | three kinds of record and two of them published, so that a bad row precedes a good one; a restart; two stations and two browsers at one, one of which switches, so that the set of a station changes under a broadcast. The subscribers share nothing but the records, so that a behaviour has one of them |
| `MCLearning` | buffer, checkpoints, rejected rounds | jobs of four steps over a buffer of three, checkpoints never, every two, every three steps; three jobs in a row, three rounds of two stations; two kills |
| `MCEpisode` | packs, envelope, oracle, monitors, the fallback's water | a set that turns at least two hours and rests one; a pack that loses half each way, of one hour's power, at two temperatures of which one forbids charging; days of two hours, five of them with resets to either of the first two, so that midnight is met in mid-episode |
| `MCMonitors` | grades, limits | three assessments over a key of two channels and one that may hold still; six ticks of a window of two, two requests, two clients |

What the passing runs show:

* The projection does what its first two guarantees say on the *machines*, whatever the
  agent asks and with any of four observation fields missing, or entries read as less than they are (`CoverEveryInterval`), with
  no more sets than needed and stops cancelled before starts (`CheapestCover`); it may be applied
  twice (`ProjectionIdempotent`, `ProjectionStable`); and a load that stays is covered again for
  good after every down time has run out (`CoverRegained`).
* With the cover in place and no heating left to electricity, life support is
  served, whatever is asked of packs and melters and with or without
  renewables (`LifeSupportServed`), and renewables are turned away only when the
  sets are at their floor (`CurtailedOnlyAtFloor`): the second pass of the melting balance is what
  this takes.
* Under any interleaving the lock makes commands fresh and the four accounts
  agree (`CommandsAreFresh`, `AccountsAgree`); a station marked as running has a loop alive, and it is the one a
  stop would cancel (`StopFindsLoop`); handlers answer, a stop ends every loop, and a loop that is left alone
  goes on stepping (`RequestsAnswered`, `StopEndsLoops`, `LoopsAdvance`). To the outside it is all one
  clock with its latest records (`IsTimeline`).
* Overlapping lockouts of a pack end with the last (`LockoutsReleased`), trips hold in the benchmark
  (`TripHoldsInBenchmark`), and the environment answers a trip in the interval it happens: there is cover, or every set that
  is not tripped turns or is held off (`CoverDespiteTrips`), which would be so, too, if a tripped set could not be started.
* Between steps the guard's books balance whatever the agent did and whenever it was reset
  (`BooksBalance`), and a record read in the middle of a step adds up: no rate is above one (`RecordAddsUp`), because each numerator is
  written after its denominator and read before it. The endpoint answers even while an agent hangs with the lock
  held (`SafetyAnswers`). The rules commit no set too many (`RulesCommitFewest`) and, with no fouled set, propose
  what they make (`ProposalBalances`).
* Stream slots are held by streams only, come back whenever a client goes, and leave a worker to
  the single calls, all of which are answered (`SlotsConserved`, `SlotsComeBack`, `CallsAnswered`).
* The bridge counts every record it receives once, and what it counts as written is in the table (`BridgeAccounts`), once and in order
  (`RowsInOrder`); a page that stays connected shows the newest record unless the set of sockets changed on the way
  (`PageIsCurrent`), and dead sockets leave (`SocketsLeave`).
* The buffer holds the newest transitions of its job (`BufferHoldsNewest`), a kill outside a write loses at most one
  checkpoint's interval (`LossBounded`), and nothing learnt in a rejected round reaches a global model
  (`RejectedLeaveNoTrace`).
* A pack never gives what it was not given (`PackConserves`), what is projected is delivered though the temperature
  falls (`EnvelopeHolds`), schedules of settled sets are followed to the interval (`ScheduleFollowed`), tracker and
  reward agree with the plant over every reset (`MonitorsAgree`), and a day of the fallback leaves no water unmet
  (`FallbackMeetsWater`).
* A grade is a function of the last readings alone (`GradesAreRecent`), and a client is refused exactly
  when its window is full (`LimiterExact`).

What the violated run shows (`findings` in `PROJECT.json` quotes code and document): a start right after a stop
is switched off by the `finally` clause of the stopped task. The cfg has no single step; two requests more are enough.

Deadlock is checked in the runs of `Fleet` and `ControlPlane`. `Dispatch` ends after its interval,
`Station` when no request is left and no loop alive, `Faults` when an exception ends the harness; the other
modules end with their series, records, jobs or ticks.

### Statements of the repository that the code does not keep

Met while modelling, and kept as definitions in the modules, so that anybody can add one to a cfg. TLC
finds each violated (constants as in the cfg of the module unless it says otherwise):

| definition | what happens | what is said |
|---|---|---|
| `Fleet.CoverEveryInterval` with `Sensing <- CanStopLost` | a lost `genset_can_stop` is replaced by "no set can stop", which overstates the cover (`projection.py:268`) | `projection.py:188-189` |
| the same with `Sensing <- OnlineGarbled` | a NaN among the entries of `genset_online` is read as True, so a set that stands still is counted on, and not reported as sanitised (`projection.py:238`) | "more conservative, never less", `projection.py:188-189` |
| `Fleet.HeatEveryInterval` | recovered heat is counted over the command, not over the sets that will turn (`projection.py:379`) | `projection.py:441-443` |
| `Dispatch.NothingLeft` | the electric heating is not part of what the sets are asked for, so life support is shed with output to spare (`plant.py:245`) | "life support only if there is genuinely nothing left", `plant.py:297-298` |
| `Station.OneLoop` | a `finally` clause ends the running of the next loop, whose task goes on; a third start makes another (`app.py:142`) | "its background loop task", `app.py:113` |
| `Station.ResetStays` | a worker thread on its way steps the plant after the reset was answered (`app.py:153`) | `docs/api.md:69` |
| `Faults.TripHolds` | in the environment the projection restarts a tripped set (`injector.py:100`) | "cannot be restarted by any controller action", `injector.py:4-6` |
| `Faults.HealthyCover` | a tripped set that the projection starts is counted on in the place of a healthy one that could start | the same |
| `Faults.EveryReplayAlike` | a reset without a seed derates derated arrays, and one in the middle of a lockout raises (`injector.py:76`) | `injector.py:49-50` |
| `Guard.HangingAgentReplaced` | the clock is looked at when the agent is back (`fallback.py:231`) | an agent "raising, hanging, ...", `fallback.py:4-5` |
| `ControlPlane.NumbersAdvance` | two threads add one, then both read (`server.py:134`) | `allotrope.proto:45`, `docs/control-plane.md:48`, `tests/test_controlplane.py:101-104` |
| `Telemetry.BadRowsStayAlone` | nothing rolls the failed transaction back, so good rows fail after it (`timescale_bridge.py:89`) | "A single bad row must not take the bridge down", `timescale_bridge.py:90` |
| `LiveFeed.PageIsOwn` | the reducer keeps the records of the station looked at before (`useLiveStation.ts:48`) | the page of a station, `App.tsx:22-34` |
| `Training.NeverLosesAll` | the only checkpoint is written over in place (`train.py:173`) | "loses at most that many steps' progress", `train.py:85-89` |
| `Federated.CountersPoolExperience` | every station brings the counter of the global model along, so that it is summed again each round | "summed, since FedAvg pools experience", `aggregate.py:165-166` |
| `Oracle.ScheduleFollowedAlways` | `initial_*_steps` are never read by `milp.py` | "enforced correctly", `model.py:70-72` |
| `Oracle.ChargeFollowed` | the program lets a pack take what fits after the loss, and warm or cold | "exactly what the simulator itself enforces", `model.py:26-32` |
| `Episode.StressIsShown` | `HybridAgent` encodes with a tracker nobody updates (`hybrid.py:58`) | "the same observation encoding", `hybrid.py:55-58` |
| `Episode.FallbackMeetsWater` with `Dt = 30`, `Steps = 9`, `DailyMelt = 8` | the first interval of a day is planned on the remainder of the day before, and with a shorter last interval the rest is not made up for | `fallback.py:91` |

Read from the code and left out of the models: at 15-minute steps the program's windows round 20 minutes to one
interval; `EfficientRuleBased` counts the extra output of a fouled set twice, may lower a fouled set that was above its
target, and does not drop melting in a deficit, the `elif` of `_absorb` being unreachable; the power `max_discharge_kw` calls
sustainable leaves out the loss (what the clip then forgets is loss only: `PackConserves`); and `encode_command` clips what
`EfficientRuleBased` proposes where more melting is owed than the melters do, late in a day, or where 0.80 of a set's rating is below its
stable minimum (`Playable` excludes both).

### Fairness

* `Fleet`: weak fairness of `SomeInterval`. The episode loop
  (`sim/runner.py`, `StationSimulation.step` from a running task) keeps stepping; without a
  next interval no cover can come back.
* `Station`: weak fairness of the event loop, of each timer and of each worker thread's
  step. asyncio runs ready callbacks in order, a sleep ends, and a thread
  that can take a free lock does: one lock with few waiters, each of which lets go. No request
  is ever fair: nobody has to send one.
* `Guard`: weak fairness of the thread that steps, once the agent is back, and of the reader. Nothing makes an
  agent return.
* `ControlPlane`: weak fairness of the pool's `Take` and of each call's worker. No client is fair, and none
  has to go away.
* `LiveFeed`: weak fairness of the broadcasts and of each socket's coroutine; asyncio runs what is ready. Links and
  browsers are not fair.

`Station` does not open a step: one that has begun ends there. That it need not is what `Guard` shows.

## 4. The proofs

Every theorem is of the specification the runs check, for every value of its constants that satisfies the
assumptions named. Each rests on an inductive invariant that TLC was asked about first.

### `SumLemmas`

What the other modules need of finite sums and least elements: that `SumFunctionOnSet` of the community modules is a natural number,
adds up element by element, scales, and grows with the set and with the function. The library defines it as a
recursive function over subsets, and the theorem that would justify an induction over those takes an operator for a parameter.
So everything is shown by a least counterexample: among the sets for which it would fail one has no smaller
one (`LeastSubset`), and taking an element out of that gives the contradiction.

### `SafetyProofs`

For every finite station, rating, timer and set of loads; for every interval and request in kW:

| theorem | property | assumptions beside `OrderAssumption` and `RatingAssumption` |
|---|---|---|
| `TypeCorrect` | `TypeOK` of `Fleet` is an invariant | `TimerAssumption`, `LoadAssumption` |
| `CoverKept` | `CoverEveryInterval` | those, and `SoundSensors`: `genset_can_stop` is not lost, no garbled entry makes a set look readier to turn than it is, and no load exceeds the fleet if the load may be lost |
| `HeatKept` | `HeatWhenNoneLocked` | those, and `SoundHeatSensor`: no heat exceeds boilers and fleet if the heat may be lost |
| `ProjectedOnce` | `ProjectionIdempotent` | `TimerAssumption`, `LoadAssumption` |
| `CheapestFirst` | `CheapestCover` | `TimerAssumption`, `LoadAssumption` |
| `LifeSupport` | `LifeSupportServed` | `BandAssumption`, `RequestAssumption` |
| `FreeBeforeFuel` | `CurtailedOnlyAtFloor` | `BandAssumption`, `RequestAssumption` |
| `PowerIdempotent` | `ProjectionStable` | `BandAssumption`, `RequestAssumption` |

`CoverKept`: the observation never overstates what a set can do nor understates the load (`Understates`); a loop ends with the
cover in place or with every candidate added (`RestoreEnds`), `_enforce_heat` only adds sets (`HeatOnlyAdds`), and a set
added never takes another off line (`EffectiveMonotone`, `CoversMonotone`), so the projected commitment covers the
observed load or commands the whole fleet (`ProjectedCovers`). The machines leave turning at least the sets that were counted
on (`CommittedCountsOn`). Hence `IntervalCovers`. The inductive invariant is `TypeOK` itself: what the property says of an
interval depends on the timers only through the range of their values, because the timers are read and not predicted.
`HeatKept` follows the same road with `HeatEnds` and `IntervalHeats`. `ProjectedOnce` rests on a loop that finds its condition in
place, or nothing to add, adding nothing; `CheapestFirst` on a loop ending as soon as it can, so that the last set it added
is indispensable (`RestoreNeedsLast`).

In kW, the invariant `DInv` binds every projected command to the bands, the heat, the battery and the melting bound (`Bound`),
whatever was asked, and the balance of `Execute` is worked out from that alone: what sheds, sheds melting and comfort
first, and what is curtailed is curtailed at the floor. `PowerIdempotent` shows each of the four bounds to leave a command alone that
satisfies it.

### `FaultsProofs`

For every fleet and every schedule, of events of any length and any overlap, from `FleetAssumption` and `FaultAssumption`:

| theorem | property |
|---|---|
| `LockoutsEnd` | `LockoutsReleased` |
| `TripsHold` | `TripHoldsInBenchmark` |
| `CoverSurvivesTrips` | `CoverDespiteTrips` |

The invariant of the first two is the injector's memory: as long as no reset raised, the overridden packs are the remembered
ones (`Remembered`), and in the benchmark no set turns that the last step tripped (`Downed`). The second is what a trip
in its later steps needs: the code switches a set off at the onset only, and relies on it not having been
started since. `CoverSurvivesTrips` takes the lemmas of `SafetyProofs` by `INSTANCE`, for the fleet as the trips of the step
leave it: the projection is told of the trip before it decides, so its argument goes through from there; the sums of the two instances
are the same (`SameSums`), since a trip changes which sets turn and not what they are rated.

### `StationProofs`

For every number of tasks, single steps and requests, every series and every length of the history,
from `StationAssumption` alone (the names are distinct, the numbers in range, the history not empty):

| theorem | property |
|---|---|
| `TypeCorrect` | `TypeOK` is an invariant |
| `FreshCommands` | `CommandsAreFresh` |
| `OneAccount` | `AccountsAgree` |
| `StopReachesLoop` | `StopFindsLoop` |
| `StationIsTimeline` | `Spec => IsTimeline` |

None of the properties is inductive. `AccountsAgree` speaks of a free lock only, so the invariant says
what is so while a thread holds it: `guard` is one step ahead, `seen` of the holder is the plant's step (`Protected`). That the
holder is the one thread that has observed and not executed is `LockHeld`. It would fail if the event loop could start or drop a thread that is
at work, so `Control` says where a task and its thread can be together: a task that has not
begun has an idle thread, one that was come back to has a returned one (`Paced`), and only tasks that
were created are registered or cancelled (`Born`). `ControlKept` and `ClockworkKept` show that every action keeps the two halves.
`StopReachesLoop` is inductive together with them (`LoopFound`): only a start sets the flag, and it registers the task it makes;
a stop clears both; and a task that ends leaves the flag off, unless it was cancelled before it began, and then it is not the one registered. The refinement
needs one fact of sequences, `RecordedIsLatest`: appending to the bounded history and dropping its oldest
record where it is full gives the latest records of one step more.

### `GuardProofs`

For every length of the series, every interleaving of the reads and whatever the agent does; for all keys, channels and readings:

| theorem | property | assumptions |
|---|---|---|
| `RecordsAddUp` | `RecordAddsUp` | `NoneAssumption` (what stands for no object is none) |
| `BooksKept` | `BooksBalance` | `NoneAssumption` |
| `FewestCommitted` | `RulesCommitFewest` | `NoneAssumption`, `RulesAssumption`, `SituationAssumption`, `SharesAssumption` |
| `ProposalsAddUp` | `ProposalBalances`, where `Playable` | the same |
| `GradesFollow` | `GradesAreRecent` of `SensorSpec` | `SensorAssumption` |

`RecordsAddUp` follows the object the reader reads (`Viewed`), the guard's or the one a reset has put aside: its
counters only grow, none is ahead of the steps (`CountsOK`, by the phase of the step), and nothing read is more than
what stands there now. So a numerator read before its denominator is no larger (`Paired`). `BooksKept` says, for every line of
`act` at which the thread can stand, how far each counter is ahead of the plant (`LedgerOK`) and which of the last reports are already
those of this step, or already forgotten by a reset (`ReportsOK`).

`FewestCommitted` is about every finite fleet. n sets carry the most if they are the n largest (`Greedy`): in a least set of n that
carried more, one is no larger than the n-th of the order, and without it a smaller counterexample is left. So the first n at which `Covering`
stops is a least one (`CoveringFewest`), and a set that may not stop is no choice of the rules. For `LegacyNPlusOne` a quotient
rounded up is enough by definition (`RoundedUp`), and the one set more is the spare (`LegacyTurns`). In the specification it is an invariant that
a proposal of the fallback is the one for the load of its step (`Planned`), which rests on `BooksKept`'s account of the phases.

`ProposalsAddUp`: the shares are the rating's part of `Target`, and their sum is the sum of the parts of a whole (`SumScaled`), which a lower
bound can only raise (`SharesCarry`), unless the fleet is exhausted. What the sets make beyond that goes to melting and then into one pack after the
other (`PouringSound`: none beyond a pack's limit, none lost, and something is left only if every pack is full), so what is
proposed to be made is what is proposed to be used (`Absorbed`). Every value is within the bounds of the encoding (`SharesInBand`), which therefore leaves it
alone. `Playable` holds in the run; where it does not, the code clips, as section 3 says.

`GradesFollow` ties the history of a channel to all that was read on it (`LastRun`): the counter is the length of the last run
of equal readings, no more and no less, so that it reaches the limit exactly when the channel is stuck. That a flag means
less than half the trust is arithmetic: each of the three reasons alone takes half of the product away.

### `ServiceProofs`

The services around the plant, each under the specification of its own module:

| theorem | property | for any number of | assumptions |
|---|---|---|---|
| `AccountsBalance` | `BridgeAccounts` | records, restarts, broken links | none |
| `TableInOrder` | `RowsInOrder` | stations, subscribers, restarts | none |
| `PagesCurrent` | `PageIsCurrent` | stations, records, browsers, sockets | `FeedAssumption`, `NoStationAssumption` |
| `NoSlotLost` | `SlotsConserved` of `PoolSpec` | workers, slots, calls | `PoolAssumption` |
| `WorkerLeft` | fewer streams hold a slot than there are workers | the same | `PoolAssumption` |
| `LimitIsExact` | `LimiterExact` of `LimiterSpec` | clients, requests, ticks | `LimiterAssumption` |

The bridge: what is stored, what is in hand and what is on its way follow each other in the order of publication (`Ordered`), and an
open transaction holds a good record (`OpenHolds`). `TableInOrder` is the head of that line. The books need `OpenHolds`
because a commit that fails may have stored its row.

The pages: `PageIsCurrent` speaks of an event loop without broadcasts, so the invariant says what a broadcast under way is good for. A page has
the newest record, or a broadcast has it and has not yet come past the page's socket, or the set changed under one
that matters (`Informed`); and an older record can reach a page only if the newest is still to come (`Overtaken`). Both need the order that
asyncio gives: records arrive as they were published (`InboxInOrder`), a broadcast has been at every socket that a later one of its
station has been at (`Loops`), and a socket that is open and accepted is in the set of its station and no other (`Membership`).
Where the set changes under a loop nothing is promised, which is why the property excepts those records (`cut`).

The pool: free slots and holders make up `MaxStreams`; each action moves at most one stream into or out of `Holding`.
The limiter: the deque of a client is the tail of what was let through (`HitsAreLast`), so a request is let through only if the one
`MaxRequests` before it has left the window (`Sparse`), which bounds every window wherever it lies.

### `FederatedProofs`

For every number of steps, size of the buffer, station, round, job and kill, from `TrainingAssumption`, `FilesAssumption` and
`IntervalAssumption`:

| theorem | property |
|---|---|
| `NewestSampled` | `BufferHoldsNewest` |
| `NoTrace` | `RejectedLeaveNoTrace` |
| `LossIsBounded` | `LossBounded` |

`NewestSampled` rests on what each slot of the ring holds: slot i has the newest step congruent to it. For `NoTrace`, what is in a file's model
is traced to jobs: jobs of rejected rounds are older than, and in none of, the files that a
later job may load. For `LossIsBounded`, the model on disk is the job's first k steps, and k lags behind by what was done since the last
multiple of `checkpoint_every` (`Progress`), with counters that fit (`Sound`); the file of a job to come is absent (`Filed`). The sums of
`FedAvg` are folds over numbers; only what went into a checkpoint is proved about.

### `EpisodeProofs`

For every fleet, every set of packs, efficiencies, weather and series, from `StorageAssumption`, `ClockAssumption` and `EpisodeAssumption`:

| theorem | property |
|---|---|
| `EnergyConserved` | `PackConserves` |
| `EnvelopeDelivered` | `EnvelopeHolds` |
| `BooksBeside` | `MonitorsAgree` |
| `OracleFollowed` | `ScheduleFollowed`, where `WindowsSuffice` |
| `DaysMelted` | `FallbackMeetsWater`, where `WholeHours` |

`EnergyConserved` is the arithmetic of one exchange (`PackStep`): a discharge is bounded by what the pack holds at the
terminals, so the clip at the floor forgets no more than the loss. `EnvelopeDelivered` holds since the two bounds
are those of `Observed`. `BooksBeside` strengthens each counter to an equality with the plant's
(`SetAgrees`, `PackAgrees`, `WaterAgrees`), the last with `previous = unmet`: water charged once is never charged again.

`OracleFollowed` ties the program's clock, in steps, to the machines', in minutes: a set whose timer has not run out owes it to a start,
or a stop, in the schedule, no further back than the timer says (`Accounted`), so a window as long as the timer forbids what the machine would
refuse. `WindowsSuffice` is that condition. It holds for the timers of the repository's stations, 30 and 20 minutes, at intervals of an hour, and fails at
15 minutes, where the program rounds 20 minutes to one interval and the machine needs two.

`DaysMelted` needs nothing of the shares along the day, whatever rounding makes of them: what the invariant carries is the day that
was counted last, and that a day the fallback has brought to its end owes nothing (`WaterInv`). An interval before midnight has no
more than itself left (`Calendar`, `LastOfDay`), so all that is owed is asked for in it; and it is not the interval that rolls the day over, whose
plan was made for the day before. `WholeHours`, two or more intervals a day of whole hours each, is what both need, and section 3 shows a half
hour's interval failing: `index[i].hour` forgets the half. The hourly series of the repository have it.

### Only model-checked

The liveness properties `CoverRegained`, `RequestsAnswered`, `StopEndsLoops`, `LoopsAdvance`, `SafetyAnswers`, `CallsAnswered`,
`SlotsComeBack` and `SocketsLeave`: fairness is out of the proof system's reach. So is induction over data through the library's theorems,
which take operators for parameters. Where an induction over finite sets or numbers was needed, the proofs use
a least counterexample instead; what a recursive function computes is proved only as far as that reaches.

## 5. What is not modelled

* Power flow and the Volt-Watt solver (`Guard` lets it find any outcome), forecasting, climate and load generators, gradients and
  networks, the objective of the MILP, the reward but its water, the observation encoding: numerical, with no control to check.
* Fuel, deposits and the physics of the indoor temperature; module `Plant` lets the indoor level be any. The intervention report
  of the projection. The clipping of outliers in `fedavg_checkpoint`.
* The last day's water: what is still owed when a series ends is never charged, and an episode that begins in the middle of a
  day owes the whole day's.
* Two runs that begin in the same second share a directory (`run_id`); the models give every job its own.
* A checkpoint of another architecture makes `load_state_dict` raise, which is a kill to the models.
* `scripts/run_api.py` and `api/grpc_poll.py` import names that are not in the repository (`allotrope.rpc`, `ApiConfig`), and `create_app`
  takes no configuration: dead wiring. `serve()` builds simulations of its own that nobody steps. `ControllerConfidence` and `ObservationHealth` are
  used by tests only; `specs_for_station` leaves staleness off by default.
* `observe()` writes the packs' temperatures without the lock when an endpoint calls it; `step()` writes the same ones again.
* Reporting scripts, evidence files and the web pages hold no state another part depends on.

## 6. Plan

Done in this order: the projection and the fleet, the balance, the station and its API, the faults; then the guard and the rules, the
control plane, telemetry and the live feed, training and federation, storage with the environment and the oracle, the monitors; and
proofs of the first, then of the control plane, the guard's record, the bridge, the rounds and the packs, then of the bounds in kW, the
loops, the guard's books, the rules, the sensors, the pages, the limiter, killed jobs, the oracle and the day's water. What is left:

1. Of the liveness properties, the safety they rest on: that a waiting request, stream or socket is one that some fair step will come to.
2. Fuel and deposits in `Plant`, with the burn-off of fouled sets, and stress in the tracker.
3. Two stations whose inverter layers share the one OpenDSS interpreter, once a second station has a `network:` section.
