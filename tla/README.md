# AEGIS: a verification development in TLA+

AEGIS replays captured network traffic of a simulated city, scores it, answers what it
found and shows operators how far an attack would spread. This directory holds TLA+
modules for its backend (`src/backend`), the core it builds on (`src/src`), the page's
event feed and the scripts that bring it up; TLC configurations that check them on
small instances; and theorems about them checked by TLAPS.

## 1. The system

```
                    dev-up.sh: builds models, starts server and replay
                                    |
capture day --> ReplayReader --> ReplayEngine --> IngestPipeline --> WebSocketBroadcaster --> page
   (files)                       (one thread)    (consumer, DB tx)   (event loop, queues)    (hook)
                                      ^            |    |    ^                                 |
   routes behind token and rate limit:|            |    |    +-- rollback of an action         |
   start, stop, speed, inject --------+            |    +--> Postgres <-- GET /api/events -----+
                                                   |
   detectors --> fusion --> policy --> IPS <-------+--> asset registry --> cascading impact
   (6, two with history)                                                   (graph, Monte Carlo)
```

| Component | State it keeps | Operations | Talks to |
|---|---|---|---|
| **Replay reader** `replay_reader.py` | none; counters of one pass | parse a row, restore its hour, sort a day | capture files |
| **Replay engine** `replay_engine.py` | cached days, schedule, pointer, session, anchors, counters, injection buffer, one thread and its stop event; a state lock and an injection lock | `start`, `stop`, `set_speed`, `inject`, `status`; the thread's tick | called by routes in a thread pool; calls the consumer outside its locks |
| **Rate limiter, token** `security.py` | hits per key, one lock | `allow` | every mutating route |
| **Injection** `inject.py` | a pool of captured flows per day and label | `build_injection_flows` | reader, engine |
| **Ingest pipeline** `ingest.py` | CII cache, alert debounce map, registry of active mitigations (all bounded, in memory), statistics | one call per micro-batch; `rollback_ips_action`; snapshots | one transaction per call; publishes after the commit |
| **Detectors** `detection/`, `streaming.py`, `supervised_detector.py` | fitted models; beaconing: LRU of flow times per pair; temporal graph: live graph, histories of peers, training rows, a forest | examine a batch | called by the pipeline, before its transaction |
| **Fusion, policy** `detection/fusion.py`, `ips/policy.py` | none | pure decisions | called by the pipeline |
| **Intrusion prevention** `ips/`, `ingest.py` | the registry above, `ips_actions`, whatever the adapter enforces | decide, apply, supersede, expire, roll back | enforcement adapter (outside) |
| **Asset registry** `asset_registry.py` | addresses, those discovered | `resolve` | called by the pipeline |
| **Graph and impact** `graph_manager.py`, `cii_calculator.py` | none between calls | `build_graph`, `compute_cascading_impact_full` | pipeline, `GET /api/cii` |
| **Retention** `retention.py` | none | `prune_events` inside the batch's transaction | events table |
| **WebSocket broadcaster** `ws_broadcaster.py` | loop reference, clients, a bounded queue and a writer task each, counters | `publish` (any thread), `_dispatch`, `register`, `unregister`, `close_all` | event loop, sockets |
| **Browser stream** `useEventStream.ts` | socket, backoff, last event id, bounded buffers | connect, backfill, fold envelopes | the broadcaster, `GET /api/events?since=` |
| **Model artifacts** `warmup*.py`, `save`/`load` | two files | build, load | capture files, the runtime |
| **Runtime, scripts** `runtime.py`, `main.py`, `dev-*.sh` | the loaded models, the processes | start, degrade, shut down | everything |
| **Research console, UI components** | none shared | batch experiments, rendering | |

### What is hard in it

- **Interleavings.** `stop()` joins without the lock and then writes `_running` and
  `_thread` whatever happened meanwhile; `start()` publishes a thread before it
  launches it; a tick reads the clock before it reads the anchors that a speed change
  moves; the rate limiter reads the clock before it takes its lock; a rollback request
  and the ingest thread share a registry that no lock protects.
- **Memory against the database.** Three maps of the pipeline and the histories of two
  detectors change before the transaction they belong to commits. If it fails they
  stay changed.
- **Time that runs backwards.** A loop pass, a restart or an injection shows the
  detectors flows older than what they remember; the capture files themselves are out
  of order, on a 12-hour clock without AM and PM.
- **Lossy delivery.** Envelopes hop to an event loop, queues drop their oldest member,
  sockets stall, writers end, and a page closes gaps by requests that race live frames.
- **Bounds.** Six LRU maps, two queues, a retention cap and a batch cap, each with an
  eviction that can reopen what it closed.
- **Rules that meet.** Fusion, corroboration, criticality and impact thresholds are set
  apart and decide together; gateways, shared providers and redundancy change one
  propagation.
- **Crashes.** A model file is overwritten in place; the registry, the queues and the
  caches start empty.

PROJECT.json lists the hazards at the line where each bites, with the properties aimed
at it, or why there is none.

### What makes the components correct

- Reader and engine: rows in the order they were captured; one thread at a time; every
  session's flows reach the consumer once, in order, without a gap and not early;
  honest counters; a run ends, a stop is prompt; an accepted injection is handed over.
- Rate limiter: of the calls that read the clock within one window and are admitted,
  there are no more than the limit, although their readings may be stale.
- Ingest pipeline: a failed call leaves no trace in the tables; re-delivery is
  harmless; one alert per incident; a tripwire alerts; alerts carry a fresh blast
  radius; nothing of a batch that failed is broadcast.
- Detectors, fusion, policy: histories are what was seen last, memory stays bounded, a
  batch is not its own baseline, a headline is explained by its stored scores, and more
  evidence never weakens the answer.
- Graph and impact: no way around a gateway; each propagation is what its draws explain;
  one provider fails as one; scores are fractions.
- Intrusion prevention: record, registry and enforcement agree, and an ending is final once
  nobody else is ending the row.
- Broadcaster: order, freshest state, losses counted, clients isolated, nothing left.
- Console: what is served was built whole for this code; what was stored reaches the
  page, or it is known where it was lost; nothing is shown a third time.

## 2. The modules

### ReplayEngine

One step is one critical section of the engine's locks, or one call outside them. So
`stop()` is `StopBegin` (lines 532-537), one of `JoinReturns`, `JoinTimesOut`,
`JoinRaises` (539), and `StopEnd` (547-549); `start()` is `Start` (the section under
the lock) and `Launch` (`thread.start()`); the thread goes through the places `check`,
`drain`, `emit`, `call`, `count`, `due`, `advance`, `exhaust`, `loop`, `ended`. Each
thread ever created keeps its own program counter and batch, so that a thread that
outlives its `stop()` stays in the model. A flow is its position in the schedule. The
clock is abstract here: a tick may find any number of flows due. The consumer returns or
raises. `handed`, `injHanded`, `runHanded`, `callsAfterStop`, `abandoned` and `detached`
are histories: what the consumer was given, whether the `join()` of a `stop()` of this
run has raised, and whether some `stop()` has returned while a thread lived. A `join()`
that raises ends its `stop()`: nobody is left to clear `_running`.

### IngestPipeline

One call goes through `Deliver`, `Persist`, one examination per flow (`Skip`; or
`CiiNone`, `CiiReuse`, `CiiCompute` followed by `Suppress`, `RaiseAlert` or
`AlertOrphaned`), `Prune`, `Commit`, `Publish` per envelope (`SkipKnown` for a flow that
was stored before, which is not broadcast again), and `Absorb`. `DatabaseFails` ends the
call at any point up to the commit: `tx` falls back to `db`, the maps in memory stay. A
flow of the capture day is an asset, an origin and a `kind`, which is all the alert
policy asks of the detectors. `Deliver` may repeat a batch. Event times are row numbers:
a second session replays them, which is why pruning by event time can remove rows of the
same transaction. `out` holds the ids collected at the insert; what `Commit` makes
durable is the table, so that an id may be broadcast whose row retention took within its
own transaction.

### IpsRegistry

Three places: `registry` (memory), `rows` with `pending` and `marks` (the table, and
what the open transaction adds and changes), `enforced` (the adapter). The ingest thread
applies decisions (`Suppress`, `Apply`), sweeps (`SweepBegin`, `Expire`, `ExpireRaises`,
`ExpireMisses`) and ends by `Commit` or `DatabaseFails`. A rollback request is
`RollbackLoad`, `RollbackCommit`, `RollbackRelease`, `RollbackCheck`, `RollbackDelete`,
one per point where the other thread can intervene, with `RollbackFails` and
`RollbackRaises`. `Restart` empties the registry. The histories `lost` and `phantom`
name the rows whose entry was lost and the entries whose row was rolled back or ended
without it; the properties say that nothing else goes wrong. An escalation ends the row
of the weaker measure and never releases it at the adapter (ingest.py:1576-1581);
`EndedIsReleased` is stated of expired and rolled-back rows only. `Over(id)` says that a
row has ended, is not among the marks of the open transaction, and that no request has
it loaded: from there on its status stands (`EndingIsFinal`). Before that it need not.

### WsBroadcaster

An action is what happens on the loop between two awaits; `publish()` alone runs
elsewhere and appends to `ready`, the loop's list of scheduled calls. A client has a
route (`new`, `accepting`, `hello`, `open`, `gone`), a writer (`none`, `waiting`,
`sending`, `failed`, `ended`) and a socket (`up`, `stalled`, `down`). `wire` is what was
handed to the socket, `offered` what `_dispatch()` put to the client. That the greeting
is handed over in the step that creates the writer is how asyncio schedules it: tasks
run in the order they were created, and the writer's first send is created after the
greeting's.

### RateLimiter, ReplayReader, ReplayPacing, PacedStream

`ReplayReader` gives a day's schedule as operators over rows that carry their true time,
what the file prints of it, and their defects: which counter a bad row goes to, the hour
restored (`CorrectedHour`), the sort, and virtual times as any values inside the bucket
that `compute_virtual_times()` divides. `RateLimiter` has the arrival of a call with its
clock reading, and `Admit` or `Refuse` under the lock, on the deque of its key. In
`ReplayPacing` callers go through that gate into `start()`, `stop()` and the two steps of
the speed route, on one monotonic clock with a tick of four steps: `ReadClock`, `Decide`
(anchors and pointer under the lock), `Emit`, `Store`. Virtual time is `VirtualAt(wall)`,
in whole units, so that re-anchoring is exact; the code does it in floating point.

`PacedStream` is the abstract specification: a position that flows at a rate, changes of
the rate that do not move it, and flows handed over in order when their time has come. A
pass begins again only when all of the schedule was handed over, and a run only when the
one before has ended.
`ReplayPacing` implements it with `position <- VirtualAt(clock)` and `rate <- speed`
(`PacesTheStream`).

### HybridFusion, PreventionPolicy, SignatureEngine, BeaconingDetector, TemporalGraph, HybridDetection

The first three are operators: a verdict of each detector, the noisy-OR over the
detectors that fired (in parts of `Unit`, multiplied out, so that the arithmetic is
exact), bands, the rules of the signature engine over the traits of a flow they test,
and the decision of the policy. `BeaconingDetector` is the LRU map of ring buffers and
the verdict over their intervals (the coefficient of variation is compared squared, in
whole numbers). `TemporalGraph` is the live graph with its pruning and node cap, the
histories of peers, and the fit and refit of the baseline, which may fail; what the
forest answers is free (`Answers`). `HybridDetection` is one call of the pipeline over
all of them: a batch is replayed, repeated by a second thread, restarted or injected;
histories change, verdicts are fused, and the score rows are written unless the
transaction fails or scoring raises.

### DependencyGraph, CascadeSimulation, AttackCascade

`DependencyGraph` rewrites the table of dependencies through gateways and derives the
seeded criticalities. Of a probability it keeps never, maybe or always.
`CascadeSimulation` takes one step per popped node (`Visit`, with every outcome of the
draws), one per node of the second pass (`ScanBackups`), and `Score`; the result is
`Scores` and `Percentile`. `AttackCascade` leads to it: the operator injects copies of
captured flows, the registry resolves addresses, the pipeline and the console ask. The
history `requests` keeps what each injection asked for (its scenario, target and count),
and `Cached` what it leaves in the pool that scenarios of one day and label share.

### ModelArtifacts, EventFeed, LiveConsole

`ModelArtifacts` is the life of the two model files. A builder is the script or an
operator at a shell. `Fit` reads the capture, `OpenFile` truncates the file, `CloseFile`
leaves it whole; nothing keeps two builders off one file, and if both had it open the
later `CloseFile` leaves it whole or torn. A build may die in between; `Loadable` is what
`load()` accepts. `EventFeed` is an event from the table through the socket's queue to
the page, with the hook's connections, live frames and backfills; a request outlives its
socket, and answers and frames arrive in any order. Two histories say why an id need not
be on the page. `excused` has those a counted overflow took, those of a backfill that
failed with a warning, and those from before the page. `cut` has those that an answer
left out because they were beyond its limit: the hook ignores `has_more`, and nobody is
told. `LiveConsole` composes both with `dev-up.sh`, the runtime that loads the models
once, `dev-down.sh`, rebuilds by hand, and crashes.

## 3. What is checked

Every property of a passing run has a mutant in PROJECT.json, a plausible bug that
the run finds. `tlc -workers 2 -config X.cfg M` runs one.

| Run | Module, cfg | Question | Bounds | States |
|---|---|---|---|---|
| `engine` | MCReplayEngine | do concurrent callers keep one gapless, counted, ending replay, and injected flows their order? | two controllers, one injector, two injected flows and a queue of two, schedules of three flows or none, batch cap one, two starts | 1.1 million, with liveness |
| `control` | MCReplayPacing | is a replay paced right under speed changes, limits and time passing anywhere? | three callers of one key, one without a token; limit one per window of two ticks; small files around noon and one o'clock, one with several rows of a minute before another minute; clock up to four | 2.8 million, with refinement |
| `ingest` | MCIngestPipeline | do tables, maps, statistics and broadcasts agree across failures and re-deliveries? | three calls, three ticks, one database failure, several capture days, retention of one row | 1.94 million |
| `detection` | MCHybridDetection | what do detectors remember, scores say and answers do? | five captured flows of a beacon and its neighbours, one injected; two sessions, one failure, six flows examined; two tracked pairs, three nodes | 42 thousand |
| `cascade` | MCAttackCascade | is every propagation explained and no gateway bypassed; is every injected flow real, and at its target? | a city of nine nodes and its gateways with eleven dependencies of all kinds; two iterations; two scenarios of one pool, two targets, up to two flows a request, one failed read; one question of the console | 2.8 million |
| `ips` | MCIpsRegistry | do registry, record and enforcement agree, and is an ending final? | two assets, three levels, one operator, three actions, one restart, registry of one | 3.4 million |
| `broadcaster` | MCWsBroadcaster | order, freshness, accounting, isolation | two clients, three envelopes, queues of two | 360 thousand, with liveness |
| `console` | MCLiveConsole | what does the process serve? | four captures, the script and an operator who build, two crashes or shutdowns; one event | 81 thousand |
| `delivery` | LiveDelivery.cfg | does every stored event reach the page, and where did the others go? | four events, a queue of one, a limit of one, a buffer of three, two requests in flight, two cuts, one crash or shutdown; one capture | 340 thousand, with liveness |
| `zombie` | ReplayZombie.cfg | "flows are never dropped" | | violated |
| `lost_injection` | ReplayLostInjection.cfg | the 409 that keeps an injection from being wiped out | | violated |
| `tripwire_lost` | TripwireLost.cfg | "tripwire fired -> ALWAYS alert" | | violated |

Six more configurations are kept for the reader. Each checks one claim of a comment or a
docstring that the code does not keep, and TLC finds it violated within seconds; the
passing runs check what is left of the claim.

| Configuration of | Cfg | Claim | What is left of it |
|---|---|---|---|
| MCReplayEngine | ReplayDeadEngine.cfg | `RunningMeansReplaying` | `RunningHasThread` |
| MCIngestPipeline | PrunedBroadcast.cfg | `BroadcastIsDurable` | `BroadcastHasItsRow` |
| MCIpsRegistry | IpsAdapterAborts.cfg | `AdapterNeverAbortsBatch` | `EndedIsReleased` |
| MCIpsRegistry | IpsTerminalRewritten.cfg | `TerminalStatusesStand` | `EndingIsFinal` |
| MCLiveConsole | BackfillCut.cfg | `BackfillIsGapless` | `MissingIsAccounted` |
| MCLiveConsole | ShownTwice.cfg | `NeverDuplicate` | `NoThirdCopy` |

Why the bounds suffice. Two controllers are what an overlap of `stop()` and `start()`
takes, and two starts what a surviving thread needs; a schedule longer than the batch
cap makes the cap bite, and two injected flows in a queue of two have an order to lose.
In `control` two token holders give a speed change between a clock reading and its use,
and a limit of one fills the window; rows of one minute followed by another minute are
what the spread of virtual times could reach into. Three calls in `ingest` are one that
fails, one that repeats it, one that follows. In `detection` the beacon returns three
times, a third pair evicts the first, a fourth node the oldest, and the baseline is
fitted and refitted. The city of `cascade` has a protected asset behind another, a
protected asset whose gateway no edge leads to (so that a relay is spliced in), a
provider shared by two edges, two backup paths into one node, and a second redundant
node behind the first; two iterations show that nothing is carried over. Two targets
tell the target asked for from another, and a pool used twice shows what the first
request left in it. A registry of one evicts at the second asset; a queue of two
overflows at the third envelope while the writer holds none. In `delivery` the queue and
the limit of one make overflow and cut backfills happen: a row cut off below the cursor
takes one event before the gap, two in it and a live one after, which are four. The code
has one number for the limit and the page's buffer, which the instance separates so that
both can bite. What the models are does not depend on how many events follow, so that
`console` has all captures and builders with one event, and `delivery` one capture and
no rebuild by hand. The engine run stops exploring beyond the first thread that a
`stop()` left behind (`NothingLeftBehind`), where its properties claim nothing; the run
`zombie` goes there. It takes schedules of the full length or none (`EmptyOrLong`):
shorter ones are what is left of a longer one. Symmetry is used for two interchangeable
token holders and for assets, in runs without liveness. Runs over bounded inputs stop,
so deadlock is not checked in them; `engine`, `console` and `delivery` check it.

### Fairness

- `ReplayEngine!FairSpec`: launched threads keep running, the consumer returns, callers
  inside `start()` or `stop()` finish. Time passes, so that a tick cannot find nothing
  due for ever: strong fairness of `SomeDue`. No one is obliged to call anything.
- `WsBroadcaster!FairSpec`: the event loop runs what is ready, and a send ends, as it
  is bounded by a timeout. Nothing is assumed of publishers, clients or the network.
- `LiveConsole!FairSpec`: while the server is up its loop dispatches and accepts; the
  browser delivers what arrived and fires its timers; a request ends, by an answer or
  an error. Nobody is obliged to run a script, and the number of cuts is bounded: a
  connection that breaks for ever delivers nothing.

### What the violations show

1. **A thread that outlives its `stop()`** (`zombie`). `stop()` says stopped after the
   join timeout; `start()` then clears the event the old thread was to see, and two
   threads share `_pointer`. Flows are skipped.
2. **A lost injection** (`lost_injection`). The route checks `running`, then enqueues; if
   the replay ended in between, the next `start()` clears the buffer.
3. **A silent tripwire** (`tripwire_lost`). The debounce of an alert survives the rollback
   of the alert.

And the configurations kept beside the runs:

4. **An engine that runs nothing** (ReplayDeadEngine). `start()` publishes its thread and
   sets `_running` before it launches the thread (line 524). A `stop()` in between sets
   the event and joins a thread that was never started: `join()` raises, lines 547-549
   are not reached, the thread then sees the event and ends, and `status()` reports
   running until the next `stop()`. The docstring of `stop()` says "Idempotent"
   (line 528), and `test_replay_engine.py:704` "must not raise".
5. **A broadcast row that never existed** (PrunedBroadcast). A loop pass or a second
   session inserts old event times, retention takes those very rows in the same
   transaction, and their envelopes go out all the same. `ingest.py:2106` speaks of "data
   already durable in Postgres".
6. **An adapter that ends batches** (IpsAdapterAborts). The sweep calls `rollback()` at
   ingest.py:1624 without the guard that `contracts.py:162` describes: "wraps both calls
   in a `try/except` regardless".
7. **A terminal status rewritten** (IpsTerminalRewritten). `rollback_ips_action()` checks
   the status it has loaded and writes without a lock: an escalation or sweep that ended
   the row in between is overwritten, although `models.py:350` calls the states terminal.
8. **A backfill with a gap** (BackfillCut). `useEventStream.ts:243` says that a reconnect
   asks "for exactly what was missed while disconnected, gapless by construction". When
   more was missed than the limit, the answer brings the oldest, `has_more` is ignored,
   the next live event moves the cursor past the rest, and no later request asks for it.
   Nothing is counted and nobody is warned.
9. **An event shown twice** (ShownTwice). A live frame is put on the page without a look
   at what a backfill brought before it, although `useEventStream.ts:281` says "never
   duplicate".

Also seen, without a configuration:

- `contracts.py:72` says ALERT decisions never reach the adapter, but
  `_apply_ips_action()` calls `apply(dry_run=True)` for them.
- A client whose send timed out stays registered and silent until its peer disconnects.
- A backfill that failed is not repeated once a live event has moved the cursor past its
  gap, although line 261 of the hook counts on the next reconnect.
- After an escalation the weaker measure stays enforced at the adapter, by a row that has
  ended (ingest.py:1576-1581).
- A snapshot that was rolled back stays in the CII cache, and the next batch that reuses
  it for an alert goes down with it (`AlertOrphaned`).
- By the time at which they were admitted, a window can hold more calls than the limit:
  a call that read the clock and then waited for the lock is counted where it read.
- The temporal graph prunes against the newest flow it has ever seen: after an injection
  of flows captured later, or a restart of the day, it drops each edge it has just added
  until the clock of the capture catches up.
- A refit that raises leaves an unfitted forest behind (`tgnn.py:578`), and every call
  raises until one succeeds. The beaconing histories are never reset between sessions.
- A node that falls in the second pass of a propagation spreads no further, and can lie
  one hop beyond the limit (`cii_calculator.py:201`); an edge of two entries with one
  source and one gateway keeps the attributes of the later one only.
- `dev-up.sh:268` takes five tables for a seeded database: a set-up that dies between
  creation and seeding is not repeated.

## 4. What is proved

Every safety property of a passing run, the refinement of `PacedStream` among them, is
stated by a theorem, for all values of the constants that the named assumptions allow.
Most assumptions are the ranges of the settings; those that say more are these, and TLC
evaluates them on the instances:

| Assumption | Why the code justifies it |
|---|---|
| finitely many clients, publishers, assets | sockets, threads and rows of a seeded table |
| `GraphAssumption`: dependencies are records of a table's columns, no asset and no end of a dependency is a gateway | `graph_manager.py` builds the graph from the dependency table, and only it makes gateway names, by a prefix of their own |
| `WorkingHours`: sound rows were captured between 8 and 19 | the reader's docstring calls it Fact 1; without it the printed hour is ambiguous and no reader could restore it |
| `InjectionAssumption`: addresses are distinct, no captured row has an injected id | the registry's addresses, and `inject.py:317`, where an id is a fresh `injected:...:<uuid>` |
| `NoModel`, `NotAnswered` differ from every model and every answer | they stand for `None` and for a request without a response |

Much of what the model computes is a recursion over data: folds of a backfill, sums over
clients, percentiles, pools, the flows of a batch. It is written as recursive functions
(`Folded`, `PoolOf`, `Placed`, `Merged`, `Touched`) or with the community folds. The
induction theorems of the library take an operator as a parameter; the proofs use
instead the set of the sizes for which a claim holds (`NatInduct`, from the
well-foundedness of the naturals), so that the claims about these recursions hold for
every input.

### The replay thread

`ReplayEngineProofs` proves, for all values of the constants allowed by
`BoundsAssumption` and `MaxBatchAssumption`:

| Theorem | States |
|---|---|
| `TypeCorrect` | `Spec => []TypeOK` |
| `SingleThread` | `Spec => []SingleReplayThread` |
| `Gapless` | `Spec => []GaplessStream` |
| `NaturalEnd` | `Spec => NaturalEndIsComplete` |
| `StopPrompt` | `Spec => []StopIsPrompt` |
| `RunningReplays` | `Spec => []RunningHasThread` |
| `CountersAccount` | `Spec => []CountersAgree` |
| `InjectedInOrder` | `Spec => []InjectedOnceInOrder` |

The argument. None of these is inductive. `IInv` adds nine things to the types:
`LaunchInv` (threads are created in order; a thread not yet launched belongs to exactly
one controller, so that `Launch` cannot start one twice), `SingleReplayThread`, `RunInv`
(a running engine names a thread), `StreamInv` (until `detached`, what a session was
handed is exactly the schedule up to the pointer, or up to the end of the batch under
way, and a thread that is done with the schedule has left the pointer at its end: this
ties `handed`, `pointer` and `work`, which change in three different steps),
`PromptInv` (how many consumer calls may follow a stop from each place of the thread),
`AliveInv` (a thread dies only after it saw the stop event or cleared `_running`),
`ToldInv` (a stop event that is set over `_running` was set by a `stop()` that is under
way or was ended by its `join()`),
`AccountInv` (the flows handed over and not counted are those of the batch between its
call and its count, and a call under way has not failed yet), and `OrderInv` (handed
over, on the way, queued: three stretches of one increasing sequence of accepted flows).
`Invariance` proves each preserved, one step per action; the theorems follow.
`RunningReplays` is weaker than what a reader of `status()` would like: a running engine
has a living thread, or its stop event is set and a `stop()` of this run is under way or
has ended by the exception of its `join()`. The last case is real (4 in section 3).
`detached` is essential: without that premise most of them are false, as the run
`zombie` shows for the stream; `AliveInv` does without it.

### The pacing and the gate

`ReplayPacingProofs`, for all files, speeds, caps, callers and limits that
`PacingAssumption` and the assumptions of the modules below it allow:

| Theorem | States |
|---|---|
| `PacingImplementsStream` | `Spec => PacesTheStream`, the refinement of PacedStream |
| `GateBoundsBursts` | `Spec => []BurstBound` |
| `CaptureOrderIsRecovered` | `Spec => []CaptureOrderRecovered` |
| `VirtualTimesInBucket` | `Spec => []VirtualTimesStayInBucket` |

The argument. `PInv` says that anchors and readings lie at or before the clock, that
virtual time never runs behind an anchor, that the pointer is where the flows handed
over end (or the start of the batch under way), and that a batch decided on is due. From
it each step is a step of `PacedStream` or a stutter; the hard ones are `SetSpeed`,
where the position before and after is the same by the distributivity of the product,
and `Decide`, whose reading is older than the clock. `GInv` says that every admitted
call that is not in the deque of its key has left the window with respect to the clock,
of which every reading is an earlier value. So the calls of a burst are all among the
hits counted when the last of them was admitted, although the readings they are counted
with may be stale and out of order. A burst is made of calls that read the clock and were
admitted within one window; the theorem says nothing of calls that read it before.

The two theorems of the reader rest on `CacheInv`: the cached day is nothing, or what
`Preloaded` makes of the file. About that: the corrected hour is the true one
(`HourIsRestored`, under `WorkingHours`); each row has exactly one outcome and is in
exactly one counter; and the sorted schedule holds every sound row once
(`EveryRowOnce`): it is a list in a strict order, so that it repeats none, and a list
without repetition that is as long as there are sound rows leaves none out. Since the
schedule is sorted, the rows of one timestamp are an interval of places
(`BucketIsInterval`), and the slots `compute_virtual_times()` cuts from the time to the
next one are bounded and ordered within it.

### Hybrid detection: fusion, policy and the memory of the detectors

`HybridDetectionProofs`, for all weights, bands, thresholds, caps and windows in the
settings' ranges, every capture and every answer of the forest:

| Theorem | States |
|---|---|
| `FusionMonotone` | more or louder verdicts never lower score or band |
| `AnswerMonotone` | nor the policy's tier, with criticality and impact raised as well |
| `AnswersGrowWithTheCase` | `Spec => []StrongerCaseStrongerAnswer` |
| `StoredScoresExplain` | `Spec => []ScoresExplainHeadline` |
| `MemoryOfLiveNodes` | `Spec => []HistoryOfLiveNodesOnly` |
| `FirstContactsAreNovel` | `Spec => []FirstContactIsNovel` |
| `RecentHistories` | `Spec => []HistoriesAreRecent` |

The score is a fold over the fired detectors, so the argument goes through the product
of their survivals, one detector at a time. The invariant of `AnswersGrowWithTheCase` is
`AllDecided`: each decision fuses verdicts the detectors can give, for a flow whose
criticality and impact are in range.

`ScoresFit` says that the rows of a stored event are the rows of one set of verdicts
that the enabled detectors can give together. Examining an event again adds nothing to
rows that are there and a transaction that fails adds nothing at all, so rows of two
examinations never mix, and a headline is fused from what is stored.

`MemoryFits` describes the temporal graph: edges join live nodes (`EdgesFit`), a history
belongs to a live node and is no longer than its cap (`HistoryFits`), and what is
remembered was examined before (`GraphFits`, over the history `log`). It is carried
through a batch by induction over its flows, since an eviction for a later flow may take
away the node an earlier one has just used. The histories are merged only after the
whole batch was compared, which is why a batch is never its own baseline.

`Remembered` is the invariant of the beaconing detector. The pairs held are in the order
of their last use, and `Since(p)`, the distinct pairs used after the last use of `p`, is
exactly what stands behind `p` in the map; a pair that is missing had at least
`MaxTrackedPairs` pairs used since. What each pair holds is the last of the times at
which it was seen since it was last admitted. The property alone is not inductive: which
pair the next flow evicts depends on the order among all of them.

### The broadcaster

`WsBroadcasterProofs`, for any finite sets of clients and publishers, any number of
envelopes and any queue bound that `BroadcasterAssumption` allows:

| Theorem | States |
|---|---|
| `TypeCorrect` | `Spec => []TypeOK` |
| `NewestQueued` | `Spec => []QueueHoldsTheNewest` |
| `WritersEnd` | `Spec => []NoOrphanWriter` |
| `GreetingFirst` | `Spec => []HelloFirst` |
| `OrderKept` | `Spec => []PublishedOrderOnTheWire` |
| `Accounted` | `Spec => []NothingLostUncounted` |

The argument. `QueueInv` says position by position that a queue is the end of what was
offered to its client; an overflow drops at one end what a dispatch adds at the other.
`LifeInv` ties the places of a route, its writer and its registration: only a registered
client's writer waits or sends. `GreetingInv` says that nothing is on the wire of a
client whose greeting is not. `OrderInv` puts the places an envelope goes through in one
line: what is on the wire was published before what is being sent, that before what is
queued, and that before what waits for the loop. The order on the wire follows, and is
not inductive without the rest of the line. `HeldInv` says that a writer holds one
envelope while it sends or has just failed, none while it waits, and never two: with it
the account of one client closes, offered against sent, dropped, queued and held. The
account of all is a sum over clients, and that of the publishers one over publishers
(`PublishedAccount`); a step changes one term of a sum, which `SumTerms` and `OneFewer`
prove by induction on the size of the set.

### The registry of mitigations

`IpsRegistryProofs`, for any assets, levels, operators and bounds that
`RegistryAssumption` allows:

| Theorem | States |
|---|---|
| `TypeCorrect` | `Spec => []TypeOK`: at most `RegistryMax` entries, one per asset |
| `Tracked` | `Spec => []ActiveIsTracked` |
| `Backed` | `Spec => []EntryIsBacked` |
| `Released` | `Spec => []EndedIsReleased`, of rows that expired or were rolled back |
| `Final` | `Spec => EndingIsFinal` |

The argument. `IdInv`: ids are drawn in order, so that the row of an open transaction is
newer than every committed one. `EntryInv`: entries agree with their rows in asset and
level. `SweepInv`: what the open sweep has marked was released at the adapter, and
nothing enforces it again before the transaction ends: this is what makes a commit that
lands after an operator's rollback harmless. `TrackedInv` states `ActiveIsTracked` of
the rows of the open transaction as well, where it has to hold before the commit makes
them rows. `Invariance` has a lemma for each group of actions. `EndingIsFinal` needs
that a row which is over has no entry left through which the ingest thread could end it
again (`OverHasNoEntry`); that is why `Over` leaves the phantoms out.

### The ingest pipeline

`IngestPipelineProofs`, for any capture day, asset, graph, batch size, debounce, map
limit and retention that `PipelineAssumption` allows:

| Theorem | States |
|---|---|
| `TypeCorrect` | `Spec => []TypeOK`: neither map exceeds its limit |
| `StatisticsAccount` | `Spec => []StatsAccountForTables` |
| `TripwiresKept` | `Spec => []TripwireAccountedFor` |
| `IncidentsAlertOnce` | `Spec => []OneAlertPerIncident` |
| `BlastRadiusShown` | `Spec => []AlertShowsItsBlastRadius` |
| `BroadcastInOrder` | `Spec => []PublishedInIdOrder` |
| `BroadcastBacked` | `Spec => []BroadcastHasItsRow` |

The argument. `PutFacts` says what an update of a bounded map does: all entries but the
last come from before, in their order, and one that is missing was older than all that
are left. `SerialInv`: ids are drawn in order, so new rows are counted once and a cached
snapshot whose row was rolled back never meets another row with its id. `CountInv`
carries the statistics through the open transaction. `SnapInv`: a cached snapshot is the
row of its id, or there is none. `TouchInv` ties each touch of the debounce map to the
alert it was made for, or to a call that raised: the rollback undoes the alert and not
the touch. `LruInv` describes the map by the touches: it holds the last touch of its
assets in touch order, and an asset that is missing was followed by `CacheMax` others,
which is what `IncidentsAlertOnce` counts. `BroadcastInv`: what waits for the broadcast
is in id order and newer than what went out. `RowsInv` says what became of the row
behind it: it is in the table, or retention took it, and then the table is at its cap
and holds no row older than the one it took.

### The cascade

`AttackCascadeProofs`, for every city that `GraphAssumption` describes, any number of
hops and iterations, and any captured days:

| Theorem | States |
|---|---|
| `ChokepointHolds` | `Spec => []GatewayFallsFirst` |
| `OneDrawPerProvider` | `Spec => []ProvidersFailTogether` |
| `AnswerIsExplained` | `Spec => []CascadeIsExplained` |
| `InjectionIsReal` | `Spec => []InjectedFlowsAreReal` |

The argument. Of the graph: once its entries are routed, the only edge into a protected
asset is the relay from the gateway of its zone (`OnlyRelaysReach`), whatever kinds of
entries are rewritten, spliced and merged on the way. Of a propagation: `Shape` types
the search; `Explained` says that whatever the search found, but the origin, is the end
of an edge that fired from a node found one hop earlier, and that what the second pass
added lost every backup whose source was found; `CommonDraws` says that an edge of a
shared provider fired only if its provider's draw, which an earlier node may have made,
came out so, and that such an edge of an expanded node missed its target only by that
draw. From these `GatewayFallsFirst` and `ProvidersFailTogether` follow. `Fractions`
bounds the score of each iteration: the criticality found is a sum over a subset of the
sum it is divided by, and percentiles, each the k-th smallest of the same scores
(`Smallest`), are in order. The last theorem is about injection: a pool filled by any
number of reads, some of which failed, holds what a fresh read of its day and label would
give (`PoolOf`, by induction over the day), whatever requests have used it. `Served` says
of each request in `requests` that its flows are those of a fresh pool in content, under
ids of their own, with the flag of its scenario and a source that resolves to the target
it chose; `AskedFor`, that no flow was injected that no request asked for.

### The console

`LiveConsoleProofs`, for any captures and splits, any number of events, requests, cuts
and crashes, and any queue, limit and buffer:

| Theorem | States |
|---|---|
| `ServedModelsFit` | `Spec => []ServedModelsFitTheCode` |
| `NothingLost` | `Spec => []MissingIsAccounted` |
| `NoThirdCopyShown` | `Spec => []NoThirdCopy` |

The argument. `FilesFit` says that a file which is neither absent nor torn holds a whole
fit, for this code or an older one, of a capture that has the rows to fit on, and that a
build under way, whoever else builds, will
write such a fit or leave a torn file. `ServedFit` says that the process holds what it
loaded while it was up, the second channel only with the first. The files may change
under a process that lives, so that neither half follows from the other.

`FeedCovers` says what every id up to the loop's last is, while the page is connected:
seen, excused, cut, queued, or covered by a request that asked after an earlier id; and
the same for every id up to the page's cursor at any time. The hard step is an answer:
it takes a request away, and each id it covered is in the rows it brings, or beyond the
limit and cut. `PageCopies` tells which rows are on the page twice: a backfill compares
its rows with the page and adds each at most once, a live frame compares with nothing,
and a row passes through the queue of a connection once. `FoldedPages` is the induction
over the fold a backfill makes.

### Only model-checked

Liveness: `ReplayCompletes`, `HealthyClientIsServed` and `EveryEventReachesThePage`.
Arguments from fairness and ENABLED are beyond the installed provers. TLC checks them
under the fairness of section 3. The violations are counterexamples and need no proof.

## 5. What is left out, and the plan

Not modelled: how a fitted model scores (its answers are inputs), the byte entropy of
the temporal graph, how the asset registry measures nearness, the text of capture files,
explanations and other wording, the alert and action buffers of the page, rendering, the
research console, installation and the database's set-up. `IngestPipeline` takes its
calls one at a time; after a join timeout they could overlap. `IpsRegistry` takes every
TTL as equal and positive. Virtual time is exact where the code uses floating point.
PROJECT.json gives the reason per component.

What could follow:

1. An abstract lossy channel per client which `WsBroadcaster` implements, and an
   abstract table of incidents which `IngestPipeline` implements, with proofs step by
   step as for `PacedStream`.
2. A refit that fails between replacing the forest and fitting it, as two steps.
3. Composition of engine and pipeline: exactly-once persistence per session, and
   overlapping calls after a join timeout.
