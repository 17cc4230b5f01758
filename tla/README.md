# Traderton: specifications, checks and proofs

TLA+ specifications of the parts of Traderton in which several processes, jobs,
retries and failures meet, the TLC configurations that check them, and proofs
that TLAPS checks. Every definition is written from the source; `PROJECT.json`
(`map`) gives the lines each one stands for, `hazards` what is hard to test in
the code and which property watches it.

## The system

Worker processes run trading **bots**; boundary processes (HTTP and MCP) take
tool calls of consumers and run the trading actors of **agents**. They share
PostgreSQL (rows of bots, orders, invocations), Redis (leases, the BullMQ queue
`bot-lifecycle`, pub/sub `bot:stop:*`, lists for agent commands) and the venues.

| Component (source) | State | Operations | What makes it correct |
|---|---|---|---|
| instance lease (`worker/src/instance-lease.ts`) | one Redis key per instance, renewal timers per process | acquire (NX), release (compare and delete), renew, shutdown | one holder; a key is released only by its holder |
| worker runtime (`worker/src/runtime.ts`) | `actors`, `startingInstances`, `pendingStops`, jobs in progress | start, stop, restart, reclaim sweep, crash, shutdown | one running actor per bot over all processes; a running actor is leased and reachable by a stop; a stop never hits a later start |
| lifecycle commands (`worker/src/composition/drive-target.ts`, `worker/src/tools/bots.ts`) | `bots.status` and the queue | start, stop, restart, stop_bot, rollback of a failed enqueue | row and actor agree once nothing is in flight |
| bot stop signal (`boundary/src/bot-stop-subscriber.ts`) | a subscription per process | publish, handle | reaches the process that runs the bot |
| bot actor (`worker/src/trading-actor.ts`) | running flag, scan timer, position, failures in a row | start, stop, crash, tick, private-stream fills | after stop() nothing of it runs; ticks and fills do not lose updates of the position |
| tool dispatcher and invocation store (`boundary/src/dispatcher.ts`, `db/src/boundary-invocation-repository.ts`) | rows of `boundary_invocations`, advisory locks | beginOrResolve, execute, complete | a keyed call is executed at most once, and its retries are told one result |
| agent actor ownership (`boundary/src/agent-direct-actor-ensure.ts`, `agent-actor-lifecycle-ops.ts`, `agent-orphan-sweep.ts`, `agent-actor-rehydrate.ts`) | ensure cache, actor registry, agent lease, run rows | ensure, evict, start, stop, sweep, boot | one registered, leased actor per agent; a stopped agent is not revived; one that should run is brought back |
| agent command routing (`boundary/src/agent-command-router.ts`) | a Redis list per process, a reply key per decision | forward, consume, reply, time out | a decision runs at most once, and at a holder of the lease |
| agent trading actor (`worker/src/agent-trading-actor.ts`, `composition/decision-intake.ts`, `engine/src/decision-intake.ts`) | positions, exit levels, exits under way, cooldown, breaker, trackers; position and fill rows | decide, exit, scan, private-stream messages, crash with go-flat, stop, start | what the actor believes to hold is what was executed; exits only close; limits, cooldown and levels hold over everything under way |
| live orders (`engine/src/live-*.ts`, `decision-intake.ts`, tick and recovery of `trading-actor.ts`, order and plan rows of `db/src/repositories.ts`) | plans, up to two rows per order, the order at the venue | decide, send, acknowledge, stream update, cancel for age, resolve, recover | what a row or a verdict says is true of the venue and stays so; orders of two plans are not out at once; a plan that is over is resolved |
| position accounting (`engine/src/fill-accounting.ts`, `PositionRepository`) | size, average price, realised profit; up to two open rows per position | apply a fill, upsert, promote | the position is the sum of the fills |
| risk and circuit breakers (`engine/src/risk-gate.ts`, `circuit-breaker.ts`) | losses of the day, failures in a row | evaluate, trip, reset | no entry while tripped, none beyond a limit |
| reconciliation (`engine/src/reconciliation/`) | local and venue snapshots | compare, repair, repeat | converges, and acts on no stale snapshot |
| running-bot limit (`db/src/repositories.ts`) | count of running rows under an advisory lock | claim | the limit of an owner is kept |

The rest (venue adapters and signers, market data, strategies, journal,
notifications, assessment and review loops, authentication, contracts) is listed
in `PROJECT.json` with the reason it is not modelled: request/response I/O,
numeric computation, or read-mostly periodic work without a protocol.

**How they meet.** A command marks the row and then enqueues a job or publishes
a signal; any process takes the job, the one with the actor has to act on it.
The sweep of every process starts what the rows call running, from a list that
ages while it works. Crash handlers, failed starts, stops and shutdown all take
an actor down in steps separated by awaits, and each ends by dropping an entry
and a lease *by bot id*. Processes die between any two of these steps.

Agents are owned in another way: any boundary process that needs the actor of an
agent *ensures* it, through a promise cached per process and the agent's lease;
who does not get the lease forwards the decision to the process that holds it.
Inside the actor nothing is locked: decisions of the consumer, exits of the level
monitor, the scan and the private stream each read the position, await a mark, an
order or a write, and write the position they computed.

## The modules

```
InstanceLease  <-  WorkerRuntime  <-  BotLifecycle  <-  MCBotLifecycle
                                                    <-  BotLifecycle_proofs  <-  BotRows_proofs
Idempotency (abstract)  <=  Invocation   (refinement)  <-  Invocation_proofs
LiveOrders  <-  MCLiveOrders
            <-  LiveOrders_proofs  <-  LivePlans_proofs
InstanceLease  <-  AgentOwnership  <-  MCAgentOwnership
                                  <-  AgentOwnership_proofs  <-  AgentActors_proofs
AgentTrading  <-  MCAgentTrading, AgentTrading_proofs
```

**InstanceLease.** `leaseKey[id]` is the value of the Redis key,
`renewTimers[w]` the timer map of one process. A command that rejects may or may
not have taken effect (`AcquireRejected`, `ReleaseRejected`). Time is abstracted:
the module says how a key vanishes, the module that uses it when it may.

**WorkerRuntime.** The processes. An async function under way is a *task* in a
slot of its process; its `pc` names the await it is suspended at, and one action
is the code from one await to the next, which JavaScript does not interrupt:

| pc | suspended in |
|---|---|
| `scan` | reclaimOrphans, between two bots of its list |
| `acquire` | `lease.acquire` in startInstance |
| `factory` | `createActor` (bot in `startingInstances`) |
| `starting` | `actor.start()` (entry in `actors`) |
| `abort`, `undo` | `lease.release` after a pending stop / after a failed start |
| `failed` | `onStartFailed` |
| `stopping`, `release` | `actor.stop()` and `lease.release` in stopInstance |
| `crashing`, `mark`, `evict` | the actor's own stop, `onCrashed`/`onHalted`, the release in handleActorCrash |

A task's `kind` is who called: a job, the sweep, a signal, shutdown, a crash or a
halt of the actor. `phase[w][b][g]` is the running flag and scan timer of actor
object `g`, apart from whether it is registered, because the properties are
about exactly that difference.

A race that the code loses is recorded when it happens, per bot (`races`), so that
a property can name those it does not survive. The first three take the lease away
from its holder (`OwnerRaces`):

| Race | in the code |
|---|---|
| `reentered` | a start takes the lease while an earlier start or teardown of the bot in the process has still to release it, by id (`runtime.ts:291`, `349`) |
| `stalled` | no renewal gets through for a TTL; the actor is not stopped (`instance-lease.ts:113`) |
| `unrenewed` | SIGTERM clears all renewals (`runtime.ts:142`) and then waits for the jobs (144): a start in its factory, or an actor it has just started, is no longer covered |
| `overlap` | two teardowns of a bot are under way in a process: stop, crash, halt, failed start |
| `stale_start` | a late job, a restart, or a sweep with an old list starts a bot whose row does not say running (`runtime.ts:200`) |
| `late_mark` | a start that failed has given up the lease (`runtime.ts:291`) before it marks the row crashed; the bot has been started again in between |
| `missed_stop` | a stop job is taken by a process without the bot and dropped (`runtime.ts:339`) |
| `stale_read` | `stop_bot` read the row before a start wrote it, marks it stopped and sends no signal (`bots.ts:827`) |
| `rollback` | a failed enqueue writes the status of before over a bot that runs by now (`drive-target.ts:529`) |

A key may run out at any moment at which no timer renews it (`LeaseExpires`), whatever
its process has in hand: at a dead process, after a release that failed, and under a
shutdown.

**BotLifecycle.** The callers (`call`), the queue's far end and the stop
signals, composed with the processes. `call[c].seen` is the row as the call
read it, which the rollback of a failed enqueue writes back.

**Idempotency** is what the boundary promises of a key: it stands for the first
request made under it, that is executed at most once, and every result told is
the result of that execution. **Invocation** is the dispatcher over the store:
advisory lock, select, insert, execute, complete, for several calls at several
replicas. `KeepsContract` is the refinement: the claim is the request in the row,
the outcome what the executing call holds in memory (or held when it ended), the
results told are the answers.

**LiveOrders** is one live bot at an order-book venue: plan rows (`plan`), the
two rows an order can have (`draft`, written ahead under the client order id;
`booked`, under the venue's reference), the order itself (`venue`), the actor
(`mode`, the ticks and crash handlers in `task`), the execution of each plan
(`run`: its `pc` is the await, `awaited` whether the tick still waits for it) and
a start's recovery (`found`). `venue[o]` goes `absent`, `coming` (sent, not
arrived), then `refused` or `open`, `partial`, `filled`, `cancelled`, `cut`
(cancelled after a part was filled). That the venue refused an order may be told
by the receipt of an ok result or by the stream, or by neither. `updates` are what the private stream has
delivered and the actor has not written yet; each is written once, in any order.
An update that is lost on the way is one that is not written. What should not
happen but may is a *mishap*, with a name; each property names the mishaps it
does not survive, and is checked through all the others:

| Mishap | in the code |
|---|---|
| `overlap` | the scan timer fires while a tick is under way |
| `stop_loss` | a stop-loss exit, which the live guard does not see, beside an unresolved plan |
| `timeout` | the tick gives an execution up after 30 s, the executor goes on |
| `unanswered` | the reply to an order is lost and stands for a rejection |
| `undrained` | a start while a tick of before the stop is under way |
| `blind` | recovery cannot read the venue and fails all plans |
| `database` | a write of the execution throws |

**AgentOwnership.** The boundary processes, and again tasks in slots. `pc` is
the await: `profile`, `waitPrior`, `checkHolder`, `join` in ensure(); `acquire`,
`holder`, `teardown`, `starting`, `abort`, `release` in the promise it caches;
`record` and `publish` in the tools that ensured; `mark`, `halt` in a stop;
`scan` between two agents of a listing; `crash` in the actor's own end. A cached
promise and the actor it constructs share an identity `g`, so that `promise`,
`registry` and `actor` can disagree about it, which is what the properties are
about. A decision goes through `Publish` (here, nowhere, or to `inbox` of the
owner), the consumer loop, and `reply`, whose writer may be too late
(`ReplyTimesOut`). Three races are named and excused where a property does not
survive them: `overlap` (a stop or a crash crosses an ensure of the same agent in
the same process), `remote_stop` (a stop served by another process than the
owner's), `stale_sweep` (a stop after a sweep has listed the agent).

**AgentTrading** is one agent's actor. A position is its signed size and whether
it carries its instrument id, because `PositionRepository` keeps a row with and a
row without one. A task is a decision, an exit, a scan exit or the emergency
go-flat of a crash; `pc` is where it is in the pipeline of
`engine/src/decision-intake.ts`: `context` (the mark is fetched), `risk`,
`execute`, `fill` (a fill row is written), `store` (the position row is written),
`wrap` (what the actor does with the result). In paper mode the result carries the
fills; in live mode it carries none, they come as messages (`queue`), and one
`mutation` after the other applies them. `executed` is what was really bought and
sold. `happened.races` names what has gone wrong so far:

| Race | in the code |
|---|---|
| `crossed` | two activities, or an activity and a message, of one instrument read the position beside each other; an activity or a message is cut off by a stop; a message is lost or overtakes |
| `early` | a decision is accepted between start() and the rehydration of the positions |
| `untold` | an order is executed after its timeout; the rows cannot be read at start |
| `drift` | a restart goes on although rows and venue differ: reconciliation is off, only alerts, or the difference is within its threshold |
| `unsummed` | the sums of the recorded fills cannot be read at start: equity begins with what the positions have realized, the daily loss at zero |
| `write` | a write of a fill or position throws |
| `stale_count`, `stale_cooldown` | what the intake captured has changed when the order is sent |
| `increase_opens` | `increase` opens a position, which the limit does not look at |
| `reverse` | a decision turns a position, and levels of the old side stay |
| `live_exit` | a live exit stores the position it read, under another row identity |
| `restart` | the cooldown is in memory only |

Each property names the races it does not survive and is checked through the
others. Every race of the table was found by a counterexample.

## Runs

| Run | What it asks | Bounds |
|---|---|---|
| `bot_owner` | do all interleavings of a call, stop signals, sweeps, crashes, shutdowns and a failure keep one leased, registered actor per bot, and is a stopped or crashed bot obeyed? | 2 processes, 1 bot, 1 call, 2 tasks per process, 2 actor objects; one failure of 9 kinds, one race of the kinds `overlap` and `stale_start` |
| `bot_resumes` | is a running row always taken up by a live process (liveness)? | 1 task per process; one failure of 11 kinds, all nine races |
| `bot_unrenewed` | *violation*: two processes run a bot after a shutdown that met a start | 1 task per process, 1 start, no failure |
| `invocation_once` | one execution, agreeing answers, no stuck call, the contract kept | 3 calls at 2 replicas under one key, 2 requests, 2 results, 2 failures |
| `orders_safe` | do rows and verdicts stay true, and orders apart, whatever the order of replies, updates, deaths and restarts? | 2 plans of 1 order, 1 tick or crash handler at once, any one mishap |
| `orders_unresolved` | *violation*: a plan that is over stays unresolved | 1 plan, no mishap |
| `agent_owner` | do all races of ensures, stops, sweeps, boots, crashes and forwarded decisions leave one leased, registered actor per agent, one construction at a time, decisions executed once and by an owner, and stops that hold? | 2 processes, 1 agent, 2 tasks in all, 2 promises per process, 1 decision, 2 calls, one failure of any of 7 kinds |
| `agent_resumes` | is an agent that should run brought back (liveness)? | as above, no calls; boots, sweeps and one failure |
| `agent_stop_remote` | *violation*: a stop served by another process than the owner's | as `agent_owner` |
| `trading_paper` | with fills in the result: do rows, levels, limit, cooldown and the exits' guard hold? | 2 instruments, 3 activities, 2 at once, one failure of 4 kinds, 1 position allowed |
| `trading_live` | with fills over the stream: are position and trackers what was executed? | 1 instrument, 2 activities at once, one failure of 7 kinds |
| `trading_unprotected` | *violation*: levels of an executed live decision that are not armed | 1 instrument, no failure |

*Why the bounds suffice.* Bots do not interact in these modules, so one is
enough; the races are between two holders, two tasks of one process, and one
actor object and its successor, so two of each are. `bot_owner` leaves out the races
for the lease, after which its first properties say nothing, and of the six others
those that only excuse the last two properties and end nothing else (`late_mark`,
`missed_stop`, `stale_read`, `rollback`); the theorems have all nine. `MaxFaults` is one where a
single failure already exposes the question; the sweep, the job that returns and
the call still meet it in every order. Three calls under a key are the runner, a
concurrent retry and a late one. Two plans are needed for orders to overlap;
with `Slots = 1` the tick before its decision and the crash handler exclude each
other, but not either and an execution, which is where orders are sent. One
order per plan leaves the reversals out (see below). The proofs (below) remove these
bounds for every safety property of the passing runs; where one is proved under a
condition, the condition is stated.
Agents do not interact, and `MaxTasks = 2` lets any two awaits of an agent cross,
in one process or in two; a third actor in the race is the consumer, a sweep's
listing, the environment of the lease. Instruments interact through the
limit on open positions and the scan, so `trading_paper` has two; sizes are 0 and
1 because only the sign and whether something is missing are told apart; a third
activity is what it takes to see the effect of two that crossed. Live mode
doubles the length of an activity, hence two of them on one instrument.

*Bounded and idealised.* `Slots` and `Gens` bound how many tasks and actor
objects of one process coexist; `MaxFaults` failures; each call is made once.
`RaceKinds` and `MaxRaces` bound the races of a bot in the same way: a step that would
be a race beyond the bound is not taken in that run. The theorems put no bound on
either.
Of a start of the trading actor the first pass of the reconciler has two outcomes, up
or off, whatever it finds (`StartReconciler`); a start that throws in paper mode is a
`Recover` followed by `StopActor`. A new trading actor starts when nothing of the previous one is under way
(`StartActor`), and `Crash` models the policy `auto_go_flat`. Runs stop when all calls are made and all processes are down, so
deadlock is not checked.

*Symmetry* is used in the safety runs over processes, slots, actor objects and
calls, which are only compared for equality; the liveness runs do without.

### Fairness

`FairSpec` of BotLifecycle: every task goes on (each await is of a command with
a reply or a rejection); a call, once begun, is carried through; each process
handles its signals and runs its sweep (a timer, every 30 s by default); the
queue is served by some process; a key that nobody renews runs out. Nothing is
assumed of callers, failures, SIGTERM or the choice of process that takes a job.

`FairSpec` of LiveOrders: every await ends, an order that was sent lands, the
stream's handlers run, the scan timer fires, a start goes through.

`LiveSpec` of AgentOwnership: every await ends, the sweep comes round in every
process that serves, the consumer loop runs, an unrenewed key runs out, a process
that got SIGTERM exits. Nothing is assumed of calls, failures, boots or changes of
a profile.

`FairSpec` of Invocation: a call that arrived is handled on. A lock is granted to
waiters under weak fairness only, which is enough: each holder releases it after
a bounded number of steps, and the calls are finitely many.

## What the runs found

Four are runs, with the line that promises otherwise in `PROJECT.json`
(`findings`):

* **A shutdown may leave two processes with one bot** (`bot_unrenewed`).
  The renewals of all leases are cleared before the jobs in progress are waited for.
  A start whose factory takes longer than the TTL loses its key to the sweep of
  another process, and both start the bot. No failure is needed, only a slow factory.
* **A live plan is not resolved while the bot runs** (`orders_unresolved`). The
  row written ahead of a submission is never joined with the one its
  acknowledgement inserts, stays pending, and the guard skips every later tick
  until a restart. A consequence the model shows as well: recovery, which meets
  the same row, keeps a plan it cannot match with fills instead of failing it.
* **A stop of an agent may not reach its actor** (`agent_stop_remote`).
  stop_agent_actor looks in the registry of the process that serves it. When the
  owner is another one, the row says stopped and the actor runs on; a signal is
  sent for bots only.
* **A live decision's levels are not armed** (`trading_unprotected`).
  The result of a live execution has no fills, so the position that is stored is
  the one read before; it is flat, and the levels are dropped with it. The fill
  that comes later over the stream carries none.

These were met while modelling the earlier modules. The first five are races of
WorkerRuntime: with the excuse taken out of a property and the race put into
`RaceKinds`, TLC shows it violated (`OneOwner` by `reentered` and `stalled`;
`StoppedStaysStopped` by `stalled`, `unrenewed`, `overlap`, `stale_start`, `late_mark`,
`missed_stop` and `rollback`; `CrashedNeverRuns` by `unrenewed`, `overlap`,
`stale_start` and `late_mark`).

* A stop job taken by a process without the actor is dropped (`runtime.ts:238`):
  the row says stopped and the bot trades on in the other process. The `stop_bot`
  tool publishes to every process and does not have this.
* A failed start gives up the lease (`runtime.ts:291`) before `onStartFailed` marks
  the row, and the sweep of another process may start the bot between the two.
* Two stops of one bot in a process each look the actor up before the first has
  dropped it; the release of the slower one deletes the lease a later start took.
* A sweep starts a bot that was stopped after its list was loaded.
* The rollback of a call whose enqueue failed may write over a later start.
* A row of `boundary_invocations` stays in progress for ever when complete() fails.
* Real orders of two plans may overlap when a tick begins while the last one has
  passed the guard and awaits its strategy.
* With `PerPlan = 2`: a reversal that dies between sending its second order and the
  acknowledgement is recovered as completed by the fills of the first
  (`live-recovery.ts:98`; the lookups are skipped when fills match).

Of agents, each the reason of an excuse in AgentOwnership:

* An actor whose lease is lost (a stall of a TTL, SIGTERM while the process still
  serves) is not stopped; a new owner builds a second one. `OwnerExecutes` shows that
  decisions still go to holders only.
* When the reply of `acquire` or `release` is lost, the key stays with nobody who
  knows of it (`ensure.ts:252-253` says otherwise) until it runs out.
* An evict that crosses a construction ends the single flight promised at
  `ensure.ts:232-239`; a crash that ends later deregisters its successor, by id.
* A listing of the sweep may be older than a stop, and revives the agent.

Of the trading actor, each the reason of a race above:

* Portfolio-level exits and the scan do not look at `exitingInstruments`; an exit
  that is acknowledged in live mode, its fill still on the way, is fired again by
  the monitor; an exit writes back the position it read minutes before.
* A position message that overtakes its fill counts the fill twice.
* Exits are subject to the limits on size and notional, and may be rejected by them.
* Levels survive a reversal, and a refused live reversal arms the new levels on the
  old position.
* `increase` opens a position beyond `maxOpenPositions`.
* The cooldown is not recorded in live mode and does not survive a restart.
* A live exit leaves an open row behind beside a second one of the same
  instrument, although `repositories.ts:264-267` says rows are promoted.
* The breaker counts timeouts only, though `circuit-breaker.ts:1-5` speaks of venue
  errors, and stays open until a restart.
* A position that cannot be read at start is taken for none.
* When the sum of the realized profit cannot be read at start, that of the open
  positions stands for it, and when the fills of the last day cannot, the daily loss
  begins at zero; neither is repaired later.

## Proofs

`BotLifecycle_proofs` proves, for any number of processes, bots, tasks, actor
objects, calls and failures:

* `TypeCorrect` and `PendingStopIsForAStart`;
* `OneActorPerBot`, `LeaseCoversRunning` and `StopsFindRunning`: of each bot until it
  meets one of the three races for its lease (`Protected`, part of the properties).

There is no assumption on the environment: the races may happen, in any number, and
what is said of one bot does not depend on what others meet. Teardowns overlap as
they like, processes die and shut down at any moment.

*The argument.* None of the three is inductive: that an actor runs only under the
lease needs that whoever releases has nothing left in hand. `OwnerInv` says it, for
each process and protected bot, by parts: what a process *has* of the bot (an entry,
or a factory call that will make one) it holds the lease of, and renews as long as it
serves (`HolderIsLeased`); a factory call is the only task of its process on that bot
(`FactoryAlone`); what runs is what is registered (`OnlyRegistered`); and each await
of a teardown knows what is left of its actor (`Fits`): who is about to release finds
no entry, who has stopped an actor finds nothing running, and who is going to stop
one finds that one registered or none. Overlapping teardowns keep this because each
step of a teardown only takes away. A second start is what could break it, and it
needs the lease, which is free only when nobody has anything of the bot: then either
no teardown is under way, or the start is `reentered`. Likewise a key runs out only
where no timer renews it, and by `HolderIsLeased` its process then has nothing of the
bot or is shutting down, which is `unrenewed`. Each action is one step of the proof.
`RunningIsLeased`, `RunningIsRegistered` and `OneOwner` follow without induction.

`BotRows_proofs` goes on to what the rows say, for any number of everything again:
`StoppedBotsRest` and `CrashedBotsRest`, of each bot until it meets any of the nine
races. Calls, jobs, signals, sweeps, crashes, halts, failures, deaths and shutdowns
meet freely; with each excuse but `reentered` and `stale_read` removed a violation is
known of one of the two (see the findings).

*The argument.* `TeardownInv` adds to `OwnerInv` that teardowns of a bot follow one
another (else it is an `overlap`), and that one which is going to write the row
(`crashing`, `mark`) still has its actor registered, so that it still has the lease:
nobody else can start the bot before the mark. `RowInv` says that where the row is
not `running`, what *stands* of the bot (runs, or is being made and not called off) has
its stop on the way to that very process (`StopComing`), and that of a crashed bot
nothing is even being made. A row leaves `running` by a call, whose stop is then still
to be sent, or by a mark, whose actor is gone; a stop that is sent arrives (a signal
goes to every process that serves; a job to the right one, else it is a
`missed_stop`), and a start that begins against the row is a `stale_start`. A pending
stop calls off the factory call it was meant for (`PendingInv`).

`Invocation_proofs` proves, for any number of calls, replicas, keys, requests,
results and failures, and with no further assumption: `TypeCorrect`,
`ExecutedAtMostOnce`, `RetriesAgree`, `ErrorsAreFailures`,
`InProgressIsJustified`, and `ContractKept`, that every behaviour of the
dispatcher over the store is one of `Idempotency`.

*The argument.* That a key is executed once does not follow from itself: between
its select and its insert a call has decided to execute, on a row it no longer
looks at. The inductive invariant `DispatchInv` says why that is safe: a call at
either of the two holds the lock of its key (`Locked`), so at the insert there
is still no row (`InsertFindsNone`); a call that went beyond it left a row
(`RowBehindBegun`), and so at most one call of a key did (`OneBegan`). That call
is the one behind the row (`RowHasCall`): the row's request is its request, a
completed row carries its result (`RowShape`), and every result told is one a
completed row carries (`AnswerBacked`). The refinement is proved
step by step: the insert of a row is the abstract claim, the tool's return (or
a failure that stands for it) the execution, an answer with a result the telling;
everything else, the locks, the answers without a result and the deaths, is a
stutter.

`LiveOrders_proofs` proves, for any number of plans, orders in a plan, slots and
mishaps, and with no further assumption: `OrdersTypeCorrect`,
`OrdersAreWrittenAhead` and `OrderRowsAreTrue`. So reversals (`PerPlan = 2`), which
`orders_safe` leaves out, are covered by the three.

*The argument.* A row is written at one moment and read as true for ever; why it
stays true is not in the row. The inductive invariant `OrderInv` adds what is
under way. An order an execution has not come to yet is absent at the venue
(`UnsentIsAbsent`), and a plan that was not made has no execution (`FreshPlan`),
so that each order is sent once; at the moment it is sent its row says attempting
(`AttemptWritten`). Every update of the stream not yet applied, every receipt
held and every cancellation about to be written says of its order what is true
of it (`UpdatesTrue`, `ReceiptsTrue`, `CancelTrue`), and because an order ends
once it remains so until it is written, however late. The steps fall into three
kinds, each with a lemma: those that touch neither an execution nor the venue
(`Quiet`), those of an execution that send nothing (`ExecutionKeeps`), and those
that move one order at the venue (`VenueMoves`); `Submit` and `Die` are proved
by themselves.

`LivePlans_proofs` goes on to the plans those orders belong to. With no further
assumption: `PlanVerdictsStand` (what a plan was resolved to is not changed by anyone)
and `OnePlanAtATime` (no tick makes a plan beside an unresolved one); with
`PerPlan = 1`, `ResolvedPlansAreOver`, `PlanOutcomesAreTrue` and `OneLivePlanOnly`.
The properties name the mishaps they do not survive; the theorems hold for all the
others. `PerPlan = 1` is needed: a reversal of two orders that dies between them is
recovered as completed while its second order is open (see the findings).

*The argument.* A plan is judged by its execution, by a recovery, or by the tick that
has given it up, and the judge has seen only rows and answers. `LinkInv` connects these
with the venue: a row is joined with its plan by the reply, which comes after the
order has landed, and then the executor does not reject it any more. `JudgeInv` says there is one judge at a time: a recovery begins when
nothing is under way (`Drained`) and judges plans that were unresolved when it began and
still are. `SingleInv` says of a plan's one order what each verdict promises of it: a
completed plan's order was traded and is over, a failed plan's never was at the venue,
an execution that may still send has no verdict, and a recovery that has read the open
orders and does not see an order knows that it is not open. `TurnInv` is the guard of
the tick: at most one plan is unresolved, and whoever decides does so beside none.

`AgentOwnership_proofs` proves, for any number of processes, agents, activities,
promises, decisions and failures, and with no further assumption: `TypeCorrect`,
`DecisionsRunOnce` and `OwnersExecuteDecisions`.

*The argument.* `ShapeInv` has the types and what a task has at each await.
`PlaceInv` says where a decision is: in the hands of one call (`Called`), in one
list (`Sent`), with one consumer (`Popping`) or executed (`Ran`), in one place at a
time, and nowhere once it is refused; so it cannot run twice. That its executor held
the lease is not visible at the execution, which only knows that an ensure of this
call resolved here. A call that takes the lease itself is a holder at that moment.
The hard case is the call that joins the promise of another call, which may have
taken the lease long before: but a call joins only a promise that replaced one it
had found in the cache, so that whoever builds it took the lease after the decision
was asked for. `OwnerInv` carries this along as `Proven` (of a promise) and
`CacheProven` (of what may yet come into the cache), for each await of a call
(`Owns`). Every step of a task is first reduced to what matters for both (`StepOf`),
so that the two inductions have one case for all of them.

`AgentActors_proofs` goes on to what runs, for the same any number of everything:
`OneConstruction` and `RunningIsRegistered` unless a teardown crossed a construction
(`overlap`), `RunningIsLeased` and `OneActorRuns` unless a lease was lost (one of
`LeaseHazards`: the reply of an acquire or a release is lost, a stall of a TTL, SIGTERM
with the process still serving, `overlap`); and `StopTakesHold`, that a stop once
recorded holds, unless it raced (`Races`). The properties themselves excuse these, and
the findings above say what the code does then.

*The argument.* That one actor is constructed at a time does not follow from the
cache entry alone: between its awaits a construction relies on what it saw before.
`FlightInv` says what each await may rely on (`Fits`): a construction is the pending
promise its cache shows, which is what keeps everybody else waiting; at `teardown`
the registry still has the actor it replaces, at `starting` its own, at `release`
none. No other construction and no teardown of the agent is beside it (`Alone`), or
`happened` has noted the overlap; so a deregistration, which goes by the agent's id,
hits the actor it means, and what runs is registered (`Registered`). `LeasedInv`
stands on this: what runs or is in hand is leased and renewed, and it stays so
because who releases is alone and has nothing registered. Steps that touch none of
it are one case (`Plain`); `OneActorRuns` follows from the other three without
induction, the lease telling processes apart and the registry the actors of one.
For the stop, `RestInv` says what "stopped" means in every part of the system at
once: the row does not say running, no sweep has the agent in its listing, no task but
a stop is about it, and what still runs is stopping in the hands of a task that halts
it (`AtRest`). Whatever could revive the agent would have to be one of these.

`AgentTrading_proofs` proves, for any number of instruments, activities, sizes,
limits, failures and restarts:

* in both modes and with no further assumption `TypeCorrect`, `ExitGuardIsHeld`
  and `TrackersAreTrue` (whose excuses, a failed write, a sum that cannot be read at
  start and a decision that comes too early, are in the property);
* in both modes `PositionsAreTrue` and `RowsAreTrue`: at rest, the position in memory
  is what the fill rows and the executed orders say, and one row of the position
  table says it too, or none if the actor is flat. What is excused is in the
  properties (`Misread`, and `live_exit` for the rows);
* in both modes `ExitsCloseOnly` and `OpensAreLimited`, what is sent to the venue;
* for an actor in paper mode `PaperCooldownHolds`, what it does not send after a
  stop-loss, and `PaperLevelsAreArmed`, what it watches after a decision. In live mode `LevelsArmed` is
  false in the code (`trading_unprotected`), and the cooldown is not recorded, so
  `CooldownHolds` is about paper mode only.

*The argument.* `ShapeInv` has the types, that a guarded task is in
`exitingInstruments` and no two are on one instrument, and that a task about to
execute or to record has one order or two at hand; the exit guard is read off it. `CountInv` counts:
a fill is in the trackers from the moment its task comes to `fill`, or its message
is taken, and in the rows when that await ends; the cardinality of the tasks at
`fill` moves by one with either step. That positions are true
needs what is under way. `PaperInv` says that in paper mode nothing of the stream
or of a crash ever is. `BooksInv` then says, as long as no activities crossed: at
most one task holds an instrument (`OneHolder`), for `ReadRaces` would have noted a
second one; an instrument nobody holds is settled (`Settled`: position, fill rows
and executions agree) and its row follows the position (`RowFollows`); and the one
who holds it accounts for the difference (`TaskBooks`): at `fill` it is the orders
not yet recorded, at `store` the result it is about to write, at `wrap` nothing. An
actor that is off has rows that say what was executed (`Kept`), which is what the
next one reads. Every action either touches none of this (`QuietBooks`) or moves
one task on one instrument (`StepBooks`).
`ConductInv` stands on these. A task at `execute` has passed the cooldown and the
limit; the plan it sends is made from the position really held (`Sender`, from
`BooksInv`), so an exit only closes, and one order opens at most one position more
than were counted; an instrument that was stopped out is in `stopLossExits`, or its exit is still between the venue and that write (`Leaving`) and holds the
instrument, so that nothing else is sent for it. `ArmedInv` follows the levels: those
in the map are those of the row and for the side that is held, and they are what the
executed decisions asked for (`protection`) except while an activity is between the
venue and the store, where `TaskLevels` says what it is about to write; that an order
does not turn the position is read off the plan (`PlanKeepsSide`), or `reverse` has
been noted.

In live mode nobody accounts for an order between its execution and the message that
brings the fill. There the stream's queue is a *ledger*: `Ledger(Recorded, queue,
executed)` is a chain of balances that begins with what is recorded (the fill rows and
the fill being inserted), in which every message posts what it brings, and
which ends with what was executed; an order that is executed appends to it, a
message that is taken advances it, and where the queue holds nothing of an instrument
its two ends agree. `LiveBooks` is that, and what everybody in memory believes: the
map is what was filled, each activity that holds an instrument has seen that very
position (`Knows`), and one of the two rows says it too, except the one about to be
updated (`RowKnown`). A stop with nothing torn leaves an empty queue, and a restart
reads rows that agree. For the rows' identities `NamelessInv` adds that no position has
an id until an exit of live mode stores one, so that there is one row, not two.
`SendInv` says who sends: an activity that has planned its orders, or an emergency exit
that has read the position, is alone on its instrument (`OneHolder`) and nothing of the
instrument is on the stream (`Ready`); with the ledger, the position it planned from is
the one really held (`FromHeld`). From there the modes share the argument: such a plan
turns nothing (`SentTurnsNothing`) and opens one position at most beyond those that were
counted (`SentWithinLimit`).

Only model-checked: the liveness properties `RunningResumes`, `EveryCallEnds` and
`AgentResumes` (TLAPS proves no liveness under fairness and knows nothing of
`ENABLED`). Where a theorem has a condition (`PerPlan = 1`) its run has it too,
for without it the code does not keep the property. The four violations
are counterexamples and need no proof.

## Not modelled

* Configuration, timestamps and the limit on running bots: a start may be
  refused at any time (`RefuseStart`).
* `create_and_start`, whose failed enqueue leaves the row running, and the
  configuration part of `adjust_config`.
* That the deadline of a call is checked before it waits for the lock and not
  again; that a retryable failure is stored as the terminal result. The model has
  no clock and no retryable results.
* A rejecting `actor.stop()`: the stop of a bot actor clears its timer and flag
  before anything that is awaited, and the unsubscription it awaits does not
  reject.
* Amounts, prices and fees of orders; swap venues, paper and shadow execution of
  bots; the emergency go-flat of a crashed bot. The reads and marks of the live
  guard are one step, and so are a reply of the venue and the write of its row.
* Of agents: the cascade of a stop to the agent's bots and the sweep's pass over
  bots of stopped agents, which go through the lifecycle queue of WorkerRuntime;
  switching the signal of a stop to the bots' channel.
* Of the trading actor: swaps with their confirmations and recovery, shadow mode
  (which differs from paper in having no venue to read), prices, profit, fees and
  the loss limits that depend on them (one refusal, `OtherLimit`), plans and order
  rows, which agents write as bots do, approvals, and the periodic passes of the
  reconciler after the first.
* The public stream pool, the limit on running bots, market data, strategies,
  journal, notifications, review loops and authentication: see `PROJECT.json`.
* Read-only tools and the status endpoint, which change nothing.

Three hazards are listed without a property, each with the reason: the missing
rollback of `create_and_start`, what goes round the count of the running-bot limit,
and a bot's stop() that does not wait for the tick under way (the mishap
`undrained`, which the properties about plans do not survive in the code either).

## Plan

In this order, each with its abstract specification where one is named:

1. **Proofs**: the verdicts of plans with two orders, once reversals are modelled to
   their end (2); then the invariants of the modules below.
2. **Live orders**, continued: reversals (two orders per plan), the emergency
   go-flat of bots, swaps.
3. **Reconciliation**: the periodic passes against fills under way, on top of
   AgentTrading's rows and executions.
4. **The stop of an agent, composed** with WorkerRuntime: the cascade to its bots
   and the second pass of the sweep.
5. **Limit on running bots**: claims, rollbacks and reclaim starts over the count;
   **public stream pool**: reference counts against reconnects.
