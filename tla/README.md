# Verification project for the openclaw gateway

TLA+ models of the concurrent core of the gateway in `src/openclaw/src`, checked
with TLC on small instances, with theorems about every modelled part proved for all
sizes with TLAPS. Paths below are relative to `src/openclaw/src` unless they
start with `src/`.

1. The system
2. Modules, and how they correspond to the code
3. Runs: what each one asks, bounds, fairness
4. Proofs
5. What the models show about the code
6. What is not modelled
7. Plan

## 1. The system

The repository is an appliance image around openclaw, a gateway between chat
channels and AI agents. Its core is one Node.js process, the *gateway*. A message
from a channel becomes an agent run, or waits behind one; cron jobs, sub-agents
and other sessions ask for runs too; replies go out through a queue on disk; and
the whole process can restart *in place*, replacing its server while callbacks of
the old one are still pending.

JavaScript runs a callback to completion, so **an action of these modules is one
callback**: the extent between two awaits that anything but a microtask can
interrupt. What interleaves is message handlers, timers, signal handlers and the
continuations of awaited promises. Where a directory is shared with other
processes, or survives them, file operations are actions of their own.

| Part | State | Operations | Talks to | Hard because |
|---|---|---|---|---|
| Command queue (`process/command-queue.ts`) | lanes: queue, active ids, limit, generation; `gatewayDraining` | enqueue, completion, change of limit, clear, mark draining, reset, wait | everything that runs an agent | completions of an earlier lifecycle; limits changed under load; work kept over a restart |
| Run loop and restart scheduler (`cli/gateway-cli/run-loop.ts`, `infra/restart.ts`) | loop position, server, lock, `shuttingDown`, restart timer, pollers | signals, timers, deferred restarts, drain, close, forced exit, lock release and return | command queue (drains and resets it), gateway lock, config reload | a request during a start, a start that fails, a `close()` that hangs, all while work goes on |
| Follow-up queue (`auto-reply/reply/queue`) | per session a queue object, drop count and summary, a drain, a callback, recent ids | enqueue with drop policy, drain, turn, clear | auto-reply handlers, agent runs | the queue changes during a turn; a drain outlives its queue; redelivery; failing turns |
| Agent lanes (`agents/pi-embedded-runner`, `gateway/server-lanes.ts`) | which lane entries wait for which | run, cron job, `sessions_send` | command queue | entries that hold a slot wait for entries: deadlock; a drain in the middle of a nesting |
| Delivery queue (`infra/outbound/delivery-queue.ts`, `deliver.ts`) | files `{id}.json`, `{id}.delivered`, `failed/`, retry counts | enqueue, send, acknowledge, fail, give up, recover | channels, disk, the start of the server | crash between any two steps; the recovery runs beside live traffic |
| Cron service (`cron/service`) | job store on disk, a copy in memory, running marks, timer | tick, start with catch-up, edits, manual run in two checks and a reservation, change of configuration | cron lane, store file | a crash or a hung job in the middle of a tick; a manual run that waits for its lane; two services over one file |
| Locks (`plugin-sdk/file-lock.ts`, `agents/session-write-lock.ts`, `infra/gateway-lock.ts`) | lock files with a pid and a start time, `HELD_LOCKS` | acquire, share, release, stale removal, watchdog, sweep, termination signal | other processes | each step is a file operation of its own: check then remove |
| Heartbeat wake (`infra/heartbeat-wake.ts`) | pending wakes, running flag, handler | request, flush, retry, replace handler | run loop | a batch of the handler before |
| Channel supervisor (`gateway/server-channels.ts`, `channel-health-monitor.ts`) | tracked lifecycle, abort controller, manual stop and restart count per account | start, stop, automatic restart, log out, health check | channel plugins, clients, config reload | two starts, a stop in a backoff, a monitor with an old snapshot |
| Exec approvals (`gateway/exec-approval-manager.ts`, `node-invoke-system-run-approval.ts`) | records with timers and a grace | request, decide, expire, wait, use once | operators, requester | a decision races the timeout; two invocations race for one use |
| Node registry (`gateway/node-registry.ts`) | sessions by id and by connection, pending invocations | register, unregister, invoke, result | nodes | a node that reconnects before its old connection closes |
| Sub-agents and announcements (`agents/subagent-*.ts`) | runs, cleanup marks, retry counts, announce queues | register, complete, announce, restore | command queue, disk | retries over restarts |
| ACP session manager (`acp/control-plane`) | actor queue per session, runtime cache | turns, cancel, idle eviction | ACP runtimes | eviction during use |
| Debounce and dedupe (`auto-reply/inbound-debounce.ts`, `infra/dedupe.ts`) | buffers, seen keys | push, flush | channels | order of a flush and a message that bypasses it |
| Config reload, stores, protocol, plugins, providers, management server, apps | | | | see section 6 |

How the modelled parts interact: a handler of a message asks for a run, or puts
the message in its session's **follow-up queue** if one is active; a run is an
entry of its session's **lane** whose task is an entry of a global lane of the
**command queue**; its replies are written to the **delivery queue** and sent;
the **run loop** drains the command queue before it replaces the server, resets
the lanes afterwards, and each server start begins a recovery of the delivery
queue. The **cron service** runs due jobs itself and puts manual runs into the
cron lane; a run writes its transcript under a **session lock**, and one process
per configuration holds the **gateway lock**. The **channel supervisor** keeps the
accounts up that messages come from. A command an agent wants to run on a **node**
needs an **exec approval** first, which the gateway looks up again when the command
is invoked.

What makes each part correct is stated by the properties in section 3; every
hazard known for this code, at its line and with the properties that would catch
it, is in `PROJECT.json`.

## 2. Modules, and how they correspond to the code

| Module | Models | Extends / uses |
|---|---|---|
| `LaneOps` | one lane as a record, and what `pump`, `completeTask`, clear and reset make of it | |
| `CommandQueue` | the whole queue | `LaneOps` |
| `CommandQueueProofs` | lemmas and theorems, those about `LaneOps` first | `CommandQueue` |
| `GatewayRunLoop` | run loop, restart scheduler, and the queue they act on | `CommandQueue` |
| `GatewayRunLoopProofs` | lemmas and theorems | `GatewayRunLoop`, `CommandQueueProofs` |
| `AgentRuns` | abstract: one run at a time and in order per session | |
| `AgentLanes` | runs nested in lanes | `CommandQueue`, refines `AgentRuns` |
| `AgentLanesProofs` | lemmas and theorems, the refinement among them | `AgentLanes`, `CommandQueueProofs` |
| `FollowupQueue` | the follow-up queue of one session | |
| `FollowupQueueProofs` | lemmas and theorems | `FollowupQueue` |
| `DeliveryQueue` | the delivery queue on disk | |
| `DeliveryQueueProofs` | lemmas and theorems | `DeliveryQueue` |
| `CronJobs` | what the cron service computes about its jobs: next times, who may run, what a result does | |
| `CronService` | the store on disk and its copies, ticks, start, edits, manual runs | `CronJobs` |
| `CronServiceProofs` | lemmas and theorems, those about `CronJobs` first | `CronService` |
| `LockFiles` | one lock file of one of the three protocols, several processes | |
| `LockFilesProofs` | lemmas and theorems | `LockFiles` |
| `NodeRuns` | an exec approval from request to invocation, and the node it goes to | |
| `ChannelSupervisor` | one account with its lifecycles, clients and the health monitor | |
| `NodesChannelsProofs` | lemmas and theorems about these two, which share no state | `NodeRuns`, `ChannelSupervisor` |
| `MC*` | values of the constants for TLC | the module of that name |

An operator whose name has a suffix after an underscore (`Reset_KeepsActive`) is
a *mutant* of the operator before the underscore: a plausible bug. For every
property of a passing run `PROJECT.json` names a mutant that violates it under
the run's own configuration.

**`LaneOps` / `CommandQueue`.** A lane is `[queue, active, maxConcurrent,
generation]`. A task id is represented by its command, since each command is
enqueued at most once. `pump` starts the oldest entries until the limit is
reached: `Startable` gives them, `Pump` the lane after it, `Started` the async
closures it leaves behind. A closure records the generation it was started
under, as `taskGeneration` does. Actions are the exported functions, each with
the pump it ends in, and `FinishTask`, the continuation of `await entry.task()`;
a closure of an older generation settles its caller's promise and leaves the
lane alone. `outcome` is what the caller's promise has become. `onWait`,
timestamps and diagnostics are left out. `setCommandLaneConcurrency` clamps at 1
(`AtLeastOne`), which is why 0 is among the limits tried.

**`GatewayRunLoop`.** `loop` is where the `while (true)` of `runGatewayLoop`
stands: `booting` in `params.start()`, `waiting` on the promise of
`restartResolver`, `releasing` the lock after a failed start, `exited`. `request`
is the closure of `request()`: `draining` (the two waits), `closing` (`await
server.close()`), `settling` (the same with no server: a microtask, so nothing
else runs, guard `Ready`), `releasing` and `acquiring` the lock. The waits of
`waitForActiveTasks` compare against a snapshot, `request.tasks`. The scheduler
is `restartTimer` (`pendingRestartTimer`), `restartPending` (the poller of the
config reload handlers of this lifecycle) and `pollers` (those started by the
timer, and those left behind by an earlier lifecycle). Authorisation tokens are
made and consumed within a callback and are not represented. `mishaps` is a
history variable: which unusual thing has happened so far.

**`FollowupQueue`.** `FOLLOWUP_QUEUES` maps a key to an *object*; a drain keeps
its object whatever becomes of the map. So `queues` has identities, `current`
is what the map has for the session's key, and `drains[q]` the drain of an
object: off, in its debounce, or running a turn. `EnqueueInto` is
`enqueueFollowupRun` with the redelivery check, the settings the message brings,
the drop policy and the drain restart; `NextTurn` is the choice the drain's loop
makes; `AfterTurn` removes from the *front*, as the code does after the await;
`EndDrain` is the `finally` block. `ReadActive` and `EnqueueFollowupRun` are
separate because the handler awaits between reading `isActive` and enqueueing.
`starved` is set when a drain restarts itself without any change: from then on
only microtasks run, so no other action is enabled.

**`AgentLanes` / `AgentRuns`.** A command is `<<run, level>>`: the cron job's
entry, the session entry, the global entry. The task of an outer entry enqueues
the next one and waits for it (`EnqueueInner`, `FinishOuter`); a session entry
does so in the callback that starts it (guard `Ready`). `GlobalLane` is
`resolveGlobalLane` of what the caller asks for. `JobGivesUp` is a cron job that
finds it is not due any more, or has timed out. `SessionsSend` is the
`sessions_send` tool with a wait. The refinement mapping takes a run as waiting
from the enqueue of its session entry to the *start* of its global one, so the
run at the head of a session's line may be one that is already in the session's
slot; a run is *running* while its global entry is in flight.

**`DeliveryQueue`.** `json`, `marker` and `failed` are the three kinds of files
of a message; `work` has one record for each live delivery and each recovery,
with the point of its code it is at, between two awaits. Phase 1 (rename) and
phase 2 (unlink) of `ackDelivery` are separate actions, so are the read and the
write of `failDelivery` (`FailDelivery`, `RewriteEntry`, the latter writing
whatever has become of the file), and the recovery's list, read of each file and
take-up. `StartServer(crashed)` is a new process, in which all work of the old
one is gone, or an in-process restart, in which it goes on. `WorkerStep` is
shared: the recovery sends with the same `deliverOutboundPayloads`, with
`skipQueue` and with its own error handling. History variables `sent`,
`accepted`, `acked`, `aborted`, `shared` say what the properties are about.

**`CronJobs` / `CronService`.** `locked()` puts the sections that touch the store
one after the other, so a section is an action: `TickCollect`, `TickApply`,
`BootClear`, `BootPlan`, `BootApply`, `BootFinal`, `RunCheck`, `RunReserve`,
`RunFinish`, and one per request. The jobs run between them (`TickRunEnd`,
`BootRunEnd`, `ManualRunEnd`), with any outcome. `disk` is the store file, `mem[s]`
the copy of service `s`: a section with `forceReload` works on `disk`, the others
on the copy, and `Persist` writes both. `timer` is the set of services whose timer
is armed; its delay is at most a minute, so it may fire at any moment of the
model's clock. A store is a function from job ids;
`RecomputeNextRuns` and `MaintenanceRecompute` are the two recomputations of the
code, of which the second one keeps a time that has come. `ReloadConfig` starts a
second service over the same file while what the first is doing goes on. The lists
of a tick and of a catch-up are sequences `InOrder` of the jobs selected. `loose`,
`moved` (whose time a client has changed, or a start that put them off) and `done` are
history variables.

**`LockFiles`.** A behaviour is about one lock of one kind. A task goes through
`Open` (`wx`), `Write`, `Enter`; or, when the file exists, `Read`, `Judge`, `Stat`,
`Remove` or `Retry`. `Verdicts` has the rule of each protocol: what the payload of
the file may be judged to be (for the gateway's lock a probe of the port may time
out, and the start time or command line of the owner be unreadable). `file` is what has
the *name*: a write goes to the handle, a removal to the name, whichever file that
is by then. Creations have ids, so that a file can be told from its successor; an id that
nothing refers to any more is used again, which keeps the states few.
`old` stands for `staleMs`, `over` for `maxHoldMs`. `Crash` and `Start` are of a
process; it starts again under its old pid, and `stamped` says whether lock files
record start times (Linux does; elsewhere `pidRecycled` cannot tell).

**`NodeRuns`.** `record` is the entry in `ExecApprovalManager`, `given` what its
promise was resolved with, `clock` the time against `expiresAtMs` (the timer may
fire late, and the guard compares the time itself). `agent` is the requester's
position, from `exec.approval.request` to the answer of `node.invoke`; `calls` are
the invocations with that approval's id. `Send` is one callback: the guard, the use
of the approval and the request on the socket. `online`, `opened` and `session` are
`nodesByConn`, the connections so far and the entry of `nodesById`; `Unregister`
goes by the node's id, as the code does.

**`ChannelSupervisor`.** `task` is `store.tasks` with `store.aborts` (written
together), `life` the lifecycles whether tracked or not: running, sleeping before an
automatic restart, or at the `isConfigured` of one. Every start awaits `isConfigured`
(`check`). `plugin` says how long that takes and whether there is another await: an
asynchronous `isConfigured` (`slow`), an asynchronous `stopAccount` (`hooked`), or
neither (`plain`); the answer of a synchronous one comes in the next microtask
(`Prompt`). `configured` is what it does: yes, no, or it rejects; `HookFails` is a
`stopAccount` that rejects. `Quiet` gives microtasks their precedence. The rest is
history: `stopped`, a stop was recorded while nobody was on the way to a start;
`loose`, an entry of another lifecycle was overwritten or deleted; `joined`, two
restarts have waited for the same lifecycle; `halted`, the manual stop is one that a
client asked for, or what a restart that failed has left.

## 3. Runs

Each passing run explores its whole state space. The model bounds are named
constants: `MaxGeneration`, `MaxRestarts`, `MaxPollers`, `MaxFailures`,
`MaxClears`, `MaxHandlers`, `QueueId`, `MaxStarts`, `MaxNow`, `MaxReloads`, `MaxOps`,
`MaxFaults`, `MaxCalls`, `MaxConns`, `MaxLifecycles`. A `*Inv` joins a module's type
invariant with a first invariant that says more. `CHECK_DEADLOCK FALSE`
appears where the system may stop: a process that has exited, a queue with
nothing more to come, a drain that starves the event loop.

### `command_queue` (about 80,000 states)

Two lanes, four commands, limits asked for 0 and 2, one restart. Two lanes are
needed because `resetAllLanes` acts on all of them; four commands allow a limit
of two to be reached, with two entries behind, on which order can be judged, and
one restart gives tasks of two generations in one lane.

- `TypeOK`
- `ActiveIsCurrent`: `activeTaskIds` is exactly the set of started tasks of the
  current generation.
- `WorkConserving`: no lane holds queued work beside a free slot.
- `PendingHasOnePlace`: an awaited promise is backed by exactly one queue
  position or one running closure, a settled one by none.
- `StartsWithinLimit`, `StartsInOrder`: action properties of every step that
  starts tasks.
- `QueuedLeaves` (liveness): a queued command starts or is cleared.

Fairness: a task *of the current generation* ends, because runs and jobs are
under timeouts. A task a restart interrupted may hang for ever (the code says so
at `command-queue.ts:239`). Enqueues, clears, resets and limits need not happen.

### `run_loop` (about 149,000 states)

One lane with limit 1, two commands, two restart requests, one poller. One
command runs while one is queued, so the drain has something to wait for, the
snapshot and the queue differ, and the reset has something to start; two
restarts let the second one meet what the first has left behind (a failed start,
a poller of the old lifecycle, a timer).

- `StartsAlone`: `params.start()` never runs beside an open server;
  `TakesWorkWhenUp`: a gateway that is up and not shutting down accepts work.
  Both hold unless a restart was requested while a start was under way.
- `LoopInv`: types, and `LockedUnlessStartFailed`: as long as every restart started
  its server, a gateway that is up holds the lock.
- `ActiveTasksDrained`: unless the wait timed out, what was active when the
  restart was requested has ended when the server is torn down.
- `ShutdownEnds`, `RestartNotForgotten`, `QueuedRunsOrExits` (liveness): a
  shutdown ends even if `close()` hangs, a scheduled or deferred restart is acted
  on even if the gateway never gets idle, and queued work runs unless the process
  exits.

Fairness: timers fire, file operations and starts end, current tasks end.
`server.close()` may hang, as may interrupted tasks; no signal has to come.

### `followup` (about 116,000 states)

Two messages, one with a chat and one without origin, so that a batch can be
mixed; each may be redelivered any number of times. Four settings cover both
drain forms, caps 1 and 2 and the three drop policies; a message may change them.
Two queue objects, one handler between its read and its enqueue, one failing
turn, one clear: one clear is what makes a second object.

- `ClearedNotRun`: an action property; no turn begins with a message that was cleared,
  neither in the drain that goes on with the emptied queue nor when the channel delivers
  it again.
- `HandledOnce`: no message is run twice, over redelivery, failing turns and
  replaced queues.
- `HandledInOrder`, `Accounted`, `FollowupInv` (with `SingleDrain`): order, no silent
  loss and one drain at most. Each is stated with exactly the situations that void it in the
  code: a drop during a turn (`raced`), a message that lent its target to a
  summary (`carriers`), a clear under a drain (`split`).
- `QueuedLeaves` (liveness): a message queued while a drain or an auto-reply turn
  is under way leaves the queue.

Fairness: debounce timers fire, turns and runs end (they have timeouts), a handler
that has read `isActive` goes on.

### `agent_lanes` (about 27,000 states)

Session `s1` has the run `a1` and the run `sent`; session `s2` has a cron job
whose run sends to `s1`. So the cron job holds a cron slot, its session's slot and
a nested slot, while it waits for a run that needs the nested lane and the
session lane `a1` is in. Limits 0 and 2 for `main` and `cron`, one restart.

- `LanesInv`: types, and `SlotsHeld`: until a restart interrupts something, a run under way holds its
  session's slot.
- `ImplementsAgentRuns`: refinement, `AgentLanes` implements `AgentRuns` (one run
  at a time per session, in the order they were asked for, each once).
- `RunsSettle` (liveness): every run asked for settles; no nesting deadlocks for
  ever.

Fairness: runs and `agent.wait` end by their timeouts, and a task goes on when
what it awaits has ended. A cron job needs no timeout, so none is assumed for
`JobGivesUp`.

### `delivery` (about 1.5 million states)

Message 1 is left over from an earlier process with one retry counted and has two
payloads; message 2 is a live one with one payload, sent with or without
`bestEffort`, its caller passing `onError`. At most 2 retries, two server starts,
each after a crash or in process. So a recovery can meet a live delivery, the
recovery before it, an entry whose retries run out while it is read, a marker file,
and every crash point of all of these.

- `NotLost`: an accepted message is in the queue, in `failed/`, or was sent as a
  whole, unless its caller gave it up or it is a best-effort one.
- `NotReplayed`: what was acknowledged or given up is not in the queue and nobody
  sends it, unless a recovery took it from other hands (`shared`).
- `DeliveryInv` (with `PlanIsFresh`), `RetriesCounted`: retry limits are judged by counts that are
  current; no attempt is forgotten or counted twice.

No liveness is checked here: recovery is best effort by design (it stops after
its time budget, defers what is in backoff, and waits for the next start).

### `cron_service` (about 1.9 million states) and `cron_due` (about 27,000)

`cron_service` has a one-shot and a recurring job, three moments of the clock, one
of: an edit, a manual run, a crash, a change of the configuration. One worker and
one missed job per start, so that jobs wait in a tick and a start puts one off. A
job may be added at any time. `cron_due` has one job of kind `cron`, two such
operations and a backoff longer than its period, so that a crash meets a backoff.

- `CronInv`: types, and in a process with one service a job runs once at a time,
  over ticks, catch-up and manual runs, unless it was disabled while it was taken
  or its marker reached the age of a left-over (`loose`).
- `DueNotSkipped`: the time of a job that has come is not replaced by a later one
  without a run, except by an edit, by `add`, or by a start: for the jobs it puts off,
  and in its last section. With two services over one store nothing is claimed.
- `BackoffKept`: after an error neither a tick nor a catch-up starts the job before
  its backoff has passed, also over a restart. Excepted are the jobs in `moved`, which
  are all after a change of the configuration, and those in `loose`.
- `DueDealtWith` (liveness): a job whose time has come runs, or is edited.

Fairness: an armed timer fires, a section gets its turn and a run ends (jobs are
under `executeJobCoreWithTimeout`). Clients, crashes and the clock owe nothing.

### `lock_files` (about 290,000 states)

Two tasks, two processes, each of the three kinds of lock, one fault of any kind
(crash, overlong hold, signal, sweep, failed write) and one start of a process under
its old pid. Two tasks in one process share a lock, in two they compete for it; a
third would only be another waiter.

- `LocksInv`: types, and the count of a shared lock is the number of tasks that hold
  it, whatever the watchdog, a signal or another process does.
- `HolderHasFile`: who holds the lock has the lock file. Excepted (`loose`) are the
  cases in which the code takes a lock from a process that may be using it: by age,
  by the watchdog, on a signal, by a sweep of an empty file, from a gateway that does
  not listen or not answer in time, as an orphan of the own process; and the removal of another file than
  the one that was judged.
- `DeadLockGoes` (liveness): a file that a crash left behind goes while a task asks.

Fairness: file operations return, a waiting task tries again, and files get old.

`file_lock_exclusive` has the file lock alone and no fault. It states mutual
exclusion (`Exclusive`), and is violated.

### `node_runs` (about 506,000 states)

One run, two invocations with its approval, two connections of the node. The second
invocation is what races for a single use, the second connection what a close of the
first one may hit. Runs share nothing but the node's connections, so one is enough
for the properties of an approval.

- `RunsInv`: types; the session that invocations go to is the newest connection that
  is open, unless the close of an older one has displaced it; no invocation stays
  pending on a connection that has closed.
- `RunAsApproved`: a command reaches the node as approved only if somebody allowed it
  or the fallback does; what was allowed once gets there once.
- `RequestAnswered` (liveness): whoever asks gets an answer.

Fairness: gateway and requester take their steps and time passes; operators, nodes
and results owe nothing.

`fallback_decides` (`FallbackDecides`) states a line of the documentation and is
violated.

### `channel_supervisor` (about 258,000 states)

One client beside the monitor, an account with each kind of plugin, one automatic
restart before it is given up, two lifecycles at once. Two callers are what overlapping
starts and stops need; two lifecycles let one be untracked while the other one is
tracked. A start that finds no free id waits, which `KeptUp` excepts (`Full`). The safety
properties were also checked with three lifecycles, and with two clients (5.5 million
states).

- `ChannelInv`: types; the one lifecycle that runs is tracked, so that a stop reaches
  it, until an entry of another lifecycle is overwritten or deleted (`loose`). With a
  plain plugin that takes two restarts, a reload's and the monitor's, that have waited
  for the end of the same lifecycle (`joined`), and no other interleaving does it. What
  is reported as running runs.
- `StaysStopped`: a recorded stop that no start overlapped stays one, against restarts
  of a failed lifecycle and a monitor with an old snapshot.
- `KeptUp` (liveness): the account does not stay down. Excepted are a stop that a client
  asked for, a restart that failed after its own manual stop (both `halted`), an account
  that is unlinked or whose `isConfigured` rejects, and one that is `Masked` (section 5).

Fairness: a plugin obeys its abort signal, timers fire, promises settle one way or the
other, the monitor keeps checking. Clients and failures do as they like; a lifecycle
that is not aborted need not end.

## 4. Proofs

All modelled components have proofs. Each theorem holds for every value of the constants
that the named `ASSUME`s of its module admit; they bound nothing but types (a limit is a
natural number, the tasks are a finite set), and the bounds of the models are among the
constants, so that nothing depends on how small the checked instance is.

### The command queue

`CommandQueueProofs` proves, for **all** sets `Lane`, `Command`, all
`Limit \subseteq Nat` and any `MaxGeneration \in Nat` (`LimitAssumption`,
`MaxGenerationAssumption`):

| Theorem | Statement |
|---|---|
| `TypeCorrect` | `Spec => []TypeOK` |
| `ActiveExact` | `Spec => []ActiveIsCurrent` |
| `NoIdleSlot` | `Spec => []WorkConserving` |
| `NothingLost` | `Spec => []PendingHasOnePlace` |
| `WithinLimit` | `Spec => StartsWithinLimit` |
| `InOrder` | `Spec => StartsInOrder` |

These are all the safety properties of the run `command_queue`.

The argument. None of the invariants is inductive alone: `ActiveIsCurrent` needs
that no closure is of a *later* generation than its lane and that no command is
in two places (else a completion could free a slot it does not own), and
`PendingHasOnePlace` counts, which is awkward to prove step by step. The
inductive invariant is

    IInv == Core(lanes, inflight, outcome) /\ gatewayDraining \in BOOLEAN /\ WorkConserving

where `Core` is the conjunction of `CoreType` (types, and the active sets are
finite), `CoreActive` (active ids are the closures of the current generation, and
none is newer), `CoreOnce` (no command twice, in any queue, across queues, among
closures, or between the two) and `CorePending` (the awaited promises are those
of queued or running commands). `Core` takes lanes, closures and outcomes as
parameters because every action is a change followed by a pump: `Core` holds
*between* the two as well, while `WorkConserving` does not. So each action's
lemma (`EnqueueStep`, `FinishStep`, `SetConcurrencyStep`, `ClearStep`,
`MarkDrainingStep`, `ResetStep`) shows `Core` of the changed state, and two
lemmas about the pump do the rest: `PumpCore` (the pump preserves `Core`) and
`PumpConserves` (it establishes work conservation in the pumped lane).
`NextStep` combines them, also for the two action properties. The counting form
of `PendingHasOnePlace` follows from `CoreOnce` and `CorePending` in `OnePlace`.

The last section of `CommandQueueProofs` is for the modules that extend the queue:
`Moves(l, new, gone)` says what a step in one lane may change, whichever operation it
is (`new` commands enter the lane, closures `gone` leave), and `EnqueueMoves`,
`FinishMoves`, `ConcurrencyMoves` and `ClearMoves` say that each operation is one.

Its first section has what is needed about sequences and the pump: that it starts a
prefix of the queue, keeps the rest, repeats and loses nothing, stays within the
limit and leaves no free slot beside queued work.

### Approved runs on a node

The first part of `NodesChannelsProofs` proves, for any set `Run` and any positive
`MaxCalls` and `MaxConns` (`RunsInstance`, the only assumption):

| Theorem | Statement |
|---|---|
| `ConnectionsExact` | `RunsSpec => []RunsInv` |
| `AllowedOnceRunsOnce` | `RunsSpec => []RunAsApproved` |

`RunsInv` is inductive (`RunsInvStep`): the point is that `Unregister` ends every
pending invocation, and a new one is pending on the session, which is open.
`RunAsApproved` is not, since it says nothing of the entry that `Guard` reads.
`RecordOK` links the entry of an approval to the answer that was given and to the
invocations that have gone out with it: while it says allow-once, none has; an
entry with a decision was answered with that decision, one that has been used with
allow-once, one that ran out with null. `ApprovedOK` says the property without
counting ("any two are the same"). The step that matters is `Send` (`SendEffects`, and
`<1>9` of `ApprovalStep`): an invocation with allow-once finds none before it and turns the
entry to "used", after which the guard refuses, because the check and the change
are one step without an await. `NodeInvImplies` counts at the end.

### The channel supervisor

The second part of `NodesChannelsProofs` proves, for any set of clients, any number of
lifecycles and any `MAX_RESTART_ATTEMPTS` (`SupervisorInstance`):

| Theorem | Statement |
|---|---|
| `TracksWhatRuns` | `ChannelsSpec => []ChannelInv` |
| `StopHolds` | `ChannelsSpec => []StaysStopped` |

The inductive invariant adds five parts to `ChannelInv`. `CallersInv`: who waits for a
hook does so with a plugin that has one, and what is tracked has not ended.
`TrackedInv`: a lifecycle that sleeps before its restart is the tracked one, too, as it
may run again. `DrainsInv`, for a plain plugin and as long as no two restarts have
waited for one lifecycle: a stop that drains waits for the tracked lifecycle, which is
aborted, or nothing is tracked, so that the deletion at the end of `stopChannel` never
hits another's entry; and at most one caller is about to start the account, finding
nothing tracked, so that no two are between the check and the entry. `RestartsInv`: an
automatic restart is alone there, too. `StoppedInv`: while an account counts as stopped,
`manuallyStopped` is set, nobody is on the way to a start, and whatever still runs is
waited for. The actions are made of a few changes, each with a lemma (`LaunchInv`,
`SettleInv`, `LifeInv`, `CallerInv`, `StartInv`, `StopInv`, `DrainedInv`), so that the
lemma of an action mostly says which of them it is. The order of microtasks (`Quiet`,
the guard of `Again`) is what makes `DrainsInv` inductive: a new start or stop, and an
automatic restart that wakes, find nobody between the end of a drain, or the answer of
`isConfigured`, and the new lifecycle.

### The run loop

`GatewayRunLoopProofs` proves, for all lanes and commands and any `MaxRestarts` and
`MaxPollers` (`RestartBounds` and the assumptions of the queue):

| Theorem | Statement |
|---|---|
| `LoopCorrect` | `LoopSpec => []LoopInv` |
| `OneServer` | `LoopSpec => []StartsAlone` |
| `UpTakesWork` | `LoopSpec => []TakesWorkWhenUp` |
| `DrainsBeforeTeardown` | `LoopSpec => []ActiveTasksDrained` |

The inductive invariant is `RunLoopInv == IInv /\ LoopTypes /\ Control /\ TasksKnown`.
`IInv` is the queue's own: every step of the loop is one of the queue's operations or
leaves the queue alone (`QueuePart`), so the step lemmas of `CommandQueueProofs` are
all there is to it. `Control` ties the position of the loop to the shutdown under way:
`shuttingDown` is set exactly while a closure of `request()` runs; a gateway whose
starts all succeeded is without its lock only between release and return; if no
restart came early, only a restart that found the loop waiting drains the queue.
`StartsAlone` and `TakesWorkWhenUp` are read off it. `ActiveTasksDrained` compares a
snapshot of task ids with what is in flight later; `TasksKnown` adds that a task of the
snapshot is in no queue, so that it cannot start again under the closure.

### The agent lanes

`AgentLanesProofs` proves, for all runs, sessions and limits (`Lanes`, `Commands`,
`Runs` and the assumptions of the queue):

| Theorem | Statement |
|---|---|
| `RunsHoldTheirSession` | `LanesSpec => []LanesInv` |
| `LanesImplementRuns` | `LanesSpec => ImplementsAgentRuns` |

`HoldInv` adds to the queue's `IInv` that an entry is in the lane it is for (`Placed`),
a session's lane never has more than one entry in its slot (`OneAtATime`), a global
entry is only asked for when its session entry has started (`Nested`), and, until a
restart interrupts something, that a run which may still start or end has its session
entry in flight (`Current`). `KeepsHold` shows once that a step which moves one lane
keeps all this; each action is then an instance of `Moves`.

The refinement is shown step by step up to a restart that interrupts runs, where
`AgentRuns` ends, too (`interrupted`). `LineFacts` describes the abstract line of a
session by its lane: the run that holds the slot, unless it is running, followed by the
queued ones. `AskStep`, `RefuseStep`, `HandOverStep`, `GiveUpStep`, `IdleRestartStep` and
`OuterLaneStep` say which abstract step each change of a lane is; most steps of the
code are stutters (`StutterStep`). The step that carries the argument is `AdvanceStep`:
when global entries start, one run at the head of each of several sessions' lines
starts at once, which is why `AgentRuns` lets a set of runs start in one step.

### The delivery queue

`DeliveryQueueProofs` proves, for any messages, payloads, retries and server starts
(`Messages`, `Bounds`):

| Theorem | Statement |
|---|---|
| `DeliveryCorrect` | `DeliverySpec => []DeliveryInv` |
| `MessageNotLost` | `DeliverySpec => []NotLost` |
| `MessageNotReplayed` | `DeliverySpec => []NotReplayed` |
| `AttemptsCounted` | `DeliverySpec => RetriesCounted` |

`QueueInv` has six parts. The central one is `OneHolder`: a message that no recovery
took from other hands (`shared`) is in the hands of one worker at most, the one that
works on it or the recovery that has read its entry. Only that worker changes the
message's files, so what it has read stays true across its awaits (`Entries`: a count
read is the count on disk, an entry being worked on is in the queue). `Plans` says that
a recovery reads a file once and does not have an entry and work on it. `Whole` is
`NotLost` with what a worker has sent so far: all payloads before the one it is at. For
`NotReplayed`, which says that nobody sends what was acknowledged, `OneHolder` is
needed again: the one who acknowledged it is not sending, and there is no other. The
more than twenty actions, shared by two kinds of workers, are first reduced to a few
*effects* (`Effects`, `RecoveryEffects`, `StartEffects`), and each part is proved from
these.

### The lock files

`LockFilesProofs` proves, for any finite sets of tasks and processes and any kinds of
locks and faults (`LockInstance`):

| Theorem | Statement |
|---|---|
| `CountIsHolders` | `LockSpec => []LocksInv` |
| `HolderHasTheFile` | `LockSpec => []HolderHasFile` |

`LockInv == Types /\ Placed /\ Recorded /\ Apart /\ Counted /\ (~loose => Firm)`.
`Apart` makes the id of a file that is being written one that nothing else refers to
(`Fresh` shows that there always is one), and `Counted` counts the holders of a shared
lock; both hold whatever goes wrong. `Firm` is what holds until a lock is taken from a
process that may use it: who writes or holds the lock, or is about to remove its own
lock, runs and *has the file*; while such a removal is under way nobody else uses the
lock; and a task that is about to remove a file has seen one whose owner is gone for
good. The last part needs `Recorded`: a file that was seen under some id is of the same
process and start as the one that has that id now, and no file is of a start still to
come, so an owner that is gone stays gone when its pid comes back (`Starts`).

### The follow-up queue

`FollowupQueueProofs` proves, for any finite set of messages, any targets, settings
and number of queue objects, and any number of redeliveries, failing turns and clears
(`QueueIds`, `FiniteMessages`, `FollowupBounds`, `Targets`, `Settings`):

| Theorem | Statement |
|---|---|
| `FollowupCorrect` | `Spec => []FollowupInv` |
| `ClearedStaysAway` | `Spec => ClearedNotRun` |
| `MessagesHandledOnce` | `Spec => []HandledOnce` |
| `MessagesInOrder` | `Spec => []HandledInOrder` |
| `MessagesAccounted` | `Spec => []Accounted` |

These are all the safety properties of the run `followup`. The inductive invariant is

    QueueInv == Types /\ Once /\ Tally
                  /\ (~hist.split => Solo /\ Ordered)
                  /\ (~hist.split /\ ~hist.raced => Complete)

and its three levels say what the code keeps under which circumstances. `Once` holds
whatever happens: a message is in one queue and once, is not there when it has been run,
dropped or cleared, and **what a turn has taken is at the front of its queue or not there at
all** (`AtFront`). So when a turn ends and as many messages leave the queue as the turn
had, none of those it has run is left, even if the policy had shortened the queue in the
meantime, and no message is run again. `ClearedNotRun` is read off `Once`, too: a turn
begins with messages of its queue, from which a clear has taken everything, also under
the drain that goes on with it; and what was cleared remains known, so that it is not
accepted again. `Solo` and `Ordered` need that no queue was
cleared under its drain: then only the queue that messages go to has messages and a
drain, and what was run, what is being run and what waits are in the order of
acceptance. `Complete` needs also that no queue was shortened under a turn: then what a
turn has taken *is* the front of its queue, so that what leaves is what was run. `Tally`
bounds `droppedCount` by the messages dropped. A step has one of five *effects*
(`Accepts`, `Begins`, `Ends`, `Rests`, `Clears`; `NextEffect`), and each part is proved
from these.

### The cron service

`CronServiceProofs` proves, for any finite set of jobs of any kinds, any numbers of
workers, catch-up runs per start, retries and operations, and any non-empty list of
backoffs (`CronTimes`, `BackoffAfterErrors`, `CronInstance`):

| Theorem | Statement |
|---|---|
| `CronCorrect` | `CronSpec => []CronInv` |
| `TimesInMemory` | `CronSpec => []SameTimes` |
| `SlotsNotSkipped` | `CronSpec => DueNotSkipped` |
| `BackoffHolds` | `CronSpec => BackoffKept` |

These are all the safety properties of the runs `cron_service` and `cron_due`.

`CronInv` needs `IInv == Basics /\ Markers`. `Basics` is bookkeeping: types; a job is in
one place of a batch (`BatchesOK`); a process with one service has nothing of a second,
and one that has just started no timer and no work (`Alone`, `Fresh`); a job that was
not added is nowhere (`Unborn`). `Markers` is the argument: a job that is taken and not
`loose` has a marker wherever it is stored, on disk *and* in memory, and one holder.
Both stores are needed, because a tick selects from the file and a manual run reserves
in the copy; the marker must also not be at risk, because any section that writes a
store normalises it. Each action has one of two effects on a job: `Remains` (no new
holder, and each store it writes has a marker that came from one of the two stores) or
`Taking` (one of the two stores shows the job to be free, so that nobody holds it, and
both show it as marked afterwards). `MarkersNext` shows `Markers` from the effects, and
`InvImplies` counts the runs.

`SlotsNotSkipped` rests on `SameTimes`, which says that the copy of the only service has
the time of every enabled job on disk that has one. Without it, a section that writes
the copy (a read, a reservation) could replace a time on disk by another one. Together
with `IInv` it is inductive (`TimesNext`).

`BackoffHolds` needs most: a restart or a catch-up finds no record of the backoff but
the next time of a job and its last error. Until the first change of the configuration,
`BackoffInv` says that

- `Timed`: an enabled job has a time, and a disabled one none;
- `Copied`: the copy in memory agrees with the disk in all a backoff depends on;
- `Paced`: a job that failed and whose time nobody has changed (`moved`) is not due
  before its backoff has passed;
- `QueuePaced`: nor does it wait for a worker before that;
- `LateApart`: a catch-up does not run the jobs it puts off;
- `RunsOrdered`: a run does not end before it began, so that a backoff counted from its
  end does not pass before one counted from its beginning.

`BackoffInv` was checked with TLC on the two cron instances before it was proved.
The lemmas of the first part say what the operators of `CronJobs` do to one job:
among them that both recomputations give a job a time which respects its backoff
(`MaintenancePaced`, `RecomputePaced`), as does the result of a run (`ApplyResultPaced`),
and that what a start takes for missed has rested (`MissedRested`).

The proofs corrected the model in three places. The next time of a one-shot whose time
lies beyond the last moment of the clock was not `Capped`. A start that puts a job off
gives it a time that may lie in its backoff (section 5), and a second service over the
same store can bring back an older time, neither of which the bounds of the run
`cron_due` reach: `BackoffKept` now excepts them by name (`moved`). And what is done
with jobs in a certain order is now said of every such sequence, which a proof can take
as it is.

### Only model-checked

The liveness properties: liveness under fairness is out of the prover's reach.

## 5. What the models show about the code

Two runs exhibit a disagreement between the code and what it says of itself; the
quoted text is under `findings`.

- **Two processes hold one file lock** (`file_lock_exclusive`, `file-lock.ts:79`).
  `isStaleLock` takes a file it cannot stat for stale, also when its holder has just
  released it; the waiter then removes, by name, the fresh lock of the next holder.
- **A full fallback is refused** (`fallback_decides`, `exec-approval.ts:202`). When no
  operator can be reached, the requester takes `askFallback: full` as allow-once; the
  gateway has resolved the approval as `no-approval-route`, for which its guard knows
  no fallback.

Further ones are stated as definitions in the modules, each with the text it
contradicts, and are not true of the code. TLC refutes them at once when they are
named in a configuration; the project keeps none for them.

- **A restart during a start leaves a gateway that refuses all work**
  (`RestartTakesPlace`, `run-loop.ts:92`). `request("restart")` marks the gateway as
  draining and resolves a promise the loop does not wait on, so the lanes are never
  reset. `run-loop.ts:225`: "SIGUSR1 triggers an in-process restart".
- **A clear under a drain loses messages** (`NothingLost`, `drain.ts:172`). The old
  drain's `finally` deletes the queue by key, also when it is another queue by now.
- **A drain that never yields** (`SummaryInjected`, `drain.ts:155`). With cap 1 and
  `summarize`, a message dropped during a turn leaves a drop count without items, and
  the drain restarts itself in microtasks for ever.
- **A run that was accepted is refused during the drain** (`AcceptedNotRefused`,
  `run.ts:286`). Its session entry starts and its global entry is then rejected; only
  entries still queued survive.
- **Nested waits for nested** (`NoLaneCycle`, `sessions-send-tool.ts:252`). A cron
  job's run and the run its `sessions_send` waits for share the nested lane, whose
  limit is 1; the timeout of the wait resolves it, which is why `RunsSettle` holds.
- **The recovery takes up live deliveries** (`OnlyFromBefore`, `server.impl.ts:838`),
  and the message goes out twice.
- **A slot that falls due during a catch-up is passed over** (`CatchupDueKept`,
  `cron/service/ops.ts:121`). `timer.ts:986` keeps such times "instead of being
  silently advanced"; the last section of `start` advances them.
- **A one-shot runs again after a change of the configuration** (`OneShotOnce`,
  `server-reload-handlers.ts:83`). The first service deletes it after its run; the
  second one loaded the store before, and writes it back with its catch-up.

Seen while modelling, and visible in the exceptions the properties make:

- run loop: after an early restart the old server is not closed (`StartsAlone`
  excepts it); a gateway that is restarted after a failed start runs without
  the lock; the drain does not wait for tasks that start during it.
- follow-up queue: a drop during a turn shifts the queue, so the wrong message is
  removed after it; a summary turn removes the first message without running it;
  after a change of policy a collecting drain may run turns without a message; a
  message that was queued because of a run auto-reply did not start waits for the
  next message of the session (`QueuedLeaves` asks for a drain or a turn under
  way for this reason); a drain that begins again after a failed turn has forgotten
  that its batch was mixed (`drain.ts:84`), so that what is left of it may be collected;
  the lines told of dropped messages may go to the target of another message.
- delivery queue: the recovery passes no `onError`, so it acknowledges a
  best-effort message with refused payloads; an aborted best-effort delivery stays
  queued; a crash between the last send and the acknowledgement repeats the
  message; two calls of `failDelivery` share one temporary path.
- cron service: `stop()` during a tick leaves a scheduler that arms its timer again at
  the tick's end (`TickEnd`); after a change of the configuration the clients keep the
  old service (`server.impl.ts:879`), and the two may run one job at a time each; a
  job that is disabled and enabled while it runs, or runs longer than the two hours
  after which its marker is a left-over, may be started again (`loose`); `add`
  recomputes every job whose time has come and passes over it; a job that is disabled
  or removed while it waits in a tick still runs; a failed job that a start puts off gets
  a time before the end of its backoff (`applyStartupCatchupOutcomes`, `timer.ts:973`).
- locks: without a start time in the file (not on Linux) a process that was given the
  pid of a dead one takes its lock for an orphan of its own; the sweep of the sessions
  directory removes the empty file of a lock that is being written; the lock of a
  gateway that does not listen yet counts as dead; a termination signal releases
  session locks of a process that other listeners may keep going; the watchdog releases
  a lock under its holder; a gateway that is too busy to accept a connection within the
  time of the probe loses its lock (`gateway-lock.ts:89`). Each of these sets `loose`.
- exec approvals: an allow-once is used up before the request is sent, so one that
  fails to reach the node, or whose send on the socket fails, is lost; an approval given near its deadline is refused as
  expired by the guard; a result is accepted over any connection of the node.
- channels: a stop that comes while `isConfigured` is awaited, or for a given-up
  account without a stop hook, is not recorded; a start during the drain of a stop is
  dropped without a word; a monitor that was between its own stop and start undoes the
  stop of a user; after a logout that a start has overtaken, or the end of one of two
  overlapping lifecycles, a live account is reported as not running (`Masked`), and
  the monitor can then neither stop nor start it; a second stop whose `stopAccount`
  takes long deletes the entries of a newer lifecycle. A reload and the monitor that
  wait for the end of the same lifecycle go on in lockstep and both start one, also
  with a synchronous `isConfigured`: each passes the check at `server-channels.ts:256`
  before the other has stored its task at `:389`. And a restart or heal whose
  `stopAccount` (`:427`) or `isConfigured` (`:277`) rejects, or that finds the account
  unlinked, leaves its own manual stop behind: neither the monitor nor an automatic
  restart brings the account up again.


## 6. What is not modelled

Within the modelled parts: the restart cooldown (a delay before a timer that may
fire at any time anyway), what counts the pending replies (a gateway may be busy with
them at any time), the hand-off to a supervisor and `triggerOpenClawRestart`
(commands in other processes), the expiry of remembered message ids and messages
without an id, the sub-agent lane (it behaves as the main one) and the
auth-probe lanes, how a payload is rendered and chunked, plugin hooks, the
migration of old delivery entries, and a second process writing to the delivery
directory; the microtasks between the look of a drain at its messages' targets and the
turn that takes them (`drain.ts:94`, `:109`), in which a message of another target could
still come in; what a cron job does, the two seconds by which a recurring job is kept from
running again (`MIN_REFIRE_GAP_MS`, less than a moment of the model's clock), schedules that cannot be computed, failure alerts,
the session reaper and the run log; where a lock file is and how its payload is
written; commands on the gateway host, allowlists, the forwarding of an approval to
chat channels, the binding of an approval to the text of a command, the detection of
obfuscated commands (which get the fallback `deny`), and the queue of
actions for phones; a plugin that throws before it returns a promise, accounts
disabled in the configuration, and the monitor's cooldown and limit per hour.

Other parts:

- Planned (section 7): heartbeat wake, sub-agent registry and announce queue, ACP
  session manager, inbound debounce.
- Configuration reload: the effect of a change on lane limits and the restart it
  asks for are modelled; the diff and the plan are functions of configuration
  data.
- Session and pairing stores: JSON files read and written as a whole, one writer at a
  time. What can go wrong between processes at the session store is in `LockFiles`;
  its queue of writers in one process, with their timeouts, is not modelled, nor the
  lock of the pairing store, which is a chain of promises.
- The agent run itself: a conversation with a provider, with retries and
  streaming; input and output and data.
- Gateway protocol, plugins, channel adapters, providers: translation between
  formats and calls of services outside.
- The management server of the appliance (`src/openclaw-management/server.js`):
  a settings page over files, one request at a time.
- Apps and web user interface: clients of the protocol.

## 7. Plan

In this order, the most important first:

1. **Heartbeat wake**: one batch per handler, no wake is forgotten, a batch of an
   earlier lifecycle does not disturb the next.
2. **Sub-agent registry and announce queue**: the helpers of the follow-up queue
   (`utils/queue-helpers.ts`) are moved to a module both use; announced at least
   once and at most the retry limit.
3. **ACP session manager**, debounce.

Compositions: cron service with `AgentLanes` (a manual run waits in the cron
lane), announce queue with the command queue.

Bounds: two or three actors, one crash or restart, one failure of each kind, as in
section 3; that is where the interleavings differ in kind.

Theorems: each new module gets those of its safety properties. For the cron service,
what still holds with two services over one store, of which `Markers` and `SameTimes`
say next to nothing.
