# Background agents: TLA+ models of the session control plane

Background agents ("Open-Inspect") runs coding agents in remote sandboxes. A
*session* is a conversation: its prompts are queued in the control plane, sent
over a WebSocket (the *bridge*) to a *sandbox* that runs them one at a time, and
the sandbox reports events back. Every session is a single-threaded actor with
its own SQLite file, on a Cloudflare Durable Object or inside the Node host. The
actor never runs two instructions at once, and yet it is concurrent: each
`await` lets another request, runtime event or alarm run. The same holds of the
runtime in the sandbox, an asyncio process, and between the requests, workers
and sweeps that share the rows of an image build or of an automation. These
modules are about what those interleavings, and the failures around them, can do.

Paths below are relative to `src/packages/control-plane/src/` unless they start
with `src/`.

## 1. Inventory

| Component | State | Operations | What is hard, and what makes it correct |
|---|---|---|---|
| Prompt queue (`session/message-queue.ts`, `message-repository.ts`, `message-failure-service.ts`) | `messages` rows: status, stop deadline | enqueue, cancel, pump (`processMessageQueue`), fail | The pump awaits a credential lookup and tool preparation between reading and claiming. Order, single sending, a final outcome, nothing stranded |
| Stop coordinator (`session/execution-stop-coordinator.ts`) | `stop_confirmation_deadline` | stop, deliver, time out, resume | A stop is confirmed by the runtime, or by a timeout and a termination. No prompt is claimed before; the fence is always released |
| Session status (`session/session-status-service.ts`) | `session.status` | transition, reconcile, cancel | Written after awaits by several handlers. Closed stays closed, work keeps it active |
| Budget (`session/budget-service.ts`) | spent, limit, `budget_exhausted` | ingest cost, settle, change the limit | Exhaustion stops what runs; the pump rereads it after its lookup |
| Alarm handler (`session/alarm/handler.ts`) | none of its own | stop timeout, execution timeout, watchdogs, redrive | Its watchdogs yield to the provider, then act on what they read before |
| Alarm scheduler (`session/alarm/scheduler.ts`) | `session_alarm_state`: pending and in-flight deadline | schedule, deliver, rehydrate, rearm | One alarm slot; a deadline set during a delivery must survive the delivery's retries |
| Host alarm clock (`node/host-alarm-clock.ts`, `host-alarm-index.ts`, `crash-recovery.ts`, `host.ts`, `session-runtime-registry.ts`) | index row per session, delivery leases, host marker | arm, tick, claim, complete, retry, recover, drain | A crash between the session file and the index must not lose a deadline |
| Event processing (`session/sandbox-events/`) | terminal events, costs | `ready`, `execution_complete`, ... | Redelivered until acknowledged, in any relation to stops and later prompts |
| Bridge socket (`session/websocket-manager.ts`, `connection-authenticator.ts`, `disconnect-handler.ts`) | authoritative socket | attach, replace, detach | Half-open connections; a superseded socket must not be written to |
| Sandbox lifecycle (`sandbox/lifecycle/`) | `sandbox` row, generation, circuit breaker | spawn, restore, watchdogs, terminate | Provider calls outlive the generation they were made for |
| Shutdown coordinator (`session/sandbox-shutdown.ts`, `checkpoint-settlement.ts`, ADR 0004) | preservation record, operations in memory | checkpoint, drain, capture, retire, retry, recover, discard | Holds the queue while a workspace is saved; crashes mid-capture; answers that never come. What continues by itself is complete; two snapshots or a snapshot and a stop never meet |
| Image builds (`image-builds/workflow.ts`, `finalizer.ts`, `reaper.ts`, `scheduler.ts`, `db/image-builds.ts`) | `image_builds` rows: status, lease, source, capture, image | trigger, callback, finalize, supersede, sweep | Sources and snapshots at a provider that only the row remembers; leases that lapse; repeated callbacks and commands. Nothing made is forgotten, one capture, no image after its secrets changed |
| Runtime event forwarder (`src/packages/sandbox-runtime/`: `event_forwarder.py`, under `bridge.py`) | event buffer, unacknowledged events, recovery lock | send, bind, unbind, acknowledge, flush, drain | Tasks cancelled inside a write, connections wedged and replaced. Critical events survive until acknowledged; nothing waits on an idle connection |
| Rest of the runtime (`activity_supervisor.py`, `bridge.py`, `shutdown_preparation.py`) | prompt tasks, admission fence | run, stop, report, prepare a shutdown | Cancellation of tasks |
| Projections (`db/session-status-projection-store.ts`, terminal message projection) | D1 rows | write, replay | Writes from one session may arrive late |
| Scheduler and automations (`scheduler/`, `db/automation-store.ts`) | `automation_invocations` and `automation_runs` rows, the automation's switch and streak | fire, launch, retry, sweep, complete, account, pause, resume | Ticks overlap, workers die between two statements, enqueues lose their answer, sessions answer late. One session per run, final outcomes, one strike per firing, nothing holds an automation for ever |
| Callbacks, autofix, job queue | D1 or SQLite rows with leases | retry, lease, reap | Deduplication and retries between processes |
| Auth, routing, web client, bots, providers, shared types | no protocol state of their own here | | Not modelled |

Interactions. Requests and runtime events call the actor; all of them end in
`processMessageQueue()`. The queue asks the WebSocket manager for a command
target, the lifecycle manager for a sandbox and the shutdown coordinator whether
the queue is held. The stop coordinator, the queue and the alarm all terminate
sandboxes; a termination of a ready sandbox is handed to the shutdown
coordinator, which captures the workspace. The scheduler keeps the earliest
deadline of all of these in the session's file and arms the platform's one alarm.
`PROJECT.json` lists the hazards at their lines.

## 2. Modules

| Module | Models | Form |
|---|---|---|
| `SessionQueue` | the prompt queue of one session with everything that acts on it | detailed specification, properties, mutants |
| `PromptQueue` | what the author of a prompt is promised: begun once, one at a time, in order | abstract specification, implemented by `SessionQueue` (`KeepsPromise`) |
| `SessionDeadlines` | the deadlines of the sessions of a Node host: session files, alarm index, deliveries, the host's marker, crashes and boots | detailed specification, properties, mutants |
| `HostAlarmClock` | the wake-ups of one host process: the timer, claims as leases, the concurrency bound, handlers that hang, an index that fails, restarts | detailed specification, properties, mutants |
| `SandboxShutdown` | the checkpoints and shutdowns of one session's sandbox over its generations, with the watchdogs and starts of the lifecycle manager and the provider's answers | detailed specification, properties, mutants |
| `EventForwarder` | the runtime's event forwarder over the bridge's connections | detailed specification, properties, mutants |
| `ImageBuilds` | the prebuilt images of one scope: triggers, callbacks, leased finalizers, sweeps, and the provider's sandboxes and snapshots | detailed specification, properties, mutants |
| `AutomationRuns` | the runs of one automation: firings, launches and their retries, overlapping ticks, callbacks, and the failure streak | detailed specification, properties, mutants |
| `SessionQueueProofs`, `SessionDeadlinesProofs`, `HostAlarmClockProofs`, `SandboxShutdownProofs`, `EventForwarderProofs`, `ImageBuildsProofs`, `AutomationRunsProofs` | theorems about the seven | TLAPS proofs |
| `MCSessionQueue`, `MCSessionDeadlines`, `MCHostAlarmClock`, `MCSandboxShutdown`, `MCEventForwarder`, `MCImageBuilds`, `MCAutomationRuns` | model values and symmetry for TLC | model-checking modules |

The queue, the deadlines and the clock meet at the alarm. `SessionQueue` takes
as given that a persisted alarm is delivered again until its handler succeeds;
`SessionDeadlines` shows what becomes of a deadline between the session's file
and the index, and takes as given that a claim is held by one handler and that
the clock wakes up; `HostAlarmClock` shows those two. `SandboxShutdown` is what
`SessionQueue` abstracts to its `hold` and `row`, and `EventForwarder` what it
abstracts to a completion that the runtime repeats until it is acknowledged.
They are composed by these assumptions and not by a refinement: the queue's
`hold` is one of three reasons, where the record has ten phases and a memory
that a restart loses, and no variable of the queue records a restart.

### SessionQueue

Actor turns. Each handler in flight is a *worker*; its record says at which
`await` it is suspended (`pc`), which prompt it holds (`msg`), the socket or
generation it saw before the await (`seen`), and where a nested call returns
(`after`). One action is one synchronous turn. The awaits that only hop the
microtask queue, or wait for storage that the platform serialises with the
handler, are not suspension points. The suspension points are:

| `pc` | Code |
|---|---|
| `pump` | entry of `processMessageQueue` (message-queue.ts:417) |
| `auth` | the credential lookup (message-queue.ts:469) |
| `mcp` | tool preparation after the claim (message-queue.ts:593) |
| `stop` | delivery of a stop (execution-stop-coordinator.ts:58) |
| `terminating` | `terminateUnresponsiveSandbox` before `resumeAfterSandboxTermination` |
| `settle`, `snapshot` | `execution_complete` during its projection, and after it |
| `cancelSandbox` | a cancellation during its projections |
| `timeouts`, `watchdog`, `captured`, `terminated`, `bootFailed`, `failBootPrompt` | the alarm's handler, step by step |

State. `message`, `awaitingStop`, `session`, `budgetExhausted` are columns of
the session's SQLite file; `lastFinished` is what `getLatestTerminalMessage`
returns; `row` abstracts the sandbox status to what
`evaluateSandboxCommandAvailability` tells apart (`dead` stands for stopped,
stale and failed); `hold` says why `mayProcessQueuedWork` refuses (a checkpoint,
a capture, a paused queue); `running` and `outbox` are the runtime's side: prompts
it executes and completions it has not had acknowledged; `dispatched` is a
history variable, the prompts ever written to a bridge.

Abstractions. Time is abstract: a deadline may be found expired whenever the
code reads it, so every timeout races everything. The contents of prompts,
models, credentials and tools are choices. Nothing is heard from a generation
whose row is dead (the code fences it). A stop command only hastens a
completion. A sandbox in the middle of a snapshot is `ready` with `hold =
"checkpoint"`. Socket and generation identities are reused once no handler
remembers them (`Fresh`), which keeps the model finite without confusing two
identities that can be compared.

Left out of this module: the fatal report of a runtime, the inactivity
shutdown, blocked admission during a retained recovery, a late boot of a failed
row, and the drain of a sandbox before an archive.

`SentAtMostOnce`, `OneStopFence` and `ClosedHasNoWork` are proved and in no run:
the first follows from `KeepsPromise`, the last from `WorkKeepsSessionActive`.

### SessionDeadlines

A deadline lives in two stores with nothing atomic between them: the session's
own SQLite file (`session/alarm/scheduler.ts`) and the host's alarm index
(`node/host-alarm-index.ts`). After a crash a third one, the host's marker,
decides whether the session files are read to repair the index
(`node/crash-recovery.ts`). The module is about what survives between them.

State. `file` and `row` are the rows of the two stores, with `None` for NULL.
`delivery` is the stage of the delivery that this process makes to a session:
claimed in the index, handling (the file has its deadline in flight), served
(the file is settled, the index is not). `arming` holds the operations that have
persisted or read a deadline and have yet to write the index, the window that
matters. `marker.clean` is a clean stop; `marker.scanAll` is a recovery point at
the beginning of time, and `written` the files a scan from the recovery point
reads. `unread` are the files the boot could not read, `forgone` the sessions
the host gave up on, or could not arm. `owed` and `tried` are history: the
soonest wake-up requested, and the soonest attempted but not yet served.

Actions correspond to the code one to one: `Persist` and `schedule` are the two
halves of `schedule()` (and of a stop's `prepare()` and `rearm()`), `Activate`
and `rehydrate` the opening of a session, `claim`, `beginDelivery`,
`completeDelivery`, `complete`, `retry`, `giveUp` and `settleFails` a delivery,
`crash`, `drain`, `markCleanShutdown`, `scanSessionFiles`,
`recoverSessionDeadlines` and `start` the host.

Abstractions. Time: a row may fall due at any moment, deadlines are numbers only
to be compared, and any failure may be the last that is retried. `getAlarm`
followed by `setAlarm` is one step; between the two only a delivery's retry
could run, and the row then holds the deadline that was being armed, which
still covers every request. `cancel()` and `deleteAlarm` have no caller outside
tests and are left out. The branch of `deliverTo` for a claim over its budget is
left out: retries stop at the budget, and recovering a claim does not count. A
clock that steps backwards is not modelled (a hazard without a property). No
request is served between the boot's scan and the start of the clock.

### HostAlarmClock

State. `later` and `due` are the sessions whose index row has an armed deadline,
not due or due, and `sooner` the order of the deadlines that are due; `claim` is the claim on the row and
whether its lease is past; `delivery` is `inFlight`: absent, counted or
abandoned; `timer` is what the timer waits for: the soonest deadline, the
soonest lease, or a fixed interval after a failure ("blind"); `handlers` counts
the handlers really running, a history variable.

`arm` is conjoined to every action that ends in `arm()`, with the state after
the action; it may fail, which leaves the blind timer. `tick` is one synchronous
wake-up, abandoning, claiming and arming together; `tickFails` is the index
failing at any point of it. `Settled` is the `finally` of a delivery, under
`complete`, `retry` and `settleFails`. The re-arming of a timer beyond
`MAX_TIMER_DELAY_MS` is left out: it wakes early and finds nothing.

### SandboxShutdown

State. `rec` is the durable `ShutdownRecord`, `row` the sandbox row, `cp` what
the control plane's instance holds in memory and a restart loses (the capture,
checkpoint, retirement or start it is waiting for, and the watchdog). `src` is
the provider's execution of each generation, `asks` its snapshot requests that
may still be running, `creating` the generations it was asked to create. `due`
holds the deadlines that have passed. `src[g].work` counts what a source holds
that a receipt may lack. `user` is history.

Actions are what the coordinator and its callers do between two awaits: a start
(`Reserve`, `Spawn`, `InvokeProvider` and its answers), the two readiness
reports, a turn's end with its checkpoint and the checkpoint's two outcomes, the
heartbeat watchdog's two halves, the request of a shutdown and the emergency,
`advance` in each phase with the outcomes of the capture and of the stop, the
retry by the alarm, and each of the user's recoveries. The provider creates a
source, keeps a snapshot's content, or answers nothing. `Restart` keeps `rec`,
`row` and the provider.

Abstractions. The provider is one that snapshots without stopping its source
and can stop a source on request (plain Modal), under the confirmed lifecycle
policy. Operation ids are dropped: a phase and a generation identify an
operation's owner. A kicked advance is the alarm's action. A window is a flag in
`due`, kept while something reads it; `canRetry`'s test that the capture still
fits is approximated by the expiry. One prompt is processing and another always
waits. A turn's completion and the checkpoint it begins are one step, and so are
publishing a capture, its alarm and its request, and stopping a prior source,
marking it and invoking the restore: what could run between them neither reads
nor writes what they change. A request nobody waits for is kept only for a
routine checkpoint, the only one a later step can meet.

Left out: providers whose snapshot stops the source, retained resumes, pending
handles of virtual machines, the legacy policy, a change of provider, the
settlement of a checkpoint of a session that already failed, the fresh spawn
over a "spawning" row that has grown stale, and a cancelled sandbox.

An observation without a run: archiving a session while its sandbox starts
clears the row, and the answer that brings the provider's handle finds a
generation it does not own and drops the handle.

### EventForwarder

State. `up`, `reading` and `bind` are the latest connection, its receive loop
and the `bind()` that sends again what is left; `send` says where each event's
`send()` is, `write` the write a task awaits, on the latest or an older
connection; `lock` is the recovery lock, its holder and who waits; `turn` is the
task that runs, since an asyncio task runs alone up to its next await. `buffer`,
`pending`, `inFlight` and `slot` are `_event_buffer`, `_pending_acks`,
`_in_flight_acks` and `_cancelled_write_ws`. `sent`, `released` and `excused`
are history: writes that returned, events acknowledged or evicted, and whether
on this connection a send was cancelled or waited too long. A cancelled write may
have reached the peer before its event is drained again; `SentOnce` does not
count it.

Actions are the stretches between two awaits of a send, a flush and a bind, the
end of a stage's time, the cancellation of a sender, and the connection's: bound,
left, lost. A wedged connection is a write that does not return until its time
is over. Taking a free lock runs on; an `asyncio.Lock` is handed to its waiters
in turn.

Abstractions. Each event is sent once; the bridge opens a connection only after
it left the one before, so all older ones are told apart from the latest only.
Contents and sizes of events are left out, and with them the truncation of an
event that is too large, the return value of `send()`, acknowledgement ids that
collide and events that cannot be serialised (both named as known debt in the
code), and the bridge's end.

### ImageBuilds

State. `status` to `image` are the columns of the rows (`pending` is
`provider_session_cleanup_pending`, `bound` and `op` the ids the row has of its
source and of the capture, `accepted` the completion hash, `lease` and `lapsed`
the finalization lease). `trigger` is where the request that triggered a build
is, `work` where each finalizer is, on which build, and what it read before its
await, `sweep` what a maintenance pass found before its next call. `jobs` are
the queued finalization commands, delivered at least once and dropped when their
attempts run out; `republishRecoverableFinalizations` repairs that. `source`, `capture`
and `captures` are the provider's; `age`, `revoked` and `faults` are history.

Each step between two awaits is an action, and any actor may stop between two of
its own: a trigger by losing its answer, a finalizer by `finalizerFails` (a crash or
a store that refuses), a sweep by `SweepEnds`.

Abstractions and assumptions. One scope on one provider whose captures outlive
the request that asks for them (Daytona); a build has one source and one
snapshot name. `Before` bounds the statuses a build may have when the next is
triggered. `LeaseCovers` says that a lease does not run out on a finalizer that
still runs: leases last six minutes, an attempt is given five, but nothing
fences a provider call that started within them. `GrowsOld` assumes that a row's
age limit covers the lifetime of a source. Reads and writes that follow each
other in the store with nothing between them are one step.

Observations without a run. With `LeaseCovers = FALSE` a finalizer may delete
the image that its successor has just published (finalizer.ts:190-193, 270):
that is why `ReadyImageExists` is checked and proved under the assumption. A
crash between `tryMarkImageBuildReady` and superseding leaves two ready images
until the next build; the newest is used. The answer "a newer build is already
ready" cannot occur while only one build of a scope may be building.

### AutomationRuns

State. `enabled` and `failures` are columns of the automation, `counted` says
which invocations have a `failure_counted_at`; `status`, `attempt` and `session`
are columns of the runs, one for each invocation and target. "timedout" is
`failed` with the reason `execution_timeout`, which alone may still become
`completed`. `late` and `due` are the runs whose threshold, deadline or
`retry_at` has passed. `launches`, `retries`, `accounts` and `tick` are the
memories of the workers: a `launch()` under way, a waiting run as a tick read it,
a call of `applyInvocationOutcome`, and a tick with the lists it read. `prompts`
and `result` are the sessions' side. `strikes`, `paused`, `pauses` and `faults`
are history and bounds.

Every statement or batch on D1 is one action, since each is atomic there and
another worker may run between any two. Everything awaited in `launch()` is a
step of its own; a launch may be refused at each of them as the code
distinguishes it (for now, for good, for lack of authority). The enqueue of the
first prompt may be done although its answer is lost, and then counts as failed
for good: that is what keeps a relaunch from doing the work twice. Workers die
and writes, or only their answers, are lost up to `MaxFaults` times
(`failureUnconfirmed` for the write of a launch's failure).

Abstractions. One automation; a firing may come whenever the guarded insert
admits it, at most `MaxConcurrent` in flight. Time is abstract. The limits and
the window of the sweep's queries are left out, as if every list were complete.
A tick's retries run on beside the next tick, as its launches do.

Left out: the times at which an automation fires (`next_run_at`, one-shots,
skips), events with their keys, held follow-ups and the continuation of an
earlier session, soft deletion, and the fence of the team grants on a claim.

## 3. Runs

| Run | Specification, bounds | Shows |
|---|---|---|
| `SessionQueue` | 2 prompts, 2 handlers, 3 sockets, 3 generations; 1.4 million states | order, single sending, the fence, the status and the budget, and `KeepsPromise` |
| `SessionQueueLive` | fairness, 2 prompts, 1 handler | `FenceIsReleased`, `ServingDrainsQueue` |
| `SessionDeadlines` | fairness, 1 session, 3 deadlines; 151,495 states | `OwedIsPersisted`, `NothingOutOfReach`, `ArmedInTime`, `WakeUpIsAttempted` |
| `HostAlarmClock` | fairness with handlers that return, 3 sessions, 2 slots; 31,039 states | `OneHandlerPerSession`, `DeliveriesWithinBound`, `WakesForArmedWork`, `DueIsClaimed` |
| `SandboxShutdown` | 2 generations, 1 unit of work, 1 restart; 7.6 million states | `CleanContinuation`, `InterruptedWaits`, `CheckpointIsExclusive`, `RetirementIsTrue`, `SavesNeverGoBack` |
| `ShutdownLive` | fairness, 1 generation, 1 unit of work, 1 restart | `ShutdownsSettle` |
| `EventForwarder` | 5 events, 2 of them critical, 1 unbuffered, a buffer of 2; 4.9 million states | `CriticalsAreKept`, `SentOnce`, `NothingStranded` |
| `ImageBuilds` | fairness, 1 build, 2 finalizers, 1 fault; 255,686 states | `NoArtifactLost`, `NoSourceLost`, `OneCapturePerBuild`, `NoRevokedImage`, `AcceptedIsSettled`, `DebtsAreSettled`, `ReadyImageExists` |
| `AutomationRuns` | fairness, 1 scheduled firing, 1 target, 2 retries, 1 tick, 1 pause, 1 fault; 952,080 states | `OnePromptPerRun`, `OneStrikePerInvocation`, `OutcomesAreFinal`, `RunsSettle`, `FailuresAreCounted`, `StreakIsReset` |
| `HungHandler`, `UnsavedStop`, `TwoExecutions` | small instances | each a disagreement between the code and a comment or document, see section 6 |

The type invariants are proved (`TypeCorrect`) and not checked again.

Bounds. Two prompts are enough for order, overtaking and a later prompt under an
earlier one's fence; two handlers for every race of a suspended handler with a
second one (a third in the same window only repeats what the second did; the
theorems hold for any number). Three sockets and generations are the current
one, one remembered by the other handler and a fresh one. `MaxUnfinished` is at
its bound with two prompts, so the capacity check is in the model but refuses
nothing. Two generations are a source and the one restored from it, one unit of
work a change that a receipt may or may not contain, one restart at any point
every state that memory can be lost in. A buffer of two with five events
overflows with and without an event that is not critical. Two finalizers are the
holder of a lease and the one that takes it over; what one build may do to the
image of another is left to the theorems `ReadyImagesExist` and `BuildsExclude`,
which hold for any number. One firing with two retries, beside a tick that may be
in any phase, a pause and a death meets every race for a run; several firings,
targets and overlapping ticks are covered by the theorems about
`AutomationRuns`, which hold for any number. Instances beyond the runs agreed:
2 firings with a threshold of 2 (5.2 million states) on `WithinConcurrency` and
`PauseTakesDistinctFailures`, 2 overlapping ticks (3.3 million) on
`OneLauncherPerRun` and `OnePromptPerRun`.

Safety. `InOrder`, `OneOwnerPerClaim`: the pump's picks, retries and failures
neither overtake nor repeat. `PickIsStillHead`: what a handler holds across its
lookup is still the head of the queue, or finished. `NoClaimUnderStopFence`: the
fence works although the claim does not read it. `ExhaustedRunsNothing`,
`WorkKeepsSessionActive`: the session row and the budget follow the messages.
`OutcomesAreFinal`: late and repeated events change nothing that is settled.
`KeepsPromise`: the whole implements `PromptQueue`. `OwedIsPersisted`: a
requested wake-up is in the session's file until a handler that started after
the request has succeeded. `NothingOutOfReach`: it is in the index too, or about
to be, or the next boot's scan will read it. `ArmedInTime`: the index does not
hold it later than requested. `OneHandlerPerSession`, `DeliveriesWithinBound`:
abandoning a delivery frees its slot and does not free its session.
`WakesForArmedWork`: no path leaves the process asleep over work.

`CleanContinuation`: a session that continues by itself does so from all the
work of the source before, unless the user chose otherwise. `InterruptedWaits`:
a prompt that a shutdown interrupted keeps the record from admitting work until
the user chooses. `CheckpointIsExclusive`: no shutdown's capture or stop runs
while a routine checkpoint of the same source may, in this process or left by
the one before. `RetirementIsTrue`: a source whose own capture the record
reports saved and retired is gone. `SavesNeverGoBack`: over all generations, late
answers and restarts, a save that replaces another one holds at least its work.

`CriticalsAreKept`: a critical event is buffered or pending until it is
acknowledged or evicted. `SentOnce`: recovery writes no critical event twice on
a connection, and no other event twice. `NothingStranded`: on an open connection
with no task at work the buffer is empty, unless a send was cancelled or waited
too long there.

`NoArtifactLost`, `NoSourceLost`: what the provider holds or may still create is
named, or owed, by the row. `OneCapturePerBuild`: no retry asks for a second
snapshot. `NoRevokedImage`: a change of secrets keeps every earlier build from
becoming ready. `ReadyImageExists`: the image a session would start from is not
deleted.

`OnePromptPerRun`: over all launches, sweeps and lost answers a run's work is
given to one session, the one its row names. `OneStrikePerInvocation`: whoever
races to account a firing, it costs one strike. `OutcomesAreFinal`: a run's
outcome stays, but for an inferred timeout that a success corrects.
`RunsSettle`, `FailuresAreCounted`, `StreakIsReset`: whatever dies, a run lets
go of its automation, its failure is marked as counted, and a success ends the
streak. The mark (`failure_counted_at`) is not yet the strike: a worker that dies
between winning it and its increment loses the strike (section 6).

Liveness and fairness. `SessionQueue!Fairness` assumes weak fairness of each
handler's progress (the event loop resumes it, and every provider or lookup it
awaits has a timeout), and strong fairness of the alarm's steps (the alarm is
persisted and delivered again, whatever else happens in between), of the end of
a checkpoint (it has a deadline), of sending a claimed prompt and of receiving a
completion (the runtime repeats it until it is acknowledged), and that the
runtime finishes what it runs. Nothing is assumed of users, bridges or boots.
`SessionDeadlines!Fairness` assumes that the clock claims what is armed, which
`DueIsClaimed` shows of the clock, and that handlers and tasks run on; its
property speaks of a host that stays up. `ClockFairness` assumes that time
passes and that the index does not fail at every wake-up; `HostAlarmClock!FairSpec`
adds that handlers return, which `HungHandler` drops.
`SandboxShutdown!Fairness` assumes that the alarm advances each phase (a phase
reasserts its deadline, and the alarm is redelivered; while a capture operation is
active `advance()` returns without reasserting, sandbox-shutdown.ts:1461-1472, but
that operation is bounded and goes on by itself when it ends), that each provider
call ends in an answer or its timeout (`bounded`), and that the runtime's stop
and the settlement window run out; nothing of the user or of the provider's own
progress. `ImageBuilds!Fairness` assumes that a request runs on, that the sweeps
come back (a cron; strong fairness for the repair that must find a row at a
moment when a finalizer does not hold it), that finalizers run on, that the
provider finishes what it began, and that leases and deadlines pass.
`AutomationRuns!Fairness` assumes that ticks come (a cron, every minute) and run
on with what they start, and that time passes; firings, launches, callbacks and
their accounting owe nothing, so the properties say what the sweep alone
achieves. Failures are bounded by `MaxFaults` in both, so a provider that fails
for ever, or a tick that always dies, is excluded.

Each property has a mutant in `PROJECT.json`: a definition of the module, changed
as a plausible bug would change it, under which TLC finds the property violated.
They stand next to their targets in the modules, marked `Mutant:`.

## 4. Proofs

The theorems hold for every value of the constants.

| Theorem | Module | Statement |
|---|---|---|
| `TypeCorrect` | `SessionQueueProofs` | `Spec => []TypeOK` |
| `PromptsRunInOrder` | | `Spec => []InOrder` |
| `FenceBlocksClaims` | | `Spec => []NoClaimUnderStopFence` |
| `EachPromptSentOnce` | | `Spec => []SentAtMostOnce` |
| `ClaimHasOneOwner` | | `Spec => []OneOwnerPerClaim` |
| `PickStaysHead` | | `Spec => []PickIsStillHead` |
| `FinishedPromptsKeepOutcome` | | `Spec => OutcomesAreFinal` |
| `FenceHoldsOneRow` | | `Spec => []OneStopFence` |
| `SessionFollowsPrompts` | | `Spec => []WorkKeepsSessionActive` |
| `ClosedSessionsRest` | | `Spec => []ClosedHasNoWork` |
| `ExhaustedStops` | | `Spec => []ExhaustedRunsNothing` |
| `ImplementsPromptQueue` | | `Spec => KeepsPromise` |
| `TypeCorrect` | `SessionDeadlinesProofs` | `Spec => []TypeOK` |
| `WakeUpsArePersisted` | | `Spec => []OwedIsPersisted` |
| `WakeUpsStayInReach` | | `Spec => []NothingOutOfReach` |
| `WakeUpsAreArmedInTime` | | `Spec => []ArmedInTime` |
| `HandlersExclude` | `HostAlarmClockProofs` | `Spec => []OneHandlerPerSession` |
| `BoundHolds` | | `Spec => []DeliveriesWithinBound` |
| `TypeCorrect` | | `Spec => []TypeOK` |
| `ArmedWorkWakes` | | `Spec => []WakesForArmedWork` |
| `TypeCorrect` | `SandboxShutdownProofs` | `Spec => []TypeOK` |
| `RetirementIsProven` | | `Spec => []RetirementIsTrue` |
| `InterruptedPromptWaits` | | `Spec => []InterruptedWaits` |
| `CheckpointsAreExclusive` | | `Spec => []CheckpointIsExclusive` |
| `ContinuesFromTheWholeWork` | | `Spec => []CleanContinuation` |
| `SavesAccumulate` | | `Spec => SavesNeverGoBack` |
| `TypeCorrect` | `EventForwarderProofs` | `Spec => []TypeOK` |
| `CriticalsKept` | | `Spec => []CriticalsAreKept` |
| `WrittenOnce` | | `Spec => []SentOnce` |
| `NoneStranded` | | `Spec => []NothingStranded` |
| `TypeCorrect` | `ImageBuildsProofs` | `Spec => []TypeOK` |
| `BuildsExclude` | | `Spec => []OneBuildAtATime` |
| `RevokedImagesStayOut` | | `Spec => []NoRevokedImage` |
| `CapturesAreSingle` | | `Spec => []OneCapturePerBuild` |
| `SourcesAreOwed` | | `Spec => []NoSourceLost` |
| `ArtifactsAreNamed` | | `Spec => []NoArtifactLost` |
| `ReadyImagesExist` | | `Spec => []ReadyImageExists`, assuming `LeaseCovers` |
| `TypeCorrect` | `AutomationRunsProofs` | `Spec => []TypeOK` |
| `OutcomesStay` | | `Spec => OutcomesAreFinal` |
| `ConcurrencyIsBounded` | | `Spec => []WithinConcurrency` |
| `StrikesAreSingle` | | `Spec => []OneStrikePerInvocation` |
| `PausesAreEarned` | | `Spec => []PauseTakesDistinctFailures` |
| `PromptsAreSingle` | | `Spec => []OnePromptPerRun` |
| `LaunchersExclude` | | `Spec => []OneLauncherPerRun` |

The only assumptions are those the modules state of their constants: the two
`BoundsAssumption` and `DeadlineAssumption` (the bounds are natural numbers),
`ClockAssumption` (a finite set of sessions and at least one slot),
`BuildsAssumption`, `EventsAssumption` and `RunsAssumption`; and `LeaseCovers`
for the one theorem.

**The queue.** `TypeInv` strengthens the type invariant with two facts about
handlers (which steps hold a prompt, and that the last finished message is
terminal). `InOrder` alone is not inductive: a claim only knows that the handler
picked the head of the queue *before* an await. `QueueInv` adds what survives the
await: admission is in order (`AdmittedInOrder`), the pick is still the head or
is finished (`PickIsStillHead`), one handler owns a claim (`OneOwnerPerClaim`),
and a pick that is still pending means that no fence was raised since
(`NoClaimUnderStopFence` needs it: only a prompt that was processing raises a
fence, and with one processing the pick would not have been the head). To keep
the induction readable, every action is first classified by what it does to the
queue (lemma `StepKinds`): it settles messages, admits one, picks, claims, gives
a claim back, sends, or does so in a failing write; each kind preserves
`QueueInv`. The fence, the session's status and the budget have invariants of
their own, inductive relative to `QueueInv`.

**The deadlines.** None of the three properties is inductive: that a deadline is
in reach after a step depends on what vouched for it before. `SessionInv` says,
of one session, which store vouches for its wake-ups at each stage: during a
delivery the claim in the index, or the file that the delivery has written
(`DeliveryInv`); between deliveries the row, or an operation about to write it
(`RestInv`); in a host that is down the next scan; and that what vouches for it
is soon enough (`Timely`). `HostInv` says what the marker means while the host
is up: it is not clean, and unread files hold the recovery point back. `IInv` is
their conjunction with the type invariant. A step of one session leaves what
`SessionInv` reads of the others alone (`OthersAreSame`), so each action is
proved for its own session, in a lemma of its own, and the host's actions for
all of them.

**The clock.** `EntryInv` says that an entry is in `inFlight` exactly while a
handler of that session runs; then claiming only sessions without an entry gives
each at most one. The bound follows from the capacity a wake-up claims within,
by the cardinality of the union of what counted and what is claimed. The type
invariant carries that `sooner` is a strict order of the sessions that are due,
which every wake-up restricts to those it leaves (`RowsOK`, `FewerInOrder`). That
the process is not left asleep over work then follows step by step: each action
ends in an arming for the state it leaves, or in the blind timer (`ArmingWakes`).

**The shutdown.** That a source reported retired is gone depends on whose source
was stopped. `IdInv` says that a recorded handle is the generation's own
(`Handles`), that while the row still names an earlier source its own does not
exist (`PriorHandle`), that nothing is of a later generation (`Generation`), and
that a source whose lifetime is over is gone (`Expired`). `Waits` says that the
record of an interrupted prompt is paused and in a phase that admits nothing.
`ExInv` follows the snapshot requests: a capture or stop in progress is the one
the record's phase asks for (`Calls`), a shutdown's request is awaited and single
(`ShutdownAsks`), a routine one nobody awaits is held in the record until its
settle time (`RoutineAsks`), one checkpoint is requested at a time
(`OrdinaryAsks`), and a source told to prepare takes no more (`Told`). Most
actions are first shown to be `Steady` or `Quiet`, which preserve the two.

That a session continues from everything its source did is an induction over all
paths of the record, because between the last prompt and the receipt nothing in
the record says that the source is at rest. `CleanInv` says it: the prompt of a
serving source is the one the queue is processing (`Serving`, `Saving`), so that
claiming a shutdown records it as interrupted; a shutdown that interrupted
nothing, and for which nobody chose, is of a source that executes nothing
(`Rested`) and stays so (`Stilled`, `Starting`); its request for a capture saw
all the work (`Kept`), and so has the receipt it retires the source for
(`Whole`). `Begun` ties the phases to the claim and `Watching` the watchdog to
the row it fenced. Most actions are `Calm` and preserve all of it at once.

`SaveInv` is why a save never goes back: a source the provider created from an
image has its work (`Restored`, `Held`), and a request that may still commit was
made after the last commit (`AskedSince`), since a capture follows every
checkpoint (`Settled`). The steps that commit nothing and begin no source are
`Retains`.

**The forwarder.** `Control`: the task that walks the buffer or sends again what
is pending holds the lock, and who awaits a write does not run. `Data`: an event
in its first write is not buffered, and what a flush or a direct write has in
hand is still buffered or pending unless it was released. `Once` says, of one
event, that the event of a flush is at the head of the buffer while it is in it,
that a bind finds every write of a critical event in flight, and that nothing
that waits or is being written was written before; frame lemmas carry it over
the steps that do not touch the event. `Recovery` is what `NothingStranded`
needs besides: it speaks of a moment when no task is at work, and so of what some
task was about to do in every state before. While the connection is open and
unexcused, a buffer that is not empty has a task in the lock's queue, or one that
walks it on this connection (`Drained`), and what is pending is written, being
written, or on the list of the bind (`Answered`); `Queued` and `Writes` say that
those who wait are in the queue and on which connection the others write.

**The image builds.** Every invariant is stated of one build, and a step of
another build leaves what it reads alone. A capture is asked for once because it
is asked only by whoever has reserved its operation in the row (`AskedOnce`,
`Reserved`). A source is owed because the obligation is recorded before it can
exist, and whoever holds a finding that would clear it has seen the source gone
(`SourceInv`, `FoundInv`, `CleaningInv`); artifacts likewise (`ArtifactInv`,
`AskInv`, `SettledInv`). That no ready image is deleted needs the lease: under
`LeaseCovers` a finalizer at work on a building row holds its lease and knows
what became of the artifact (`LeaseInv`), the builds whose images it deletes
cannot become ready (`ReplacedInv`), and a ready one has its image (`ImageInv`).

**The automations.** `AllMoves` classifies what any step does to a run's status:
it stays, an active run moves on, a timeout is corrected, or a firing is admitted
under its guard. That outcomes are final follows, and the bound on firings too,
because only an admission adds to `InFlight`. `AccountInv` follows the
accounting: of the callers of one invocation at most one is about to increment,
and then the invocation is marked and has no strike yet (`Counting`), and neither
the streak nor a pause outruns the invocations that were struck (`Streak`).
`Launched` follows the launchers: a launch at work is of the attempt the row is
at, and until it sends its session has no prompt (`LaunchOK`); a run that waits,
or waits to start, has given its prompt to nobody (`RunOK`). Of any number of
ticks that read a waiting run one claim then wins, since it moves the attempt
that they all compare.

Every safety and action property of the passing runs is proved. Only model-checked are
the liveness properties (`FenceIsReleased`, `ServingDrainsQueue`,
`WakeUpIsAttempted`, `DueIsClaimed`, `ShutdownsSettle`, `AcceptedIsSettled`,
`DebtsAreSettled`, `RunsSettle`, `FailuresAreCounted`, `StreakIsReset`): liveness
under fairness is beyond the prover. So is induction over data; none of the
modules has a recursive operator, and what they need of sequences is stated of
single steps.

## 5. Plan

Done: the queue, the deadlines, the clock, the shutdown protocol, the forwarder,
the image builds and the runs of an automation, each with its proofs. What would
come next, in order:

1. The other kinds of provider in `SandboxShutdown` (a snapshot that stops its
   source, a retained resume), as constants of the module.
2. `ActivitySupervisor`: the prompt tasks of the runtime, and their one report.
3. `StatusProjection`: late writes from one session to D1.
4. `AutomationSchedule`: `next_run_at` under ticks that straddle a slot, one-shots
   and event keys.
5. The lease protocols of the job queue and the callbacks.

## 6. Where the code and its comments disagree

Shown by a run:

- **Hung handler** (`HungHandler`). host-alarm-clock.ts:34 says that a handler
  that never returns cannot narrow the clock for the other sessions. `arm()`
  watches the soonest lease of all claims, and only while it is to come. An
  abandoned delivery's claim stays in the index with its lease past, so it hides
  every later lease; once the bound is full of hung handlers again, no timer is
  set. The same happens when something arms between the end of the first lease
  and its timer. At the default of 8 slots this takes 8 counted handlers that
  hang.
- **Unsaved stop** (`UnsavedStop`). watchdog-effects.ts:130 says that the
  heartbeat watchdog preserves a ready workspace. Within the capture allowance of
  the drain deadline `captureCheckpoint` answers "held" without a snapshot
  (sandbox-shutdown.ts:833) while the record is still running, so nothing holds
  the source and it is destroyed with its work (watchdog-effects.ts:228).
- **Two executions** (`TwoExecutions`). ADR 0004:78 says that retirement evidence
  of an old execution proves nothing of an ambiguously invoked restore.
  `reserveStartup` carries `sourceRetired` over to the new generation
  (sandbox-shutdown.ts:542); after an ambiguous restore `recover("restore_saved")`
  reports saved on the old evidence while the new execution may run.

Observed while modelling, without a run:

- schema.ts:162 says that the stop deadline "blocks dispatch until stop is
  confirmed or times out". When a checkpoint holds the sandbox,
  `terminateUnresponsiveSandbox` returns at once and
  `resumeAfterSandboxTermination` clears the fence although the prompt may still
  run. A second way: the watchdog's resumption, after an await across a reboot,
  clears the fence of a later prompt. `SessionQueue` has both, and no
  property covers the hazard: one that forbids it would be false of the code, and
  `NoClaimUnderStopFence` and `FenceIsReleased` stay true of a fence released
  too early.
- message-queue.ts:497-502 says a superseded pump pumps again so that a prompt is
  not left "pending with nobody else to dispatch it". The paths of a lost claim
  (587) and of a failed lookup whose prompt was withdrawn (471) return without
  pumping. The alarm's redrive repairs it later (`ServingDrainsQueue`).
- session-status-service.ts:284 says an idle session's status is "read off its
  finished messages". `reconcileAfterExecution` writes the outcome of the call
  that settles last, and a handler that awaited its projection may overwrite a
  later prompt's outcome.
- crash-recovery.ts:62 says of the marker's time that every deadline armed before
  it is in the index. A deadline whose arming the index refused, or which the
  clock stopped retrying, is only in its session's file, and counts as nothing
  abandoned: the stop is marked clean and the next boot skips the scan. The
  session's next activation repairs it.
- host-alarm-clock.ts:273 says that a claim whose settlement failed comes back
  when its lease runs out. The wake-up at the lease's end only abandons
  deliveries; nothing arms the claim again until the next start, as the header of
  the file (line 41) says of abandoned deliveries.
- host-alarm-clock.ts:158 says that a drain does not wait for a delivery whose
  lease ran out. `drain()` waits for every entry of `inFlight`, so one such
  delivery uses up the shutdown's budget and makes the stop unclean. It loses no
  deadline: an unclean stop is scanned.
- event_forwarder.py:209-216 says that a cancelled send "must not strand its
  event". It is put back in the buffer and nothing drains it: on a connection
  that stays open and idle it waits for a later event or for what line 304 calls
  a reconnect that may never come. `NothingStranded` excuses such connections.
- event_forwarder.py:331-337 says that a stage spent waiting for the lock proves
  nothing about the connection. `_cancelled_write_ws` is shared: a drain that
  times out while it waits retires a healthy connection when another drain was
  cancelled by its owner during a write.
- automation-store.ts:1542 says that only the transaction that observes a slot may
  advance it, or a slot is skipped. A firing that meets a duplicate key advances
  `next_run_at` unless it is later already (invocation-service.ts:337), from the
  successor it computed itself.
- failure-service.ts:62-63 says that a strike lands only once no sibling waits to
  retry, since its pause would withdraw that retry. The aggregate is read (line
  57) before the mark is won (65) and the strike counted (67), and neither asks
  again: a sibling whose launch fails in between waits, the strike pauses the
  automation, and the next tick withdraws the retry. TLC finds it in
  `AutomationRuns` with two targets.
- A worker that dies between winning the mark of an invocation and its increment
  loses the strike: the sweep looks only for firings without the mark.
- A firing that completes fully resets the streak also when a later firing has
  failed and been counted meanwhile; its strike is then forgotten.

## 7. Not modelled

- The runtime's activity supervisor and the rest of the bridge: their tasks end
  in the one report that `SessionQueue` receives, and in the stop that
  `SandboxShutdown` has as `Quiesce` (shutdown_preparation.py:61).
- The projections to D1, the callbacks, autofix and the job queue: protocols over
  rows shared by processes, outside the session's own state; most of them are
  the plan's last items.
- Authentication, authorization and HTTP routing: checks on a request without
  state that several steps share.
- The web client and the bots call the control plane and have no authority over
  its state. Of the bots, the deduplication of webhook deliveries is left out.
- The infrastructure providers are adapters of external services: the modules
  have what the lifecycle manager, the coordinator and the finalizer see of them.
- The shared types and the MCP server have no state.
- A wall clock that is stepped backwards between two writes hides files from the
  boot's scan (crash-recovery.ts:122). Time is abstract in `SessionDeadlines`, so
  no property covers this hazard. The other two in `PROJECT.json` without a
  property are the race at failure-service.ts:64 and the fence released at
  execution-stop-coordinator.ts:112, both described in section 6.
- Inside the modelled components: what each subsection of section 2 leaves out,
  and the circuit breaker and the boot reports of the lifecycle manager,
  client sockets and hibernation of the WebSocket manager, the arithmetic of
  costs, and the residency limits of the Node host's registry.
