# Verification of DeepSeekGUI

DeepSeekGUI is a desktop product (`apps/deepseekgui`) over a vendored agent
harness (`packages/`).  What the product promises its user about a conversation
is kept by the harness: the agent loop with its inbox and tools, the factory
that owns agents, the store of their logs, the jobs they start, the reminders
that wake them, and the desktop host that starts, moves and stops it all.  This
directory models those parts in TLA+, model-checks them with TLC and proves what
matters most with TLAPS.  Paths below are relative to the repository;
`agent.ts`, `inbox.ts`, `tool-calls.ts` and `index.ts` without a directory are
those of `packages/core/agent-loop/src`.

## The system

| Part | State it keeps | Operations | Meets the others by |
| --- | --- | --- | --- |
| Agent driver (`agent.ts`) | `phase` (idle, maintenance, running, each with an `AbortController` and a latched wake), the locals of `turn`, `step` and `kick` | `send`, `followup`, `steer`, `inject`, `cancel`, `runMaintenance`; the driver loop | claims from the inbox, appends to the session, runs tools, emits `agent/*` |
| Inbox (`inbox.ts`) | two ordered lists, as a projection of the session log | `splice`, `append`, `prepend`, `replace`, `remove`, `clear`, `claim` | appends `agent/inbox/spliced`, notifies listeners, which may call back |
| Tool scheduler (`tool-calls.ts`, dispatch in `packages/core/tools`) | group, pool and commit cursors, dispatched promises | `executeToolCalls`, `runGroup` | called by a step; logs `tool/call` and `tool/result` |
| Recovery (`packages/core/session/src/repair.ts`) | fold of unanswered calls and open boundaries | `observe`, `results`, `openTurnClosers` | closes a failed step, or a log found open after a crash |
| Session (`packages/core/session`) | the event log and its projections | `append`, observers, surface | refuses an append made from inside an append's observers |
| Agent lifecycle (`index.ts`, `packages/core/agent`) | factories, owners, registries, one memoised teardown per agent | create, resume, restore, publish, dispose; mount and dispose a factory | takes the store's write claim, constructs and disposes the driver |
| Session persistence (`packages/session/session-persistence-jsonl`) | log file with its torn tail, lock, claim, per handle a mutation chain and a buffer | create, open, append, flush, routed events, close | write-behind consumer of the session |
| Background jobs (`packages/jobs/jobs-local`, `tool-jobs`, the bash tool) | job records, output rings, waits, cleanups of owners | start, push, pull, wait, kill, settle, dispose | reports ends into the inbox; a foreground command is a job waited on |
| Schedules (`packages/schedule/schedule`) | rows in memory and on disk, one timer, one chain of turns | create, update, delete, drive, stop of a session, dispose | sends a message to a session and waits for its flush |
| Desktop host (`apps/deepseekgui/src`) | durable selection, status, queue, process, homes and manifests | start, switch, restart, stop, migrate, verify, clean up, quit | spawns the harness, which writes its home |
| Retry, approvals, goals, subagents | one registry or timer each | see `PROJECT.json` | callers of the driver, or awaits of a step |

The program is JavaScript: one piece of code runs at a time, and two pieces
interleave only at an `await`, at the microtask between an async return and its
caller, or where code calls listeners.  The hard behaviours are all there:
calls on the agent from listeners and from other tasks while the driver awaits
something (sends, cancels, maintenance), an abort that races the thing awaited,
a failure of one stage while others run, and a process that dies with part of
the log not yet written.

What makes each part correct:

- driver: the log's boundaries balance however a turn ends; no message is lost
  between two lists or taken twice; an abort stops everything after it, keeps
  its first cause and converges; a wake that cannot be delivered now is
  delivered later, and only then;
- inbox: the log replays to the live lists, and notices tell the same story;
- scheduler: results in the model's order, every call answered, nothing running
  past its step, no body entered after an abort, no call reported as not having
  run when it did;
- lifecycle: an identity has one writer at a time, nobody who gave up becomes
  live, a failed attempt leaves nothing behind, and a disposal settles;
- persistence: what was acknowledged survives crashes and repairs, no event is
  missed or repeated, one mutator at a time, a close stores all it has seen
  or says so;
- jobs: the model hears of each end once, no job outlives its owner, the output
  of a settled job is whole up to its caps;
- schedules: a due task is tried, nobody's change is undone, no acknowledged
  occurrence is announced again;
- host: stored data survives every move, a stop wins over a boot, and a resting
  host is really at rest.

## Modules

| Module | Models |
| --- | --- |
| `Inbox` | operators of the two lists: a splice, and what a step boundary claims |
| `InboxLog` | the inbox alone: every operation, any integer coordinate, listeners that call back, the recorded log and its replay |
| `AgentDriver` | the driver over the inbox: public calls, turn and step loop, latch, abort, retries |
| `MessageDelivery` | the abstract promise about messages that `AgentDriver` implements |
| `ToolScheduler` | one step's tool calls, their bodies, failures and crash, and recovery |
| `AgentLifecycle` | factories, attempts to create, resume or restore one identity, teardown |
| `LogOwnership` | the abstract promise about writers that `AgentLifecycle` implements |
| `SessionPersistence` | write handles of one stored session in several processes, with write failures, torn tails and crashes |
| `DurableLog` | the abstract promise about the log that `SessionPersistence` implements |
| `JobRegistry` | the job registry, the model's controls over it and its reporter, foreground commands |
| `Schedule` | reminders: rows, chain, timer, drive, restarts |
| `HarnessHost` | the desktop host: controller, process adapter, migration, quit, power loss |
| `AgentDriverProofs` | theorems about the driver: types, latch and balance; messages and refinement; aborts; turns and wakes; before them the lemmas on the operators of `Inbox` |
| `InboxLogProofs` | replay and notices of the inbox; before them the lemmas on concatenation and splicing |
| `SchedulerProofs`, `LifecycleProofs`, `PersistenceProofs`, `JobProofs`, `ScheduleProofs`, `HostProofs` | theorems about `ToolScheduler`, `AgentLifecycle`, `SessionPersistence`, `JobRegistry`, `Schedule` and `HarnessHost` |
| `MC*` | constants of the instances |

### `AgentDriver`

`pc` names the point the driver is suspended at, and an action is the code from
one such point to the next.  `phase`, `abort`, `wakeRequested` and `step` are
the fields of `Phase` (`step` only as zero or not); `target`, `turnEnds` and
`returned` are locals of `turn()` and the values its awaits return; `batch` is
what a boundary has claimed.  `fate` follows each message through the log
(pending, claimed, admitted as `user/message`, canceled, dropped) and
`turnOpen`, `stepOpen`, `toolsOwed` are facts about the log.  `disposing`
remembers that a disposal has been asked for in this activity, whatever reason
the signal kept.

Calls notify listeners before they are finished, and listeners call back.
`stack` holds the calls that wait for theirs: a waking `send` between its splice
and `wakeDriver`, a `cancel` between the two splices of `clear()` and between
the second one and its end (`ClearPrompts`, `FinishCancel`), and a wake whose
`kick` has not come to its first await.  Any call may start above what waits,
and what waits goes on, innermost first, and finds the phase as it then is.
The driver itself goes on only when nothing waits.

At an append point (`AppendPoints`) a caller is an observer of the session and
may cancel, but `Session` refuses appends, so a send, a removal or a cancel that
would clear a non-empty inbox throws without effect.  A claim of both lists is
two appends and an admission is one for each message, with no look at the
signal in between: `ClaimFor`, `ClaimPrompt` and `AdmitMessage` are a step each.

Left out: the failure of the session append itself inside `turn()`; the content
of messages and requests; a step whose truncated output named tools (the code
drops such calls, so none is owed).
A wake to replay that is dropped because an `agent/status` listener has started
a driver meanwhile is the same as the code's `wakeDriver`, which does nothing
for a live driver.  Identities of messages are used once, as the ids are.

### `ToolScheduler`

Calls are `1..N` in model order.  `Classify`, `StartCall`, `Prepare`, `Race`,
`Finalize` and the others are `executeToolCalls` and `runGroup` between their
awaits; bodies, the abort signal and faults (`Faults`: a registry stage fails, a
dispatch rejects, the process crashes) move on their own.  The execution mode of
a call is drawn when it is read, since the registry may change between two
reads.  A crash keeps any prefix of the log, as a write-behind log does.  The
prepare, deny and post-execute waterfalls are one stage that settles or fails;
whether a tool concludes the turn is left to the driver, which takes either
answer.  `Rest` forgets memory that is not read again.

### `InboxLog`

`Mutate` clamps the coordinates as `mutate()` does, refuses a duplicate
identity, records the splice and pushes the notices still to be sent on
`stack`; while a notice is being heard (`open`) any operation may start above
what remains.  `Replayed` is the projection of `inboxProjectionDefinition`.

### `AgentLifecycle` and `LogOwnership`

One identity, any number of attempts to own it.  `stage` is the await an attempt
is at in `createAgent`, `resumeWith` or `restoreOrCreateConfigured`, `teardown`
the await its memoised teardown is at, and `op` and `handle` follow a backend
call that may outlive the attempt which abandoned it.  Factories are mounted one
after another as reloads do, and a disposal waits for the snapshot `joined`.
An owner's fiber unloads (`ownerGone`) and may be back before an attempt looks at
it again: `prepare()` refuses one that is disposed or unloading now, and only the
signal of a resume's open and read, `ownerAbort`, remembers an unload.
`LogOwnership` is acquire, publish, release; the writer is the holder of the
backend's claim, the published writer the registered agent.  Left out: agents
without a backend, several identities at once, the reporting of failed starts.

### `SessionPersistence` and `DurableLog`

`chain`, `step` and `batch` are the mutation chain of a handle, its head at an
await of `persistContiguous` (lease, truncate, rewrite, write); `buffered`,
`timer`, `drainPaused` and `draining` are the batching of routed events;
`closing` walks through `close()`; an event routed while it releases the lock is
still buffered.  A write that fails leaves nothing (its rollback is taken to
succeed); a crash releases the lock of its process and leaves any prefix of the
batch, its end torn or not.  `flush()` of a log that exists changes nothing
and is left out.  `DurableLog`
keeps what was acknowledged in place and numbers what a reader is given without
gaps.  Its `log` is what recovery would return, torn events included.

### `JobRegistry`

Every registry operation is synchronous, so an action is one of them; what is
awaited is the producer's `done`, a wait and the settlements of a teardown.
`ring` holds the offsets at which chunks start, so trimming by whole chunks is
exact.  `heard` is a history: by which of a notice, a released wait or its own
kill the model was told of an end.  `cause` is `settleCause`, `announced` the
cause the settled event carried.

### `Schedule`

The serialized chain is modelled by its turns: callers are concurrent, so the
next turn is anyone's, and only what a call read before it joined is kept in
`waiting`.  A drive is scan, then per group `resolve`, `flush`, `commit`.  A
publish that fails leaves memory alone and may have reached the disk; a restart
reads the disk.  Instants are small integers up to `Horizon`, the last one a
date can hold.

### `HarnessHost`

`queue` and `job` are `queueTail` of `harness-controller.ts`: operations wait
their turn, and the one under way is at one await of `bootSteps` or of a stop
(`job.pc`).  `calls` are the two places that await `stopProcess`, the job and
`stop()`; `child`, `stopped` and `settled` are the fields of `dsh-service.ts`.
`woken` is a caller (the startup, a quit, a migration) whose operation has
settled.  A continuation and the next queued operation run before anything from
outside, which `Quiet` says.  A home is a set of facts in one file, `manifest`
the record a migration leaves in its target, `dialog` the command a confirmation
box was opened for: each command that would disrupt a running harness is checked
against a migration, then held, and submitted at any later moment, also in the
middle of a move.  The application takes commands from the moment its window is
open, while the session import is still offered (stage `opening`), so that
`BootBegins` may queue the first start behind them, or give way to a stop.  The
`fate` of a process records what nobody else remembers: that it died in the gap
the exit watcher leaves, or outlived a stop or the host.  Constants name the
places of a managed home, the homes of the user's own, the processes and the
faults: a process survives its stop, a file operation throws (a manifest write of
`VerifyOnStartup` and `Cleanup` too), a process dies behind its loaded page.
Power may fail at any await and in the middle of a copy.  One confirmation is
open at a time.

## Runs

| Run | Asks | Bounds |
| --- | --- | --- |
| `driver` | log balance, message accounting, latch; the driver implements `MessageDelivery`; aborts converge, latches are served, a driver whose steps or turns end starves nothing | 2 messages, every target and wakeup pair, 2 causes; steps, requests and nested calls without bound |
| `inbox_replay` | the recorded splices replay to the live lists; notices account for every arrival and departure | 2 messages, coordinates -2..3, 4 splices |
| `tools` | model order, every call answered, quiescence, honest reports, the step closes | 3 calls, pool of 2, all faults |
| `lifecycle` | rollback, quiet disposal, no canceled agent goes live; implements `LogOwnership`; disposals and waits end | 3 attempts on 2 factories: a resume before, a create and a configured restore after a reload |
| `persistence` | what a close has seen it stores or fails, nothing stays claimed or locked, one mutator; implements `DurableLog`; events reach the log, a close settles | 2 processes, 3 handles, 2 events, failing writes and syncs, crashes |
| `jobs` | notices are news, nothing outlives its owner, output is whole, ends reach the model, disposals end | 2 jobs (a pumped foreground command, work whose cancel throws), 1 agent, 1 reader, limits 1 and 2, caps 2 and 1, 3 bytes |
| `schedule` | no task is forgotten at rest, changes survive, no acknowledged occurrence repeats, what is due is tried | 2 tasks, 1 session, clock and horizon 2, 1 waiting call, all faults |
| `host` | data survives, running is true, no move verifies itself, a stop wins, rest is real | 2 managed homes, 1 of the user's, 2 processes, 1 fact, 3 commands, 1 of them early, 2 starts, all faults |
| `driver_disposal`, `persistence_late`, `jobs_teardown`, `host_shutdown` | statements of the repository that the code does not keep | as small as shows it |

Why the bounds are enough.

- Driver: two messages let one be claimed while one waits, or both wait in
  either list, or be claimed by the two splices of one claim; the turn, the step
  and the latch distinguish no more.  Two causes, one of them disposal, are what
  the code compares.  Steps and requests are not counted, as the code counts
  neither, and calls nest as deep as messages to send or to clear let them.
- Tools: three calls with a pool of two make the pool refill, an exclusive call
  follow a parallel pool, and results settle out of order.
- Inbox: coordinates reach before, into and past each list two messages can
  make; four splices reach every nesting of two operations, `clear` included.
- Lifecycle: a predecessor that drains, a successor that creates and one that
  waits, which is each pair of races at one identity.  The reload is the only
  reason for a second factory.
- Persistence: two handles of one process meet at the claim, the third at the
  lock; two events make a batch that can tear in its middle, and a second batch
  after a repair.
- Jobs: one job that overflows its live cap by one byte and one that cannot be
  canceled; the reader and the foreground call are the two ways to wait.
- Schedule: two tasks form a group and two groups; the clock passes one interval,
  reaches the horizon and goes back.
- Host: one fact tells a home that has the data from one that has not.  Three
  commands are a move, a switch from a box opened before it, and one more to
  disturb them; one of them may come before the harness is first started, which
  tells an early stop, restart or move from a late one.  Two starts are one move
  and one verification, from the default place, which is where a new installation
  is.  Two processes are
  enough because a spawn is refused while a stray one serves the port.

The bounds in guards are `MaxLog` (`Callable`), `MaxSeq`, `Budget`, `Timings`, `MaxNow`, `MaxCalls`
(of calls that wait, in `Schedule`; of commands, in `HarnessHost`), `MaxEarly` (of
commands before the first start) and `MaxRuns`.
`inbox_replay` alone uses symmetry of messages, and has no liveness.

Deadlock is checked for the driver and for schedules.  It is switched off where a run really ends: a
closed step, a full log, attempts, handles and jobs that are all spent, and the
host when its starts are used up.

Fairness.

- `AgentDriver`: weak fairness of the driver, of the maintenance task and of the
  rest of a synchronous call: JavaScript runs queued continuations, and each
  thing awaited receives the signal so that it settles.  Nothing of callers, and
  not that a turn ends: a model may call tools for ever, so `InboxServed` says
  of next-turn messages only what a driver whose turns end promises, and of
  next-step messages what one whose steps end does.
- `ToolScheduler`: the scheduler and each body's settlement; neither an abort
  nor a failure is assumed.
- `AgentLifecycle`: one weak fairness per attempt, for whichever of its
  continuations can run, and its factory's steps.
  Setup listeners and the opening of a log may never settle, except the creation
  a configured restore does not race.
- `SessionPersistence`: the head of a chain, a close and the batching deadline of
  each handle: file operations settle, well or badly, and timers fire.
- `JobRegistry`: producers that were canceled end, settled ones are recorded,
  calls whose wait is over return.  A producer nobody cancels may run for ever.
- `Schedule`: strong fairness of the drive, since its turns share a first-in
  first-out chain with callers who come and go; weak of the rest and of the timer
  once its instant has passed.
- `HarnessHost`: none.  Every wait of the host has a deadline, and `RestIsReal`
  is the safety form of the same promise: when nothing is left to run or to wait
  for, no stop, quit, start or migration is half way.

### What the violation runs show

- `driver_disposal`: `agent.ts:217` says disposal never latches.  A signal keeps
  its first reason, so a disposal that follows another cancel is not seen and a
  later wake is latched and starts a turn.
- `persistence_late`: a drain that fails inside `close()` leaves the batching
  timer armed (`storage.ts:277`); it fires after the lock and the claim are
  released and appends without them, where `storage.ts:63` says a write handle is
  its session's single mutator.  The passing run leaves out exactly this: a deadline
  that fires after a close has taken its last look (fault `late`).
- `jobs_teardown`: a kill that reaches a job a teardown has canceled overwrites
  its cause (`jobs-local/src/index.ts:491`), and the end is announced to the agent
  being disposed, where the contract in `packages/jobs/jobs/src/index.ts:58` says
  `teardown`.
- `host_shutdown`: a stop that arrives while a switch cleans up after its failed
  boot finds the failure recorded and the pending selection erased, where
  `harness-controller.ts:6` says that a stop records no failure and leaves the
  pending selection to the next start.  `ShutdownWins` is what does hold:
  no boot begins and nothing is promoted, and when the stop has settled a process
  that still lives is one whose stop was given up.  A process may well be spawned
  after the request, by a boot that was about to; the boot has to stop that orphan,
  and the mutant that leaves it to the stop, which has already looked, violates
  the property.

### Seen while modelling, without a run

- A listener of `agent/inbox/discarded` that sends a waking message while
  `cancel()` clears the inbox of a maintenance task or an aborted activity
  latches a wake; `agent.ts:178` then resets it with the message still pending,
  where `agent.ts:209-211` says that a wake is suppressed only when the queue no
  longer holds it.  `LatchNeverLost` and `LatchServed` except just that
  (`Clearing`).
- A turn that never ends (tools called for ever, requests always retried) never
  takes a queued prompt.
- A waking message that arrives between a turn's last inbox check
  (`agent.ts:392`) and `kick`'s `finally` block stays queued behind an idle agent;
  `packages/jobs/tool-jobs/README.md:173` knows the gap.
- An owner that unloads while a create opens its log, or while a resume repairs
  the log or stores its suffix, and is back before `prepare()` (restarted, or
  waiting for a dependency) passes its checks: `assertActive` refuses only a
  disposed fiber (`index.ts:507`, `index.ts:904`) and `effect` an unloading one.
  The agent goes live in a scope that was unloaded since, where `index.ts:864`
  has "setup aborted: owner disposed during setup" for the open and the read.
  `CanceledNeverLive` says what does hold.
- An event published while `close()` awaits the release of its lock
  (`storage.ts:251`) is routed to the closing handle, since its entry goes only
  after that (`storage.ts:256`).  `close()` resolves without it; it is lost, or
  written by the deadline past the lock, as in `persistence_late`.  The comment at
  `storage.ts:227-229` speaks of producers that publish while close waits for
  mutations; those are covered, by `CloseLosesNothing`.
- The open of an abandoned resume keeps the write claim until the backend settles
  it (`index.ts:881`), so a restore after a reload can be refused.
- A restart that reaches the controller during the later awaits of `proceedQuit`
  (`main.ts:641`) starts a process that outlives the application.
- `use-managed-home` (`control-dispatch.ts:226`) returns to the default place, not
  to the one a migration moved to (`launcher-state.ts:28`); the data stay where
  they are.
- `verifyOnStartup` marks a move verified after a start that failed
  (`main.ts:4196`), and before a cleanup the content is compared again, which is
  why `DataNeverLost` holds.
- After a stop that failed, `startHarness` starts a new process beside the old
  one; when the old one dies, its late exit notice can mark the new, running
  process failed.
- A second move forgets the pending cleanup of the first, and leaves an old copy.
- A process that dies after its page has loaded and before `bootSettled` is set
  (`main.ts:1093`) is noticed by nobody: the watcher ignores the exit
  (`main.ts:1002`), the settle wait polls a page that is already there, and the
  status `running` is published over a dead process, where the comment at
  `main.ts:995-997` leaves an exit before the end of the boot to the recovery path
  (a race in `waitReady`, or a `loadURL` that fails).  The fault `silent` is on in
  the runs, and `RunningIsTrue` excepts exactly this exit; every other one, also in
  the same boot, must be noticed.
- A move made while the session import is offered (`main.ts:4192`) is judged by
  `verifyOnStartup` in the same run, where the comment at `main.ts:4194-4196`
  says that this start is the restart the move waited for.  `SameRunNeverVerifies`
  speaks of every other move.

## Proofs

Theorems hold for any messages, causes, attempts, factories, calls, processes,
handles, jobs, agents, tasks, sessions, homes, facts, faults, limits and bounds.
A property marked * is checked by a run as well.  With these, every safety and
action property of the passing runs is a theorem.

| Module | Theorem | Property | Rests on |
| --- | --- | --- | --- |
| `AgentDriverProofs` | `TypeCorrect` | `TypeOK` | `ValueAtPoint` |
| | `LatchCorrect` | `LatchJustified`* | `ControlInv` |
| | `BalanceCorrect` | `LogBalanced`* | `ControlInv` |
| | `AccountingCorrect` | `MessagesAccounted`* | `ControlInv`, `MailStep`, the lemmas on lists |
| | `DeliveryRefined` | `DeliveryKept`* | the same, and `MessagesAccounted` |
| | `AbortCorrect` | `AbortStopsWork` | `ControlInv`, `MailStep` |
| | `CauseCorrect` | `FirstCauseWins` | `ControlInv` |
| | `CompletionCorrect` | `CompletedOwesNothing` | `TurnInv` |
| | `CeilingCorrect` | `MaxTokensSticky` | `ControlInv` |
| | `PromptCorrect` | `OnePromptPerTurn` | `TurnInv` |
| | `ConvergenceCorrect` | `LatchNeverLost` | `ControlInv`, `TurnInv` |
| `InboxLogProofs` | `InboxInductive` | | `IInv` is inductive |
| | `InboxTypes` | `TypeOK` | `IInv` |
| | `ResumeRebuilds` | `ReplayRebuilds`* | `Rebuilds` |
| | `NoticesAgree` | `NoticesOwed`* | `UniquelyPending` |
| `SchedulerProofs` | `SchedulerTypes` | `TypeOK` | `IInv` |
| | `OneAnswerInOrder` | `ResultsInModelOrder`* | `LogInv`, `WindowInv` |
| | `EveryCallAnswered` | `ClosedIsAnswered`* | `LogInv`, `PointInv` |
| | `NoBodyLeftBehind` | `Quiescent`* | `CallInv`, `PointInv` |
| | `NotRunIsTrue` | `UnrunIsHonest`* | `LogInv`, `CallInv` |
| | `AwaitedIsUnderWay` | `WaitsOnBodies` | `GroupInv` |
| | `StepsRunOut` | `WorkRunsOut` | `WindowInv`, `GroupInv` |
| `LifecycleProofs` | `TypeCorrect` | `TypeOK` | `IInv` |
| | `OwnerCorrect` | `PublishedOwnsLog` | `HandleInv`, `TeardownInv` |
| | `ListenersCorrect` | `ListenersSeeLiveAgent` | `TeardownInv` |
| | `RollbackCorrect` | `RollbackComplete`* | `HandleInv`, `TeardownInv` |
| | `QuietCorrect` | `ClosedIsQuiet`* | `JoinInv` |
| | `CancelCorrect` | `CanceledNeverLive`* | `CancelInv` |
| | `OwnershipRefined` | `OwnershipKept`* | `HandleInv`, `TeardownInv` |
| | `DisposalGoesOn` | `NoneHoldsDisposal` | `WaitInv` |
| | `DrainingGoesOn` | `DrainingIsHeard` | `WaitInv` |
| `PersistenceProofs` | `TypesKept` | `TypeOK` | `IInv` |
| | `NeverWedged` | `NothingWedged`* | `OwnerInv` |
| | `CloseIsComplete` | `CloseLosesNothing`* | `MemoryInv`, `TurnInv` |
| | `OneMutator` | `SingleMutator`* | `OwnerInv`, `TurnInv` |
| | `LogIsDurable` | `AckedNeverLost`* | `MemoryInv`, `DiskInv` |
| | `NoneStranded` | `NothingStranded` | `OwnerInv`, `TurnInv` |
| | `ClosesEnd` | `ClosesRunOut` | `TurnInv`, `FailInv` |
| `JobProofs` | `JobTypeCorrect` | `TypeOK` | `IInv` |
| | `WaitsAreOnLiveJobs` | `NoStaleWaiter` | `CallInv` |
| | `LiveJobsAreListed` | `LiveIsListed` | `IInv` |
| | `NoticesAreNews` | `NoticeIsNews`* | `HeardInv` |
| | `TeardownIsComplete` | `NothingOutlives`* | `TeardownInv`, `ForcedInv` |
| | `LimitIsHeld` | `LimitHeld` | finite sets |
| | `JobsSettleOnce` | `SettledOnce` | `HeardInv` |
| | `SettledJobIsWhole` | `OutputComplete`* | `RingInv` |
| | `NoEndIsLost` | `NoEndUntold` | `CallInv`, `Told` |
| | `DisposalHasStopped` | `WaitsOnCanceled` | `DisposalInv` |
| | `DisposalOnlyNarrows` | `NoneJoins` | `DisposalInv` |
| `ScheduleProofs` | `ScheduleInvariant` | | `IInv` is inductive |
| | `ScheduleType` | `TypeOK` | `IInv` |
| | `NeverForgotten` | `NoneForgotten`* | `TimerInv` |
| | `ManagementSurvives` | `ManagementHolds`* | `StoreInv`, `CallInv` |
| | `NeverRepeated` | `AcknowledgedNotRepeated`* | `StoreInv`, `SnapshotInv` |
| `HostProofs` | `HostInductive` | | `IInv` is inductive |
| | `HostTypes` | `TypeOK` | `IInv` |
| | `DataSurvives` | `DataNeverLost`* | `SwitchInv`, `DiskInv` |
| | `LaterRunVerifies` | `SameRunNeverVerifies`* | `DiskInv` |
| | `RestIsFinal` | `RestIsReal`* | `QueueInv`, `CallInv`, `BootInv`, `MoveInv` |
| | `RunningIsSo` | `RunningIsTrue`* | `RunInv`, `MindInv` |
| | `StopWins` | `ShutdownWins`* | `QueueInv`, `JobInv`, `MindInv` |

The assumptions are the named ones of the modules: a mark for "nobody" or "no
row" is not a value, functions given as constants have their types, bounds are
naturals, and the jobs are finitely many.  One hypothesis on the faults comes on
top: the theorems of `PersistenceProofs` assume `Sound`, that no deadline fires
after a close has taken its last look (no fault `late`).  The code does let it
fire, and `persistence_late` shows `SingleMutator` fail with that fault.

Driver.  `TypeOK /\ ControlInv` is the inductive invariant under all of them: for each
point of the driver, which phase, boundaries and claimed messages go with it,
which calls may wait there, and that an abort, or a send classified under one,
belongs to an activity.
`TypeOK` alone is not inductive, since `turnEnds` stays an ending after
`CloseStep` only for what the driver knows of the value its step returned
(`ValueAtPoint`).  `SendAfterAbort` makes the latch inductive: a send classified
after an abort finds that abort again when it wakes the driver, however deep it
waits on the stack, because no driver step and no end of maintenance runs in
between.

Messages.  The actions do only a few things to them (`MailStep`: leave them,
begin or end an activity, clear, insert, remove, replace, claim, begin or end an
admission, admit, drop).
`NextMail` shows that every step is of one of these kinds; each kind then keeps
`MessagesAccounted` by the lemma on its list operation, and is one action of
`MessageDelivery` or a stutter.  That claimed messages are in hand only at some
points (`BatchAtPoint`) is what lets a claim begin with nothing in hand and an
activity end with nothing lost.

Turns.  `TurnInv` adds what the locals mean: a turn begins with no step, only a
driver that has just gone idle has a wake to replay, and an ending decided as
completed owes nothing except between a tool step of the same turn and the end
of that step, where `turnEnds` still holds the previous decision.

Inbox.  `Rebuilds` says that the log comes to the live lists: there is a chain of
boxes from the empty one, each the splice of the one before, that ends in them.
A mutation extends the chain by one box, and `ReplayedIs` shows by induction over
the length of the log that `Replayed` walks the same chain.  The coordinates need
no hypothesis because what is recorded is what `mutate()` has clamped.  The
notices are an account kept per message: what a subscriber has heard and what
the stack still owes add up to one for a pending message and to nothing for the
rest.  A splice moves the account by its removed and inserted messages, which the
lemmas on splices compute; `clear`, which owes its second half, needs the lists
to hold each message once (`UniquelyPending`), as the others do.

Tools.  `WindowInv` divides the calls into the committed, those under way and
those not started, and ties the log to the two cursors: calls up to `started`,
results below `committed`.  `CallInv` says where each call is by its place in
that window, so that a body runs only while its call is in flight, and `PointInv`
what is left at each await.  A crash keeps a prefix of the log, and what holds of
a log in model order (`Orderly`) holds of its prefixes; that recovery then
answers every call is by induction over the calls it walks.
That a step ends is a measure (`Rank`): the point it is at, the signal that may
still be aborted, and the calls still to classify, to start, to collect and to
commit, with the bodies still to enter and to settle.  It goes down at the end of a
group because `GroupInv` keeps the group's last call from being before its first.

Lifecycle.  An attempt's types say nothing of who owns the log.  `HandleInv` ties
each stage to the backend call, the handle and the claim that go with it;
`TeardownInv` says how far a teardown may be at each await of its attempt, which
is what the memoisation and the wait for a publication come to; `CancelInv` that
an abort which came before publication is in the attempt's own signal; `JoinInv`
that a disposal's snapshot holds every attempt not at rest.  The refinement maps
each action to an acquisition, a publication, a release or a stutter.
`WaitInv` says why what is waited for comes: factories are mounted in order, each
after those before it were torn down, so that the agent a configured attempt waits
for belongs to a factory that was; no lifecycle of such a factory is left without a
teardown; and an open whose backend has no answer to give has lost its race to its
signal.

Persistence.  `OwnerInv` says which stage of a handle holds the claim and the
lock, and that a handle which is not open remembers nothing.  `TurnInv` bounds
the chain (a turn and at most one drain behind it) and says what goes with each
await.  `MemoryInv` numbers what a handle has not stored, batch and then buffer,
from its cursor without a gap; `DiskInv` numbers the log and says what the holder
of the lock knows of it: its cursor is the end of the log and the events
recovered from a torn tail are the ones that follow.  A torn write and a repair
then keep the numbering, which is the refinement, and a close that finds its
buffer empty, with no turn left, has stored what it was given.
That a close ends is again a measure (`Left`): the stage of the close, the turns on
the chain with the awaits left in the one at its head, a timer still to fire, a
buffer no queued drain will take, and the events that may still be published, which
the session's bound `MaxSeq` limits: a close whose session never stopped
publishing would have no such measure.  A drain that fails a close is its last
(`FailInv`), and the steps of other handles leave the measure as it is.

Jobs.  `HeardInv` follows what the model knows of a job through its life,
`CallInv` ties a call to the status of the job it awaits: together they make
`NoticeIsNews` inductive.  `TeardownInv` says that every listed job of an owner
is in the hands of the owner's cleanup or of the registry's, and `ForcedInv` that
a job which settled before its producer was failed by force; `NothingOutlives`
follows.  `RingInv` says that the model's cursor is at a chunk of the ring, at its
end, or before it all.  The trim at a settlement, which keeps what the model has
not read, therefore never cuts inside or after the chunk the cursor is at: all
that the live cap had kept of the unread output is still there.
For disposals, `WorkStep` sums up what an action can do to a job (start it, cancel
it, settle it) and to a call: a job that is stopping never runs again, and nothing
starts a job or a wait on behalf of an agent or a registry that is going.

Schedule.  `StoreInv` says that the disk is level with the memory or one change
ahead, and that a row never waits for an instant it has recorded.  `SnapshotInv`
is the heart: between the scan and the commit of a delivery nothing else has a
turn, so each member is still the row that was read.  `TimerInv` says that a run
which is not driving and has no request left has armed the timer for every row
the last delivery did not fail.

Host.  The invariant has a part for each thing that can be half done.  `QueueInv`,
`JobInv` and `CallInv` say that a stop is the last operation, and which operation
is at which await; `BootInv`, `MoveInv` and `DownInv` that a start, a migration and
an application that is not running have exactly the operations and callers they
should; `StatusInv` and `RunInv` what the published status promises.  `MindInv` says
that no process is forgotten: one that lives is the harness's own, or a stop of it is
awaited or was given up, and what a boot stands on is alive or died unseen.  `SwitchInv`
carries the data through a move: until its switch has settled the target holds
nothing the source has not, and the source is the last home known good, so that a
roll-back comes back to it.  `DiskInv` is the promise itself with what the
manifests record.  The lemmas on the queue say what appending and taking the head
do to all of these at once.

Only model-checked: liveness, since fairness is beyond the prover
(`AbortConverges`, `LatchServed`, `InboxServed`, `StepCloses`, `FactoryCloses`,
`DrainingEnds`, `EventsReachLog`, `CloseSettles`, `EndReachesModel`,
`DisposalEnds`, `DueIsTried`), and what the violation runs show.  Of most the
safety half is proved:

| Liveness | Safety half | What it says |
| --- | --- | --- |
| `StepCloses` | `WaitsOnBodies`, `WorkRunsOut` | what is awaited was dispatched, and each step leaves less to do |
| `FactoryCloses` | `NoneHoldsDisposal` | nothing a disposal waits for can be held for ever |
| `DrainingEnds` | `DrainingIsHeard` | the awaited teardown is under way |
| `CloseSettles` | `ClosesRunOut` | each step of a close leaves less to do, in a bounded session and without the fault `late` |
| `EventsReachLog` | `NothingStranded` | an event in a buffer has a deadline or a drain on its way |
| `EndReachesModel` | `NoEndUntold` | an end not told has a call about to tell it |
| `DisposalEnds` | `WaitsOnCanceled`, `NoneJoins` | what is awaited was canceled, and nothing joins it |
| `DueIsTried` | `NoneForgotten` | at rest, a timer covers every row the last delivery did not fail |

TLC adds that the step which is due is taken.  Recursive
definitions are written as recursive functions, and induction over them takes the
least element of a set of naturals at which the claim fails (`SetInduction`).

## Plan

1. Proofs: the safety halves of `AbortConverges`, `LatchServed` and `InboxServed`,
   for which the driver needs a measure over its requests, retries and tool steps.
2. `RequestRetry` and `Approvals`: a timer and an answer against abort and unload;
   then goal rounds, as callers of the driver.
3. Subagents composed with `AgentLifecycle`; the tools service's waterfalls with
   wrappers that retry; the storage domain and atomic write.
4. The host's updates, relocation helper and profiles; session deletion composed
   with `SessionPersistence`.

## Not modelled

The user interfaces (workbench, web, chrome, CLI), provider, MCP, LSP, file and
git adapters, the plugin host and configuration, and the format migrations: they
render, parse or wire, and their effect on the core is an await that settles or
fails.  They are most of the repository's lines.  Within the modelled parts:

- driver: a session append that fails inside `turn()`, the content of messages;
- lifecycle: agents without a store, several identities, the reporting of failed
  starts;
- persistence: the failure of the rollback of a failed append, power loss with
  unsynced links and deletion records, the lease's inode check, read handles,
  an explicit append concurrent with routed events, deletion, and the events
  recovered from a tail that was truncated when their rewriting failed and the
  handle closed;
- jobs: controllers and scopes, progress lines, spill files, pull sources that
  fail, observers' reads, the wake budget, a registry replaced by a reload, a
  foreground command refused by the limit or not promoted on its timeout;
- schedules: calendar rules, readers, the retention of delivery history, events
  of earlier versions, the refusal of a session whose key does not match;
- host: profiles and their discovery, updates, the relocation helper, the
  terminal, what boots write that are never published, the picking of a target
  (one step with its check), the startup's reclaiming of a home.

`PROJECT.json` lists every part with its status, and the hazards of the code at
their lines with the properties that cover them.
