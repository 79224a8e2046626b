# Verification of the harness core

This directory specifies and checks the part of the harness that decides what
an agent does and in which order: the driver of an agent and its inbox, the
session log it writes and how that reaches storage, the scheduler of its tool
calls, the repair of a log after a crash, the registry of background jobs, the
reminders and the goal rounds that start turns on their own, and the lease that
makes one host the owner of a home. The source paths below are relative to
`src/packages/`.

- [Inventory](#inventory)
- [Modules](#modules)
- [Runs](#runs)
- [Fairness](#fairness)
- [Proofs](#proofs)
- [What the runs disprove](#what-the-runs-disprove)
- [Not modelled](#not-modelled)
- [Plan](#plan)

## Inventory

The program is a set of plugins on one JavaScript event loop. Code between two
`await`s is atomic except that it calls listeners synchronously, and a listener
may call back into the API. Nearly every hard behaviour here is one of: a
listener in the middle of an operation, state that is stale after an `await`,
and a process that dies between two writes.

| Component | Source | State | Operations | Hard behaviour | Correct when |
|---|---|---|---|---|---|
| agent driver | `core/agent-loop/src/agent.ts` | phase (idle, maintenance, running; controller, latch, turn, step), activity promise, locals of `turn()` | `send`, `cancel`, `runMaintenance`, `whenIdle`, `kick`, `turn`, `preStep`, `step` | reentrant listeners, cancel at any await, wakes during convergence, exceptions between appends | one driver; wakes are served; cancellation spends nothing more; every turn and step it opens is closed |
| inbox | `core/agent/src/inbox.ts` | two ordered lists, `next-turn` and `next-step`; outcome of each message | `append`, `prepend`, `replace`, `remove`, `clear`, `claim` | removal and claims between awaits | each message has one outcome; one follow-up per turn, in order |
| agent lifecycle | `core/agent-loop/src/index.ts`, `core/agent/src/index.ts` | registries, disposal | create, resume, dispose | disposal of a busy agent, from a listener too; messages while its scope unwinds | disposal outlives all work begun before its wait ended; disposal ends |
| session log | `core/session/src/index.ts`, `invariant.ts`, `repair.ts` | event list, trace (open turn, open step, pending calls) | `append`, replay, repair | no reentry in `append`; crash anywhere | only well nested events; repair balances and converges |
| tool-call scheduler | `core/agent-loop/src/tool-calls.ts` | groups, pool, slots, cursors, failure | start, settle, commit, drain | completions in any order, barriers, abort, rejections | results in model order; exclusive calls alone; every call answered; nothing left running |
| checkpoint policy | `session/session-checkpoint-policy/src/index.ts` | none | flush before a step, a tool body, at a turn's end | crash between flush and effect | a tool that ran is never reported as not started |
| session persistence | `session/session-persistence/src/` | pending, in-flight and durable events; prepared sources | enqueue, flush, load, prepare, commit | write-behind failures, concurrent loads, crash during repair | the durable log is a prefix; load publishes a repaired log |
| background jobs | `jobs/jobs-local/src/index.ts`, `jobs/tool-jobs/src/index.ts` | records, waits, deadlines, owner cleanups | start, read, kill, wait, dispose | settle against abort or timeout, late producers, teardown | quota holds; no completion lost or repeated; disposal ends and is quiet |
| schedules | `schedule/schedule/src/` | folded schedule, transaction queue, run, timer, idle wait | create, delete, drive, deliver | crash between delivery and its record; a clock that jumps back; triggers during a run | an occurrence is delivered once; a confirmed change survives; an active reminder is looked at again |
| goals | `goal/goal/src/`, `goal/goal-round-driver/src/` | goal fold, authority, reservation, checkpoint | goal commands, drive, admit, settle, restore | reservation used after an await; coalesced triggers; cancellations anywhere | only current rounds enter; a halted goal stays halted; steering is kept in order; an armed goal is driven |
| approvals | `interaction/user-approval/src/`, `host/apiproxy/src/interaction-broker.ts` | pending questions | ask, answer, abort | abort against late answer | one decision per call |
| home lease | `apps/cli` (`src/apps/cli/src/home-lease.ts`) | listening endpoint | acquire, probe, release | probes that time out, hosts that exit | one owner per home |
| subagents | `subagent/subagent/src/` | children, continuations | spawn, continue, settle | parents that end first, restarts | a child's result is delivered once |
| session surface, compaction | `core/session/src/surface.ts`, `compaction/` | projection of the log | fold, compact, rewind | compaction beside a running turn | the provider transcript stays valid |
| the rest | tools, settings, credentials, skills, terminals, workflows, hosts, SDK, clients | see `PROJECT.json` | | I/O, user interface, catalogues | |

Interactions. `agent.ts` drains the inbox, appends to the session log (whose
companion `invariant.ts` refuses an ill-nested event), calls `executeToolCalls`
inside a step and is awaited by `dispose`. Persistence observes `append`; the
checkpoint policy makes a tool body wait for storage; `repair.ts` reads what
storage kept. The jobs registry settles on its own and sends notices to the
inbox through `tool-jobs`. Schedules and goals keep their state in the session
log, wait for `session/flush` before they rely on it, and start turns by
follow-ups: schedules from inside the agent's maintenance, goals from a task of
their own whose round the `agent/pre-step` hook then admits or drops.

## Modules

`SessionTrace` is the abstract specification: what the session log leaves open
and which event may follow. It is a translation of `invariant.ts`, the
executable oracle of the code base. The three writers of the log - driver,
scheduler, repair - are each checked against it.

`AgentInput` and `DurableLog` are the other two: what an agent promises of each
message, and what persistence promises of each event. `AgentLoop` is shown to
implement the first, `WriteBehind` the second.

**`AgentLoop`** - driver, inbox, disposal. `phase` is `this.phase`, `activity`
its identity (the code compares phase objects). `pc[a]` is where the `a`-th
activity is; an activity is a driver or a maintenance task. Locations are of
three kinds: *Awaiting* (a real `await`: the pre-step waterfall, the request,
the tools, the turn-stopping waterfall, the gap between turns), *Sync* (a cut
inside synchronous code where a listener runs; nothing else proceeds while a
driver is there) and *Reporting* (inside an `agent/error` emit). `stack` holds the API calls interrupted by their own listeners; `CanCall` lets a
listener of a kind in `Listening` call the API again, up to `MaxDepth` deep. A
listener inside `append` may only cancel (keeping the inbox, since `append`
refuses reentry) or dispose. `mail[m]` is the list, the fate and the claiming turn of each message; its
`promise` (*late*: sent to maintenance or to a cancelled activity; *live*: sent
to a driver nobody cancelled, or late and met by a driver that opened a turn)
and `history` exist for the properties only; `history.parting` is how the last
driver left. Disposal is *waiting* in `whenIdle`, then *unwinding* the agent's
scope, then *detached*; the API may be called in each of these, since the code
closes nothing.
Actions follow the methods: `Send`/`FinishSend`, `Cancel`/`CancelClear`/
`FinishCancel`, `RunMaintenance`/`FinishMaintenance`, `WhenIdle`, `Detach`, and for the
driver `Open`, `Veto`, `Claim`, `Reject`, `EnterEmpty`, `StartStep`, `Respond`,
`CallTools`, `AcceptContext`, `FinishTools`, `EndStep`, `StepBoundary`,
`Stopped`, `Catch`, `FinishError`, `EndTurn`, `Continue`, `Retire`, `Leave`.
Abstractions: the provider request with its retries is one await; whether the
waterfall leaves messages is a boolean; session vetoes are modelled for
`turn/start`; the awaits of assembling context and of the waterfall are one;
what the unwinding of the scope does to the agent's plugins is left out.

**`ToolCalls`** - `executeToolCalls`. Calls are numbered in model order;
`group`, `nextStart`, `started`, `committed`, `inFlight`, `slot` are the
locals of `runGroup`; `pc` names its awaits. Plugins act at any await: they
settle, reject, abort the turn or change a call's execution mode. After an
abort the calls that never started are answered one at a time (`SkipCall`
appends the `tool/call`, `AnswerSkipped` its result), as
`appendSkippedToolCall` does. `trace` is shared with `SessionTrace`.

**`SessionRecovery`** - one session across process lives. `log` is what the
process appended (after a crash, what storage kept), `durable` the length known
to be in storage. The writer appends what a turn appends; `Crash(kept)` keeps
any prefix not shorter than `durable`, since a background batch may have been
written and a torn line never parses as an event. `Prepare` computes the
closers of `interruptedTurnClosers` and replays the result through the
companion; `CommitRepair` writes them, possibly not all; `Publish` happens only
when nothing is left to close. `effects` remembers which tool bodies ran. The
scan and the replay are recursive functions of the number of events read, so
that the proofs can speak of each prefix.

**`Jobs`** - the registry of `jobs-local` with what `tool-jobs` announces. One
record per job, one per wait; methods are atomic up to their first await, and
producers, timers and aborts come in any order. A producer owes nothing. A
`killed` outcome is folded into `completed`. Controllers, access checks and
output text are left out. A `kill` whose `cancel` throws changes nothing and is
a stutter; a `cancel` that throws during teardown force-fails the record.
`late` marks jobs started on a registry already being disposed: they are
dropped without a cancellation, and the two properties that would notice say
so.

**`WriteBehind`** - one live session between the session log and the log file.
The events are `1..log`. The variables of the controller are the fields of
`SessionWriteBehind`; `active.stage` follows the promise chain of `startWrite`
(queued behind the serialized operations, settled by the backend, back in the
queue, rejected). `barrier` is the shared flush with the await it is at. `init`
and `seed` are `live.init` and the copy `initFor` takes; `callers` are the
callers of `flush`: a policy, `retireCore`, the plugin's disposer.
`appendLiveBatch` writes the events of a batch that are above the cursor and
refuses one that leaves a gap. The backend has three outcomes: stored;
*refused* (nothing stored, a partial write rolled back); *unacknowledged*
(everything stored, then the close, the `stat` or the directory sync fails). A
timer is a macrotask: `Deadline` waits until no promise reaction is due. A
failed initialization is not retried, neither by a flush nor by the deadline,
although the persistence README (line 38) says that an "explicit flush or
backend teardown retries immediately"; only a reload of the plugin tries again.
A rollback that fails as well and the protocol of preparations are not
modelled. The length of the batching window is abstract.

**`Schedule`** - the reminders of one session: the fold of `schedule/change`,
the due decision, the runtime, the two tools that change something, and the
queue that serializes them. `log` holds the changes, the splices of the inbox
and the messages that enter turns, since all three survive a crash by being
folded again; `durable` is the part a flush has made safe, and a crash keeps
that and perhaps more. `Folds` and `Inboxes` are the two folds after each prefix
of the log, as recursive functions. The active records are a set: ids grow as
reminders are created, so target and id order them as the code's stable sort by
target over its insertion-ordered map does. The clock goes on, steps back (`Rollback`), and may move
between the two readings of one drive. A drive is `queued`, in its `preflight`
flush, in `maintenance` (fold, decide, follow up, record, in one synchronous
task), or in its `barrier` flush. `DriveSends` has three outcomes: sent and
recorded; not sent; sent and only partly recorded because an append was
refused, which faults the runtime. What the code accepts, and the properties
therefore exempt: a failed flush leaves a due reminder to the next trigger
(`gaveUp`); a dispatch that is not recorded is repeated (`unrecorded`; the
README of the package, line 116, admits a "Narrow crash duplicate window"). A
user's cancellation, or a crash between claim and `user/message`, loses the
follow-up of a reminder that is already recorded; no property denies it.
Abstracted: instants and time zones, forks (`seedLength`), timer segments,
`schedule_list`.

**`GoalRounds`** - a goal, its round driver and as much of the agent as they
meet. `goal` is the fold with its authority (`armed`); `corrupt` says that the
fold failed, and nothing is modelled beyond it. `driver` is `DriverState`, with
`at` for the place of its task: inside the caller of `requestDrive` and before
`state.run` is assigned, after a flush, or in the next turn of its loop. The
first matters: `goals.block` emits `goal/changed` from inside it, which starts
a second task. `agent` is a small driver: claim, assemble, the hooks behind the
goal driver's, an optional outer hook, enter, step, end, the gap between two
turns (`NextTurn`, where a cancellation still finds the driver running), retire;
another hook may refuse a batch with or without a round (`DownstreamRejects`,
`OthersReject`); what follows in one job of the event loop is a step that nothing else may precede (`Quiet`).
`history` is for the properties: what entered, what was dropped, and whether
the goal must stay down (`halted`: a turn ended badly, or a cancellation
dropped the round while a turn ran). A batch holds at most one message that is
not a steer, so what `restoreOtherClaimed` puts back is the batch without its
round. Left out: session start, disposal of the agent and of the plugin, a
`followup` that throws, messages of round zero, the ids that
`restoreOtherClaimed` skips because they are pending again; the microtasks
after the second check are one job.

**`HomeLease`** - `acquireDshHomeLease` on one machine. `listener[e]` is who
listens on an endpoint (a port, or the pipe of a home on Windows; `platform` is
chosen once), `at` and `index` are the place of each host in the loop over the
candidates. A failed `listen` and the probe that follows are two steps, and
between them anybody may start, exit or die. A probe ends with the answer of a
host (`Answered`), a refused connection (`Unreachable`), or the timer or a
stranger's nonsense (`TimedOut`). Hosts of another home may share ports.
`vacated` and `silent` are history. An endpoint closed under its owner by the
system (`onCompromised`) is not modelled.

`MC*` modules instantiate these for TLC. `AgentLoopProofs`, `ToolCallsProofs`,
`SessionRecoveryProofs`, `JobsProofs`, `WriteBehindProofs`, `GoalRoundsProofs`,
`ScheduleProofs` and `HomeLeaseProofs` hold the proofs.

## Runs

| Run | Question | Bounds |
|---|---|---|
| `AgentLoop_listeners` | Do one-driver, nesting, honest cancellation and the fate of every message survive listeners that call back? | 2 messages of either target, 2 steps a turn, 1 maintenance task, depth 2, all listeners |
| `AgentLoop_convergence` | Are late wakes replayed, and does disposal end? (liveness) | 2 messages, 1 maintenance task, depth 2, listeners of all but `cancel` |
| `ToolCalls_pool` | Order, barriers, abort, answers, drain, termination | 3 calls, 2 at a time |
| `SessionRecovery_crashes` | Is every crash repaired once, with honest results? | 2 turns, 2 steps, 2 calls a step, any number of crashes |
| `Jobs_registry` | Quota, completions, first-wins outcome, disposal | 1 agent and the unowned bucket, limit 1, 2 jobs, 2 waits |
| `HomeLease_turnover` | When can a home have two owners, and does every attempt end? | 2 hosts of a home with 3 candidate ports, 1 of a home that shares 2 of them, strangers on 2 ports |
| `WriteBehind_flush` | Does the log file keep a growing prefix and every flush its promise, over failures, overlaps and a reload? (with liveness) | seed of at most 1 event, 3 events, 3 callers of flush, 2 refused appends, 1 reload |
| `Schedule_reminders` | Once, confirmed, foldable, attended, over clock jumps and crashes? | clock 1..3, 3 inputs (calls, cancels, jumps, faults, crashes) |
| `GoalRounds_driver` | Do only current rounds enter, does a halted goal stay halted, is steering kept, is an armed goal driven? | caps of 1 and 2 rounds, 5 inputs (commands, messages, cancels, maintenance, faults) |
| `HomeLease_exclusive`, `WriteBehind_storedonce`, `GoalRounds_outer` | Claims of the documentation the code does not keep | the smallest that show it |

Why the bounds are enough. Two messages are one to run a turn and one to meet
it anywhere, and two follow-ups show merging and overtaking. Two steps
separate the first step of a turn (claims both lists) from the others. Depth 2
is a listener that itself triggers a listener. A pool of 2 with 3 calls has a
call that waits, one that finishes early and a group boundary in every
position. Two calls with two steps have a call that is answered, one that is
recorded and one that is only in the message. With a limit of 1 and two jobs,
one job occupies the place and the other wants it; two waits are one that
aborts or expires and one that stays. Two hosts are a rival and an incumbent,
and three ports let a host pass two candidates; the third host of
`HomeLease_exclusive` stands for the second life of a host. The code has 32
candidates, and `SplitNeedsTurnover` is proved for any number. Three events are
one in the seed, one in a write and one behind it; two refused appends are a
background write and the flush that retries it. Three ticks with an interval of
one let a fixed-rate reminder come due twice, and catch up over two; three
inputs are two reminders and one fault, or one reminder, a cancellation and a
crash. Five inputs of `GoalRounds` are a create, a steer that is claimed with a
round, a command that makes the round stale, and two more to meet the
restoring; two rounds tell a settled from a reserved one. Counters
(`MaxMessage`, `MaxStep`, `MaxMaintenance`, `MaxJobs`, `MaxWaits`, `MaxTurn`,
`MaxSeed`, `MaxLog`, `MaxFaults`, `MaxReloads`, `MaxTime`, `MaxInputs`) are
bounds of the guards and have no counterpart in the code.

Deadlock is checked in the `HomeLease` runs only: an agent at rest with its
messages used up, a scheduler that returned, a registry that is gone, a closed
plugin and a session whose inputs are spent stop for good.

Properties worth knowing:

- `OneDriver`: the identity test of `retireRunning` is what keeps a driver
  whose phase was replaced by a replay from retiring its successor.
- `LatchIsEarned`: the latch of a cancelled driver stands for a wake sent after
  that cancellation, because `send` classifies before it inserts.
- `LateWakeServed`: a wake sent to maintenance or to a cancelled activity is
  replayed at convergence.
- `InputServed`: `AgentLoop` implements `AgentInput`: one fate per message, one
  follow-up per turn and in order, all steering at each claim.
- `NothingStranded`: a driver that ends its last turn of its own accord claims
  all it accepted before it retires. It is false of every other way to leave, and
  the property names them (`Excused`): the driver was *cancelled*; its
  `turn/start` was *vetoed*; a pre-step hook *rejected* the proposed step, also
  after steps that ran; something *failed* in the turn, also after steps that ran;
  or the turn was *stepless*, its first batch rewritten to empty. These retire
  without another look at the inbox, and what was accepted stays parked until the
  next wake (finding 6).
- `AbortSeals`: after an abort nothing is claimed and no step opens.
- `HonestOutcome`: `turn/end` always has a reason; it is an error or an abort
  exactly if something was thrown in the turn, an abort only of a cancelled turn,
  and completion neither after a cancellation nor after an output ceiling. A
  cancellation by a listener of the error itself keeps the error.
- `OnlyLateWorkRuns`: when `dispose()` stops waiting, nothing begun by then runs,
  nor any replacement of it: what runs afterwards was started since. That
  something may is finding 10.
- `BarriersHold`: no exclusive call overlaps another even when the registry
  changes its answers while the pool runs.
- `RecoveryOK` has two parts besides its types: a repaired log is balanced, and
  the closers left after an interrupted repair are the rest of the same closers.
- `RunIsNeverNotStarted`: relates the checkpoint before a tool body to the
  classification that repair makes lives later.
- `CompletionReachesSomeone`: a completion is announced, or a reader, killer,
  teardown or answering wait has it; a rejected wait does not count.
- `SplitNeedsTurnover`: the exclusion that the lease does give. As long as no
  endpoint changes hands and owners answer in time, a home has one owner,
  whatever ports strangers and other homes occupy.
- `FlushContract`: `WriteBehind` implements `DurableLog`, which is also what
  `SessionRecovery` assumes of storage: a growing prefix of the log, a flush
  that covers what preceded it, no release before all is stored.
- `QueueOK`: no event falls between the seed, the queue, the write in flight and
  the file, and whatever is queued has somebody who will write it.
- `DeliveredOnce`: no two messages in the log present the same occurrence of a
  reminder, although a drive reads the clock twice, the clock jumps, the inbox
  survives crashes and a fixed-rate reminder catches up.
- `ActiveIsAttended`, `ArmedIsDriven`: triggers that arrive while a run or a
  flush is under way are not forgotten.
- `RoundsReplay`: a round that enters the log is the one the fold of the goal
  expects; the fold throws otherwise, and the goal is lost.
- `HaltStops`: after an aborted, failed or truncated turn, or a cancellation
  that drops the round while a turn runs, no round enters until a human creates
  or resumes the goal.
- `SteersKept`: steering claimed with a round that is dropped, possibly several
  times, still enters in the order in which it was sent.

Two exemptions are weaknesses of the code rather than of the model.
`ArmedIsDriven` lets a driver wait for an idle status that may never come: a
prompt queued during maintenance and then cancelled or removed leaves
`competingQueued` set, and the maintenance ends without a status event, so an
armed goal stalls until something else runs. `HaltStops` leaves out
cancellations that find no turn running, for the same reason: no idle status
follows (below); without the conjunct `~Idle` in `cancel` TLC shows it.

Two runs leave out a listener on purpose, because the property fails with it:

- `AgentLoop_convergence` has no listeners inside `cancel`. `cancel` clears the
  inbox, calling discarded-listeners, before it resets the latch and aborts
  (`agent.ts:142-147`): a wake such a listener sends to a cancelled driver
  survives the clear, loses its latch and is parked. Adding `"cancel"` to
  `Listening` shows it as a violation of `LateWakeServed`.
- It also has `DisposeInAppend = FALSE`. A listener inside `append` that
  disposes an agent with pending input makes `cancel` throw before it aborts,
  since the inbox cannot append there; the `finally` clause then detaches the
  agent with its driver running (`index.ts:508-516`). `TRUE` shows it as a
  violation of `OnlyLateWorkRuns`.

Every property has a mutant: a plausible slip in a mapped definition (an
operator marked *mutant* next to it) under which TLC finds it violated.

## Fairness

Safety runs state none. `AgentLoop_convergence` assumes that a JavaScript call
that started returns (`Return`), that a resolved promise resumes `whenIdle`,
and that each activity advances: synchronous code runs to its next await, and
what it awaits - provider, plugins, tools, maintenance task - settles, and the
scope of the agent unwinds (`Detach`). That is what the code itself relies on:
neither `whenIdle` nor the wait for the scope has a timeout. No fairness is
given to clients: nobody has to send, cancel or dispose. `ToolCalls_pool`
assumes that the scheduler's continuations run and that dispatched bodies
settle. `Jobs_registry` gives fairness to the cancellation deadline and to the
continuations of disposal, and none to producers. `HomeLease_turnover` assumes
that an attempt's next socket call returns or its timer fires, and nothing of
strangers. `WriteBehind_flush` assumes that the backend answers and that the
event loop runs what is due, and nothing of the session or of the callers; the
answer may be a failure, so `RetryHeals` speaks of flushes after the last one.
`Schedule` and `GoalRounds` are checked for safety only: that their drives
follow a trigger is `ActiveIsAttended` and `ArmedIsDriven`, which need none.

## Proofs

TLAPS checks the theorems below for every value of the constants: any bounds,
any number of messages, calls, jobs, waits, hosts, callers, inputs, any set of
listeners, logs of any length, any delays of reminders. Each rests on the named
assumption of its module (the bounds are naturals, the sets of cases are among
the cases; the clock of `Schedule` can show at least one time), plus what the
table says. TLC checks the same properties on the small instances of the runs.
Every invariant and every action property a passing run checks, and the
refinements, are theorems.

| Module | Theorem | States | Assuming |
|---|---|---|---|
| `AgentLoopProofs` | `TypeCorrect` | `Spec => []TypeOK` | |
| | `DriverOwnership` | `Spec => []OneDriver` | |
| | `RestBalanced` | `Spec => []RestIsBalanced` | |
| | `LogImplemented` | `Spec => LogAccepted`: the driver implements `SessionTrace` | |
| | `AbortedTurnsAreSealed` | `Spec => AbortSeals` | |
| | `OutcomesAreHonest` | `Spec => []HonestOutcome` | |
| | `LatchesAreEarned` | `Spec => []LatchIsEarned` | |
| | `InputImplemented` | `Spec => InputServed`: driver and inbox implement `AgentInput` | |
| | `WorkIsNeverStranded` | `Spec => []NothingStranded` | |
| | `DisposalAwaitsAll` | `Spec => []OnlyLateWorkRuns` | `DisposeInAppend = FALSE` |
| `ToolCallsProofs` | `ResultsAreOrdered` | `Spec => []ResultsOK` | |
| | `ReturnsAnswer` | `Spec => []EveryCallAnswered` | |
| | `ExitsAreQuiet` | `Spec => []QuietAtExit` | |
| | `BarriersAreKept` | `Spec => BarriersHold` | |
| | `ToolEventsAreAccepted` | `Spec => LogAccepted`: the scheduler implements `SessionTrace` | |
| `JobsProofs` | `RegistryHolds` | `Spec => []RegistryOK` | |
| | `FirstOutcomeStands` | `Spec => OutcomeIsFinal` | |
| | `NoCompletionIsLost` | `Spec => []CompletionReachesSomeone` | |
| | `DisposedOwnersAreQuiet` | `Spec => []OwnerDisposalQuiet` | |
| `WriteBehindProofs` | `QueueIsKept` | `Spec => []QueueOK` | |
| | `ContractIsKept` | `Spec => FlushContract`: persistence implements `DurableLog` | `Faults \subseteq {"refused"}` |
| `SessionRecoveryProofs` | `RepairsAreSound` | `Spec => []RecoveryOK` | |
| | `EveryAppendAccepted` | `Spec => []AlwaysAccepted` | |
| | `NoRunIsDenied` | `Spec => []RunIsNeverNotStarted` | |
| | `OneResultEach` | `Spec => []CallsAnsweredOnce` | |
| `GoalRoundsProofs` | `RoundsAlwaysReplay` | `Spec => []RoundsReplay` | |
| | `SteersAreKept` | `Spec => []SteersKept` | |
| | `HaltedGoalsStop` | `Spec => HaltStops` | |
| | `ArmedGoalsAreDriven` | `Spec => []ArmedIsDriven` | |
| `ScheduleProofs` | `LogAlwaysFolds` | `Spec => []LogFolds` | |
| | `ConfirmedChangesSurvive` | `Spec => []ConfirmedSurvives` | |
| | `OccurrencesAreToldOnce` | `Spec => []DeliveredOnce` | |
| | `ActiveRemindersAreAttended` | `Spec => []ActiveIsAttended` | |
| `HomeLeaseProofs` | `TypeCorrect` | `Spec => []TypeOK`: no probe past the last candidate | |
| | `SplitExplained` | `Spec => []SplitNeedsTurnover` | |

The two assumptions name what the code does not give. `DisposeInAppend` is the
listener that disposes inside an append (see Runs): with it the property is
false. `Faults` leaves out an append that stores its batch and then fails:
with it a batch is stored twice (`WriteBehind_storedonce`), so no prefix is
kept; `QueueIsKept` holds for all faults.

The arguments, module by module. None of the properties is inductive alone; the
strengthened invariants were model-checked before they were proved.

*Driver* (`AgentLoopProofs`, `IInv == TypeOK /\ OneDriver /\ FramesOwned /\
LogFollows /\ FreshSteps`). An interrupted `wakeDriver` or error report returns
later and moves the driver on, so `FramesOwned` says that such a frame belongs
to the driver that owns the phase, that this driver waits for it, and that there
is only one. `LogFollows`: the driver's location determines which turn and step
are open, and the next turn number; `FreshSteps`: a turn counts steps from zero.
Each step of the driver is then a step of `SessionTrace` or leaves the trace
alone. Each part has one lemma per group of actions (client calls, returns of
interrupted calls, synchronous code, resumptions, maintenance).

*Turns and messages* (`AgentLoopProofs`, over that invariant).
- `AbortSeals` is a property of single steps from states of `IInv`.
- `Outcome`: what a turn met is kept in `turnEnds` up to the catch clause, and
  the reason recorded there is final (`Underway`, `Recorded`); a throw is kept in
  `thrown` on the way to it; a clean end with input still queued opened no step
  (`Stepless`).
- `Earned`: while a send that was classified as late is interrupted, the activity
  it was classified against cannot move, because no driver report was
  interrupted after it (`LateHolds`). That is why `send` may classify first.
- `Received`: each list holds exactly the pending messages sent to it, in order
  (`Queued`), and nothing is claimed for a turn before its first claim (`Dated`);
  from it each step is a step of `AgentInput` or a stutter.
- `Stranding`: without a running driver a pending message counts on one only
  after one of the excused partings.
- `Newest`, `Awaited`: the phase belongs to the latest activity, which is the one
  `whenIdle` looks at again; once the wait is over that activity is done, and
  each one after it is newer (`Succeeds`).

*Scheduler* (`ToolCallsProofs`). `Position` orders the cursors at each location,
`Slots` says that a prepared call runs, has its result or failed the scheduler,
`Running` that the scheduler awaits a call exactly while the next one to commit
has none, `Answering` that the log holds the results so far and owes those of
the calls it has seen.

*Crash and repair* (`SessionRecoveryProofs`, `IInv == TypeOK /\ Sound(log) /\
Followed /\ Behind /\ RunIsNeverNotStarted`). `Behind`: a body that ran has its
`tool/call` below `durable`, so every prefix a crash keeps has it too, and the
repair can call it unknown but not unstarted. `Sound` speaks of every prefix of
the log, because a crash may leave any of them: there the scan of the repair and
the companion's trace agree on what is open (`Matched`), the trace numbers turns
as the log does (`Numbered`), no event belongs to a step still to come (`Past`),
a pending call has no result (`Unanswered`) and, unless recorded, no `tool/call`
(`Unrecorded`), and each call has a result, is pending, or was given up by the
loop (`Accounted`). `Followed`: the place of the loop is what its log leaves
open. Seven kinds of event fit such a log (`Fits`); `SoundGrows` says that any
of them keeps it sound and is accepted. The loop writes such events, and so does
a repair: what is left to append after one closer is the rest of the same
closers (`OneMore`), hence convergence and balance (`Repairs`).
What the two folds compute is established in `ScanUnfolds` and `TraceUnfolds`: a
recursive function on the numbers `0..Len(log)` exists because otherwise there
would be a least number it does not reach (`Induction`, which states induction
for a set instead of a predicate).

*Jobs* (`JobsProofs`). `Counting`: a counter of waiters is the number of the
waits it stands for - those neither uncounted by an abort nor finished - which
cannot be said of the counter alone. `AllRegistered`: an unfinished job marked
as reported has somebody who answers for it, and every teardown that must await
it can find it.

*Write-behind* (`WriteBehindProofs`). `Structure` and `Draining` say which write,
barrier, timer and caller exist beside which; `Waited`, that a queue outside a
barrier has a deadline, a write or a flush that will look at it; `Covered`, that
an event is below the cursor, queued or in flight as long as somebody wants it.
The contract adds `Stored`: the file is the prefix that the cursor counts, and a
retirement asks for all of the log.

*Goal rounds* (`GoalRoundsProofs`). `Batched`: only the last message of a batch
is not a steer. `Replaying`: no round is newer than the goal, and one about to
enter is the goal's next, because nothing but another hook comes between the
driver's second look and the append. `Halting`: a halted goal that is still armed
has its fate sealed - the turn was aborted, its round is cancelled, and the idle
status will pause it. `Attending`: a run between two steps waits for a flush, a
checkpoint that is due was requested, and a goal nobody flushes for waits for its
round. `Ordered`: what entered, what is being decided and what waits form one
increasing line, which restoring keeps because it puts the batch in front.
Working these out corrected the model: `HaltStops` had also been stated for
cancellations that find the agent idle, which TLC refutes once it has seven
inputs.

*Reminders* (`ScheduleProofs`, `IInv == Structure /\ Fold(log).ok /\ Attended /\
(~unrecorded => Fresh(log))`). `Structure` holds without the fold: at most one
drive and one tool are queued, and only the head is under way (`Queueing`); what
a tool changed lies below the mark of its second flush, and what it confirmed
below `durable` (`Kept`), which no crash cuts; no claim meets an empty inbox in
any prefix (`Posted`). `Attended` adds that a maintenance which will not pass a
barrier has left a timer, a request, or a failure. A step touches the log in one
of six ways (`LogSteps`); each is folded by a lemma. A batch is one step of the
model and many events, so what is left after each of its dispatches is proved by
induction along it (`SentFolds`): every dispatched record is still active, since
the order of the batch has no repetition (`SortedIs`). `Fresh` speaks of every
prefix a crash may leave, except those between a follow-up and its dispatches
(`Whole`), for which a crash sets `unrecorded`: there no occurrence is told or
waits twice, and each active record is due later than all that was told of it or
waits (`Ahead`). A follow-up presents occurrences no earlier than its
records' targets, so none was told before; its dispatches move the targets past
what it presents, whichever of the two clock readings they use; and a claim
moves one follow-up from the inbox to the log.

*Lease* (`HomeLeaseProofs`). `ListenersOwn`: a host listens exactly where it
owns; `PassedAll`: every candidate behind a host has changed hands since or still
has the listener it met there, which is a rival only if that one stayed silent.
It must survive the steps of all others, which is lemma `PassedStays`.

Only model-checked are the liveness properties (`LateWakeServed`,
`DisposalConverges`, `Terminates`, `TeardownCompletes`, `AttemptsEnd`,
`RetryHeals`), which need fairness and `ENABLED`, beyond the prover.

## What the runs disprove

Three runs end in a counterexample, each a code bug:

1. **Two hosts can own one home** (`HomeLease_exclusive`). A host
   that finds an earlier candidate taken, but not by an owner of its home that
   answers, settles on a later one and never returns; when the earlier port is
   free the next host binds it unchecked. An owner that exits between the failed
   `listen` and the probe is enough, so a restart during another start is. The
   same follows from a stranger on the first port, or from an owner that is
   busy for half a second.
2. **A batch can be stored twice** (`WriteBehind_storedonce`). The JSONL append
   can reject after its bytes are durable - the close of the handle, the `stat`
   for the sidecar, the directory sync after the first publication - and nothing
   is rolled back then. The cursor stays, the batch returns to the queue, and
   the retry appends it again; the next load stops at the repeated
   sequence number (`format.ts:363-370`): it refuses the log as corrupt when a turn
   ended after it, and otherwise drops what follows as a torn tail. For
   the first batch of a session the retry is refused instead, for good.
3. **A stale goal round can enter** (`GoalRounds_outer`). The driver checks the
   reservation a second time when the hooks behind it return, but
   `dsh-agent-instructions` is loaded earlier, so its hook is around the
   driver's, and it awaits after `next()`. A goal edited, paused or cleared in
   that window admits a round that the goal's fold refuses from then on.
   `RoundsReplay`, which is proved, shows that without such a hook the fence
   holds.

Seven statements of docs and comments hold only with an exemption, which the
property named here carries:

4. **A turn can stop right after running tools** (`HonestOutcome`). The
   output ceiling of an earlier step stays in `turnEnds`, so the turn enters
   `agent/turn-stopping` on tool results the model never saw, against
   `runtime-types.ts:262`.
5. **Disposal can latch a wake** (`LateWakeServed`). A driver the user
   cancelled first keeps the user cause, against the comment in `wakeDriver`.
   The replayed turn is waited for, so disposal still ends.
6. **A live driver can leave waking work** (`NothingStranded`, `Excused`),
   against the comment in `wakeDriver` ("Live drivers claim queued work
   themselves"): when its first batch is rewritten to empty, when a step is
   rejected (`agent.ts:274-278`), when anything fails in the turn, also after
   steps that ran (`agent.ts:311-333`), when `turn/start` is vetoed
   (`agent.ts:260-264`), and when it is cancelled.
7. **A failed step keeps unanswered calls** through crash and repair
   (`CallsAnsweredOnce`, `Failed`), against the persistence README.
8. **The cancellation deadline ends teardown**, although the jobs README says
   that a silent producer stalls it: `TeardownCompletes` holds without any
   assumption on producers.
9. **A cancelled goal can restart** (`HaltStops`), when the cancellation drops a
   queued round while the agent is in maintenance and a checkpoint is in flight:
   no public status changes, so the pause that hangs on the idle status does not
   happen; the next pass of `drive()` takes the cancelled attempt for a settled
   one and reserves the round again, against the README of the driver (line 40:
   "so cancellation cannot auto-restart it").
10. **An agent can be detached running** (`OnlyLateWorkRuns`). `dispose()` awaits
   the idle agent, then the unwinding of its scope, and then unregisters it
   without looking at it again (`index.ts:509-514`). A waking message sent
   meanwhile starts a driver (`agent.ts:180-201`), which nobody awaits or cancels.
   The README of `core/agent` (line 45) and the comment of `AgentHandle` say that
   the agent is unregistered once its loop has exited, before the scope is
   unwound. Without the disjunct `phase.activity > history.waited` TLC
   refutes the property.

## Not modelled

Provider, file, process and network I/O, and the user interface; text assembly
(prompts, notices, tool output); configuration files; the plugin framework
(vendored). Of the modelled components: `replace` of the inbox, the moment
between the two clears of its lists, reentry from the claimed notification,
append vetoes other than of `turn/start`, agent creation and resume, runtime
context, session revisions, concurrent preparations and id collisions in
persistence, a rollback that fails, the wake budget of job notices, jobs started
while the registry is being disposed, forks and time zones of schedules, and the
life cycle around the goal driver. The implementation is large - clients, hosts,
SDK, catalogues, hundreds of tools - and the modules cover the part whose
interleavings decide what happens to an agent, a small share of its lines.
`PROJECT.json` lists each component with the reason.

## Plan

Done, in this order: `SessionTrace`, `AgentLoop`, `ToolCalls`,
`SessionRecovery`, `Jobs`, `HomeLease`, `WriteBehind` with `DurableLog`,
`AgentInput`, `Schedule`, `GoalRounds`; the proofs about all of these.

What the proofs could still say: that the liveness properties hold, once a
prover for `ENABLED` is at hand; and the same theorems about the models to come.

Models next: `Approval` (questions, answers, aborts, reconnections), the
creation and resume of agents around the registries, `replace` in the inbox,
compaction and surface, subagent continuation.
