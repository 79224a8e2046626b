------------------------------ MODULE GoalRounds ------------------------------
(***************************************************************************)
(* Automatic rounds of a goal: the goal of one session and its fold        *)
(* (packages/goal/goal) and the driver that turns an armed goal into       *)
(* rounds (packages/goal/goal-round-driver), with as much of the agent     *)
(* (core/agent-loop/src/agent.ts) as the two of them meet.                 *)
(*                                                                         *)
(* Events are delivered inside the call that causes them.  What follows in *)
(* the same job of the event loop is a step of its own that nothing else   *)
(* may precede: see Quiet.                                                 *)
(***************************************************************************)
EXTENDS Integers, Sequences, SequencesExt

CONSTANTS
    OuterHooks,    \* whether another pre-step hook wraps the driver's and awaits,
                   \* as dsh-agent-instructions does: the cases to consider
    Caps,          \* what maxGoalRounds is set to
    MaxInputs      \* bound: prompts, steers, cancellations, removals,
                   \* maintenances, goal operations and failures, all together

ASSUME GoalRoundsAssumption ==
    /\ OuterHooks \subseteq BOOLEAN /\ MaxInputs \in Nat /\ Caps \subseteq Nat \ {0}

VARIABLES
    goal,       \* the fold of the log, armed or not, and whether it failed
    driver,     \* DriverState
    agent,      \* the phase of the agent, its inbox, the claimed batch, and
                \* whether its pre-step has an outer hook
    history,    \* for the properties: what became of the messages,
                \* and whether a turn went wrong since a human last started
                \* the goal
    spent       \* of the bounded inputs

vars == <<goal, driver, agent, history, spent>>

None == [phase |-> "none"]
NoGoal(id) == [id |-> id, rev |-> 0, phase |-> "none", max |-> 0, started |-> 0,
               armed |-> FALSE, corrupt |-> FALSE]

Spend == spent < MaxInputs /\ spent' = spent + 1

------------------------------------------------------------------------------
(* Messages: prompts, steering messages by number, rounds of a goal.       *)
Prompt == [kind |-> "prompt"]
Steering(n) == [kind |-> "steer", n |-> n]
Round(g, n) ==
    [kind |-> "goal", id |-> g.id, rev |-> g.rev, round |-> g.started + 1, n |-> n]

SameRound(m, attempt) ==
    /\ m.id = attempt.id /\ m.rev = attempt.rev /\ m.round = attempt.round
\* The content of a round follows from the revision of its goal.
SameQueued(m, attempt) ==
    m.kind = "goal" /\ attempt # None /\ SameRound(m, attempt)

GoalRound(batch) == {m \in ToSet(batch) : m.kind = "goal"}
Steers(messages) == {m.n : m \in {k \in ToSet(messages) : k.kind = "steer"}}
HasPending(a) == a.nextStep # <<>> \/ a.nextTurn # <<>>

(* restoreOtherClaimed: every message but the submitted round, the only    *)
(* one of a batch, goes back in front of the next step.                    *)
Others(batch) == RemoveAt(batch, CHOOSE i \in DOMAIN batch : batch[i].kind = "goal")
Unreversed(a, batch) ==                    \* mutant: prepended first to last
    [a EXCEPT !.nextStep = Reverse(Others(batch)) \o @]
Restored(a, batch) ==
    [a EXCEPT !.nextStep = Others(batch) \o @]

------------------------------------------------------------------------------
(* goal/index.ts and fold.ts                                               *)

Active(g) == g.phase = "active" /\ g.armed
Disarmed(g) == [g EXCEPT !.armed = FALSE]
Moved(g, phase, armed) ==
    [g EXCEPT !.rev = @ + 1, !.phase = phase, !.armed = armed]

(* The fold of user/message: the next round of the active goal, or none.   *)
Admitted(g, m) ==
    IF g.phase = "active" /\ m.id = g.id /\ m.rev = g.rev
       /\ m.round = g.started + 1 /\ m.round <= g.max
    THEN [g EXCEPT !.started = m.round]
    ELSE [g EXCEPT !.corrupt = TRUE]

------------------------------------------------------------------------------
(* The driver's task.  "at" is where it runs: "first" inside the caller of *)
(* requestDrive, before state.run is set; "checked" after a flush; "later" *)
(* in the next turn of its loop.                                           *)

RequestDrive(d) ==
    [d EXCEPT !.requested = TRUE,
              !.at = IF d.run \/ @ # "none" THEN @ ELSE "first"]
GoalChanged(d) == RequestDrive([d EXCEPT !.needsCheckpoint = TRUE])

Forgetful(d) ==                            \* mutant: a trigger during the run is lost
    [d EXCEPT !.at = "none", !.run = FALSE, !.requested = FALSE]
\* drive() returned: the loop goes round again, or the task is retired.
Returned(d) ==
    IF d.requested
    THEN [d EXCEPT !.at = "later", !.run = @ \/ d.at = "first"]
    ELSE [d EXCEPT !.at = "none", !.run = FALSE]

Flushing(d) ==
    [d EXCEPT !.needsCheckpoint = FALSE, !.flushes = @ + 1, !.at = "none",
              !.run = @ \/ d.at = "first"]

Idle == agent.phase \in {"idle", "maintenance"}       \* the public status
ReadyToDrive == Idle /\ ~driver.competingQueued

\* Steps of the agent that follow in the same job.
AgentMoves ==
    \/ agent.phase \in {"claim", "end", "retire"}
    \/ agent.phase = "idle" /\ agent.wake
    \/ agent.phase \in {"enter", "rejected"} /\ ~agent.outer
Immediate == driver.at \in {"first", "checked"}
\* Nothing is modelled of a session whose goal no longer folds.
Quiet == driver.at = "none" /\ ~AgentMoves /\ ~goal.corrupt

Driving == Immediate \/ (driver.at = "later" /\ ~AgentMoves /\ ~goal.corrupt)
\* The loop takes the request it serves.
Taken == [driver EXCEPT !.requested = @ /\ driver.at = "checked"]

DriveLeaves ==
    /\ Driving
    /\ \/ ~ReadyToDrive
       \/ ~driver.needsCheckpoint /\ driver.attempt = None /\ ~Active(goal)
    /\ driver' = Returned(Taken)
    /\ UNCHANGED <<goal, agent, history, spent>>

DriveFlushes ==
    /\ Driving /\ ReadyToDrive /\ driver.needsCheckpoint
    /\ driver' = Flushing(Taken)
    /\ UNCHANGED <<goal, agent, history, spent>>

(* The attempt that ran is settled, at the price of another checkpoint.    *)
DriveSettles ==
    /\ Driving /\ ReadyToDrive /\ ~driver.needsCheckpoint /\ driver.attempt # None
    /\ driver' = Returned([driver EXCEPT !.attempt = None, !.needsCheckpoint = TRUE,
                                         !.requested = TRUE])
    /\ UNCHANGED <<goal, agent, history, spent>>

Reserving ==
    /\ Driving /\ ReadyToDrive /\ ~driver.needsCheckpoint
    /\ driver.attempt = None /\ Active(goal)

(* goal/changed comes back while the first stretch of a task has not set   *)
(* state.run yet: it starts a second one.                                  *)
DriveBlocks ==
    /\ Reserving /\ goal.started >= goal.max
    /\ goal' = Moved(goal, "blocked", FALSE)
    /\ driver' = IF driver.at = "first"
                 THEN [Flushing(Taken) EXCEPT !.run = FALSE]
                 ELSE Returned([Taken EXCEPT !.needsCheckpoint = TRUE, !.requested = TRUE])
    /\ UNCHANGED <<agent, history, spent>>

(* followup() of the next round: it starts a turn, or waits for the        *)
(* maintenance to end.                                                     *)
DriveReserves ==
    LET n == driver.sent + 1 IN
    /\ Reserving /\ goal.started < goal.max
    /\ driver' = Returned([Taken EXCEPT
                     !.sent = n,
                     !.attempt = [id |-> goal.id, rev |-> goal.rev, round |-> goal.started + 1,
                                  n |-> n, phase |-> "queued", cancelled |-> FALSE,
                                  stale |-> FALSE]])
    /\ agent' = [agent EXCEPT !.nextTurn = Append(@, Round(goal, n)),
                              !.phase = IF @ = "idle" THEN "claim" ELSE @,
                              !.wake = @ \/ agent.phase = "maintenance"]
    /\ UNCHANGED <<goal, history, spent>>

(* The checkpoint resolves, or fails and costs the goal its authority.     *)
FlushResolves ==
    LET d == [driver EXCEPT !.flushes = @ - 1] IN
    /\ Quiet /\ driver.flushes > 0
    /\ driver' = IF ReadyToDrive /\ ~driver.needsCheckpoint
                 THEN [d EXCEPT !.at = "checked"] ELSE Returned(d)
    /\ UNCHANGED <<goal, agent, history, spent>>

FlushFails ==
    /\ Quiet /\ driver.flushes > 0 /\ Spend
    /\ driver' = Returned([driver EXCEPT !.flushes = @ - 1])
    /\ goal' = Disarmed(goal)
    /\ UNCHANGED <<agent, history>>

------------------------------------------------------------------------------
(* The goal operations, from the outside, with goal/changed.               *)

Change(g) == goal' = g /\ driver' = GoalChanged(driver)
Operation == Quiet /\ Spend /\ UNCHANGED agent

Trusted == history' = [history EXCEPT !.halted = FALSE]

create(max) ==
    /\ Operation /\ goal.phase \in {"none", "complete"}
    /\ Change([NoGoal(goal.id + 1) EXCEPT !.rev = 1, !.phase = "active", !.max = max,
                                          !.armed = TRUE])
    /\ Trusted

edit(max) ==
    /\ Operation /\ goal.phase # "none"
    /\ Change([goal EXCEPT !.rev = @ + 1, !.max = max])
    /\ UNCHANGED history

pause ==
    /\ Operation /\ goal.phase = "active" /\ Change(Moved(goal, "paused", FALSE))
    /\ UNCHANGED history

resume ==
    /\ Operation /\ goal.phase \in {"active", "paused", "blocked"}
    /\ ~Active(goal) /\ goal.started < goal.max
    /\ Change(Moved(goal, "active", TRUE))
    /\ Trusted

complete ==
    /\ Operation /\ goal.phase \in {"active", "paused", "blocked"}
    /\ Change(Moved(goal, "complete", FALSE))
    /\ UNCHANGED history

clear ==
    /\ Operation /\ goal.phase # "none" /\ Change(NoGoal(goal.id))
    /\ UNCHANGED history

------------------------------------------------------------------------------
(* send, cancel, inbox.remove and maintenance, with the inbox listeners.   *)

AfterAbort == agent.phase # "idle" /\ agent.aborted
Woken(a) ==
    [a EXCEPT !.phase = IF @ = "idle" THEN "claim" ELSE @,
              !.wake = @ \/ agent.phase = "maintenance" \/ AfterAbort]

\* agent/inbox/inserted of a prompt that is not the driver's.
Competing(d) ==
    [d EXCEPT !.competingQueued = TRUE,
              !.attempt = IF @.phase = "queued" THEN [@ EXCEPT !.stale = TRUE] ELSE @]

followup ==
    /\ Quiet /\ Spend
    /\ agent' = Woken([agent EXCEPT !.nextTurn = Append(@, Prompt)])
    /\ driver' = Competing(driver)
    /\ UNCHANGED <<goal, history>>

(* steer; after an abort it becomes a prompt.                              *)
steer ==
    /\ Quiet /\ Spend /\ ~AfterAbort
    /\ agent' = Woken([agent EXCEPT !.nextStep = Append(@, Steering(history.steers + 1))])
    /\ history' = [history EXCEPT !.steers = @ + 1]
    /\ UNCHANGED <<goal, driver>>

\* agent/inbox/discarded
Discarded(d, messages) ==
    IF \E m \in ToSet(messages) : SameQueued(m, d.attempt)
    THEN [d EXCEPT !.attempt.cancelled = TRUE] ELSE d

Lost(messages) == history' = [history EXCEPT !.dropped = @ \union Steers(messages)]

cancel(keepInbox) ==
    /\ Quiet /\ Spend /\ (agent.phase # "idle" \/ (~keepInbox /\ HasPending(agent)))
    /\ IF keepInbox
       THEN agent' = [agent EXCEPT !.aborted = TRUE] /\ UNCHANGED <<driver, history>>
       ELSE /\ agent' = [agent EXCEPT !.nextTurn = <<>>, !.nextStep = <<>>, !.wake = FALSE,
                                      !.aborted = agent.phase # "idle"]
            /\ driver' = Discarded(driver, agent.nextTurn)
            /\ history' = [history EXCEPT
                   !.dropped = @ \union Steers(agent.nextStep),
                   !.halted = @ \/ (driver' # driver /\ ~Idle)]
    /\ UNCHANGED goal

remove(i) ==
    /\ Quiet /\ Spend
    /\ agent' = [agent EXCEPT !.nextTurn = RemoveAt(@, i)]
    /\ driver' = Discarded(driver, <<agent.nextTurn[i]>>)
    /\ UNCHANGED <<goal, history>>

MaintenanceBegins ==
    /\ Quiet /\ Spend /\ agent.phase = "idle"
    /\ agent' = [agent EXCEPT !.phase = "maintenance"]
    /\ UNCHANGED <<goal, driver, history>>

\* The public status was idle all along: no agent/status event.
MaintenanceEnds ==
    /\ Quiet /\ agent.phase = "maintenance"
    /\ agent' = [agent EXCEPT !.phase = "idle", !.aborted = FALSE]
    /\ UNCHANGED <<goal, driver, history, spent>>

------------------------------------------------------------------------------
(* A turn: claim, assemble the prompt, ask the pre-step hooks, enter.      *)

Ends(a, reason) == [a EXCEPT !.phase = "end", !.reason = reason, !.batch = <<>>]
Aborts == agent' = Ends(agent, "aborted") /\ Lost(agent.batch)
\* agent/error disarms.
Fails ==
    /\ agent' = Ends(agent, "error") /\ goal' = Disarmed(goal) /\ Lost(agent.batch)

\* agent/inbox/claimed goes by the content, not by the id of the message.
ClaimedBy(d, batch) ==
    IF \E m \in ToSet(batch) : SameQueued(m, d.attempt)
    THEN [d EXCEPT !.attempt.phase = "claimed"] ELSE d

Claim ==
    LET first == IF agent.nextTurn = <<>> THEN <<>> ELSE <<Head(agent.nextTurn)>>
        batch == agent.nextStep \o first
    IN
    /\ agent.phase = "claim" /\ ~Immediate
    /\ agent' = [agent EXCEPT !.phase = "assemble", !.batch = batch, !.nextStep = <<>>,
                              !.nextTurn = IF @ = <<>> THEN @ ELSE Tail(@)]
    /\ driver' = ClaimedBy(driver, batch)
    /\ UNCHANGED <<goal, history, spent>>

AssembleThrows ==
    /\ Quiet /\ agent.phase = "assemble"
    /\ \/ agent.aborted /\ Aborts /\ UNCHANGED <<goal, spent>>
       \/ ~agent.aborted /\ Fails /\ Spend
    /\ UNCHANGED driver

Anything(m) == TRUE                        \* mutant: the reservation is not checked
\* validReservation
ValidReservation(m) ==
    LET attempt == driver.attempt IN
    /\ SameQueued(m, attempt) /\ attempt.phase = "claimed" /\ ~attempt.stale
    /\ Active(goal) /\ goal.id = m.id /\ goal.rev = m.rev /\ m.round = goal.started + 1

PassesBy ==
    /\ Quiet /\ agent.phase = "assemble" /\ ~agent.aborted /\ GoalRound(agent.batch) = {}
    /\ agent' = [agent EXCEPT !.phase = "enter"]
    /\ UNCHANGED <<goal, driver, history, spent>>

\* ... unless another hook refuses it.
OthersReject ==
    /\ Quiet /\ agent.phase = "assemble" /\ ~agent.aborted /\ GoalRound(agent.batch) = {}
    /\ Spend
    /\ agent' = [agent EXCEPT !.phase = "rejected", !.batch = <<>>] /\ Lost(agent.batch)
    /\ UNCHANGED <<goal, driver>>

Passes(m) ==
    /\ Quiet /\ agent.phase = "assemble" /\ ~agent.aborted /\ ValidReservation(m)
    /\ agent' = [agent EXCEPT !.phase = "downstream"]
    /\ UNCHANGED <<goal, driver, history, spent>>

Drops(d) ==
    /\ agent' = [Restored(agent, agent.batch) EXCEPT !.phase = "rejected", !.batch = <<>>]
    /\ driver' = RequestDrive(d)

IsStale(m) ==
    /\ Quiet /\ agent.phase = "assemble" /\ ~agent.aborted /\ ~ValidReservation(m)
    /\ Drops(IF SameQueued(m, driver.attempt) THEN [driver EXCEPT !.attempt = None]
             ELSE driver)
    /\ UNCHANGED <<goal, history, spent>>

\* What the hooks behind the driver's decide.
DownstreamThrows ==
    /\ Quiet /\ agent.phase = "downstream"
    /\ \/ agent.aborted /\ Aborts /\ UNCHANGED <<goal, driver, spent>>
       \/ /\ ~agent.aborted /\ Fails /\ Spend
          /\ driver' = RequestDrive([driver EXCEPT !.attempt = None])

DownstreamRejects(m) ==
    /\ Quiet /\ agent.phase = "downstream" /\ Spend
    /\ agent' = [agent EXCEPT !.phase = "rejected", !.batch = <<>>] /\ Lost(agent.batch)
    /\ IF agent.aborted THEN UNCHANGED <<goal, driver>>
       ELSE LET d == [driver EXCEPT !.attempt = None] IN
            IF Active(goal) /\ goal.id = m.id /\ goal.rev = m.rev
            THEN goal' = Moved(goal, "blocked", FALSE) /\ driver' = GoalChanged(d)
            ELSE driver' = d /\ UNCHANGED goal

DownstreamEnters(m) ==
    /\ Quiet /\ agent.phase = "downstream"
    /\ IF agent.aborted
       THEN /\ agent' = Ends(Restored(agent, agent.batch), "aborted")
            /\ UNCHANGED driver
       ELSE IF ValidReservation(m)
       THEN agent' = [agent EXCEPT !.phase = "enter"] /\ UNCHANGED driver
       ELSE Drops([driver EXCEPT !.attempt = None])
    /\ UNCHANGED <<goal, history, spent>>

\* The decision is out of the driver's hands.
Rejected ==
    /\ agent.phase = "rejected" /\ ~Immediate
    /\ agent' = Ends(agent, IF agent.aborted THEN "aborted" ELSE "blocked")
    /\ UNCHANGED <<goal, driver, history, spent>>

OuterHookThrows ==
    /\ agent.outer /\ Quiet /\ agent.phase = "enter" /\ ~agent.aborted /\ Fails /\ Spend
    /\ UNCHANGED driver

Enter ==
    /\ agent.phase = "enter" /\ ~Immediate
    /\ IF agent.aborted THEN Aborts /\ UNCHANGED <<goal, driver>>
       ELSE IF agent.batch = <<>>
       THEN agent' = Ends(agent, "empty") /\ UNCHANGED <<goal, driver, history>>
       ELSE /\ agent' = [agent EXCEPT !.phase = "step", !.batch = <<>>]
            /\ history' = [history EXCEPT !.entered = @ \o agent.batch]
            /\ goal' = IF GoalRound(agent.batch) = {} THEN goal
                       ELSE Admitted(goal, CHOOSE m \in GoalRound(agent.batch) : TRUE)
            /\ driver' = IF \E m \in GoalRound(agent.batch) :
                               driver.attempt # None /\ m.n = driver.attempt.n
                         THEN [driver EXCEPT !.attempt.phase = "admitted"] ELSE driver
    /\ UNCHANGED spent

StepClaims ==
    /\ Quiet /\ agent.phase = "step" /\ ~agent.aborted /\ agent.nextStep # <<>>
    /\ agent' = [agent EXCEPT !.phase = "assemble", !.batch = agent.nextStep, !.nextStep = <<>>]
    /\ UNCHANGED <<goal, driver, history, spent>>

StepEnds ==
    /\ Quiet /\ agent.phase = "step"
    /\ \/ agent.aborted /\ Aborts /\ UNCHANGED <<goal, spent>>
       \/ ~agent.aborted /\ Fails /\ Spend
       \/ /\ ~agent.aborted /\ agent.nextStep = <<>>
          /\ \/ agent' = Ends(agent, "completed") /\ UNCHANGED spent
             \/ agent' = Ends(agent, "max-tokens") /\ Spend
          /\ UNCHANGED <<goal, history>>
    /\ UNCHANGED driver

Continued(reason) == FALSE                 \* mutant: turn/end is not looked at
\* The reasons after which the driver takes back the goal's authority.
Disarms(reason) ==
    \/ reason = "max-tokens"
    \/ reason = "aborted" /\ driver.attempt.phase \notin {"claimed", "admitted"}

TurnEnd ==
    LET reason == agent.reason IN
    /\ agent.phase = "end" /\ ~Immediate
    /\ goal' = IF Disarms(reason) THEN Disarmed(goal) ELSE goal
    /\ driver' = IF reason = "aborted" /\ driver.attempt.phase \in {"claimed", "admitted"}
                 THEN [driver EXCEPT !.attempt.cancelled = TRUE] ELSE driver
    /\ agent' = IF reason \in {"completed", "max-tokens"} /\ HasPending(agent)
                THEN [agent EXCEPT !.phase = "gap", !.wake = FALSE, !.aborted = FALSE]
                ELSE [agent EXCEPT !.phase = "retire"]
    /\ history' = [history EXCEPT !.halted =
                      @ \/ reason \in {"aborted", "error", "max-tokens"}]
    /\ UNCHANGED spent

(* The next turn opens once turn() has returned to kick(), unless it was    *)
(* cancelled by then.                                                      *)
NextTurn ==
    /\ Quiet /\ agent.phase = "gap"
    /\ agent' = [agent EXCEPT !.phase = IF agent.aborted THEN "retire" ELSE "claim"]
    /\ UNCHANGED <<goal, driver, history, spent>>

(* The idle status: a cancelled reservation pauses its goal.  Its          *)
(* goal/changed and the status each request a drive.                       *)
Retire ==
    LET d == [driver EXCEPT !.competingQueued = FALSE]
        attempt == driver.attempt
        left == attempt # None /\ (attempt.phase \in {"queued", "claimed"} \/ attempt.cancelled)
    IN
    /\ agent.phase = "retire" /\ ~Immediate
    /\ agent' = [agent EXCEPT !.phase = "idle", !.aborted = FALSE, !.reason = "none"]
    /\ IF left /\ Active(goal)
       THEN /\ goal' = Moved(goal, "paused", FALSE)
            /\ driver' = IF d.run
                         THEN GoalChanged([d EXCEPT !.attempt = None])
                         ELSE [Flushing([d EXCEPT !.attempt = None]) EXCEPT
                                  !.run = TRUE, !.requested = TRUE]
       ELSE driver' = RequestDrive(d) /\ UNCHANGED goal
    /\ UNCHANGED <<history, spent>>

Rewake ==
    /\ agent.phase = "idle" /\ agent.wake /\ ~Immediate
    /\ agent' = [agent EXCEPT !.wake = FALSE,
                              !.phase = IF HasPending(agent) THEN "claim" ELSE "idle"]
    /\ UNCHANGED <<goal, driver, history, spent>>

------------------------------------------------------------------------------
Init ==
    /\ goal = NoGoal(0)
    /\ driver = [attempt |-> None, competingQueued |-> FALSE, needsCheckpoint |-> FALSE,
                 requested |-> FALSE, run |-> FALSE, at |-> "none", flushes |-> 0, sent |-> 0]
    /\ \E outer \in OuterHooks :
       agent = [phase |-> "idle", wake |-> FALSE, aborted |-> FALSE, reason |-> "none",
                outer |-> outer, batch |-> <<>>, nextTurn |-> <<>>, nextStep |-> <<>>]
    /\ history = [steers |-> 0, entered |-> <<>>, dropped |-> {}, halted |-> FALSE]
    /\ spent = 0

Next ==
    \/ DriveLeaves \/ DriveFlushes \/ DriveSettles \/ DriveBlocks \/ DriveReserves
    \/ FlushResolves \/ FlushFails
    \/ \E max \in Caps : create(max) \/ edit(max)
    \/ pause \/ resume \/ complete \/ clear
    \/ followup \/ steer \/ \E keepInbox \in BOOLEAN : cancel(keepInbox)
    \/ \E i \in DOMAIN agent.nextTurn : remove(i)
    \/ MaintenanceBegins \/ MaintenanceEnds
    \/ Claim \/ AssembleThrows \/ PassesBy \/ OthersReject
    \/ \E m \in GoalRound(agent.batch) :
          Passes(m) \/ IsStale(m) \/ DownstreamRejects(m) \/ DownstreamEnters(m)
    \/ DownstreamThrows \/ Rejected \/ OuterHookThrows \/ Enter
    \/ StepClaims \/ StepEnds \/ TurnEnd \/ NextTurn \/ Retire \/ Rewake

Spec == Init /\ [][Next]_vars

------------------------------------------------------------------------------
Goals ==
    [id : Nat, rev : Nat, max : Nat, started : Nat, armed : BOOLEAN, corrupt : BOOLEAN,
     phase : {"none", "active", "paused", "blocked", "complete"}]
Attempts ==
    [id : Nat, rev : Nat, round : Nat, n : Nat, phase : {"queued", "claimed", "admitted"},
     cancelled : BOOLEAN, stale : BOOLEAN]
Drivers ==
    [attempt : Attempts \union {None}, competingQueued : BOOLEAN, requested : BOOLEAN,
     needsCheckpoint : BOOLEAN, run : BOOLEAN, flushes : Nat, sent : Nat,
     at : {"none", "first", "checked", "later"}]

Steerings == [kind : {"steer"}, n : Nat]
Rounds == [kind : {"goal"}, id : Nat, rev : Nat, round : Nat, n : Nat]
Messages == {Prompt} \union Steerings \union Rounds
Agents ==
    [phase : {"idle", "maintenance", "claim", "assemble", "downstream", "rejected",
              "enter", "step", "end", "gap", "retire"},
     wake : BOOLEAN, aborted : BOOLEAN, outer : BOOLEAN,
     reason : {"none", "empty", "completed", "max-tokens", "blocked", "aborted", "error"},
     batch : Seq(Messages), nextTurn : Seq({Prompt} \union Rounds), nextStep : Seq(Steerings)]
Histories ==
    [steers : Nat, entered : Seq(Messages), dropped : SUBSET Nat, halted : BOOLEAN]

TypeOK ==
    /\ goal \in Goals /\ driver \in Drivers /\ agent \in Agents /\ history \in Histories
    /\ spent \in 0..MaxInputs

(* validReservation, before and after the hooks behind the driver's:       *)
(* whatever happens to the goal while a round is prepared, the log that    *)
(* the round enters still folds - if no other hook awaits after them.      *)
RoundsReplay == ~agent.outer => ~goal.corrupt

(* What the note on the driver promises of its second check, whatever      *)
(* hooks are installed: no round enters with a stale prompt, which the     *)
(* fold of the goal would refuse from then on.                             *)
SecondCheckHolds == ~goal.corrupt

Increasing(messages) ==
    \A i, j \in DOMAIN messages :
        i < j /\ messages[i].kind = "steer" /\ messages[j].kind = "steer"
            => messages[i].n < messages[j].n

(* restoreOtherClaimed: steering messages enter in the order they were     *)
(* sent, none of them twice, and none is lost but by a cancellation, a     *)
(* failed turn or the refusal of another hook - however often the round    *)
(* they were claimed with is rejected.                                     *)
SteersKept ==
    /\ Increasing(history.entered)
    /\ 1..history.steers = history.dropped \union Steers(history.entered)
           \union Steers(agent.nextStep) \union Steers(agent.batch)

(* turn/end, agent/error, the idle status: once a turn was aborted, failed *)
(* or was cut off by the token limit, or a cancellation dropped the round  *)
(* that was reserved, no round enters before a human creates or resumes    *)
(* the goal.  A cancellation that finds no turn running is left out: it    *)
(* changes no public status, and the goal is not paused (README).          *)
HaltStops ==
    [][goal'.started > goal.started => ~history.halted]_vars

(* requestDrive, retire, goal/changed, the idle status: an idle agent does *)
(* not forget an armed goal - a checkpoint is under way, or the driver     *)
(* waits for the next idle status because of a prompt or a cancellation.   *)
(* Authority is an active goal's only.                                     *)
ArmedIsDriven ==
    /\ TypeOK
    /\ goal.armed => goal.phase = "active"
    /\ Quiet /\ agent.phase = "idle" /\ Active(goal) =>
          \/ driver.flushes > 0
          \/ driver.competingQueued
          \/ driver.attempt # None /\ driver.attempt.cancelled
===============================================================================
