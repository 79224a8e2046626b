------------------------------- MODULE Schedule -------------------------------
(***************************************************************************)
(* Reminders of one session (packages/schedule/schedule): the fold of the  *)
(* schedule/change events (domain.ts), the runtime that delivers what is   *)
(* due (runtime.ts), the tools that create and delete (tools.ts) and the   *)
(* queue that serializes both (transaction.ts).                            *)
(*                                                                         *)
(* The agent is modelled as far as the runtime uses it: it is idle, in a   *)
(* turn or in maintenance, and follow-ups wait in its inbox for a turn.    *)
(* The inbox is a fold of the log too (core/agent/src/inbox.ts): a resumed *)
(* session still has the follow-ups a crash left there.  Storage holds a   *)
(* prefix of the log and a crash keeps that prefix.  The clock is the wall *)
(* clock: it moves on, jumps back, and may move between two readings of    *)
(* one job.                                                                *)
(***************************************************************************)
EXTENDS Integers, Sequences, SequencesExt, FiniteSets

CONSTANTS
    Delays,        \* what schedule_create is asked for: seconds from now
    Interval,      \* the interval of a fixed-rate reminder
    MaxTime,       \* bound: the wall clock
    MaxInputs      \* bound: turns opened by somebody else, calls of the tools,
                   \* rejected flushes, follow-ups and appends, backward jumps
                   \* of the clock, disposals and crashes, all together

ASSUME ScheduleAssumption ==
    /\ MaxTime \in Nat \ {0} /\ MaxInputs \in Nat
    /\ Delays \subseteq Nat \ {0} /\ Interval \in Nat \ {0}

VARIABLES
    log,        \* of the session: the schedule changes, the splices of the
                \* inbox and the messages by which a reminder entered a turn
    durable,    \* how many of them flushes have made durable
    now,        \* Date.now()
    phase,      \* of the agent: "idle", "turn", "maintenance"
    run,        \* ScheduleRuntime.run: where the transaction of driveOnce is
    requested, timer, idleWait, faulted, stopping,    \* its other fields
    gaveUp,     \* for the properties: the last drive ended on a failure,
    unrecorded, \* and some follow-up was kept without all of its dispatches
    queue,      \* the agent's transactions, "drive" or "tool", in order
    tool,       \* the schedule tool call in flight
    confirmed,  \* for the properties: what the tools confirmed
    spent       \* of the bounded inputs

runtime == <<run, requested, timer, idleWait, faulted, stopping, gaveUp, unrecorded>>
vars == <<log, durable, now, phase, runtime, queue, tool, confirmed, spent>>

None == [is |-> "none"]
Never == 0                                 \* no time: the clock starts at 1

Spend == spent < MaxInputs /\ spent' = spent + 1

------------------------------------------------------------------------------
(* domain.ts.  A record is a one-shot (interval 0) or fixed-rate.          *)

Create(record) == [is |-> "create", record |-> record]
Delete(id) == [is |-> "delete", id |-> id]
Dispatch(id, accepted) == [is |-> "dispatch", id |-> id, accepted |-> accepted]
Queued(reminders) == [is |-> "queued", reminders |-> reminders]
Claimed == [is |-> "claimed"]
Cleared == [is |-> "cleared"]
Message(reminders) == [is |-> "message", reminders |-> reminders]

(* Inbox: the queued follow-ups, each the set of reminders it presents.    *)
Spliced(inbox, e) ==
    CASE e.is = "queued" -> Append(inbox, e.reminders)
      [] e.is = "claimed" -> Tail(inbox)
      [] e.is = "cleared" -> <<>>
      [] OTHER -> inbox
Inboxes(events) ==                         \* after each number of them
    LET inbox[n \in 0..Len(events)] ==
            IF n = 0 THEN <<>> ELSE Spliced(inbox[n - 1], events[n])
    IN  inbox
Inbox(events) == Inboxes(events)[Len(events)]

Changing == {"create", "delete", "dispatch"}

(* resolveEveryOccurrence                                                  *)
Occurrence(record, accepted) ==
    record.at + ((accepted - record.at) \div record.interval) * record.interval

(* The active records; seen is the last id used: ids grow as reminders are *)
(* created.                                                                *)
Empty == [active |-> {}, seen |-> 0, ok |-> TRUE]
Corrupt == [Empty EXCEPT !.ok = FALSE]

Found(folded, id) == {record \in folded.active : record.id = id}

(* dispatchedRecord                                                        *)
Dispatched(folded, e) ==
    LET found == Found(folded, e.id)
        record == CHOOSE r \in found : TRUE
    IN  CASE found = {} -> Corrupt
          [] found # {} /\ record.interval = 0 ->
                IF e.accepted # Never THEN Corrupt
                ELSE [folded EXCEPT !.active = @ \ found]
          [] found # {} /\ record.interval # 0 ->
                IF e.accepted < record.at THEN Corrupt
                ELSE [folded EXCEPT !.active = (@ \ found) \union
                         {[record EXCEPT !.at = Occurrence(record, e.accepted) + record.interval]}]

Folded(folded, e) ==
    CASE ~folded.ok \/ e.is \notin Changing -> folded
      [] folded.ok /\ e.is = "create" ->
            IF e.record.id <= folded.seen THEN Corrupt
            ELSE [folded EXCEPT !.seen = e.record.id, !.active = @ \union {e.record}]
      [] folded.ok /\ e.is = "delete" ->
            IF Found(folded, e.id) = {} THEN Corrupt
            ELSE [folded EXCEPT !.active = @ \ Found(folded, e.id)]
      [] folded.ok /\ e.is = "dispatch" -> Dispatched(folded, e)

(* foldScheduleEvents                                                      *)
Folds(events) ==                           \* after each number of them
    LET folded[n \in 0..Len(events)] ==
            IF n = 0 THEN Empty ELSE Folded(folded[n - 1], events[n])
    IN  folded
Fold(events) == Folds(events)[Len(events)]

(* runtime.ts: byTargetThenCreate and dueDecision.                         *)
Before(one, other) ==
    one.at < other.at \/ (one.at = other.at /\ one.id < other.id)

Due(folded, time) == {record \in folded.active : record.at <= time}

Sorted(records) ==
    CHOOSE s \in SetToSeqs(records) : \A i, j \in DOMAIN s : i < j => Before(s[i], s[j])

Decision(folded, time) ==
    LET due == Due(folded, time)
        once == {record \in due : record.interval = 0}
        waits == {record.at : record \in folded.active \ due}
    IN  CASE once # {} -> [is |-> "send", records |-> <<Sorted(once)[1]>>]
          [] once = {} /\ due # {} -> [is |-> "send", records |-> Sorted(due)]
          [] due = {} ->
                [is |-> "wait",
                 target |-> IF waits = {} THEN Never
                            ELSE CHOOSE t \in waits : \A u \in waits : t <= u]

(* What one follow-up presents, and the events that record it.             *)
Reminder(record, time) ==
    [id |-> record.id,
     at |-> IF record.interval = 0 THEN record.at ELSE Occurrence(record, time)]
Presented(records, time) == {Reminder(records[k], time) : k \in DOMAIN records}
OnlyFirst(records, time) ==                \* mutant: the rest of a batch is not recorded
    <<Dispatch(records[1].id, IF records[1].interval = 0 THEN Never ELSE time)>>
Dispatches(records, time) ==
    [k \in DOMAIN records |->
        Dispatch(records[k].id, IF records[k].interval = 0 THEN Never ELSE time)]

------------------------------------------------------------------------------
Init ==
    /\ log = <<>> /\ durable = 0 /\ now = 1
    /\ phase \in {"idle", "turn"}
    /\ run = [is |-> "queued"] /\ queue = <<"drive">>
    /\ requested = FALSE /\ timer = FALSE /\ idleWait = FALSE
    /\ faulted = FALSE /\ stopping = FALSE /\ gaveUp = FALSE /\ unrecorded = FALSE
    /\ tool = None /\ confirmed = {}
    /\ spent = 0

(* The environment: the clock, other turns, the driver of the agent.       *)
Tick ==
    /\ now < MaxTime /\ now' = now + 1
    /\ UNCHANGED <<log, durable, phase, runtime, queue, tool, confirmed, spent>>

Rollback ==
    /\ now > 1 /\ now' = now - 1 /\ Spend
    /\ UNCHANGED <<log, durable, phase, runtime, queue, tool, confirmed>>

StartTurn ==
    /\ phase = "idle" /\ phase' = "turn" /\ Spend
    /\ UNCHANGED <<log, durable, now, runtime, queue, tool, confirmed>>

(* The driver takes one follow-up into a turn, which logs it; the crash    *)
(* that falls between the two loses it.                                    *)
Claim ==
    /\ phase = "turn" /\ tool = None /\ Inbox(log) # <<>>
    /\ log' = log \o <<Claimed, Message(Head(Inbox(log)))>>
    /\ UNCHANGED <<durable, now, phase, runtime, queue, tool, confirmed, spent>>

(* A user's cancellation discards the queued follow-ups.                   *)
Discard ==
    /\ Inbox(log) # <<>> /\ log' = Append(log, Cleared) /\ Spend
    /\ UNCHANGED <<durable, now, phase, runtime, queue, tool, confirmed>>

------------------------------------------------------------------------------
(* requestDrive, when q is the queue of transactions.                      *)
Requests(q) ==
    IF stopping \/ faulted
    THEN queue' = q /\ UNCHANGED <<run, requested, timer>>
    ELSE /\ timer' = FALSE
         /\ IF run = None
            THEN /\ run' = [is |-> "queued"] /\ queue' = Append(q, "drive")
                 /\ UNCHANGED requested
            ELSE requested' = TRUE /\ queue' = q /\ UNCHANGED run

(* The agent goes idle: the runtime hears of it if it has reminders.       *)
TurnEnds ==
    /\ phase = "turn" /\ tool = None /\ Inbox(log) = <<>>
    /\ phase' = "idle"
    /\ IF \E i \in DOMAIN log : log[i].is \in Changing
       THEN Requests(queue) ELSE UNCHANGED <<run, requested, timer, queue>>
    /\ UNCHANGED <<log, durable, now, tool, confirmed, spent>>
    /\ UNCHANGED <<idleWait, faulted, stopping, gaveUp, unrecorded>>

(* arm: whatever the clock does meanwhile, the timer fires some time.      *)
TimerFires ==
    /\ timer /\ Requests(queue)
    /\ UNCHANGED <<log, durable, now, phase, tool, confirmed, spent>>
    /\ UNCHANGED <<idleWait, faulted, stopping, gaveUp, unrecorded>>

(* waitForIdle: the wait ends when the agent is idle or the owner stops.   *)
IdleWaitEnds ==
    /\ idleWait /\ (phase = "idle" \/ stopping)
    /\ idleWait' = FALSE /\ Requests(queue)
    /\ UNCHANGED <<log, durable, now, phase, tool, confirmed, spent>>
    /\ UNCHANGED <<faulted, stopping, gaveUp, unrecorded>>

Dispose ==
    /\ ~stopping /\ stopping' = TRUE /\ Spend
    /\ requested' = FALSE /\ timer' = FALSE
    /\ UNCHANGED <<log, durable, now, phase, queue, tool, confirmed>>
    /\ UNCHANGED <<run, idleWait, faulted, gaveUp, unrecorded>>

------------------------------------------------------------------------------
(* driveOnce, as a transaction of the agent's queue.                       *)

(* The transaction is left: runRequested's loop and retire.                *)
Forgotten(again) ==                        \* mutant: a trigger during the run is lost
    run' = None /\ queue' = Tail(queue) /\ requested' = FALSE

Over(again) ==
    IF again /\ ~stopping /\ ~faulted'
    THEN /\ run' = [is |-> "queued"] /\ queue' = Append(Tail(queue), "drive")
         /\ requested' = FALSE
    ELSE run' = None /\ queue' = Tail(queue) /\ UNCHANGED requested

\* Flushing what is logged now; a flush that resolves made that much durable.
Flushing(stage, events) == [is |-> stage, mark |-> Len(events)]
Flushed(flush) == durable' = IF flush.mark > durable THEN flush.mark ELSE durable

Serialized(who) == queue # <<>> /\ Head(queue) = who

DriveBegins ==
    /\ Serialized("drive") /\ run.is = "queued"
    /\ timer' = FALSE /\ gaveUp' = FALSE
    /\ IF stopping THEN Over(FALSE)
       ELSE run' = Flushing("preflight", log) /\ UNCHANGED <<queue, requested>>
    /\ UNCHANGED <<log, durable, now, phase, tool, confirmed, spent>>
    /\ UNCHANGED <<idleWait, faulted, stopping, unrecorded>>

DriveFlushFails ==
    /\ run.is \in {"preflight", "barrier"} /\ Spend
    /\ gaveUp' = TRUE /\ UNCHANGED <<faulted, idleWait, stopping, timer, unrecorded>>
    /\ Over(requested)
    /\ UNCHANGED <<log, durable, now, phase, tool, confirmed>>

(* After the preflight: nothing to send yet, or not while the agent works. *)
DriveWaits ==
    LET folded == Fold(log)
        decision == Decision(folded, now)
    IN
    /\ run.is = "preflight" /\ Flushed(run)
    /\ \/ /\ stopping /\ UNCHANGED <<faulted, timer, idleWait>>
       \/ /\ ~stopping /\ ~folded.ok /\ faulted' = TRUE
          /\ UNCHANGED <<timer, idleWait>>
       \/ /\ ~stopping /\ folded.ok /\ decision.is = "wait"
          /\ timer' = (decision.target # Never)
          /\ UNCHANGED <<faulted, idleWait>>
       \/ /\ ~stopping /\ folded.ok /\ decision.is = "send" /\ phase # "idle"
          /\ idleWait' = TRUE
          /\ UNCHANGED <<faulted, timer>>
    /\ Over(requested)
    /\ UNCHANGED <<log, now, phase, tool, confirmed, spent, stopping, gaveUp, unrecorded>>

(* ... or in a maintenance of the idle agent: its task reads the clock     *)
(* again, queues the follow-up and only then records it.                   *)
Readings == {now - 1, now, now + 1} \intersect 1..MaxTime

DriveSends(time, outcome) ==
    LET folded == Fold(log)
        decision == Decision(folded, time)
        events == Dispatches(decision.records, time)
        followup == Queued(Presented(decision.records, time))
    IN
    /\ run.is = "preflight" /\ Flushed(run)
    /\ ~stopping /\ folded.ok /\ Decision(folded, now).is = "send" /\ phase = "idle"
    /\ phase' = "maintenance" /\ now' = time
    /\ IF time < now \/ outcome # "sent" THEN Spend ELSE UNCHANGED spent
    /\ run' = [is |-> "maintenance",
               wakes |-> decision.is = "send" /\ outcome # "unsent",
               sent |-> decision.is = "send" /\ outcome = "sent"]
    /\ gaveUp' = (outcome # "sent")
    /\ unrecorded' = (unrecorded \/ outcome = "unrecorded")
    /\ IF decision.is = "wait"
       THEN /\ outcome = "sent" /\ timer' = (decision.target # Never)
            /\ UNCHANGED <<log, faulted>>
       ELSE /\ faulted' = (outcome = "unrecorded")
            /\ \E n \in IF outcome = "unrecorded" THEN 0..Len(events) - 1 ELSE {Len(events)} :
                  log' = IF outcome = "unsent" THEN log
                         ELSE log \o <<followup>> \o SubSeq(events, 1, n)
            /\ UNCHANGED timer
    /\ UNCHANGED <<requested, idleWait, stopping, queue, tool, confirmed>>

(* The maintenance ends without a status event; a follow-up starts a turn. *)
MaintenanceEnds ==
    /\ run.is = "maintenance"
    /\ phase' = IF run.wakes THEN "turn" ELSE "idle"
    /\ UNCHANGED <<faulted, timer, idleWait, stopping, gaveUp, unrecorded>>
    /\ IF run.sent
       THEN run' = Flushing("barrier", log) /\ UNCHANGED <<queue, requested>>
       ELSE Over(requested)
    /\ UNCHANGED <<log, durable, now, tool, confirmed, spent>>

DriveBarrier ==
    /\ run.is = "barrier" /\ Flushed(run)
    /\ UNCHANGED <<faulted, idleWait, stopping, gaveUp, unrecorded>>
    /\ timer' = (timer /\ stopping)
    /\ Over(requested \/ ~stopping)
    /\ UNCHANGED <<log, now, phase, tool, confirmed, spent>>

------------------------------------------------------------------------------
(* schedule_create and schedule_delete: a transaction with a flush before  *)
(* the change and one after it.  A cancelled call ends before the change.  *)

Call(call) ==
    /\ phase = "turn" /\ tool = None /\ ~stopping
    /\ tool' = [is |-> "queued", call |-> call] /\ queue' = Append(queue, "tool")
    /\ UNCHANGED <<log, durable, now, phase, runtime, confirmed>>

schedule_create(delay, interval) ==
    Spend /\ Call([is |-> "create", delay |-> delay, interval |-> interval])
schedule_delete(id) == Spend /\ Call([is |-> "delete", id |-> id])

ToolBegins ==
    /\ tool.is = "queued" /\ Serialized("tool")
    /\ \/ /\ tool' = [is |-> "preflight", call |-> tool.call, mark |-> Len(log)]
          /\ UNCHANGED queue
       \/ tool' = None /\ queue' = Tail(queue)
    /\ UNCHANGED <<log, durable, now, phase, runtime, confirmed, spent>>

ToolFlushFails ==
    /\ tool.is \in {"preflight", "barrier"} /\ Spend
    /\ tool' = None /\ queue' = Tail(queue)
    /\ UNCHANGED <<log, durable, now, phase, runtime, confirmed>>

Reused(call, folded) ==                    \* mutant: the id of an ended reminder is reused
    IF call.is = "create"
    THEN Create([id |-> Cardinality(folded.active) + 1, at |-> now + call.delay,
                 interval |-> call.interval])
    ELSE Delete(call.id)

(* allocateScheduleId, createAfterScheduleRecord, createEveryScheduleRecord *)
Change(call, folded) ==
    IF call.is = "create"
    THEN Create([id |-> folded.seen + 1, at |-> now + call.delay, interval |-> call.interval])
    ELSE Delete(call.id)

Changes(call, folded) ==
    folded.ok /\ (call.is = "delete" => Found(folded, call.id) # {})

ToolChanges ==
    LET folded == Fold(log)
        change == Change(tool.call, folded)
    IN
    /\ tool.is = "preflight" /\ Flushed(tool)
    /\ Changes(tool.call, folded)
    /\ log' = Append(log, change)
    /\ tool' = [is |-> "barrier", change |-> change, mark |-> Len(log')]
    /\ Requests(queue)
    /\ UNCHANGED <<now, phase, confirmed, spent, idleWait, faulted, stopping, gaveUp, unrecorded>>

(* Nothing to delete, a corrupt log, a cancelled call.                     *)
ToolDeclines ==
    /\ tool.is = "preflight" /\ Flushed(tool)
    /\ tool' = None /\ Requests(Tail(queue))
    /\ UNCHANGED <<log, now, phase, confirmed, spent, idleWait, faulted, stopping, gaveUp, unrecorded>>

Unacknowledged == tool.is = "barrier" /\ UNCHANGED durable  \* mutant: no second flush
Acknowledged == tool.is = "barrier" /\ Flushed(tool)

ToolConfirms ==
    /\ Acknowledged
    /\ confirmed' = confirmed \union {tool.change}
    /\ tool' = None /\ Requests(Tail(queue))
    /\ UNCHANGED <<log, now, phase, spent, idleWait, faulted, stopping, gaveUp, unrecorded>>

------------------------------------------------------------------------------
(* A crash keeps what is durable, and perhaps some of what follows it.     *)
(* The session is resumed with a new agent and a new runtime.              *)
Crash ==
    /\ Spend
    /\ \E n \in durable..Len(log) :
          /\ log' = SubSeq(log, 1, n) /\ durable' = n
          /\ unrecorded' = (unrecorded \/ (n < Len(log) /\ log[n + 1].is = "dispatch"))
    /\ phase' = "idle"
    /\ run' = [is |-> "queued"] /\ queue' = <<"drive">>
    /\ requested' = FALSE /\ timer' = FALSE /\ idleWait' = FALSE
    /\ faulted' = FALSE /\ stopping' = FALSE /\ gaveUp' = FALSE
    /\ tool' = None /\ UNCHANGED <<now, confirmed>>

Next ==
    \/ DriveBegins \/ DriveWaits \/ MaintenanceEnds \/ DriveBarrier
    \/ \E time \in Readings, outcome \in {"sent", "unsent", "unrecorded"} :
          DriveSends(time, outcome)
    \/ ToolBegins \/ ToolChanges \/ ToolDeclines \/ ToolConfirms
    \/ DriveFlushFails \/ ToolFlushFails
    \/ Tick \/ Rollback \/ StartTurn \/ Claim \/ Discard
    \/ TurnEnds \/ TimerFires \/ IdleWaitEnds \/ Dispose
    \/ \E delay \in Delays : schedule_create(delay, 0)
    \/ schedule_create(Interval, Interval)
    \/ \E id \in 1..MaxInputs : schedule_delete(id)
    \/ Crash

Spec == Init /\ [][Next]_vars

------------------------------------------------------------------------------
Records == [id : Nat \ {0}, at : Nat \ {0}, interval : Nat]
Events ==
    [is : {"create"}, record : Records] \union [is : {"delete"}, id : Nat]
        \union [is : {"dispatch"}, id : Nat, accepted : Nat]
        \union [is : {"queued", "message"}, reminders : SUBSET [id : Nat, at : Nat]]
        \union [is : {"claimed", "cleared"}]
Runs ==
    [is : {"none", "queued"}] \union [is : {"preflight", "barrier"}, mark : Nat]
        \union [is : {"maintenance"}, wakes : BOOLEAN, sent : BOOLEAN]
Calls == [is : {"create"}, delay : Nat \ {0}, interval : Nat] \union [is : {"delete"}, id : Nat]
Tools ==
    [is : {"none"}] \union [is : {"queued"}, call : Calls]
        \union [is : {"preflight"}, call : Calls, mark : Nat]
        \union [is : {"barrier"}, change : Events, mark : Nat]

TypeOK ==
    /\ log \in Seq(Events)
    /\ durable \in 0..Len(log) /\ now \in 1..MaxTime
    /\ phase \in {"idle", "turn", "maintenance"}
    /\ run \in Runs /\ tool \in Tools
    /\ queue \in Seq({"drive", "tool"})
    /\ {requested, timer, idleWait, faulted, stopping, gaveUp, unrecorded} \subseteq BOOLEAN
    /\ confirmed \subseteq {change \in Events : change.is \in Changing}
    /\ spent \in 0..MaxInputs

(* resolveEveryOccurrence, driveOnce, the inbox and the log together: over *)
(* clock jumps, overlapping triggers and crashes no occurrence of a        *)
(* reminder is logged for the user twice, unless a dispatch was refused or *)
(* a crash kept a follow-up and lost its dispatch - the duplicate window   *)
(* the README of the package admits.                                       *)
DeliveredOnce ==
    ~unrecorded =>
        \A i, j \in DOMAIN log :
            log[i].is = "message" /\ log[j].is = "message" /\ i # j =>
                log[i].reminders \intersect log[j].reminders = {}

(* runScheduleTransaction: whatever the tools, the runtime and a crash     *)
(* interleave, the log always folds - no id is used twice, nothing         *)
(* inactive is deleted or dispatched - and a transaction that is under way *)
(* is the head of the queue.                                               *)
LogFolds ==
    /\ TypeOK
    /\ Fold(log).ok
    /\ run.is \notin {"none", "queued"} => Serialized("drive")
    /\ tool.is \notin {"none", "queued"} => Serialized("tool")

(* The tools' second flush: what a tool confirmed is in the log for good,  *)
(* whatever crashes.                                                       *)
ConfirmedSurvives ==
    \A change \in confirmed : \E i \in DOMAIN log : log[i] = change

(* requestDrive, waitForIdle, the idle status, retire, arm: while a        *)
(* reminder is active somebody will look at it again - a timer, a drive,   *)
(* the end of the turn or of a wait - unless the last drive ended on a     *)
(* failure: then only the next trigger tries again.                        *)
ActiveIsAttended ==
    Fold(log).active # {} =>
        \/ timer \/ run # None \/ idleWait \/ phase = "turn"
        \/ gaveUp \/ faulted \/ stopping
===============================================================================
