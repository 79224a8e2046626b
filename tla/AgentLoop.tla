------------------------------ MODULE AgentLoop ------------------------------
(***************************************************************************)
(* The driver of one agent (packages/core/agent-loop/src/agent.ts), the    *)
(* inbox it drains (packages/core/agent/src/inbox.ts) and the disposal     *)
(* that waits for it (packages/core/agent-loop/src/index.ts).              *)
(*                                                                         *)
(* JavaScript runs one call stack at a time.  A driver is interrupted only *)
(* where it awaits, but the code also calls out SYNCHRONOUSLY - status,    *)
(* inbox and error listeners - and a listener may call the public API      *)
(* again in the middle of send, cancel, wakeDriver or retireRunning.  The  *)
(* model keeps both: pc says where each driver is, Sync locations run      *)
(* before anything else, and stack holds the interrupted API calls.        *)
(***************************************************************************)
EXTENDS Integers, Sequences, FiniteSets, SequencesExt

CONSTANTS
    MaxMessage,      \* bound: messages ever sent (user input and tool contexts)
    MaxStep,         \* bound: step of a turn whose tools may owe another one
    MaxMaintenance,  \* bound: maintenance tasks ever run
    MaxDepth,        \* bound: nesting of API calls made by listeners
    Listening,       \* the calls whose synchronous listeners call the API
    DisposeInAppend  \* may a session/event listener dispose the agent?

ASSUME AgentLoopAssumption ==
    /\ {MaxMessage, MaxStep, MaxMaintenance, MaxDepth} \subseteq Nat
    /\ Listening \subseteq {"send", "cancel", "start", "status", "error"}
    /\ DisposeInAppend \in BOOLEAN

VARIABLES
    phase,      \* this.phase; activity identifies the phase object, abort is the
                \* cause of its AbortController, turn is lastTurn while idle
    run,        \* the locals of turn() in the driver that owns the phase
    pc,         \* pc[a]: where activity a is; DOMAIN pc = activities so far
    stack,      \* interrupted API calls, innermost first
    nextTurn,   \* inbox list 'next-turn', as message numbers
    nextStep,   \* inbox list 'next-step'
    mail,       \* mail[m]: what happened to the m-th message
    trace,      \* what the session log leaves open (SessionTrace)
    disposal,   \* progress of dispose(): the activity its whenIdle awaits
    history     \* what the properties remember of the past, and the maintenance count

vars == <<phase, run, pc, stack, nextTurn, nextStep, mail, trace, disposal, history>>

Log == INSTANCE SessionTrace WITH Calls <- {}
Input == INSTANCE AgentInput WITH
    mail <- [m \in DOMAIN mail |->
                [list |-> mail[m].list, fate |-> mail[m].fate, turn |-> mail[m].turn]],
    turn <- phase.turn

Targets == {"next-turn", "next-step"}
Causes  == {"user", "disposed"}
NoAbort == "none"
NoEnd   == "none"     \* turnEnds === null

(* Locations of a driver.  Code between two awaits is cut only where a     *)
(* listener can run; Sync locations are those cuts.                        *)
Sync     == {"open", "claim", "endStep", "boundary", "caught", "endTurn", "ended"}
Awaiting == {"preStep", "request", "tools", "stopping", "gap"}
Reporting == {"failing", "vetoed"}     \* inside an agent/error emit
Driving  == {"start"} \union Sync \union Awaiting \union Reporting
Locations == Driving \union {"leave", "maintenance", "done"}

Frames == [kind : {"send", "cancel", "start", "status", "error"},
           wake : BOOLEAN, late : BOOLEAN, cause : Causes]
FrameOf(kind, wake, late, cause) ==
    [kind |-> kind, wake |-> wake, late |-> late, cause |-> cause]

Phases ==
    [kind : {"idle", "maintenance", "running"}, activity : Nat,
     abort : Causes \union {NoAbort}, wakeRequested : BOOLEAN, turn : Nat, step : Nat]
Ends == {NoEnd, "completed", "max-tokens", "blocked", "aborted", "error"}
Runs == [turnEnds : Ends, retire : BOOLEAN, thrown : BOOLEAN, target : Targets]
Letters ==
    [list : Targets, fate : {"pending", "claimed", "discarded"}, turn : Nat,
     promise : {"none", "live", "late"}]
Disposals == [state : {"live", "waiting", "unwinding", "detached"}, on : Nat]

(* How the last driver left the phase.  Only a "served" one owes anything.  *)
Excused == {"cancelled", "vetoed", "rejected", "failed", "stepless"}
Partings == {"none", "served"} \union Excused
Histories ==
    [ceiling : BOOLEAN, parting : Partings, maintained : Nat, late : Nat, waited : Nat]

TypeOK ==
    /\ phase \in Phases
    /\ run \in Runs
    /\ pc \in Seq(Locations)
    /\ stack \in Seq(Frames)
    /\ nextTurn \in Seq(Nat) /\ nextStep \in Seq(Nat)
    /\ mail \in Seq(Letters)
    /\ trace \in Log!TraceType
    /\ disposal \in Disposals
    /\ history \in Histories

------------------------------------------------------------------------------
(* State functions.                                                        *)

hasPending == nextTurn # <<>> \/ nextStep # <<>>
Aborted == phase.abort # NoAbort

RunningAnyDriver(d) == phase.kind = "running"    \* mutant: no identity test
Running(d) == phase.kind = "running" /\ phase.activity = d
SyncDrivers == {d \in DOMAIN pc : pc[d] \in Sync}

(* The event loop is free: an awaited promise may resume its driver.       *)
Quiet == SyncDrivers = {} /\ stack = <<>>

(* The public API may be called: from a task of its own, or by a listener  *)
(* inside the innermost interrupted call.  Disposal closes nothing: who    *)
(* still holds the agent may call it while its scope unwinds and after.    *)
CanCall ==
    /\ SyncDrivers = {}
    /\ stack # <<>> => Len(stack) < MaxDepth /\ Head(stack).kind \in Listening

(* A session/event listener runs inside append(), which refuses to be      *)
(* reentered: it can reach the phase but not the inbox.                    *)
InAppend ==
    \E d \in SyncDrivers :
       \/ pc[d] = "claim" /\ run.target = "next-turn"    \* turn/start
       \/ pc[d] \in {"boundary", "caught"}               \* step/end
       \/ pc[d] = "ended"                                \* turn/end

FreshRun ==
    [turnEnds |-> NoEnd, retire |-> FALSE, thrown |-> FALSE,
     target |-> "next-turn"]

Init ==
    /\ phase = [kind |-> "idle", activity |-> 0, abort |-> NoAbort,
                wakeRequested |-> FALSE, turn |-> 0, step |-> 0]
    /\ run = FreshRun
    /\ pc = <<>> /\ stack = <<>>
    /\ nextTurn = <<>> /\ nextStep = <<>> /\ mail = <<>>
    /\ trace = Log!FreshTrace
    /\ disposal = [state |-> "live", on |-> 0]
    /\ history = [ceiling |-> FALSE, parting |-> "none", maintained |-> 0, late |-> 0,
                  waited |-> 0]

------------------------------------------------------------------------------
(* Promises: what a waking message may count on, kept for the properties.  *)
(* "late" - submitted to maintenance or to a cancelled activity, which have *)
(* to start a driver for it; "live" - submitted to a driver nobody had     *)
(* cancelled.  A late message counts on the driver that runs once it opens *)
(* a turn, or when that driver is vetoed or cancelled.                     *)
PromiseTo(wake) ==
    IF ~wake \/ phase.kind = "idle" \/ phase.abort = "disposed" THEN "none"
    ELSE IF phase.kind = "maintenance" \/ Aborted THEN "late" ELSE "live"

Met(letters) ==
    [m \in DOMAIN letters |->
        IF letters[m].promise = "late" THEN [letters[m] EXCEPT !.promise = "live"]
        ELSE letters[m]]

------------------------------------------------------------------------------
(* wakeDriver: reserve a running phase and publish it, or latch the wake   *)
(* behind an activity that cannot deliver it.  ph, acts and calls are the  *)
(* phase, the activities and the interrupted calls it runs on.             *)

StartDriver(ph, acts, calls) ==
    /\ phase' = [kind |-> "running", activity |-> Len(acts) + 1, abort |-> NoAbort,
                 wakeRequested |-> FALSE, turn |-> ph.turn, step |-> 0]
    /\ pc' = Append(acts, "start")
    /\ stack' = <<FrameOf("start", FALSE, FALSE, "user")>> \o calls

Latches(ph, wakeAfterAbort) ==
    ph.abort # "disposed" /\ (ph.kind = "maintenance" \/ wakeAfterAbort)

WakeDriver(wakeAfterAbort, calls) ==
    IF phase.kind = "idle" THEN StartDriver(phase, pc, calls)
    ELSE /\ phase' = [phase EXCEPT !.wakeRequested = @ \/ Latches(phase, wakeAfterAbort)]
         /\ stack' = calls
         /\ UNCHANGED pc

(* setPhase(idle): the status change runs its listeners before anything    *)
(* else; retireRunning has read the latch of the phase object by then.     *)
RetireRunning(d, location) ==
    /\ pc' = [pc EXCEPT ![d] = location]
    /\ IF Running(d)
       THEN /\ phase' = [kind |-> "idle", activity |-> 0, abort |-> NoAbort,
                         wakeRequested |-> FALSE, turn |-> phase.turn, step |-> 0]
            /\ stack' = <<FrameOf("status", phase.wakeRequested, FALSE, "user")>> \o stack
       ELSE UNCHANGED <<phase, stack>>

(* ... and replays the latch afterwards, if the inbox still holds work.    *)
Dropped(wake) == FALSE                            \* mutant: no replay
Replays(wake) == wake /\ hasPending

FinishRetire ==
    /\ SyncDrivers = {}
    /\ stack # <<>> /\ Head(stack).kind = "status"
    /\ IF Replays(Head(stack).wake)
       THEN WakeDriver(FALSE, Tail(stack))
       ELSE stack' = Tail(stack) /\ UNCHANGED <<phase, pc>>
    /\ UNCHANGED <<run, nextTurn, nextStep, mail, trace, disposal, history>>

------------------------------------------------------------------------------
(* The public API: send, cancel, inbox.remove, runMaintenance, dispose.    *)

(* inbox.splice(target, Infinity, 0, [message])                            *)
AtEnd(list, m) == Append(list, m)

Insert(target, wake) ==
    /\ Len(mail) < MaxMessage
    /\ mail' = Append(mail, [list |-> target, fate |-> "pending", turn |-> 0,
                             promise |-> PromiseTo(wake)])
    /\ IF target = "next-turn"
       THEN nextTurn' = AtEnd(nextTurn, Len(mail) + 1) /\ UNCHANGED nextStep
       ELSE nextStep' = AtEnd(nextStep, Len(mail) + 1) /\ UNCHANGED nextTurn

(* send, up to the listeners of the insertion.  The classification is      *)
(* taken before the insertion and kept in the frame.                       *)
WakingAfterAbort(wake) == wake /\ phase.kind # "idle" /\ Aborted

Send(target, wake) ==
    /\ CanCall
    /\ LET late == WakingAfterAbort(wake)
       IN  /\ Insert(IF late THEN "next-turn" ELSE target, wake)
           /\ stack' = <<FrameOf("send", wake, late, "user")>> \o stack
    /\ history' = IF wake /\ phase.kind = "running" /\ Aborted
                  THEN [history EXCEPT !.late = phase.activity] ELSE history
    /\ UNCHANGED <<phase, run, pc, trace, disposal>>

Reclassified(frame) == WakingAfterAbort(frame.wake)   \* mutant: taken after insertion
Classified(frame) == frame.late

FinishSend ==
    /\ SyncDrivers = {}
    /\ stack # <<>> /\ Head(stack).kind = "send"
    /\ IF Head(stack).wake
       THEN WakeDriver(Classified(Head(stack)), Tail(stack))
       ELSE stack' = Tail(stack) /\ UNCHANGED <<phase, pc>>
    /\ UNCHANGED <<run, nextTurn, nextStep, mail, trace, disposal, history>>

(* abort.abort(cause): the first cause stays.  dispose() then awaits       *)
(* whenIdle(), which reads activityDone - the latest activity - here.      *)
Abort(cause, keepInbox, letters) ==
    LET stopped == [phase EXCEPT
                      !.wakeRequested = @ /\ keepInbox,
                      !.abort = IF phase.kind = "idle" \/ Aborted THEN @ ELSE cause]
    IN  /\ phase' = stopped
        /\ mail' = IF phase.kind = "running" /\ ~Aborted
                   THEN Met(letters) ELSE letters
        /\ disposal' = IF cause = "disposed"
                       THEN [state |-> "waiting", on |-> Len(pc)]
                       ELSE disposal

MayCancel(cause) == cause = "disposed" => disposal.state = "live"

(* cancel(cause, {keepInbox: true}), and cancel of an empty inbox          *)
Cancel(cause, keepInbox) ==
    /\ CanCall
    /\ MayCancel(cause)
    /\ cause = "disposed" => ~keepInbox
    /\ keepInbox \/ ~hasPending
    /\ Abort(cause, keepInbox, mail)
    /\ UNCHANGED <<run, pc, stack, nextTurn, nextStep, trace, history>>

(* cancel(cause): inbox.clear() runs the listeners of each removal before  *)
(* the latch is reset and the controller aborted.                          *)
CancelClear(cause) ==
    /\ CanCall
    /\ MayCancel(cause)
    /\ hasPending
    /\ mail' = [m \in DOMAIN mail |->
                  IF m \in ToSet(nextStep \o nextTurn)
                  THEN [mail[m] EXCEPT !.fate = "discarded", !.promise = "none"] ELSE mail[m]]
    /\ nextTurn' = <<>> /\ nextStep' = <<>>
    /\ stack' = <<FrameOf("cancel", FALSE, FALSE, cause)>> \o stack
    /\ UNCHANGED <<phase, run, pc, trace, disposal, history>>

FinishCancel ==
    /\ SyncDrivers = {}
    /\ stack # <<>> /\ Head(stack).kind = "cancel"
    /\ Abort(Head(stack).cause, FALSE, mail)
    /\ stack' = Tail(stack)
    /\ UNCHANGED <<run, pc, nextTurn, nextStep, trace, history>>

(* cancel called by a session/event listener: clear() throws when there is *)
(* something to remove, and the call changes nothing.                      *)
CancelInAppend(keepInbox) ==
    /\ InAppend
    /\ keepInbox \/ ~hasPending
    /\ Abort("user", keepInbox, mail)
    /\ UNCHANGED <<run, pc, stack, nextTurn, nextStep, trace, history>>

(* dispose() called by a session/event listener.  When clear() throws,     *)
(* its finally block leaves the registries with no abort and no wait.      *)
DisposeFromAppend ==
    /\ DisposeInAppend
    /\ InAppend
    /\ disposal.state = "live"
    /\ IF hasPending
       THEN /\ disposal' = [disposal EXCEPT !.state = "detached"]
            /\ history' = [history EXCEPT !.waited = Len(pc)]
            /\ UNCHANGED <<phase, mail>>
       ELSE Abort("disposed", FALSE, mail) /\ UNCHANGED history
    /\ UNCHANGED <<run, pc, stack, nextTurn, nextStep, trace>>

(* inbox.remove(messageId)                                                 *)
Remove_(m) ==
    /\ CanCall
    /\ \/ \E i \in DOMAIN nextTurn :
             /\ nextTurn[i] = m
             /\ nextTurn' = RemoveAt(nextTurn, i) /\ UNCHANGED nextStep
       \/ \E i \in DOMAIN nextStep :
             /\ nextStep[i] = m
             /\ nextStep' = RemoveAt(nextStep, i) /\ UNCHANGED nextTurn
    /\ mail' = [mail EXCEPT ![m].fate = "discarded", ![m].promise = "none"]
    /\ UNCHANGED <<phase, run, pc, stack, trace, disposal, history>>

(* runMaintenance: public status stays idle, so nobody is notified.        *)
RunMaintenance ==
    /\ CanCall
    /\ phase.kind = "idle"
    /\ history.maintained < MaxMaintenance
    /\ phase' = [phase EXCEPT !.kind = "maintenance", !.activity = Len(pc) + 1]
    /\ pc' = Append(pc, "maintenance")
    /\ history' = [history EXCEPT !.maintained = @ + 1]
    /\ UNCHANGED <<run, stack, nextTurn, nextStep, mail, trace, disposal>>

Unresolved(a) == pc                               \* mutant: done never resolves
Resolved(a) == [pc EXCEPT ![a] = "done"]

FinishMaintenance(a) ==
    /\ Quiet
    /\ pc[a] = "maintenance"
    /\ LET idle == [phase EXCEPT !.kind = "idle", !.activity = 0, !.abort = NoAbort,
                                 !.wakeRequested = FALSE]
           acts == Resolved(a)
       IN  IF Replays(phase.wakeRequested)
           THEN StartDriver(idle, acts, stack)
           ELSE phase' = idle /\ pc' = acts /\ UNCHANGED stack
    /\ UNCHANGED <<run, nextTurn, nextStep, mail, trace, disposal, history>>

------------------------------------------------------------------------------
(* The driver.  AppendEvent is session.append for a turn or step boundary. *)

AppendEvent(type, turn, step) ==
    trace' = Log!Appended(trace, Log!Boundary(type, turn, step))

At(d, location) == pc[d] = location
Goto(d, location) == pc' = [pc EXCEPT ![d] = location]

(* A failure inside the try block of turn() reaches its catch clause, after *)
(* the step's own finally clause when a step is open.                      *)
StraightToCatch(location) == "caught"             \* mutant: no finally around step()
FailsTo(location) == IF location \in {"request", "tools"} THEN "endStep" ELSE "caught"

Throw(d) ==
    /\ run' = [run EXCEPT !.thrown = TRUE]
    /\ Goto(d, FailsTo(pc[d]))
    /\ UNCHANGED <<phase, stack, nextTurn, nextStep, mail, trace, disposal, history>>

(* wakeDriver after the status listeners: kick() and the first turn() run  *)
(* on the same call stack.                                                 *)
FinishStart ==
    /\ SyncDrivers = {}
    /\ stack # <<>> /\ Head(stack).kind = "start"
    /\ phase.kind = "running"
    /\ Goto(phase.activity, "open")
    /\ stack' = Tail(stack)
    /\ UNCHANGED <<phase, run, nextTurn, nextStep, mail, trace, disposal, history>>

(* turn(): open the turn before its first claim.  A cancelled driver opens *)
(* none, and a validator may veto the append.                              *)
Opening(d) == At(d, "open") \/ (At(d, "gap") /\ Quiet)

Open(d) ==
    /\ Opening(d)
    /\ IF Aborted
       THEN Goto(d, "leave") /\ UNCHANGED <<phase, run, mail, trace, history>>
       ELSE /\ AppendEvent("turn/start", phase.turn + 1, 0)
            /\ phase' = [phase EXCEPT !.turn = @ + 1]
            /\ run' = FreshRun
            /\ mail' = Met(mail)
            /\ history' = [history EXCEPT !.ceiling = FALSE, !.parting = "none"]
            /\ Goto(d, "claim")
    /\ UNCHANGED <<stack, nextTurn, nextStep, disposal>>

Veto(d) ==
    /\ Opening(d)
    /\ ~Aborted
    /\ Goto(d, "vetoed")
    /\ mail' = Met(mail)
    /\ stack' = <<FrameOf("error", FALSE, FALSE, "user")>> \o stack
    /\ UNCHANGED <<phase, run, nextTurn, nextStep, trace, disposal, history>>

(* inbox.claim: all next-step input, then one queued turn at a turn        *)
(* boundary.  The claimed messages are out of the inbox from here on.      *)
TakesTurn(target) == target = "next-turn" /\ nextTurn # <<>>
Batch(target) == nextStep \o (IF TakesTurn(target) THEN <<Head(nextTurn)>> ELSE <<>>)
Unclaimed(target) == IF TakesTurn(target) THEN Tail(nextTurn) ELSE nextTurn

Claim(d) ==
    /\ At(d, "claim")
    /\ ~Aborted
    /\ nextStep' = <<>>
    /\ nextTurn' = Unclaimed(run.target)
    /\ mail' = [m \in DOMAIN mail |->
                  IF m \in ToSet(Batch(run.target))
                  THEN [mail[m] EXCEPT !.fate = "claimed", !.turn = phase.turn, !.promise = "none"]
                  ELSE mail[m]]
    /\ Goto(d, "preStep")
    /\ UNCHANGED <<phase, run, stack, trace, disposal, history>>

(* preStep after assemble and the agent/pre-step waterfall.  The waterfall *)
(* may rewrite any batch to empty and any empty batch to non-empty.        *)
DecidedUnchecked(d) == At(d, "preStep") /\ Quiet  \* mutant: no throwIfAborted after it
Decided(d) == At(d, "preStep") /\ Quiet /\ ~Aborted

Reject(d) ==
    /\ Decided(d)
    /\ run' = [run EXCEPT !.turnEnds = "blocked", !.retire = TRUE]
    /\ Goto(d, "endTurn")
    /\ UNCHANGED <<phase, stack, nextTurn, nextStep, mail, trace, disposal, history>>

EnterEmpty(d) ==
    /\ Decided(d)
    /\ run.turnEnds # NoEnd \/ phase.step = 0
    /\ IF run.turnEnds # NoEnd THEN UNCHANGED run
       ELSE run' = [run EXCEPT !.turnEnds = "completed", !.retire = TRUE]
    /\ Goto(d, "endTurn")
    /\ UNCHANGED <<phase, stack, nextTurn, nextStep, mail, trace, disposal, history>>

StartStep(d, messages) ==
    /\ Decided(d)
    /\ messages \/ (run.turnEnds = NoEnd /\ phase.step # 0)
    /\ AppendEvent("step/start", phase.turn, phase.step + 1)
    /\ phase' = [phase EXCEPT !.step = @ + 1]
    /\ Goto(d, "request")
    /\ UNCHANGED <<run, stack, nextTurn, nextStep, mail, disposal, history>>

(* step(): the request loop.  Failed attempts that are retried change      *)
(* nothing here; max-tokens ends the step before any tool runs.            *)
StepEndsUnsticky(end) ==                          \* mutant: max-tokens downgraded
    run' = [run EXCEPT !.turnEnds = end]
StepEndsUndefined(end) ==                         \* mutant: undefined for null
    run' = [run EXCEPT !.turnEnds = IF end = NoEnd THEN "undefined" ELSE end]
StepEnds(end) ==
    run' = [run EXCEPT !.turnEnds = IF @ = "max-tokens" THEN @ ELSE end]

Respond(d, end) ==
    /\ At(d, "request") /\ Quiet /\ ~Aborted
    /\ StepEnds(end)
    /\ history' = [history EXCEPT !.ceiling = @ \/ end = "max-tokens"]
    /\ Goto(d, "endStep")
    /\ UNCHANGED <<phase, stack, nextTurn, nextStep, mail, trace, disposal>>

CallTools(d) ==
    /\ At(d, "request") /\ Quiet /\ ~Aborted
    /\ Goto(d, "tools")
    /\ UNCHANGED <<phase, run, stack, nextTurn, nextStep, mail, trace, disposal, history>>

(* executeToolCalls drains after an abort: contexts are still accepted and *)
(* the step still returns.                                                 *)
AcceptContext(d) ==
    /\ At(d, "tools") /\ Quiet
    /\ Insert("next-step", FALSE)
    /\ UNCHANGED <<phase, run, pc, stack, trace, disposal, history>>

FinishTools(d, concluded) ==
    /\ At(d, "tools") /\ Quiet
    /\ concluded \/ phase.step < MaxStep
    /\ StepEnds(IF concluded THEN "completed" ELSE NoEnd)
    /\ Goto(d, "endStep")
    /\ UNCHANGED <<phase, stack, nextTurn, nextStep, mail, trace, disposal, history>>

(* A rejected await: an abort check, a provider or plugin failure.         *)
AwaitThrows(d) ==
    /\ pc[d] \in {"preStep", "request", "tools", "stopping"}
    /\ Quiet
    /\ Throw(d)

EndStep(d) ==
    /\ At(d, "endStep")
    /\ AppendEvent("step/end", phase.turn, phase.step)
    /\ Goto(d, IF run.thrown THEN "caught" ELSE "boundary")
    /\ UNCHANGED <<phase, run, stack, nextTurn, nextStep, mail, disposal, history>>

(* The end of one pass of turn()'s loop, and its continuation after the    *)
(* agent/turn-stopping listeners: stop, or claim another step.             *)
SameTarget == run.target                          \* mutant: target never switched
NextTarget == "next-step"

StepBoundary(d) ==
    /\ At(d, "boundary")
    /\ ~Aborted
    /\ IF run.turnEnds # NoEnd /\ nextStep = <<>>
       THEN Goto(d, "stopping") /\ UNCHANGED run
       ELSE Goto(d, "claim") /\ run' = [run EXCEPT !.target = NextTarget]
    /\ UNCHANGED <<phase, stack, nextTurn, nextStep, mail, trace, disposal, history>>

Stopped(d) ==
    /\ At(d, "stopping") /\ Quiet /\ ~Aborted
    /\ IF nextStep = <<>>
       THEN Goto(d, "endTurn") /\ UNCHANGED run
       ELSE Goto(d, "claim") /\ run' = [run EXCEPT !.target = NextTarget]
    /\ UNCHANGED <<phase, stack, nextTurn, nextStep, mail, trace, disposal, history>>

(* throwIfAborted on the call stack, without an await before it            *)
SyncThrows(d) == pc[d] \in {"claim", "boundary"} /\ Aborted /\ Throw(d)

(* turn()'s catch: a cancelled turn ends aborted whatever failed; any      *)
(* other failure is published as agent/error before the finally clause.    *)
Catch(d) ==
    /\ At(d, "caught")
    /\ run' = [run EXCEPT !.turnEnds = IF Aborted THEN "aborted" ELSE "error",
                          !.retire = TRUE]
    /\ IF Aborted
       THEN Goto(d, "endTurn") /\ UNCHANGED stack
       ELSE /\ Goto(d, "failing")
            /\ stack' = <<FrameOf("error", FALSE, FALSE, "user")>> \o stack
    /\ UNCHANGED <<phase, nextTurn, nextStep, mail, trace, disposal, history>>

FinishError ==
    /\ SyncDrivers = {}
    /\ stack # <<>> /\ Head(stack).kind = "error"
    /\ Goto(phase.activity, IF pc[phase.activity] = "vetoed" THEN "leave" ELSE "endTurn")
    /\ stack' = Tail(stack)
    /\ UNCHANGED <<phase, run, nextTurn, nextStep, mail, trace, disposal, history>>

(* turn()'s finally, then the decision between retiring and another turn.  *)
EndTurn(d) ==
    /\ At(d, "endTurn")
    /\ AppendEvent("turn/end", phase.turn, 0)
    /\ Goto(d, "ended")
    /\ UNCHANGED <<phase, run, stack, nextTurn, nextStep, mail, disposal, history>>

NoSteerQueued == run.retire \/ nextStep = <<>>     \* mutant: follow-ups forgotten
Retires == run.retire \/ ~hasPending

Continue(d) ==
    /\ At(d, "ended")
    /\ ~Retires
    /\ phase' = [phase EXCEPT !.abort = NoAbort, !.wakeRequested = FALSE, !.step = 0]
    /\ Goto(d, "gap")
    /\ UNCHANGED <<run, stack, nextTurn, nextStep, mail, trace, disposal, history>>

(* How a driver leaves after a turn: for NothingStranded.  Every end but   *)
(* "served" retires without another look at the inbox.                     *)
Parting ==
    IF Aborted THEN "cancelled"
    ELSE IF run.turnEnds = "blocked" THEN "rejected"
    ELSE IF run.turnEnds = "error" THEN "failed"
    ELSE IF phase.step = 0 THEN "stepless" ELSE "served"

Retire(d) ==
    /\ At(d, "ended")
    /\ Retires
    /\ RetireRunning(d, "leave")
    /\ history' = [history EXCEPT !.parting = Parting, !.ceiling = FALSE]
    /\ run' = FreshRun
    /\ UNCHANGED <<nextTurn, nextStep, mail, trace, disposal>>

(* kick()'s finally clause, and the resolution of the activity's promise.  *)
(* A driver that opened no turn, cancelled or vetoed, retires only here.   *)
Leave(d) ==
    /\ At(d, "leave") /\ Quiet
    /\ RetireRunning(d, "done")
    /\ history' = IF Running(d)
                  THEN [history EXCEPT !.parting = IF Aborted THEN "cancelled" ELSE "vetoed"]
                  ELSE history
    /\ UNCHANGED <<run, nextTurn, nextStep, mail, trace, disposal>>

(* whenIdle() in dispose(): follow replacement activities.  It then awaits *)
(* machine.scope.dispose(), with the agent still in the registries.        *)
NeverReplaced == FALSE                            \* mutant: whenIdle awaits once
Replaced == disposal.on # Len(pc)                \* activity !== this.activityDone

WhenIdle ==
    /\ Quiet
    /\ disposal.state = "waiting"
    /\ disposal.on # 0 => pc[disposal.on] = "done"
    /\ IF Replaced
       THEN disposal' = [disposal EXCEPT !.on = Len(pc)] /\ UNCHANGED history
       ELSE /\ disposal' = [disposal EXCEPT !.state = "unwinding"]
            /\ history' = [history EXCEPT !.waited = Len(pc)]
    /\ UNCHANGED <<phase, run, pc, stack, nextTurn, nextStep, mail, trace>>

(* The scope is unwound: leave the registries, whatever runs by now.       *)
Detach ==
    /\ Quiet
    /\ disposal.state = "unwinding"
    /\ disposal' = [disposal EXCEPT !.state = "detached"]
    /\ UNCHANGED <<phase, run, pc, stack, nextTurn, nextStep, mail, trace, history>>

------------------------------------------------------------------------------

Client ==
    \/ \E target \in Targets, wake \in BOOLEAN : Send(target, wake)
    \/ \E cause \in Causes, keepInbox \in BOOLEAN : Cancel(cause, keepInbox)
    \/ \E cause \in Causes : CancelClear(cause)
    \/ \E keepInbox \in BOOLEAN : CancelInAppend(keepInbox)
    \/ DisposeFromAppend
    \/ \E m \in DOMAIN mail : Remove_(m)
    \/ RunMaintenance

(* What runs to its end once started: calls return, drivers advance, and   *)
(* the awaited providers, plugins and tools settle.                        *)
Return == FinishStart \/ FinishSend \/ FinishCancel \/ FinishRetire \/ FinishError

Synchronous(d) ==
    \/ Open(d) \/ Veto(d) \/ Claim(d) \/ EndStep(d) \/ StepBoundary(d) \/ SyncThrows(d)
    \/ Catch(d) \/ EndTurn(d) \/ Continue(d) \/ Retire(d)

Resume(d) ==
    \/ Reject(d) \/ EnterEmpty(d)
    \/ \E messages \in BOOLEAN : StartStep(d, messages)
    \/ \E end \in {"completed", "max-tokens"} : Respond(d, end)
    \/ CallTools(d) \/ AcceptContext(d)
    \/ \E concluded \in BOOLEAN : FinishTools(d, concluded)
    \/ AwaitThrows(d) \/ Stopped(d) \/ Leave(d)

Next ==
    \/ Client \/ Return \/ WhenIdle \/ Detach
    \/ \E d \in DOMAIN pc : Synchronous(d) \/ Resume(d) \/ FinishMaintenance(d)

Spec == Init /\ [][Next]_vars

(* Fairness.  A JavaScript call returns and a resumed async function runs  *)
(* to its next await; that a provider, plugin, tool or maintenance task    *)
(* the driver awaits settles, and that the scope unwinds, is the           *)
(* assumption the code makes of them.                                      *)
MaxActivity == MaxMessage + MaxMaintenance

Advance(d) ==
    d \in DOMAIN pc /\ (Synchronous(d) \/ Resume(d) \/ FinishMaintenance(d))

Fairness ==
    /\ WF_vars(Return)
    /\ WF_vars(WhenIdle)
    /\ WF_vars(Detach)
    /\ \A d \in 1..MaxActivity : WF_vars(Advance(d))

FairSpec == Spec /\ Fairness

------------------------------------------------------------------------------
(* Properties.                                                             *)

(* At most one driver exists, it owns the running phase object, and a      *)
(* running phase has a driver that will retire it: a driver whose phase    *)
(* was replaced while its finally clauses were pending must not retire the *)
(* next one (retireRunning's identity test).                               *)
OneDriver ==
    /\ \A d \in DOMAIN pc : pc[d] \in Driving => Running(d)
    /\ phase.kind = "running" =>
          phase.activity \in DOMAIN pc /\ pc[phase.activity] \in Driving \union {"leave"}
    /\ \A a \in DOMAIN pc :
          pc[a] = "maintenance" <=> phase.kind = "maintenance" /\ phase.activity = a

(* The loop appends only boundary events the session companion accepts,    *)
(* whatever is cancelled, thrown, vetoed or replayed, and in particular    *)
(* closes every step and turn it opened.                                   *)
LogAccepted == Log!Spec

(* When no driver runs, the log has no open turn.                          *)
RestIsBalanced ==
    phase.kind # "running" => trace.openTurn = Log!None /\ trace.openStep = Log!None

(* Whatever is steered, cancelled, vetoed or replayed around it, each      *)
(* message meets one fate; a follow-up is the only one of its turn, in the *)
(* order they were queued; and a step takes all that was steered: the      *)
(* driver and its two lists implement AgentInput.                          *)
InputServed == Input!Spec

(* Nothing runs and nothing is about to.                                   *)
AtRest == phase.kind = "idle" /\ Quiet

(* A driver's latch stands for a wake some caller submitted after that     *)
(* very driver was cancelled: send classifies before it inserts, so a      *)
(* cancel made by a listener of the insertion replays nothing.             *)
LatchIsEarned ==
    phase.kind = "running" /\ phase.wakeRequested => history.late = phase.activity

(* Nobody is left with waking input that a driver accepted, or was started *)
(* for, unless the last driver was cancelled, its turn vetoed, rejected or *)
(* failed, or its turn opened no step: those retire without another look   *)
(* at the inbox, and such input stays parked until the next wake.  Any     *)
(* other driver claims all of it before it retires.                        *)
NothingStranded ==
    AtRest /\ (\E m \in DOMAIN mail : mail[m].fate = "pending" /\ mail[m].promise = "live")
       => history.parting \in Excused

(* An aborted turn spends nothing more: once its controller is aborted no  *)
(* step opens and no message is claimed for it.                            *)
AbortSeals ==
    [][phase.kind = "running" /\ Aborted
         => /\ trace'.openStep \in {trace.openStep, Log!None}
            /\ trace'.openTurn \in {trace.openTurn, Log!None}
            /\ \A m \in DOMAIN mail : mail'[m].fate = "claimed" => mail[m].fate = "claimed"]_vars

(* The outcome a turn records is the one it met.  It records one on every  *)
(* exit; a cancelled turn is not reported completed, nor one that hit the  *)
(* output ceiling in any of its steps; a turn ends in an error if and only *)
(* if something was thrown in it, and then as aborted only if cancelled    *)
(* (a cancel by a listener of the error itself keeps the error).           *)
HonestOutcome ==
    \A d \in DOMAIN pc : pc[d] = "endTurn" =>
       /\ run.turnEnds # NoEnd
       /\ run.thrown <=> run.turnEnds \in {"aborted", "error"}
       /\ run.thrown /\ ~Aborted => run.turnEnds = "error"
       /\ Aborted => run.thrown
       /\ history.ceiling => run.turnEnds # "completed"

(* Once dispose() has stopped waiting for the agent to be idle, whatever   *)
(* runs was started since: no driver or maintenance task that had begun by *)
(* then, and no replacement of one, outlives the wait.  What is sent while *)
(* the scope unwinds does run, and the agent is detached running.          *)
OnlyLateWorkRuns ==
    disposal.state \in {"unwinding", "detached"} =>
       phase.kind = "idle" \/ phase.activity > history.waited

(* Disposal converges: every activity it waits for retires, however often  *)
(* it is replaced.                                                         *)
DisposalConverges ==
    disposal.state \in {"waiting", "unwinding"} ~> disposal.state = "detached"

(* Waking input sent to maintenance or to a cancelled activity gets a      *)
(* driver when that activity converges, which opens a turn unless it is    *)
(* vetoed or cancelled too: the latch outlives the phase object it was set *)
(* on and the status listeners that run before it is read back.            *)
LateWakeServed ==
    (\E m \in DOMAIN mail : mail[m].fate = "pending" /\ mail[m].promise = "late")
       ~> (\A m \in DOMAIN mail : mail[m].fate # "pending" \/ mail[m].promise # "late")
==============================================================================
