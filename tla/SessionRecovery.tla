--------------------------- MODULE SessionRecovery ---------------------------
(***************************************************************************)
(* What a crash leaves of a session and how it is repaired.                *)
(*                                                                         *)
(* The agent loop appends to the in-memory log; the persistence            *)
(* coordinator makes it durable in batches and at checkpoints              *)
(* (packages/session/session-checkpoint-policy); a crash keeps a prefix;   *)
(* the next load appends the closers of an interrupted turn                *)
(* (packages/core/session/src/repair.ts) and the agent goes on from there. *)
(*                                                                         *)
(* Call identities are those of one assistant message: every step uses     *)
(* 1..MaxCalls again, as providers that number their calls do.             *)
(***************************************************************************)
EXTENDS Integers, Sequences, SequencesExt, FiniteSets

CONSTANTS
    MaxTurn,     \* bound: turns in the log
    MaxStep,     \* bound: steps in the log
    MaxCalls     \* bound: tool calls per assistant message

ASSUME SessionRecoveryAssumption == {MaxTurn, MaxStep, MaxCalls} \subseteq Nat \ {0}

VARIABLES
    log,         \* the session's events
    durable,     \* how many of them storage holds
    trace,       \* the invariant companion's monitor of the log
    mode,        \* "live", "cold" (no process owns it), "prepared" (loaded)
    writer,      \* the agent loop and its scheduler, as far as the log shows
    effects      \* [turn, step, call] of every tool body ever entered

vars == <<log, durable, trace, mode, writer, effects>>

Log == INSTANCE SessionTrace WITH Calls <- 1..MaxCalls

None == Log!None

------------------------------------------------------------------------------
(* Events.  A result's outcome is "ran", or the code of a repaired one.    *)

Assistant(turn, step, asked) ==
    [type |-> "assistant/message", turn |-> turn, step |-> step, asked |-> asked]
Result(turn, step, call, outcome) ==
    [type |-> "tool/result", turn |-> turn, step |-> step, call |-> call,
     synthetic |-> outcome = "not-started", outcome |-> outcome]

Replay(events) ==                          \* after each number of them
    LET tr[n \in 0..Len(events)] ==
            IF n = 0 THEN Log!FreshTrace ELSE Log!Appended(tr[n - 1], events[n])
    IN  tr
Replayed(events) == Replay(events)[Len(events)]

(* new Agent: the turn number continues the log's.                         *)
Starts(events, type) == {i \in DOMAIN events : events[i].type = type}
LastTurn(events) ==
    LET starts == Starts(events, "turn/start")
    IN  IF starts = {} THEN None ELSE events[Max(starts)].turn

------------------------------------------------------------------------------
(* interruptedTurnClosers: one scan over the log, then the closers.        *)

NothingOpen == [turn |-> None, step |-> None, pending |-> <<>>]

FirstOnly(step, asked) ==                  \* mutant: one block of the message
    IF asked = 0 THEN <<>> ELSE <<[call |-> 1, step |-> step, recorded |-> FALSE]>>
Registered(step, asked) ==
    [c \in 1..asked |-> [call |-> c, step |-> step, recorded |-> FALSE]]

Recorded(pending, call) ==
    [i \in DOMAIN pending |->
        IF pending[i].call = call THEN [pending[i] EXCEPT !.recorded = TRUE] ELSE pending[i]]

Answered(pending, call) ==
    LET at == {i \in DOMAIN pending : pending[i].call = call}
    IN  IF at = {} THEN pending ELSE RemoveAt(pending, CHOOSE i \in at : TRUE)

Leaking(open) == [open EXCEPT !.step = None]   \* mutant: step/end keeps pending calls
StepClosed(open) == [open EXCEPT !.step = None, !.pending = <<>>]

Scan(open, e) ==
    CASE e.type = "turn/start"  -> [NothingOpen EXCEPT !.turn = e.turn]
      [] e.type = "turn/end"    -> NothingOpen
      [] e.type = "step/start"  -> [open EXCEPT !.step = e.step]
      [] e.type = "step/end"    -> StepClosed(open)
      [] e.type = "assistant/message" ->
            [open EXCEPT !.pending = @ \o Registered(e.step, e.asked)]
      [] e.type = "tool/call"   -> [open EXCEPT !.pending = Recorded(@, e.call)]
      [] e.type = "tool/result" -> [open EXCEPT !.pending = Answered(@, e.call)]

Scanned(events) ==                         \* after each number of them
    LET open[n \in 0..Len(events)] ==
            IF n = 0 THEN NothingOpen ELSE Scan(open[n - 1], events[n])
    IN  open

StepCloser(open) ==
    IF open.step = None THEN <<>>
    ELSE <<Log!Boundary("step/end", open.turn, open.step)>>

ResultClosers(open) ==
    [i \in DOMAIN open.pending |->
        LET p == open.pending[i]
        IN  Result(open.turn, p.step, p.call,
                   IF p.recorded THEN "unknown" ELSE "not-started")]

StepFirst(open) == StepCloser(open) \o ResultClosers(open) \* mutant: order swapped
StepLast(open) == ResultClosers(open) \o StepCloser(open)

Closers(events) ==
    LET open == Scanned(events)[Len(events)]
    IN  IF open.turn = None THEN <<>>
        ELSE Append(StepLast(open), Log!Boundary("turn/end", open.turn, None))

------------------------------------------------------------------------------
(* The live writer: turn, step, model call, tool calls in model order.     *)

Idle(turn) ==
    [at |-> "idle", turn |-> turn, step |-> 0, asked |-> 0, called |-> 0,
     answered |-> 0, failed |-> FALSE]

Places == {"idle", "turn", "step", "tools"}

Init ==
    /\ log = <<>> /\ durable = 0
    /\ trace = Log!FreshTrace
    /\ mode = "live"
    /\ writer = Idle(None)
    /\ effects = {}

Write(e) ==
    /\ log' = Append(log, e)
    /\ trace' = Log!Appended(trace, e)
    /\ UNCHANGED <<durable, mode, effects>>

StartTurn ==
    /\ mode = "live"
    /\ writer.at = "idle"
    /\ writer.turn < MaxTurn
    /\ Write(Log!Boundary("turn/start", writer.turn + 1, None))
    /\ writer' = [Idle(writer.turn + 1) EXCEPT !.at = "turn"]

StartStep ==
    /\ mode = "live"
    /\ writer.at = "turn" /\ ~writer.failed
    /\ Cardinality(Starts(log, "step/start")) < MaxStep
    /\ Write(Log!Boundary("step/start", writer.turn, writer.step + 1))
    /\ writer' = [writer EXCEPT !.at = "step", !.step = @ + 1]

Answer(asked) ==
    /\ mode = "live"
    /\ writer.at = "step"
    /\ Write(Assistant(writer.turn, writer.step, asked))
    /\ writer' = [writer EXCEPT !.at = "tools", !.asked = asked]

RecordCall ==
    /\ mode = "live"
    /\ writer.at = "tools"
    /\ writer.called < writer.asked
    /\ Write(Log!ToolCall(writer.turn, writer.step, writer.called + 1))
    /\ writer' = [writer EXCEPT !.called = @ + 1]

RecordResult ==
    /\ mode = "live"
    /\ writer.at = "tools"
    /\ writer.answered < writer.called
    /\ Write(Result(writer.turn, writer.step, writer.answered + 1, "ran"))
    /\ writer' = [writer EXCEPT !.answered = @ + 1]

(* The step ends with every call answered, or because the model call or,   *)
(* with a call unanswered, the scheduler failed; then the turn ends too.   *)
EndStep(failed) ==
    /\ mode = "live"
    /\ \/ writer.at = "step" /\ failed
       \/ writer.at = "tools" /\ writer.answered = writer.asked
       \/ writer.at = "tools" /\ writer.answered < writer.called /\ failed
    /\ Write(Log!Boundary("step/end", writer.turn, writer.step))
    /\ writer' = [Idle(writer.turn) EXCEPT !.at = "turn", !.step = writer.step,
                                           !.failed = failed]

EndTurn ==
    /\ mode = "live"
    /\ writer.at = "turn"
    /\ Write(Log!Boundary("turn/end", writer.turn, None))
    /\ writer' = Idle(writer.turn)

(* session/flush drains every event.  What a background batch writes is in *)
(* the prefix Crash keeps.                                                 *)
Flush ==
    /\ mode = "live"
    /\ durable' = Len(log)
    /\ UNCHANGED <<log, trace, mode, writer, effects>>

(* tools/execute: the checkpoint policy flushes before the body runs, so   *)
(* its tool/call is in storage.                                            *)
AtOnce(turn, step, call) == TRUE           \* mutant: the body does not wait
Checkpointed(turn, step, call) ==
    \E i \in 1..durable : log[i] = Log!ToolCall(turn, step, call)

RunBody(call) ==
    LET effect == [turn |-> writer.turn, step |-> writer.step, call |-> call]
    IN  /\ mode = "live"
        /\ writer.at = "tools"
        /\ writer.answered < call /\ call <= writer.called
        /\ Checkpointed(effect.turn, effect.step, call)
        /\ effect \notin effects
        /\ effects' = effects \union {effect}
        /\ UNCHANGED <<log, durable, trace, mode, writer>>

------------------------------------------------------------------------------
(* Crash, load and repair.                                                 *)

(* The process dies: storage keeps what was flushed and any prefix of what *)
(* the write controller had written since.                                 *)
Crash(kept) ==
    /\ mode = "live"
    /\ kept \in durable..Len(log)
    /\ log' = SubSeq(log, 1, kept)
    /\ durable' = kept
    /\ mode' = "cold"
    /\ trace' = Log!FreshTrace
    /\ writer' = Idle(None)
    /\ UNCHANGED effects

(* prepareCore: read the log, add the closers in memory, validate.         *)
Prepare ==
    /\ mode = "cold"
    /\ trace' = Replayed(log \o Closers(log))
    /\ mode' = "prepared"
    /\ UNCHANGED <<log, durable, writer, effects>>

(* commitPrepared: closers are written first, and the log is loaded again; *)
(* a crash may leave only some of them.                                    *)
CommitRepair(kept) ==
    /\ mode = "prepared"
    /\ Closers(log) # <<>>
    /\ kept <= Len(Closers(log))
    /\ log' = log \o SubSeq(Closers(log), 1, kept)
    /\ durable' = Len(log')
    /\ mode' = "cold"
    /\ UNCHANGED <<trace, writer, effects>>

Publish ==
    /\ mode = "prepared"
    /\ Closers(log) = <<>>
    /\ mode' = "live"
    /\ writer' = Idle(LastTurn(log))
    /\ UNCHANGED <<log, durable, trace, effects>>

MaxClosers == MaxCalls + 2

Next ==
    \/ StartTurn \/ StartStep
    \/ \E asked \in 0..MaxCalls : Answer(asked)
    \/ RecordCall \/ RecordResult
    \/ \E failed \in BOOLEAN : EndStep(failed)
    \/ EndTurn
    \/ Flush
    \/ \E call \in 1..MaxCalls : RunBody(call)
    \/ \E kept \in 0..Len(log) : Crash(kept)
    \/ Prepare
    \/ \E kept \in 0..MaxClosers : CommitRepair(kept)
    \/ Publish

Spec == Init /\ [][Next]_vars

------------------------------------------------------------------------------
(* Properties.                                                             *)

Bodies == [turn : Nat, step : Nat, call : 1..MaxCalls]

Events ==
    [type : {"turn/start", "turn/end", "step/start", "step/end"}, turn : Nat, step : Nat]
        \union [type : {"assistant/message"}, turn : Nat, step : Nat, asked : 0..MaxCalls]
        \union [type : {"tool/call"}, turn : Nat, step : Nat, call : 1..MaxCalls]
        \union [type : {"tool/result"}, turn : Nat, step : Nat, call : 1..MaxCalls,
                synthetic : BOOLEAN, outcome : {"ran", "unknown", "not-started"}]

TypeOK ==
    /\ log \in Seq(Events) /\ durable \in 0..Len(log)
    /\ trace \in Log!TraceType
    /\ mode \in {"live", "cold", "prepared"}
    /\ writer \in [at : Places, turn : Nat, step : Nat, asked : 0..MaxCalls,
                   called : 0..MaxCalls, answered : 0..MaxCalls, failed : BOOLEAN]
    /\ effects \subseteq Bodies

(* Whatever crashes and repairs came before, every event appended to the   *)
(* log, live or by the repair, is one the invariant companion accepts.     *)
AlwaysAccepted == trace.openTurn # Log!Refused

(* Whatever prefix a crash kept, the repaired log is balanced; a live log  *)
(* needs closers exactly while its turn is open, when load refuses it; and *)
(* a repair that was itself interrupted goes on where it stopped: what is  *)
(* left to append is the rest of the same closers.                         *)
RepairBalances ==
    /\ mode = "prepared" => trace.openTurn = None /\ trace.openStep = None
    /\ mode = "live" => (Closers(log) # <<>> <=> trace.openTurn # None)

RepairConverges ==
    mode = "prepared" =>
        LET closers == Closers(log)
        IN  \A k \in DOMAIN closers :
                Closers(log \o SubSeq(closers, 1, k))
                    = SubSeq(closers, k + 1, Len(closers))

RecoveryOK == TypeOK /\ RepairBalances /\ RepairConverges

(* The open step of an interrupted turn gets one result for every call of  *)
(* its assistant message, and no call of any step ever gets a second one.  *)
ResultsOf(events, e, call) ==
    {i \in DOMAIN events :
        /\ events[i].type = "tool/result" /\ events[i].call = call
        /\ events[i].turn = e.turn /\ events[i].step = e.step}

Failed(events, e) ==   \* the loop itself closed the step, without a result
    \E i \in DOMAIN events :
        /\ events[i] = Log!Boundary("step/end", e.turn, e.step)
        /\ \A j \in 1..i : events[j].type = "tool/result" =>
              events[j].outcome = "ran" \/ <<events[j].turn, events[j].step>> # <<e.turn, e.step>>

CallsAnsweredOnce ==
    mode = "prepared" =>
        LET repaired == log \o Closers(log)
        IN  \A i \in DOMAIN repaired : repaired[i].type = "assistant/message" =>
                \A call \in 1..repaired[i].asked :
                    LET found == ResultsOf(repaired, repaired[i], call)
                    IN  \/ \E j \in found : found = {j}
                        \/ found = {} /\ Failed(log, repaired[i])

(* A tool whose body was entered is never reported to the model as not     *)
(* started, the advice on which it would be retried blindly: across        *)
(* batches, crashes and interrupted repairs its tool/call reached storage  *)
(* before the body.                                                        *)
RunIsNeverNotStarted ==
    \A i \in DOMAIN log :
        log[i].type = "tool/result" /\ log[i].outcome = "not-started" =>
            [turn |-> log[i].turn, step |-> log[i].step, call |-> log[i].call] \notin effects
==============================================================================
