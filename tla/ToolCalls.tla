------------------------------ MODULE ToolCalls ------------------------------
(***************************************************************************)
(* executeToolCalls (packages/core/agent-loop/src/tool-calls.ts): the      *)
(* scheduler that runs the tool calls of one assistant message as a chain  *)
(* of exclusive barriers and bounded parallel pools, and commits their     *)
(* results to the session log in model order.                              *)
(*                                                                         *)
(* Calls are numbered in model order.  Tool bodies, the pre- and           *)
(* post-execute hooks and the registry belong to plugins: they settle,     *)
(* fail or reclassify a call at any await of the scheduler.                *)
(***************************************************************************)
EXTENDS Integers, Sequences, FiniteSets

CONSTANTS
    NumCalls,      \* tool calls of the assistant message
    MaxParallel    \* config.maxParallelToolCalls

ASSUME ToolCallsAssumption == NumCalls \in Nat \ {0} /\ MaxParallel \in Nat \ {0}

Calls == 1..NumCalls

VARIABLES
    pc,          \* where executeToolCalls / runGroup is
    signal,      \* the turn's abort signal
    mode,        \* mode[c]: the registry's current execution mode of call c
    group,       \* calls of the running group: [first, last, mode]
    nextStart,   \* the next call fillPool would start
    started,     \* how many calls of the group were started
    committed,   \* results committed so far, a prefix of the calls
    aborted,     \* runGroup's local flag
    failure,     \* schedulerFailure !== undefined
    slot,        \* slot[c]: the settled result waiting for its commit
    inFlight,    \* dispatched calls that the race has not consumed
    settled,     \* dispatched calls whose body has settled
    concluded,   \* some committed result concluded the turn
    results,     \* the result events in log order: [call, kind]
    trace        \* what the session log leaves open (SessionTrace)

vars == <<pc, signal, mode, group, nextStart, started, committed, aborted, failure,
          slot, inFlight, settled, concluded, results, trace>>

Log == INSTANCE SessionTrace

Modes == {"parallel", "exclusive"}
Turn == 1
Step == 1

Locations == {"classify", "fill", "prepare", "commit", "finalize", "race", "drain",
              "skip", "answer", "returned", "threw"}
Synchronous == {"fill", "skip", "answer"}  \* no await: plugins do not run here

TypeOK ==
    /\ pc \in Locations
    /\ signal \in BOOLEAN /\ aborted \in BOOLEAN
    /\ failure \in BOOLEAN /\ concluded \in BOOLEAN
    /\ mode \in [Calls -> Modes]
    /\ group \in [first : 1..NumCalls + 1, last : 0..NumCalls, mode : Modes]
    /\ nextStart \in 1..NumCalls + 1
    /\ started \in 0..NumCalls /\ committed \in 0..NumCalls
    /\ slot \in [Calls -> {"empty", "post", "final"}]
    /\ inFlight \subseteq Calls /\ settled \subseteq Calls
    /\ results \in Seq([call : Calls, kind : {"ran", "skipped"}])
    /\ trace \in Log!TraceType

Init ==
    /\ pc = "classify"
    /\ signal \in BOOLEAN
    /\ mode \in [Calls -> Modes]
    /\ group = [first |-> 1, last |-> 0, mode |-> "exclusive"]
    /\ nextStart = 1 /\ started = 0 /\ committed = 0
    /\ aborted = FALSE /\ failure = FALSE /\ concluded = FALSE
    /\ slot = [c \in Calls |-> "empty"]
    /\ inFlight = {} /\ settled = {}
    /\ results = <<>>
    /\ trace = [Log!FreshTrace EXCEPT !.openTurn = Turn, !.openStep = Step]

------------------------------------------------------------------------------
(* Session events.                                                         *)

NoCallEvent(tr, c) == tr                   \* mutant: tool/call is not appended
CallEvent(tr, c) == Log!Appended(tr, Log!ToolCall(Turn, Step, c))
ResultEvent(tr, c) == Log!Appended(tr, Log!ToolResult(Turn, Step, c, FALSE))

------------------------------------------------------------------------------
(* executeToolCalls: classify the next call and open its group.            *)

Grouped(first) ==
    [first |-> first,
     last  |-> IF mode[first] = "parallel" THEN NumCalls ELSE first,
     mode  |-> mode[first]]

Classify ==
    /\ pc = "classify"
    /\ IF group.first > NumCalls
       THEN pc' = "returned" /\ UNCHANGED <<group, nextStart, started, aborted>>
       ELSE /\ group' = Grouped(group.first)
            /\ nextStart' = group.first
            /\ started' = 0
            /\ aborted' = signal
            /\ pc' = "fill"
    /\ UNCHANGED <<signal, mode, committed, failure, slot, inFlight, settled, concluded,
                   results, trace>>

(* fillPool: start the next call unless the pool is full, the abort was    *)
(* seen, or a later call turned into a barrier.                            *)
NoBarrier == TRUE                          \* mutant: modes not read again
Joins ==
    nextStart > group.first /\ group.mode = "parallel" => mode[nextStart] = "parallel"

HasRoom == nextStart <= group.last /\ Cardinality(inFlight) < MaxParallel

MayStart == ~aborted /\ HasRoom /\ Joins

StartCall ==
    /\ pc = "fill"
    /\ MayStart
    /\ trace' = CallEvent(trace, nextStart)
    /\ started' = started + 1
    /\ pc' = "prepare"
    /\ UNCHANGED <<signal, mode, group, nextStart, committed, aborted, failure, slot,
                   inFlight, settled, concluded, results>>

StopFilling ==
    /\ pc = "fill"
    /\ ~MayStart
    /\ pc' = "race"
    /\ UNCHANGED <<signal, mode, group, nextStart, started, committed, aborted, failure,
                   slot, inFlight, settled, concluded, results, trace>>

(* prepare() settles: a body is dispatched, or a result is already known.  *)
Prepare(outcome) ==
    /\ pc = "prepare"
    /\ ~failure
    /\ IF outcome = "dispatch"
       THEN inFlight' = inFlight \union {nextStart} /\ UNCHANGED slot
       ELSE slot' = [slot EXCEPT ![nextStart] = outcome] /\ UNCHANGED inFlight
    /\ nextStart' = nextStart + 1
    /\ pc' = "commit"
    /\ UNCHANGED <<signal, mode, group, started, committed, aborted, failure, settled,
                   concluded, results, trace>>

(* commitReady: contiguous settled results in model order; a result that   *)
(* needs post-processing awaits it first.                                  *)
AnySettled(c) == \E d \in c..group.last : slot[d] # "empty"  \* mutant: skips a slow call
Ready(c) == c <= group.last /\ slot[c] # "empty"

Finalize ==
    /\ pc = "commit"
    /\ Ready(committed + 1)
    /\ slot[committed + 1] = "post"
    /\ pc' = "finalize"
    /\ UNCHANGED <<signal, mode, group, nextStart, started, committed, aborted, failure,
                   slot, inFlight, settled, concluded, results, trace>>

Commit(concludes) ==
    /\ \/ pc = "finalize"
       \/ pc = "commit" /\ Ready(committed + 1) /\ slot[committed + 1] # "post"
    /\ trace' = ResultEvent(trace, committed + 1)
    /\ results' = Append(results, [call |-> committed + 1, kind |-> "ran"])
    /\ concluded' = (concluded \/ concludes)
    /\ committed' = committed + 1
    /\ pc' = "commit"
    /\ UNCHANGED <<signal, mode, group, nextStart, started, aborted, failure, slot,
                   inFlight, settled>>

Noticed == aborted \/ signal

Committed ==
    /\ pc = "commit"
    /\ ~Ready(committed + 1)
    /\ IF failure THEN pc' = "drain" /\ UNCHANGED aborted
       ELSE pc' = "fill" /\ aborted' = Noticed
    /\ UNCHANGED <<signal, mode, group, nextStart, started, committed, failure, slot,
                   inFlight, settled, concluded, results, trace>>

Kept(c) == inFlight                        \* mutant: inFlight.delete is missing
Consumed(c) == inFlight \ {c}

(* The race consumes one settled dispatch, then commits what it released.  *)
Race(c) ==
    /\ pc = "race"
    /\ c \in inFlight \intersect settled
    /\ inFlight' = Consumed(c)
    /\ pc' = IF failure THEN "drain" ELSE "commit"
    /\ UNCHANGED <<signal, mode, group, nextStart, started, committed, aborted, failure,
                   slot, settled, concluded, results, trace>>

(* The group is over: an abort gives every unstarted call a synthetic      *)
(* result, in this group and after it; otherwise the next group opens.     *)
AfterGroup == group.last + 1               \* mutant: the whole group was consumed
FirstUnstarted == group.first + started

EndGroup ==
    /\ pc = "race"
    /\ inFlight = {}
    /\ IF aborted
       THEN pc' = "skip" /\ nextStart' = FirstUnstarted /\ UNCHANGED group
       ELSE /\ group' = [group EXCEPT !.first = FirstUnstarted]
            /\ pc' = "classify"
            /\ UNCHANGED nextStart
    /\ UNCHANGED <<signal, mode, started, committed, aborted, failure, slot, inFlight,
                   settled, concluded, results, trace>>

(* appendSkippedToolCall: the call, and then its error result.             *)
SkipCall ==
    /\ pc = "skip"
    /\ IF nextStart <= NumCalls
       THEN trace' = CallEvent(trace, nextStart) /\ pc' = "answer"
       ELSE pc' = "returned" /\ UNCHANGED trace
    /\ UNCHANGED <<signal, mode, group, nextStart, started, committed, aborted, failure,
                   slot, inFlight, settled, concluded, results>>

AnswerSkipped ==
    /\ pc = "answer"
    /\ trace' = ResultEvent(trace, nextStart)
    /\ results' = Append(results, [call |-> nextStart, kind |-> "skipped"])
    /\ nextStart' = nextStart + 1
    /\ pc' = "skip"
    /\ UNCHANGED <<signal, mode, group, started, committed, aborted, failure, slot,
                   inFlight, settled, concluded>>

(* A rejection of prepare, of finalize or (seen after the await) of a body *)
(* reaches the catch clause, which drains the other bodies and rethrows.   *)
Fail ==
    /\ pc \in {"prepare", "finalize"}
    /\ failure' = TRUE
    /\ pc' = "drain"
    /\ UNCHANGED <<signal, mode, group, nextStart, started, committed, aborted, slot,
                   inFlight, settled, concluded, results, trace>>

Hasty == TRUE                              \* mutant: rethrows without allSettled
Drained == inFlight \subseteq settled

Throw ==
    /\ pc = "drain"
    /\ Drained
    /\ pc' = "threw"
    /\ UNCHANGED <<signal, mode, group, nextStart, started, committed, aborted, failure,
                   slot, inFlight, settled, concluded, results, trace>>

------------------------------------------------------------------------------
(* The plugins, at any await.                                              *)

Settle(c, outcome) ==
    /\ pc \notin Synchronous
    /\ c \in inFlight \ settled
    /\ settled' = settled \union {c}
    /\ IF outcome = "rejects"
       THEN failure' = TRUE /\ UNCHANGED slot
       ELSE slot' = [slot EXCEPT ![c] = outcome] /\ UNCHANGED failure
    /\ UNCHANGED <<pc, signal, mode, group, nextStart, started, committed, aborted,
                   inFlight, concluded, results, trace>>

Abort ==
    /\ pc \notin Synchronous \union {"returned", "threw"}
    /\ ~signal
    /\ signal' = TRUE
    /\ UNCHANGED <<pc, mode, group, nextStart, started, committed, aborted, failure, slot,
                   inFlight, settled, concluded, results, trace>>

Reclassify(c) ==
    /\ pc \notin Synchronous \union {"returned", "threw"}
    /\ c >= nextStart
    /\ mode' = [mode EXCEPT ![c] = IF @ = "parallel" THEN "exclusive" ELSE "parallel"]
    /\ UNCHANGED <<pc, signal, group, nextStart, started, committed, aborted, failure,
                   slot, inFlight, settled, concluded, results, trace>>

Schedule ==
    \/ Classify \/ StartCall \/ StopFilling
    \/ \E outcome \in {"dispatch", "post", "final"} : Prepare(outcome)
    \/ Finalize
    \/ \E concludes \in BOOLEAN : Commit(concludes)
    \/ Committed
    \/ \E c \in Calls : Race(c)
    \/ EndGroup \/ SkipCall \/ AnswerSkipped \/ Fail \/ Throw

Body == \E c \in Calls, outcome \in {"post", "final", "rejects"} : Settle(c, outcome)

Next == Schedule \/ Body \/ Abort \/ \E c \in Calls : Reclassify(c)

(* The scheduler's continuations run, and every dispatched body settles.   *)
Spec == Init /\ [][Next]_vars
FairSpec == Spec /\ WF_vars(Schedule) /\ WF_vars(Body)

------------------------------------------------------------------------------
(* Properties.                                                             *)

Over == pc \in {"returned", "threw"}

(* Every tool/call and tool/result the scheduler appends is one the        *)
(* session's invariant companion accepts: the scheduler implements         *)
(* SessionTrace.                                                           *)
LogAccepted == [][Log!Next]_trace

(* However bodies settle, results (and with them the contexts they hand to *)
(* the turn) are committed in the model's order, a result reported as run  *)
(* is one its body or its hooks really produced, and once a group has      *)
(* nothing in flight every call it started is committed: the check the     *)
(* code marks unreachable is.                                              *)
ResultsInModelOrder ==
    \A i \in DOMAIN results :
        /\ results[i].call = i
        /\ results[i].kind = "ran" => slot[i] # "empty"

StartedAreCommitted ==
    pc = "race" /\ inFlight = {} => committed = group.first + started - 1

ResultsOK == TypeOK /\ ResultsInModelOrder /\ StartedAreCommitted

(* A return answers every call the model made, aborted or not: none is     *)
(* lost between two groups, and none waits in the log for a result.        *)
EveryCallAnswered ==
    pc = "returned" => Len(results) = NumCalls /\ trace.pendingCalls = {}

(* An exclusive call starts only when nothing else runs, and while one     *)
(* runs nothing else starts, whatever the registry says of the calls that  *)
(* follow and whenever it changes its mind.                                *)
BarriersHold ==
    [][started' > started /\ "exclusive" \in {mode[nextStart], group.mode}
        => inFlight = {}]_vars

(* The step never goes on, nor does the turn fail, with a tool body still  *)
(* running.                                                                *)
QuietAtExit == Over => inFlight \subseteq settled

(* When plugins settle, the scheduler returns or throws.                   *)
Terminates == <>Over
==============================================================================
