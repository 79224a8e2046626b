----------------------------- MODULE SessionTrace -----------------------------
(***************************************************************************)
(* The relations that hold between the events of one session log, as the   *)
(* package's own invariant companion states them                           *)
(* (packages/core/session/src/invariant.ts): turns and steps nest and are  *)
(* numbered from 1 without gaps, a step's events name the open step, and a *)
(* tool result answers a call of the same step that has none yet.          *)
(*                                                                         *)
(* This is the abstract specification of everything that appends to the    *)
(* log: the agent loop, the tool-call scheduler and crash repair are each  *)
(* shown to append only what it accepts.                                   *)
(***************************************************************************)
EXTENDS Integers

CONSTANT Calls      \* identities of tool calls

VARIABLE trace      \* SessionTrace: what the events so far leave open

None == 0           \* no open turn, or no open step
Refused == -1       \* the monitor after an event the companion fails

TraceType ==
    [openTurn : Int, openStep : Nat, nextTurn : Nat, nextStep : Nat,
     pendingCalls : SUBSET Calls]

(* freshTrace *)
FreshTrace ==
    [openTurn |-> None, openStep |-> None, nextTurn |-> 1, nextStep |-> 1,
     pendingCalls |-> {}]

(* The events whose relations the companion checks.  call is used by the   *)
(* tool events only; synthetic marks an error result that carries          *)
(* TOOL_NOT_STARTED, which needs no tool/call before it.                   *)
Boundary(type, turn, step) == [type |-> type, turn |-> turn, step |-> step]
ToolCall(turn, step, call) ==
    [type |-> "tool/call", turn |-> turn, step |-> step, call |-> call]
ToolResult(turn, step, call, synthetic) ==
    [type |-> "tool/result", turn |-> turn, step |-> step, call |-> call,
     synthetic |-> synthetic]

InOpenStep(tr, e) == tr.openTurn = e.turn /\ tr.openStep = e.step

(* validateEvent: the conditions under which no fail() is reached.         *)
Accepts(tr, e) ==
    \/ /\ e.type = "turn/start"
       /\ tr.openTurn = None
       /\ e.turn = tr.nextTurn
    \/ /\ e.type = "turn/end"
       /\ tr.openTurn = e.turn
       /\ tr.openStep = None
    \/ /\ e.type = "step/start"
       /\ tr.openTurn = e.turn
       /\ tr.openStep = None
       /\ e.step = tr.nextStep
    \/ e.type \in {"step/end", "assistant/message", "tool/call"} /\ InOpenStep(tr, e)
    \/ /\ e.type = "tool/result"
       /\ InOpenStep(tr, e)
       /\ e.call \in tr.pendingCalls \/ e.synthetic

(* applyTransition: the trace once the event is committed.                 *)
After(tr, e) ==
    CASE e.type = "turn/start"  -> [tr EXCEPT !.openTurn = e.turn, !.nextStep = 1]
      [] e.type = "turn/end"    -> [tr EXCEPT !.openTurn = None, !.nextTurn = @ + 1]
      [] e.type = "step/start"  -> [tr EXCEPT !.openStep = e.step]
      [] e.type = "step/end"    -> [tr EXCEPT !.openStep = None, !.nextStep = @ + 1,
                                              !.pendingCalls = {}]
      [] e.type = "tool/call"   -> [tr EXCEPT !.pendingCalls = @ \union {e.call}]
      [] e.type = "tool/result" -> [tr EXCEPT !.pendingCalls = @ \ {e.call}]
      [] OTHER                  -> tr

(* The trace after one append by a component: an event the companion fails *)
(* leaves the monitor in a state no specification of this module reaches.  *)
Appended(tr, e) ==
    IF Accepts(tr, e) THEN After(tr, e) ELSE [tr EXCEPT !.openTurn = Refused]

------------------------------------------------------------------------------

Commit(e) == Accepts(trace, e) /\ trace' = After(trace, e)

TurnStart == Commit(Boundary("turn/start", trace.nextTurn, None))
TurnEnd   == Commit(Boundary("turn/end", trace.openTurn, None))
StepStart == Commit(Boundary("step/start", trace.openTurn, trace.nextStep))
StepEnd   == Commit(Boundary("step/end", trace.openTurn, trace.openStep))
Call(c)   == Commit(ToolCall(trace.openTurn, trace.openStep, c))
Result(c, synthetic) ==
    Commit(ToolResult(trace.openTurn, trace.openStep, c, synthetic))

Init == trace = FreshTrace

Next ==
    \/ TurnStart
    \/ trace.openTurn # None /\ (TurnEnd \/ StepStart)
    \/ trace.openStep # None /\ StepEnd
    \/ trace.openStep # None /\ \E c \in Calls :
          Call(c) \/ \E synthetic \in BOOLEAN : Result(c, synthetic)

Spec == Init /\ [][Next]_trace
==============================================================================
