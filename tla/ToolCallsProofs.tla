--------------------------- MODULE ToolCallsProofs ---------------------------
(***************************************************************************)
(* Proofs about the tool-call scheduler, for every number of calls and     *)
(* every pool: results are committed in the model's order, a return        *)
(* answers every call, barriers hold, no body outlives the scheduler, and  *)
(* every event it appends is one the session log accepts.                  *)
(***************************************************************************)
EXTENDS ToolCalls, SequenceTheorems, TLAPS

InGroup == {"fill", "prepare", "commit", "finalize", "race", "drain", "threw"}

(* The calls of the group before this one have had their tool/call.        *)
Called == group.first + started

(* Where the scheduler stands: the calls up to committed have their        *)
(* results in the log, those before nextStart were prepared, and of those  *)
(* before Called only the last may still be in preparation.                *)
Position ==
    /\ committed < nextStart /\ committed + 1 >= group.first
    /\ pc = "classify" => nextStart = group.first /\ committed + 1 = group.first
    /\ pc \in InGroup =>
          /\ group.first <= group.last /\ nextStart <= group.last + 1
          /\ group.mode = "exclusive" => group.last = group.first
          /\ Called <= group.last + 1
    /\ pc \in {"fill", "commit", "finalize", "race"} => nextStart = Called
    /\ pc = "prepare" => nextStart + 1 = Called
    /\ pc \in {"drain", "threw"} => nextStart \in {Called, Called - 1}
    /\ pc = "answer" => nextStart <= NumCalls

(* Every prepared call runs, has its result, or failed the scheduler.      *)
Slots ==
    \A c \in Calls :
       /\ c <= committed => slot[c] # "empty"
       /\ (c < nextStart /\ c \notin inFlight /\ ~failure /\ pc \in InGroup)
             => slot[c] # "empty"
       /\ (c \in settled /\ ~failure) => slot[c] # "empty"
       /\ (slot[c] # "empty" \/ c \in settled) => c < nextStart

(* What runs belongs to the open group, and the scheduler waits whenever a *)
(* call it could commit next has no result yet.                            *)
Running ==
    /\ \A c \in inFlight : group.first <= c /\ c < nextStart
    /\ pc = "finalize" => committed + 1 < nextStart /\ slot[committed + 1] # "empty"
    /\ (pc \in {"fill", "race"} /\ committed + 1 < nextStart) => committed + 1 \in inFlight
    /\ pc \in {"classify", "fill", "skip", "answer", "returned"} => ~failure
    /\ (pc = "race" /\ failure) => inFlight # {}
    /\ pc \in {"classify", "skip", "answer", "returned"} => inFlight = {}
    /\ pc = "threw" => inFlight \subseteq settled

(* The log holds the results so far, in order, and is owed exactly those   *)
(* of the calls it has seen.                                               *)
Logged ==
    IF pc \in {"skip", "answer"} THEN nextStart - 1
    ELSE IF pc = "returned" THEN NumCalls ELSE committed

Owed ==
    IF pc \in InGroup THEN {c \in Calls : committed < c /\ c < Called}
    ELSE IF pc = "answer" THEN {nextStart} ELSE {}

Answering ==
    /\ Len(results) = Logged
    /\ \A i \in DOMAIN results :
          results[i].call = i /\ (results[i].kind = "ran" => i <= committed)
    /\ trace.openTurn = Turn /\ trace.openStep = Step /\ trace.pendingCalls = Owed

IInv == TypeOK /\ Position /\ Slots /\ Running /\ Answering

------------------------------------------------------------------------------
(* The two events of a call.                                               *)

Within(tr) ==
    tr \in Log!TraceType /\ tr.openTurn = Turn /\ tr.openStep = Step

(* A call of the open step is always accepted, and is owed a result.       *)
LEMMA CallIsLogged ==
    ASSUME NEW tr, Within(tr), NEW c \in Calls
    PROVE  /\ Within(CallEvent(tr, c))
           /\ CallEvent(tr, c).pendingCalls = tr.pendingCalls \union {c}
           /\ Log!Accepts(tr, Log!ToolCall(Turn, Step, c))
           /\ CallEvent(tr, c) = Log!After(tr, Log!ToolCall(Turn, Step, c))
<1>. DEFINE e == Log!ToolCall(Turn, Step, c)
<1>1. /\ e.type = "tool/call" /\ e.turn = Turn /\ e.step = Step /\ e.call = c
      /\ tr.openTurn = Turn /\ tr.openStep = Step
  BY DEF Log!ToolCall, Within
<1>. HIDE DEF e
<1>2. Log!Accepts(tr, e)
  BY <1>1 DEF Log!Accepts, Log!InOpenStep
<1>3. CallEvent(tr, c) = Log!After(tr, e)
  BY <1>2 DEF CallEvent, Log!Appended, e
<1>4. Log!After(tr, e) = [tr EXCEPT !.pendingCalls = @ \union {c}]
  BY <1>1 DEF Log!After
<1>5. tr \in Log!TraceType
  BY DEF Within
<1>6. /\ [tr EXCEPT !.pendingCalls = @ \union {c}] \in Log!TraceType
      /\ [tr EXCEPT !.pendingCalls = @ \union {c}].openTurn = tr.openTurn
      /\ [tr EXCEPT !.pendingCalls = @ \union {c}].openStep = tr.openStep
      /\ [tr EXCEPT !.pendingCalls = @ \union {c}].pendingCalls = tr.pendingCalls \union {c}
  BY <1>5 DEF Log!TraceType
<1>. QED
  BY <1>1, <1>2, <1>3, <1>4, <1>6 DEF Within, e

(* A result is accepted when its call is owed one, and settles the debt.   *)
LEMMA ResultIsLogged ==
    ASSUME NEW tr, Within(tr), NEW c \in Calls, c \in tr.pendingCalls
    PROVE  /\ Within(ResultEvent(tr, c))
           /\ ResultEvent(tr, c).pendingCalls = tr.pendingCalls \ {c}
           /\ Log!Accepts(tr, Log!ToolResult(Turn, Step, c, FALSE))
           /\ ResultEvent(tr, c) = Log!After(tr, Log!ToolResult(Turn, Step, c, FALSE))
<1>. DEFINE e == Log!ToolResult(Turn, Step, c, FALSE)
<1>1. /\ e.type = "tool/result" /\ e.turn = Turn /\ e.step = Step /\ e.call = c
      /\ tr.openTurn = Turn /\ tr.openStep = Step
  BY DEF Log!ToolResult, Within
<1>. HIDE DEF e
<1>2. Log!Accepts(tr, e)
  BY <1>1 DEF Log!Accepts, Log!InOpenStep
<1>3. ResultEvent(tr, c) = Log!After(tr, e)
  BY <1>2 DEF ResultEvent, Log!Appended, e
<1>4. Log!After(tr, e) = [tr EXCEPT !.pendingCalls = @ \ {c}]
  BY <1>1 DEF Log!After
<1>5. tr \in Log!TraceType
  BY DEF Within
<1>6. /\ [tr EXCEPT !.pendingCalls = @ \ {c}] \in Log!TraceType
      /\ [tr EXCEPT !.pendingCalls = @ \ {c}].openTurn = tr.openTurn
      /\ [tr EXCEPT !.pendingCalls = @ \ {c}].openStep = tr.openStep
      /\ [tr EXCEPT !.pendingCalls = @ \ {c}].pendingCalls = tr.pendingCalls \ {c}
  BY <1>5 DEF Log!TraceType
<1>. QED
  BY <1>1, <1>2, <1>3, <1>4, <1>6 DEF Within, e

LEMMA TraceWithin ==
    ASSUME IInv
    PROVE  Within(trace)
BY DEF IInv, TypeOK, Answering, Within

(* Both are steps of SessionTrace.                                         *)
LEMMA CallImplemented ==
    ASSUME IInv, NEW c \in Calls, trace' = CallEvent(trace, c)
    PROVE  /\ Log!Next /\ Within(trace)'
           /\ trace'.pendingCalls = trace.pendingCalls \union {c}
<1>1. /\ Within(trace) /\ trace.openTurn = Turn /\ trace.openStep = Step
      /\ trace.openStep # 0
  BY TraceWithin DEF Within, Step
<1>2. Log!Call(c)
  BY <1>1, CallIsLogged DEF Log!Call, Log!Commit
<1>3. Log!Next
  BY <1>1, <1>2 DEF Log!Next, Log!None
<1>. QED
  BY <1>1, <1>3, CallIsLogged DEF Within

LEMMA ResultImplemented ==
    ASSUME IInv, NEW c \in Calls, c \in trace.pendingCalls, trace' = ResultEvent(trace, c)
    PROVE  /\ Log!Next /\ Within(trace)'
           /\ trace'.pendingCalls = trace.pendingCalls \ {c}
<1>1. /\ Within(trace) /\ trace.openTurn = Turn /\ trace.openStep = Step
      /\ trace.openStep # 0
  BY TraceWithin DEF Within, Step
<1>2. Log!Result(c, FALSE)
  BY <1>1, ResultIsLogged DEF Log!Result, Log!Commit
<1>3. Log!Next
  BY <1>1, <1>2 DEF Log!Next, Log!None
<1>. QED
  BY <1>1, <1>3, ResultIsLogged DEF Within

(* One more result in the log.                                             *)
Results == [call : Calls, kind : {"ran", "skipped"}]

LEMMA AppendResult ==
    ASSUME IInv, NEW c \in Calls, c = Len(results) + 1, NEW kind \in {"ran", "skipped"},
           results' = Append(results, [call |-> c, kind |-> kind]),
           committed' >= committed, kind = "ran" => c <= committed',
           committed' \in Nat
    PROVE  /\ results' \in Seq(Results) /\ Len(results') = c
           /\ \A i \in DOMAIN results' :
                results'[i].call = i /\ (results'[i].kind = "ran" => i <= committed')
<1>. DEFINE r == [call |-> c, kind |-> kind]
<1>1. r \in Results /\ r.call = c /\ r.kind = kind
  BY DEF Results
<1>. HIDE DEF r
<1>2. results \in Seq(Results) /\ committed \in Nat
  BY DEF IInv, TypeOK, Results
<1>3. /\ Len(results) \in Nat /\ DOMAIN results = 1..Len(results)
  BY <1>2, LenProperties
<1>4. /\ results' \in Seq(Results) /\ Len(results') = Len(results) + 1
      /\ \A i \in 1..Len(results) : results'[i] = results[i]
      /\ results'[Len(results) + 1] = r
  BY <1>1, <1>2, AppendProperties DEF r
<1>5. DOMAIN results' = 1..Len(results')
  BY <1>4, LenProperties
<1>6. ASSUME NEW i \in DOMAIN results'
      PROVE  results'[i].call = i /\ (results'[i].kind = "ran" => i <= committed')
  <2>1. CASE i = c
    BY <1>1, <1>4, <2>1
  <2>2. CASE i # c
    <3>1. i \in DOMAIN results /\ results'[i] = results[i]
      BY <1>3, <1>4, <1>5, <2>2
    <3>2. results[i].call = i /\ (results[i].kind = "ran" => i <= committed)
      BY <3>1 DEF IInv, Answering
    <3>3. i \in Nat
      BY <1>3, <3>1
    <3>. QED
      BY <1>2, <3>1, <3>2, <3>3
  <2>. QED
    BY <2>1, <2>2
<1>. QED
  BY <1>4, <1>6

------------------------------------------------------------------------------
(* The steps of the scheduler.                                             *)

Advanced == IInv' /\ (Log!Next \/ UNCHANGED trace)

LEMMA Bounds ==
    ASSUME IInv
    PROVE  /\ NumCalls \in Nat /\ NumCalls > 0 /\ Calls = 1..NumCalls
           /\ group.first \in 1..NumCalls + 1 /\ group.last \in 0..NumCalls
           /\ group.mode \in Modes
           /\ group \in [first : 1..NumCalls + 1, last : 0..NumCalls, mode : Modes]
           /\ nextStart \in 1..NumCalls + 1 /\ started \in 0..NumCalls
           /\ committed \in 0..NumCalls
           /\ committed \in Nat /\ nextStart \in Nat /\ started \in Nat
           /\ group.first \in Nat /\ group.last \in Nat /\ Called \in Nat
           /\ Len(results) \in Nat
<1>1. /\ NumCalls \in Nat /\ NumCalls > 0 /\ Calls = 1..NumCalls
      /\ group \in [first : 1..NumCalls + 1, last : 0..NumCalls, mode : Modes]
      /\ nextStart \in 1..NumCalls + 1 /\ started \in 0..NumCalls
      /\ committed \in 0..NumCalls /\ results \in Seq(Results)
  BY ToolCallsAssumption DEF IInv, TypeOK, Calls, Results
<1>2. /\ group.first \in 1..NumCalls + 1 /\ group.last \in 0..NumCalls
      /\ group.mode \in Modes
  BY <1>1
<1>. QED
  BY <1>1, <1>2, LenProperties DEF Called

LEMMA InitAdvanced == Init => IInv
<1>. SUFFICES ASSUME Init PROVE IInv
  OBVIOUS
<1>1. NumCalls \in Nat /\ NumCalls > 0
  BY ToolCallsAssumption
<1>2. /\ trace.openTurn = Turn /\ trace.openStep = Step /\ trace.pendingCalls = {}
      /\ trace \in Log!TraceType
  <2>1. /\ Log!FreshTrace \in Log!TraceType /\ Log!FreshTrace.pendingCalls = {}
    BY DEF Log!FreshTrace, Log!TraceType, Log!None
  <2>2. trace = [Log!FreshTrace EXCEPT !.openTurn = 1, !.openStep = 1]
    BY DEF Init, Turn, Step
  <2>. DEFINE tr == Log!FreshTrace
            mid == [tr EXCEPT !.openTurn = 1]
            end == [mid EXCEPT !.openStep = 1]
  <2>3. tr \in Log!TraceType /\ tr.pendingCalls = {}
    BY <2>1
  <2>4. mid \in Log!TraceType /\ mid.openTurn = 1 /\ mid.pendingCalls = {}
    <3>. HIDE DEF tr
    <3>. QED
      BY <2>3 DEF Log!TraceType
  <2>5. end \in Log!TraceType /\ end.openTurn = 1 /\ end.openStep = 1 /\ end.pendingCalls = {}
    <3>. HIDE DEF mid
    <3>. QED
      BY <2>4 DEF Log!TraceType
  <2>6. trace = end
    BY <2>2
  <2>. QED
    BY <2>5, <2>6 DEF Turn, Step
<1>3. /\ group.first = 1 /\ group.last = 0
      /\ group \in [first : 1..NumCalls + 1, last : 0..NumCalls, mode : Modes]
  BY <1>1 DEF Init, Modes
<1>4. pc = "classify" /\ pc \notin InGroup
  BY DEF Init, InGroup
<1>5. TypeOK
  <2>1. slot \in [Calls -> {"empty", "post", "final"}]
    BY DEF Init
  <2>2. results \in Seq([call : Calls, kind : {"ran", "skipped"}])
    BY DEF Init
  <2>3. nextStart \in 1..NumCalls + 1 /\ started \in 0..NumCalls /\ committed \in 0..NumCalls
    BY <1>1 DEF Init
  <2>. QED
    BY <1>2, <1>3, <1>4, <2>1, <2>2, <2>3 DEF Init, TypeOK, Locations
<1>6. Position
  BY <1>3, <1>4 DEF Init, Position
<1>7. Slots
  BY <1>1 DEF Init, Slots, Calls
<1>8. Running
  BY <1>4 DEF Init, Running
<1>9. Len(results) = 0 /\ DOMAIN results = {}
  BY DEF Init
<1>10. Answering
  BY <1>2, <1>4, <1>9 DEF Init, Answering, Logged, Owed
<1>. QED
  BY <1>5, <1>6, <1>7, <1>8, <1>10 DEF IInv

LEMMA ClassifyStep ==
    ASSUME IInv, Classify
    PROVE  Advanced
<1>1. /\ pc = "classify" /\ pc \notin InGroup /\ inFlight = {} /\ ~failure
      /\ nextStart = group.first /\ committed + 1 = group.first
      /\ Len(results) = committed /\ trace.pendingCalls = {}
  BY DEF IInv, Position, Running, Answering, Logged, Owed, Classify, InGroup
<1>2. /\ UNCHANGED <<signal, mode, committed, failure, slot, inFlight, settled, concluded,
                     results, trace>>
  BY DEF Classify
<1>3. CASE group.first > NumCalls
  <2>1. pc' = "returned" /\ UNCHANGED <<group, nextStart, started, aborted>>
    BY <1>3 DEF Classify
  <2>2. committed = NumCalls
    BY <1>1, <1>3, Bounds
  <2>3. TypeOK'
    BY <1>2, <2>1 DEF IInv, TypeOK, Locations
  <2>4. Position'
    BY <1>2, <2>1 DEF IInv, Position, InGroup
  <2>5. Slots'
    BY <1>2, <2>1 DEF IInv, Slots, InGroup
  <2>6. Running'
    BY <1>1, <1>2, <2>1 DEF IInv, Running
  <2>7. Answering'
    BY <1>1, <1>2, <2>1, <2>2 DEF IInv, Answering, Logged, Owed, InGroup
  <2>. QED
    BY <1>2, <2>3, <2>4, <2>5, <2>6, <2>7 DEF Advanced, IInv
<1>4. CASE ~(group.first > NumCalls)
  <2>1. /\ group' = Grouped(group.first) /\ nextStart' = group.first /\ started' = 0
        /\ aborted' = signal /\ pc' = "fill"
    BY <1>4 DEF Classify
  <2>2. group.first \in Calls /\ mode[group.first] \in Modes
    BY <1>4, Bounds DEF IInv, TypeOK
  <2>3. /\ group'.first = group.first /\ group'.last \in 0..NumCalls
        /\ group'.first <= group'.last /\ group'.mode = mode[group.first]
        /\ group' \in [first : 1..NumCalls + 1, last : 0..NumCalls, mode : Modes]
        /\ group'.mode = "exclusive" => group'.last = group'.first
    BY <2>1, <2>2, Bounds DEF Grouped, Modes
  <2>4. Called' = group.first
    BY <2>1, <2>3, Bounds DEF Called
  <2>5. TypeOK'
    BY <1>2, <2>1, <2>3, Bounds DEF IInv, TypeOK, Locations
  <2>6. Position'
    BY <1>1, <1>2, <2>1, <2>3, <2>4, Bounds DEF IInv, Position, InGroup
  <2>7. Slots'
    BY <1>1, <1>2, <2>1, <2>4, Bounds DEF IInv, Slots
  <2>8. Running'
    BY <1>1, <1>2, <2>1, Bounds DEF IInv, Running
  <2>9. Owed' = {}
    BY <1>1, <1>2, <2>1, <2>4, Bounds DEF Owed, InGroup
  <2>10. Answering'
    BY <1>1, <1>2, <2>1, <2>9 DEF IInv, Answering, Logged
  <2>. QED
    BY <1>2, <2>5, <2>6, <2>7, <2>8, <2>10 DEF Advanced, IInv
<1>. QED
  BY <1>3, <1>4

LEMMA StartCallStep ==
    ASSUME IInv, StartCall
    PROVE  Advanced
<1>1. /\ pc = "fill" /\ pc \in InGroup /\ nextStart = Called /\ nextStart <= group.last
      /\ trace' = CallEvent(trace, nextStart) /\ started' = started + 1 /\ pc' = "prepare"
      /\ UNCHANGED <<signal, mode, group, nextStart, committed, aborted, failure, slot,
                     inFlight, settled, concluded, results>>
  BY DEF IInv, Position, StartCall, MayStart, HasRoom, InGroup
<1>2. nextStart \in Calls
  BY <1>1, Bounds
<1>3. /\ Log!Next /\ Within(trace)'
      /\ trace'.pendingCalls = trace.pendingCalls \union {nextStart}
  BY <1>1, <1>2, CallImplemented
<1>4. Called' = Called + 1
  BY <1>1, Bounds DEF Called
<1>5. started + 1 <= NumCalls
  BY <1>1, Bounds DEF Called
<1>6. TypeOK'
  BY <1>1, <1>3, <1>5, Bounds DEF IInv, TypeOK, Locations, Within
<1>7. Position'
  BY <1>1, <1>4, Bounds DEF IInv, Position, InGroup
<1>8. Slots'
  BY <1>1 DEF IInv, Slots, InGroup
<1>9. Running'
  BY <1>1 DEF IInv, Running
<1>10. committed < nextStart
  BY DEF IInv, Position
<1>11. Owed' = Owed \union {nextStart}
  BY <1>1, <1>2, <1>4, <1>10, Bounds DEF Owed, InGroup
<1>12. Answering'
  BY <1>1, <1>3, <1>11 DEF IInv, Answering, Logged, Within
<1>. QED
  BY <1>3, <1>6, <1>7, <1>8, <1>9, <1>12 DEF Advanced, IInv

LEMMA StopFillingStep ==
    ASSUME IInv, StopFilling
    PROVE  Advanced
<1>1. /\ pc = "fill" /\ pc' = "race"
      /\ UNCHANGED <<signal, mode, group, nextStart, started, committed, aborted, failure,
                     slot, inFlight, settled, concluded, results, trace>>
  BY DEF StopFilling
<1>2. Called' = Called
  BY <1>1 DEF Called
<1>3. TypeOK'
  BY <1>1 DEF IInv, TypeOK, Locations
<1>4. Position'
  BY <1>1, <1>2 DEF IInv, Position, InGroup
<1>5. Slots'
  BY <1>1 DEF IInv, Slots, InGroup
<1>6. Running'
  BY <1>1 DEF IInv, Running
<1>7. Answering'
  BY <1>1, <1>2 DEF IInv, Answering, Logged, Owed, InGroup
<1>. QED
  BY <1>1, <1>3, <1>4, <1>5, <1>6, <1>7 DEF Advanced, IInv

LEMMA PrepareStep ==
    ASSUME IInv, NEW outcome \in {"dispatch", "post", "final"}, Prepare(outcome)
    PROVE  Advanced
<1>1. /\ pc = "prepare" /\ pc \in InGroup /\ nextStart + 1 = Called /\ Called <= group.last + 1
      /\ ~failure
      /\ IF outcome = "dispatch"
         THEN inFlight' = inFlight \union {nextStart} /\ UNCHANGED slot
         ELSE slot' = [slot EXCEPT ![nextStart] = outcome] /\ UNCHANGED inFlight
      /\ nextStart' = nextStart + 1 /\ pc' = "commit"
      /\ UNCHANGED <<signal, mode, group, started, committed, aborted, failure, settled,
                     concluded, results, trace>>
  BY DEF IInv, Position, Prepare, InGroup
<1>2. nextStart \in Calls /\ slot \in [Calls -> {"empty", "post", "final"}]
  BY <1>1, Bounds DEF IInv, TypeOK
<1>3. Called' = Called
  BY <1>1 DEF Called
<1>4. TypeOK'
  <2>1. slot' \in [Calls -> {"empty", "post", "final"}] /\ inFlight' \subseteq Calls
    BY <1>1, <1>2 DEF IInv, TypeOK
  <2>2. nextStart' \in 1..NumCalls + 1
    BY <1>1, Bounds
  <2>. QED
    BY <1>1, <2>1, <2>2 DEF IInv, TypeOK, Locations
<1>5. Position'
  BY <1>1, <1>3, Bounds DEF IInv, Position, InGroup
<1>6. ASSUME NEW c \in Calls
      PROVE  /\ slot'[c] = IF c = nextStart /\ outcome # "dispatch" THEN outcome ELSE slot[c]
             /\ c \in inFlight' <=> c \in inFlight \/ (c = nextStart /\ outcome = "dispatch")
  BY <1>1, <1>2
<1>7. \A c \in Calls : c \in Nat /\ (c < nextStart + 1 <=> c < nextStart \/ c = nextStart)
  BY Bounds
<1>8. Slots'
  <2>. SUFFICES ASSUME NEW c \in Calls
                PROVE  /\ c <= committed => slot'[c] # "empty"
                       /\ (c < nextStart' /\ c \notin inFlight' /\ ~failure)
                             => slot'[c] # "empty"
                       /\ (c \in settled /\ ~failure) => slot'[c] # "empty"
                       /\ (slot'[c] # "empty" \/ c \in settled) => c < nextStart'
    BY <1>1 DEF Slots
  <2>1. /\ c <= committed => slot[c] # "empty"
        /\ (c < nextStart /\ c \notin inFlight) => slot[c] # "empty"
        /\ (c \in settled /\ ~failure) => slot[c] # "empty"
        /\ (slot[c] # "empty" \/ c \in settled) => c < nextStart
    BY <1>1 DEF IInv, Slots
  <2>. QED
    BY <1>1, <1>6, <1>7, <2>1
<1>9. Running'
  <2>1. \A c \in inFlight' : group.first <= c /\ c < nextStart + 1
    <3>1. group.first <= nextStart
      BY Bounds DEF IInv, Position
    <3>2. \A c \in inFlight : group.first <= c /\ c < nextStart /\ c \in Nat
      BY Bounds DEF IInv, Running, TypeOK
    <3>3. \A c \in inFlight' : c \in inFlight \/ c = nextStart
      BY <1>1
    <3>. QED
      BY <3>1, <3>2, <3>3, Bounds
  <2>. QED
    BY <1>1, <2>1 DEF Running
<1>10. Answering'
  BY <1>1, <1>3 DEF IInv, Answering, Logged, Owed, InGroup
<1>. QED
  BY <1>1, <1>4, <1>5, <1>8, <1>9, <1>10 DEF Advanced, IInv

LEMMA FinalizeStep ==
    ASSUME IInv, Finalize
    PROVE  Advanced
<1>1. /\ pc = "commit" /\ pc' = "finalize" /\ Ready(committed + 1)
      /\ UNCHANGED <<signal, mode, group, nextStart, started, committed, aborted, failure,
                     slot, inFlight, settled, concluded, results, trace>>
  BY DEF Finalize
<1>2. Called' = Called
  BY <1>1 DEF Called
<1>3. committed + 1 \in Calls /\ slot[committed + 1] # "empty"
  BY <1>1, Bounds DEF Ready
<1>4. committed + 1 < nextStart
  BY <1>3 DEF IInv, Slots
<1>5. TypeOK'
  BY <1>1 DEF IInv, TypeOK, Locations
<1>6. Position'
  BY <1>1, <1>2 DEF IInv, Position, InGroup
<1>7. Slots'
  BY <1>1 DEF IInv, Slots, InGroup
<1>8. Running'
  BY <1>1, <1>3, <1>4 DEF IInv, Running
<1>9. Answering'
  BY <1>1, <1>2 DEF IInv, Answering, Logged, Owed, InGroup
<1>. QED
  BY <1>1, <1>5, <1>6, <1>7, <1>8, <1>9 DEF Advanced, IInv

LEMMA CommitStep ==
    ASSUME IInv, NEW concludes \in BOOLEAN, Commit(concludes)
    PROVE  Advanced
<1>. DEFINE c == committed + 1
<1>1. /\ pc \in {"finalize", "commit"} /\ pc' = "commit" /\ pc \in InGroup
      /\ trace' = ResultEvent(trace, c)
      /\ results' = Append(results, [call |-> c, kind |-> "ran"])
      /\ concluded' = (concluded \/ concludes) /\ committed' = c
      /\ UNCHANGED <<signal, mode, group, nextStart, started, aborted, failure, slot,
                     inFlight, settled>>
  BY DEF Commit, InGroup
<1>2. c \in Calls /\ slot[c] # "empty" /\ c < nextStart
  <2>1. CASE pc = "finalize"
    <3>1. c < nextStart /\ slot[c] # "empty"
      BY <2>1 DEF IInv, Running
    <3>. QED
      BY <3>1, Bounds
  <2>2. CASE pc = "commit"
    <3>1. c <= group.last /\ slot[c] # "empty"
      BY <2>2 DEF Commit, Ready
    <3>2. c \in Calls
      BY <3>1, Bounds
    <3>. QED
      BY <3>1, <3>2 DEF IInv, Slots
  <2>. QED
    BY <1>1, <2>1, <2>2
<1>3. nextStart = Called /\ Called' = Called
  BY <1>1 DEF IInv, Position, Called
<1>4. trace.pendingCalls = {d \in Calls : committed < d /\ d < nextStart}
  BY <1>1, <1>3 DEF IInv, Answering, Owed
<1>5. c \in trace.pendingCalls
  BY <1>2, <1>4, Bounds
<1>6. /\ Log!Next /\ Within(trace)' /\ trace'.pendingCalls = trace.pendingCalls \ {c}
  BY <1>1, <1>2, <1>5, ResultImplemented
<1>7. Len(results) = committed
  BY <1>1 DEF IInv, Answering, Logged
<1>8. c = Len(results) + 1 /\ committed' >= committed /\ committed' \in Nat
  BY <1>1, <1>7, Bounds
<1>9. /\ results' \in Seq(Results) /\ Len(results') = c
      /\ \A i \in DOMAIN results' :
            results'[i].call = i /\ (results'[i].kind = "ran" => i <= committed')
  <2>1. c \in Calls /\ c <= committed' /\ "ran" \in {"ran", "skipped"}
    BY <1>1, <1>2, Bounds
  <2>. HIDE DEF c
  <2>. QED
    BY <1>1, <1>8, <2>1, AppendResult
<1>10. committed' \in 0..NumCalls
  BY <1>1, <1>2, Bounds
<1>11. TypeOK'
  BY <1>1, <1>6, <1>9, <1>10 DEF IInv, TypeOK, Locations, Within, Results
<1>12. Position'
  BY <1>1, <1>2, <1>3, Bounds DEF IInv, Position, InGroup
<1>13. \A d \in Calls : d <= c <=> d <= committed \/ d = c
  BY Bounds
<1>14. Slots'
  BY <1>1, <1>2, <1>13 DEF IInv, Slots, InGroup
<1>15. Running'
  BY <1>1 DEF IInv, Running
<1>16. Owed' = trace.pendingCalls \ {c}
  BY <1>1, <1>3, <1>4, Bounds DEF Owed, InGroup
<1>17. Answering'
  BY <1>1, <1>6, <1>9, <1>16 DEF Answering, Logged, Within
<1>. QED
  BY <1>6, <1>11, <1>12, <1>14, <1>15, <1>17 DEF Advanced, IInv

LEMMA CommittedStep ==
    ASSUME IInv, Committed
    PROVE  Advanced
<1>1. /\ pc = "commit" /\ pc \in InGroup /\ ~Ready(committed + 1) /\ nextStart = Called
      /\ \/ failure /\ pc' = "drain" /\ aborted' = aborted
         \/ ~failure /\ pc' = "fill" /\ aborted' = Noticed
      /\ UNCHANGED <<signal, mode, group, nextStart, started, committed, failure, slot,
                     inFlight, settled, concluded, results, trace>>
  BY DEF IInv, Position, Committed, InGroup
<1>2. Called' = Called
  BY <1>1 DEF Called
<1>3. TypeOK'
  BY <1>1 DEF IInv, TypeOK, Locations, Noticed
<1>4. Position'
  BY <1>1, <1>2 DEF IInv, Position, InGroup
<1>5. Slots'
  BY <1>1 DEF IInv, Slots, InGroup
<1>6. ASSUME ~failure, committed + 1 < nextStart
      PROVE  committed + 1 \in inFlight
  <2>1. committed + 1 \in Calls /\ committed + 1 <= group.last
    BY <1>1, <1>6, Bounds DEF IInv, Position
  <2>2. slot[committed + 1] = "empty"
    BY <1>1, <2>1 DEF Ready
  <2>. QED
    BY <1>1, <1>6, <2>1, <2>2 DEF IInv, Slots
<1>7. Running'
  BY <1>1, <1>6 DEF IInv, Running
<1>8. Answering'
  BY <1>1, <1>2 DEF IInv, Answering, Logged, Owed, InGroup
<1>. QED
  BY <1>1, <1>3, <1>4, <1>5, <1>7, <1>8 DEF Advanced, IInv

LEMMA RaceStep ==
    ASSUME IInv, NEW c \in Calls, Race(c)
    PROVE  Advanced
<1>1. /\ pc = "race" /\ c \in inFlight /\ c \in settled /\ inFlight' = inFlight \ {c}
      /\ \/ failure /\ pc' = "drain"
         \/ ~failure /\ pc' = "commit"
      /\ UNCHANGED <<signal, mode, group, nextStart, started, committed, aborted, failure,
                     slot, settled, concluded, results, trace>>
  BY DEF Race, Consumed
<1>2. Called' = Called
  BY <1>1 DEF Called
<1>3. TypeOK'
  BY <1>1 DEF IInv, TypeOK, Locations
<1>4. Position'
  BY <1>1, <1>2 DEF IInv, Position, InGroup
<1>5. Slots'
  BY <1>1 DEF IInv, Slots, InGroup
<1>6. Running'
  BY <1>1 DEF IInv, Running
<1>7. Answering'
  BY <1>1, <1>2 DEF IInv, Answering, Logged, Owed, InGroup
<1>. QED
  BY <1>1, <1>3, <1>4, <1>5, <1>6, <1>7 DEF Advanced, IInv

(* A group ends with every call it started committed.                      *)
LEMMA GroupIsCommitted ==
    ASSUME IInv, pc = "race", inFlight = {}
    PROVE  committed + 1 = Called /\ ~failure /\ nextStart = Called
<1>1. nextStart = Called /\ committed < nextStart
  BY DEF IInv, Position
<1>2. ~(committed + 1 < nextStart) /\ ~failure
  BY DEF IInv, Running
<1>. QED
  BY <1>1, <1>2, Bounds

LEMMA EndGroupStep ==
    ASSUME IInv, EndGroup
    PROVE  Advanced
<1>1. /\ pc = "race" /\ inFlight = {} /\ pc \in InGroup
      /\ \/ aborted /\ pc' = "skip" /\ nextStart' = Called /\ group' = group
         \/ /\ ~aborted /\ pc' = "classify" /\ group' = [group EXCEPT !.first = Called]
            /\ nextStart' = nextStart
      /\ UNCHANGED <<signal, mode, started, committed, aborted, failure, slot, inFlight,
                     settled, concluded, results, trace>>
  BY DEF EndGroup, FirstUnstarted, Called, InGroup
<1>2. committed + 1 = Called /\ ~failure /\ nextStart = Called
  BY <1>1, GroupIsCommitted
<1>3. Called \in 1..NumCalls + 1
  BY <1>2, Bounds
<1>4. /\ group' \in [first : 1..NumCalls + 1, last : 0..NumCalls, mode : Modes]
      /\ group'.first = group.first \/ (group'.first = Called /\ pc' = "classify")
  BY <1>1, <1>3, Bounds
<1>5. nextStart' = nextStart /\ committed + 1 >= group.first
  BY <1>1, <1>2 DEF IInv, Position
<1>6. TypeOK'
  BY <1>1, <1>4, <1>5 DEF IInv, TypeOK, Locations
<1>7. Position'
  <2>1. pc' = "classify" => group'.first = Called
    BY <1>1, Bounds
  <2>. QED
    BY <1>1, <1>2, <1>4, <1>5, <2>1, Bounds DEF Position, InGroup
<1>8. Slots'
  BY <1>1, <1>5 DEF IInv, Slots, InGroup
<1>9. Running'
  BY <1>1, <1>2 DEF IInv, Running
<1>10. trace.pendingCalls = {}
  BY <1>1, <1>2, Bounds DEF IInv, Answering, Owed
<1>11. Len(results) = committed /\ nextStart - 1 = committed
  BY <1>1, <1>2, Bounds DEF IInv, Answering, Logged
<1>12. Owed' = {} /\ Logged' = committed
  BY <1>1, <1>5, <1>11 DEF Owed, Logged, InGroup
<1>13. Answering'
  BY <1>1, <1>10, <1>11, <1>12 DEF IInv, Answering
<1>. QED
  BY <1>1, <1>6, <1>7, <1>8, <1>9, <1>13 DEF Advanced, IInv

LEMMA SkipCallStep ==
    ASSUME IInv, SkipCall
    PROVE  Advanced
<1>1. /\ pc = "skip" /\ pc \notin InGroup /\ inFlight = {} /\ ~failure
      /\ trace.pendingCalls = {} /\ Len(results) = nextStart - 1
      /\ UNCHANGED <<signal, mode, group, nextStart, started, committed, aborted, failure,
                     slot, inFlight, settled, concluded, results>>
  BY DEF SkipCall, IInv, Running, Answering, Owed, Logged, InGroup
<1>2. CASE nextStart <= NumCalls
  <2>1. trace' = CallEvent(trace, nextStart) /\ pc' = "answer"
    BY <1>2 DEF SkipCall
  <2>2. nextStart \in Calls
    BY <1>2, Bounds
  <2>3. /\ Log!Next /\ Within(trace)' /\ trace'.pendingCalls = {nextStart}
    BY <1>1, <2>1, <2>2, CallImplemented
  <2>4. TypeOK'
    BY <1>1, <2>1, <2>3 DEF IInv, TypeOK, Locations, Within
  <2>5. Position'
    BY <1>1, <1>2, <2>1 DEF IInv, Position, InGroup
  <2>6. Slots'
    BY <1>1, <2>1 DEF IInv, Slots, InGroup
  <2>7. Running'
    BY <1>1, <2>1 DEF IInv, Running
  <2>8. Answering'
    BY <1>1, <2>1, <2>3 DEF IInv, Answering, Logged, Owed, Within, InGroup
  <2>. QED
    BY <2>3, <2>4, <2>5, <2>6, <2>7, <2>8 DEF Advanced, IInv
<1>3. CASE ~(nextStart <= NumCalls)
  <2>1. trace' = trace /\ pc' = "returned" /\ nextStart - 1 = NumCalls
    BY <1>3, Bounds DEF SkipCall
  <2>2. TypeOK'
    BY <1>1, <2>1 DEF IInv, TypeOK, Locations
  <2>3. Position'
    BY <1>1, <2>1 DEF IInv, Position, InGroup
  <2>4. Slots'
    BY <1>1, <2>1 DEF IInv, Slots, InGroup
  <2>5. Running'
    BY <1>1, <2>1 DEF IInv, Running
  <2>6. Answering'
    BY <1>1, <2>1 DEF IInv, Answering, Logged, Owed, InGroup
  <2>. QED
    BY <2>1, <2>2, <2>3, <2>4, <2>5, <2>6 DEF Advanced, IInv
<1>. QED
  BY <1>2, <1>3

LEMMA AnswerSkippedStep ==
    ASSUME IInv, AnswerSkipped
    PROVE  Advanced
<1>. DEFINE c == nextStart
<1>1. /\ pc = "answer" /\ pc \notin InGroup /\ inFlight = {} /\ ~failure /\ c <= NumCalls
      /\ trace.pendingCalls = {c} /\ Len(results) = c - 1 /\ committed < c
      /\ trace' = ResultEvent(trace, c)
      /\ results' = Append(results, [call |-> c, kind |-> "skipped"])
      /\ nextStart' = c + 1 /\ pc' = "skip"
      /\ UNCHANGED <<signal, mode, group, started, committed, aborted, failure, slot,
                     inFlight, settled, concluded>>
  BY DEF AnswerSkipped, IInv, Position, Running, Answering, Owed, Logged, InGroup
<1>2. c \in Calls /\ c = Len(results) + 1
  BY <1>1, Bounds
<1>3. /\ Log!Next /\ Within(trace)' /\ trace'.pendingCalls = {}
  BY <1>1, <1>2, ResultImplemented
<1>4. /\ results' \in Seq(Results) /\ Len(results') = c
      /\ \A i \in DOMAIN results' :
            results'[i].call = i /\ (results'[i].kind = "ran" => i <= committed')
  <2>1. "skipped" \in {"ran", "skipped"} /\ committed' >= committed /\ committed' \in Nat
    BY <1>1, Bounds
  <2>. HIDE DEF c
  <2>. QED
    BY <1>1, <1>2, <2>1, AppendResult
<1>5. nextStart' \in 1..NumCalls + 1 /\ nextStart' - 1 = c
  BY <1>1, Bounds
<1>6. TypeOK'
  BY <1>1, <1>3, <1>4, <1>5 DEF IInv, TypeOK, Locations, Within, Results
<1>7. Position'
  BY <1>1, Bounds DEF IInv, Position, InGroup
<1>8. \A d \in Calls : d < c => d < c + 1
  BY Bounds
<1>9. Slots'
  BY <1>1, <1>8 DEF IInv, Slots, InGroup
<1>10. Running'
  BY <1>1 DEF IInv, Running
<1>11. Answering'
  BY <1>1, <1>3, <1>4, <1>5 DEF Answering, Logged, Owed, Within, InGroup
<1>. QED
  BY <1>3, <1>6, <1>7, <1>9, <1>10, <1>11 DEF Advanced, IInv

LEMMA FailStep ==
    ASSUME IInv, Fail
    PROVE  Advanced
<1>1. /\ pc \in {"prepare", "finalize"} /\ failure' = TRUE /\ pc' = "drain"
      /\ UNCHANGED <<signal, mode, group, nextStart, started, committed, aborted, slot,
                     inFlight, settled, concluded, results, trace>>
  BY DEF Fail
<1>2. Called' = Called /\ nextStart \in {Called, Called - 1}
  <2>1. nextStart = Called \/ nextStart + 1 = Called
    BY <1>1 DEF IInv, Position
  <2>. QED
    BY <1>1, <2>1, Bounds DEF Called
<1>3. TypeOK'
  BY <1>1 DEF IInv, TypeOK, Locations
<1>4. Position'
  BY <1>1, <1>2 DEF IInv, Position, InGroup
<1>5. Slots'
  BY <1>1 DEF IInv, Slots, InGroup
<1>6. Running'
  BY <1>1 DEF IInv, Running
<1>7. Answering'
  BY <1>1, <1>2 DEF IInv, Answering, Logged, Owed, InGroup
<1>. QED
  BY <1>1, <1>3, <1>4, <1>5, <1>6, <1>7 DEF Advanced, IInv

LEMMA ThrowStep ==
    ASSUME IInv, Throw
    PROVE  Advanced
<1>1. /\ pc = "drain" /\ pc' = "threw" /\ inFlight \subseteq settled
      /\ UNCHANGED <<signal, mode, group, nextStart, started, committed, aborted, failure,
                     slot, inFlight, settled, concluded, results, trace>>
  BY DEF Throw, Drained
<1>2. Called' = Called
  BY <1>1 DEF Called
<1>3. TypeOK'
  BY <1>1 DEF IInv, TypeOK, Locations
<1>4. Position'
  BY <1>1, <1>2 DEF IInv, Position, InGroup
<1>5. Slots'
  BY <1>1 DEF IInv, Slots, InGroup
<1>6. Running'
  BY <1>1 DEF IInv, Running
<1>7. Answering'
  BY <1>1, <1>2 DEF IInv, Answering, Logged, Owed, InGroup
<1>. QED
  BY <1>1, <1>3, <1>4, <1>5, <1>6, <1>7 DEF Advanced, IInv

------------------------------------------------------------------------------
(* The steps of the plugins.                                               *)

LEMMA SettleStep ==
    ASSUME IInv, NEW c \in Calls, NEW outcome \in {"post", "final", "rejects"},
           Settle(c, outcome)
    PROVE  Advanced
<1>1. /\ pc \notin {"fill", "skip", "answer"} /\ c \in inFlight /\ c \notin settled
      /\ settled' = settled \union {c}
      /\ \/ outcome = "rejects" /\ failure' = TRUE /\ slot' = slot
         \/ /\ outcome # "rejects" /\ slot' = [slot EXCEPT ![c] = outcome]
            /\ failure' = failure
      /\ UNCHANGED <<pc, signal, mode, group, nextStart, started, committed, aborted,
                     inFlight, concluded, results, trace>>
  BY DEF Settle, Synchronous
<1>2. pc \in {"prepare", "commit", "finalize", "race", "drain"} /\ c < nextStart
  BY <1>1 DEF IInv, Running, TypeOK, Locations
<1>3. Called' = Called
  BY <1>1 DEF Called
<1>4. slot \in [Calls -> {"empty", "post", "final"}]
  BY DEF IInv, TypeOK
<1>5. slot' \in [Calls -> {"empty", "post", "final"}]
  BY <1>1, <1>4
<1>6. ASSUME NEW d \in Calls
      PROVE  /\ slot[d] # "empty" => slot'[d] # "empty"
             /\ d # c => slot'[d] = slot[d]
             /\ d = c /\ ~failure' => slot'[d] # "empty"
  BY <1>1, <1>4
<1>7. failure => failure'
  BY <1>1
<1>8. TypeOK'
  BY <1>1, <1>5 DEF IInv, TypeOK
<1>9. Position'
  BY <1>1, <1>3 DEF IInv, Position
<1>10. Slots'
  <2>. SUFFICES ASSUME NEW d \in Calls
                PROVE  /\ d <= committed => slot'[d] # "empty"
                       /\ (d < nextStart /\ d \notin inFlight /\ ~failure' /\ pc \in InGroup)
                             => slot'[d] # "empty"
                       /\ (d \in settled' /\ ~failure') => slot'[d] # "empty"
                       /\ (slot'[d] # "empty" \/ d \in settled') => d < nextStart
    BY <1>1 DEF Slots
  <2>1. /\ d <= committed => slot[d] # "empty"
        /\ (d < nextStart /\ d \notin inFlight /\ ~failure /\ pc \in InGroup)
              => slot[d] # "empty"
        /\ (d \in settled /\ ~failure) => slot[d] # "empty"
        /\ (slot[d] # "empty" \/ d \in settled) => d < nextStart
    BY DEF IInv, Slots
  <2>. QED
    BY <1>1, <1>2, <1>6, <1>7, <2>1
<1>11. Running'
  <2>1. pc = "finalize" => slot'[committed + 1] # "empty"
    <3>1. pc = "finalize" => committed + 1 \in Calls /\ slot[committed + 1] # "empty"
      BY Bounds DEF IInv, Running
    <3>. QED
      BY <1>6, <3>1
  <2>. QED
    BY <1>1, <1>2, <2>1 DEF IInv, Running
<1>12. Answering'
  BY <1>1, <1>3 DEF IInv, Answering, Logged, Owed, InGroup
<1>. QED
  BY <1>1, <1>8, <1>9, <1>10, <1>11, <1>12 DEF Advanced, IInv

(* Aborts and reclassifications are read, never written, by the scheduler. *)
LEMMA OutsideStep ==
    ASSUME IInv, Abort \/ \E c \in Calls : Reclassify(c)
    PROVE  Advanced
<1>1. /\ signal' \in BOOLEAN /\ mode' \in [Calls -> Modes]
      /\ UNCHANGED <<pc, group, nextStart, started, committed, aborted, failure, slot,
                     inFlight, settled, concluded, results, trace>>
  <2>1. signal \in BOOLEAN /\ mode \in [Calls -> Modes]
    BY DEF IInv, TypeOK
  <2>2. CASE Abort
    BY <2>1, <2>2 DEF Abort
  <2>3. ASSUME NEW c \in Calls, Reclassify(c)
        PROVE  /\ signal' \in BOOLEAN /\ mode' \in [Calls -> Modes]
               /\ UNCHANGED <<pc, group, nextStart, started, committed, aborted, failure,
                              slot, inFlight, settled, concluded, results, trace>>
    <3>. DEFINE m == IF mode[c] = "parallel" THEN "exclusive" ELSE "parallel"
    <3>1. m \in Modes /\ mode' = [mode EXCEPT ![c] = m]
      BY <2>3 DEF Reclassify, Modes
    <3>. HIDE DEF m
    <3>2. mode' \in [Calls -> Modes]
      BY <2>1, <3>1
    <3>. QED
      BY <2>1, <2>3, <3>2 DEF Reclassify
  <2>. QED
    BY <2>2, <2>3
<1>2. Called' = Called
  BY <1>1 DEF Called
<1>3. TypeOK'
  BY <1>1 DEF IInv, TypeOK
<1>4. Position' /\ Slots' /\ Running'
  <2>1. Position'
    BY <1>1, <1>2 DEF IInv, Position
  <2>2. Slots'
    BY <1>1 DEF IInv, Slots
  <2>3. Running'
    BY <1>1 DEF IInv, Running
  <2>. QED
    BY <2>1, <2>2, <2>3
<1>5. Answering'
  BY <1>1, <1>2 DEF IInv, Answering, Logged, Owed
<1>. QED
  BY <1>1, <1>3, <1>4, <1>5 DEF Advanced, IInv

LEMMA StutterStep ==
    ASSUME IInv, UNCHANGED vars
    PROVE  Advanced
<1>1. UNCHANGED <<pc, signal, mode, group, nextStart, started, committed, aborted, failure,
                  slot, inFlight, settled, concluded, results, trace>>
  BY DEF vars
<1>2. Called' = Called
  BY <1>1 DEF Called
<1>3. TypeOK' /\ Position' /\ Slots' /\ Running'
  BY <1>1, <1>2 DEF IInv, TypeOK, Position, Slots, Running
<1>4. Answering'
  BY <1>1, <1>2 DEF IInv, Answering, Logged, Owed
<1>. QED
  BY <1>1, <1>3, <1>4 DEF Advanced, IInv

LEMMA NextStep ==
    ASSUME IInv, Next
    PROVE  Advanced
<1>1. CASE Schedule
  BY <1>1, ClassifyStep, StartCallStep, StopFillingStep, PrepareStep, FinalizeStep,
     CommitStep, CommittedStep, RaceStep, EndGroupStep, SkipCallStep, AnswerSkippedStep,
     FailStep, ThrowStep DEF Schedule
<1>2. CASE Body
  BY <1>2, SettleStep DEF Body
<1>3. CASE Abort \/ \E c \in Calls : Reclassify(c)
  BY <1>3, OutsideStep
<1>. QED
  BY <1>1, <1>2, <1>3 DEF Next

------------------------------------------------------------------------------

THEOREM IInvHolds == Spec => []IInv
<1>1. IInv /\ [Next]_vars => IInv'
  BY NextStep, StutterStep DEF Advanced
<1>. QED
  BY <1>1, InitAdvanced, PTL DEF Spec

(* Results are committed in the model's order, each reported as run was    *)
(* really produced, and a group that has nothing in flight has committed   *)
(* every call it started: the throw the code marks unreachable is.         *)
THEOREM ResultsAreOrdered == Spec => []ResultsOK
<1>1. IInv => ResultsOK
  <2>. SUFFICES ASSUME IInv PROVE ResultsOK
    OBVIOUS
  <2>1. ASSUME NEW i \in DOMAIN results
        PROVE  results[i].call = i /\ (results[i].kind = "ran" => slot[i] # "empty")
    <3>1. results[i].call = i /\ (results[i].kind = "ran" => i <= committed)
      BY DEF IInv, Answering
    <3>2. i \in Nat /\ i >= 1
      BY LenProperties DEF IInv, TypeOK
    <3>3. i <= committed => i \in Calls
      BY <3>2, Bounds
    <3>. QED
      BY <3>1, <3>3 DEF IInv, Slots
  <2>2. StartedAreCommitted
    BY GroupIsCommitted, Bounds DEF StartedAreCommitted, Called
  <2>. QED
    BY <2>1, <2>2 DEF IInv, ResultsOK, ResultsInModelOrder
<1>. QED
  BY <1>1, IInvHolds, PTL

(* A return leaves no call of the message without its result.              *)
THEOREM ReturnsAnswer == Spec => []EveryCallAnswered
<1>1. IInv => EveryCallAnswered
  BY DEF IInv, Answering, Logged, Owed, InGroup, EveryCallAnswered
<1>. QED
  BY <1>1, IInvHolds, PTL

(* No tool body runs when the scheduler has returned or thrown.            *)
THEOREM ExitsAreQuiet == Spec => []QuietAtExit
<1>1. IInv => QuietAtExit
  BY DEF IInv, Running, QuietAtExit, Over
<1>. QED
  BY <1>1, IInvHolds, PTL

(* Only calls that are parallel when they start share the pool: an         *)
(* exclusive call starts alone and nothing starts beside it.               *)
THEOREM BarriersAreKept == Spec => BarriersHold
<1>. DEFINE Alone == (started' > started /\ "exclusive" \in {mode[nextStart], group.mode})
                        => inFlight = {}
<1>1. IInv /\ [Next]_vars => [Alone]_vars
  <2>. SUFFICES ASSUME IInv, Next, started' > started,
                       "exclusive" \in {mode[nextStart], group.mode}
                PROVE  inFlight = {}
    OBVIOUS
  <2>1. StartCall
    <3>1. started \in Nat /\ ~(started > started) /\ ~(0 > started)
      BY Bounds
    <3>. QED
      BY <3>1 DEF Next, Schedule, Body, Classify, StopFilling, Prepare, Finalize, Commit,
         Committed, Race, EndGroup, SkipCall, AnswerSkipped, Fail, Throw, Settle, Abort,
         Reclassify
  <2>2. /\ pc = "fill" /\ pc \in InGroup /\ nextStart <= group.last
        /\ (nextStart > group.first /\ group.mode = "parallel") => mode[nextStart] = "parallel"
    BY <2>1 DEF StartCall, MayStart, HasRoom, Joins, InGroup
  <2>3. group.mode = "exclusive" => group.last = group.first
    BY <2>2 DEF IInv, Position
  <2>4. group.mode \in {"parallel", "exclusive"}
    BY Bounds DEF Modes
  <2>5. ~(nextStart > group.first)
    BY <2>2, <2>3, <2>4, Bounds
  <2>6. \A c \in inFlight : group.first <= c /\ c < nextStart /\ c \in Nat
    BY Bounds DEF IInv, Running, TypeOK
  <2>. QED
    BY <2>5, <2>6, Bounds
<1>. HIDE DEF Alone
<1>2. Spec => [][Alone]_vars
  BY <1>1, IInvHolds, PTL DEF Spec
<1>. QED
  BY <1>2 DEF BarriersHold, Alone

(* The scheduler implements the session log's companion: whatever it       *)
(* appends, in whatever interleaving, is accepted.                         *)
THEOREM ToolEventsAreAccepted == Spec => LogAccepted
<1>1. IInv /\ [Next]_vars => [Log!Next]_trace
  BY NextStep, StutterStep DEF Advanced
<1>2. Spec => [][Log!Next]_trace
  BY <1>1, IInvHolds, PTL DEF Spec
<1>. QED
  BY <1>2 DEF LogAccepted
==============================================================================
