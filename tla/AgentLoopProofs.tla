--------------------------- MODULE AgentLoopProofs ---------------------------
(***************************************************************************)
(* Proofs about AgentLoop, for every value of its bounds and whichever     *)
(* listeners reenter it: the types, that one driver at most owns the agent *)
(* and that what it appends implements SessionTrace; then what a turn owes *)
(* its callers: an aborted turn spends nothing more, outcomes are honest,  *)
(* a driver that served its turn strands no work, a latched wake was       *)
(* earned, the inbox implements AgentInput, and disposal outwaits every    *)
(* activity it found.                                                      *)
(***************************************************************************)
EXTENDS AgentLoop, SequenceTheorems, TLAPS

------------------------------------------------------------------------------
(* The inductive invariant.                                                *)

(* An interrupted start or error report belongs to the driver that owns    *)
(* the phase, which waits for it to return, and no driver is in two.       *)
FrameOwned(i) ==
    /\ stack[i].kind = "start" =>
          phase.kind = "running" /\ pc[phase.activity] = "start"
    /\ stack[i].kind = "error" =>
          phase.kind = "running" /\ pc[phase.activity] \in Reporting

Reports == {"start", "error"}

FramesOwned ==
    /\ \A i \in DOMAIN stack : FrameOwned(i)
    /\ \A i, j \in DOMAIN stack :
          stack[i].kind \in Reports /\ stack[j].kind \in Reports => i = j

(* Where the driver is tells what the log leaves open.                     *)
InStep == {"request", "tools", "endStep"}
InTurn == InStep \union {"claim", "preStep", "boundary", "stopping", "caught", "failing",
                         "endTurn"}

TurnOpen == phase.kind = "running" /\ pc[phase.activity] \in InTurn
StepOpen == phase.kind = "running" /\ pc[phase.activity] \in InStep

LogFollows ==
    /\ trace.openTurn = IF TurnOpen THEN phase.turn ELSE Log!None
    /\ trace.openStep = IF StepOpen THEN phase.step ELSE Log!None
    /\ trace.nextTurn = IF TurnOpen THEN phase.turn ELSE phase.turn + 1
    /\ trace.pendingCalls = {}
    /\ TurnOpen => phase.turn > 0
    /\ StepOpen => phase.step > 0 /\ trace.nextStep = phase.step
    /\ TurnOpen /\ ~StepOpen => trace.nextStep = phase.step + 1

FreshSteps ==
    phase.kind = "running" /\ pc[phase.activity] \in {"start", "open", "gap"}
        => phase.step = 0

IInv == TypeOK /\ OneDriver /\ FramesOwned /\ LogFollows /\ FreshSteps
------------------------------------------------------------------------------
(* Sequences: overwriting, pushing, removing and mapping keep the type.    *)

LEMMA ExceptInSeq ==
    ASSUME NEW S, NEW s \in Seq(S), NEW i, NEW e \in S
    PROVE  /\ [s EXCEPT ![i] = e] \in Seq(S)
           /\ DOMAIN [s EXCEPT ![i] = e] = DOMAIN s
<1>1. CASE i \in 1..Len(s)
  BY <1>1, ExceptSeq
<1>2. CASE i \notin 1..Len(s)
  <2>1. [s EXCEPT ![i] = e] = s
    BY <1>2
  <2>. QED
    BY <2>1
<1>. QED
  BY <1>1, <1>2

LEMMA PushInSeq ==
    ASSUME NEW S, NEW s \in Seq(S), NEW e \in S
    PROVE  <<e>> \o s \in Seq(S)
  BY ConcatProperties, <<e>> \in Seq(S)

LEMMA RemoveInSeq ==
    ASSUME NEW S, NEW s \in Seq(S), NEW i \in DOMAIN s
    PROVE  RemoveAt(s, i) \in Seq(S)
<1>1. i \in 1..Len(s)
  OBVIOUS
<1>2. SubSeq(s, 1, i - 1) \in Seq(S)
  BY <1>1, SubSeqProperties
<1>3. SubSeq(s, i + 1, Len(s)) \in Seq(S)
  BY <1>1, SubSeqProperties
<1>. QED
  BY <1>2, <1>3, ConcatProperties DEF RemoveAt

LEMMA MapInSeq ==
    ASSUME NEW S, NEW s \in Seq(S), NEW g \in [DOMAIN s -> S]
    PROVE  g \in Seq(S)
  OBVIOUS

LEMMA TailInSeq ==
    ASSUME NEW S, NEW s \in Seq(S), s # <<>>
    PROVE  Tail(s) \in Seq(S) /\ Head(s) \in S
  BY HeadTailProperties

------------------------------------------------------------------------------
(* What the parts the actions share leave typed.                           *)

LEMMA MetType ==
    ASSUME NEW letters \in Seq(Letters)
    PROVE  Met(letters) \in Seq(Letters)
<1>1. \A m \in DOMAIN letters : letters[m] \in Letters
  BY ElementOfSeq
<1>2. Met(letters) \in [DOMAIN letters -> Letters]
  BY <1>1 DEF Met, Letters
<1>. QED
  BY <1>2, MapInSeq

LEMMA PromiseType ==
    ASSUME NEW wake
    PROVE  PromiseTo(wake) \in {"none", "live", "late"}
  BY DEF PromiseTo

LEMMA InsertType ==
    ASSUME TypeOK, NEW target \in Targets, NEW wake \in BOOLEAN, Insert(target, wake)
    PROVE  /\ mail' \in Seq(Letters)
           /\ nextTurn' \in Seq(Nat) /\ nextStep' \in Seq(Nat)
<1>1. [list |-> target, fate |-> "pending", turn |-> 0, promise |-> PromiseTo(wake)]
         \in Letters
  BY PromiseType DEF Letters
<1>2. mail' \in Seq(Letters)
  BY <1>1, AppendProperties DEF Insert, TypeOK
<1>3. Len(mail) + 1 \in Nat
  BY DEF TypeOK
<1>4. \A list \in Seq(Nat) : Append(list, Len(mail) + 1) \in Seq(Nat)
  BY <1>3, AppendProperties
<1>5. nextTurn' \in Seq(Nat) /\ nextStep' \in Seq(Nat)
  BY <1>4 DEF Insert, TypeOK, AtEnd
<1>. QED
  BY <1>2, <1>5

LEMMA StartDriverType ==
    ASSUME NEW ph \in Phases, NEW acts \in Seq(Locations), NEW calls \in Seq(Frames),
           StartDriver(ph, acts, calls)
    PROVE  phase' \in Phases /\ pc' \in Seq(Locations) /\ stack' \in Seq(Frames)
<1>1. phase' \in Phases
  BY DEF StartDriver, Phases, NoAbort
<1>2. pc' \in Seq(Locations)
  BY AppendProperties DEF StartDriver, Locations, Driving
<1>3. FrameOf("start", FALSE, FALSE, "user") \in Frames
  BY DEF FrameOf, Frames, Causes
<1>4. stack' \in Seq(Frames)
  BY <1>3, PushInSeq DEF StartDriver
<1>. QED
  BY <1>1, <1>2, <1>4

LEMMA WakeDriverType ==
    ASSUME TypeOK, NEW late \in BOOLEAN, NEW calls \in Seq(Frames),
           WakeDriver(late, calls)
    PROVE  phase' \in Phases /\ pc' \in Seq(Locations) /\ stack' \in Seq(Frames)
<1>1. CASE phase.kind = "idle"
  BY <1>1, StartDriverType DEF WakeDriver, TypeOK
<1>2. CASE phase.kind # "idle"
  BY <1>2 DEF WakeDriver, TypeOK, Phases, Latches
<1>. QED
  BY <1>1, <1>2

LEMMA RetireRunningType ==
    ASSUME TypeOK, NEW d, NEW location \in Locations, RetireRunning(d, location)
    PROVE  phase' \in Phases /\ pc' \in Seq(Locations) /\ stack' \in Seq(Frames)
<1>1. pc' \in Seq(Locations)
  BY ExceptInSeq DEF RetireRunning, TypeOK
<1>2. CASE Running(d)
  <2>1. phase' \in Phases
    <3>1. phase.turn \in Nat
      BY DEF TypeOK, Phases
    <3>2. phase' = [kind |-> "idle", activity |-> 0, abort |-> NoAbort,
                    wakeRequested |-> FALSE, turn |-> phase.turn, step |-> 0]
      BY <1>2 DEF RetireRunning
    <3>. QED
      BY <3>1, <3>2 DEF Phases
  <2>2. FrameOf("status", phase.wakeRequested, FALSE, "user") \in Frames
    BY DEF FrameOf, Frames, Causes, TypeOK, Phases
  <2>3. stack' \in Seq(Frames)
    BY <1>2, <2>2, PushInSeq DEF RetireRunning, Running, TypeOK
  <2>. QED
    BY <1>1, <2>1, <2>3
<1>3. CASE ~Running(d)
  BY <1>1, <1>3 DEF RetireRunning, Running, TypeOK
<1>. QED
  BY <1>2, <1>3

LEMMA AbortType ==
    ASSUME TypeOK, NEW cause \in Causes, NEW keepInbox \in BOOLEAN,
           NEW letters \in Seq(Letters), Abort(cause, keepInbox, letters)
    PROVE  phase' \in Phases /\ mail' \in Seq(Letters) /\ disposal' \in Disposals
<1>1. phase' \in Phases
  BY DEF Abort, Aborted, TypeOK, Phases
<1>2. mail' \in Seq(Letters)
  BY MetType DEF Abort
<1>3. disposal' \in Disposals
  BY DEF Abort, TypeOK, Disposals, Phases
<1>. QED
  BY <1>1, <1>2, <1>3

LEMMA TraceUpdates ==
    ASSUME NEW tr \in Log!TraceType, NEW n \in Nat
    PROVE  /\ [tr EXCEPT !.openTurn = n, !.nextStep = 1] \in Log!TraceType
           /\ [tr EXCEPT !.openTurn = 0, !.nextTurn = @ + 1] \in Log!TraceType
           /\ [tr EXCEPT !.openStep = n] \in Log!TraceType
           /\ [tr EXCEPT !.openStep = 0, !.nextStep = @ + 1, !.pendingCalls = {}]
                 \in Log!TraceType
<1>1. n \in Int /\ 0 \in Int /\ tr.nextTurn + 1 \in Nat /\ tr.nextStep + 1 \in Nat
  BY DEF Log!TraceType
<1>2. [tr EXCEPT !.openTurn = n, !.nextStep = 1] \in Log!TraceType
  BY <1>1 DEF Log!TraceType
<1>3. [tr EXCEPT !.openTurn = 0, !.nextTurn = @ + 1] \in Log!TraceType
  BY <1>1 DEF Log!TraceType
<1>4. [tr EXCEPT !.openStep = n] \in Log!TraceType
  BY <1>1 DEF Log!TraceType
<1>5. [tr EXCEPT !.openStep = 0, !.nextStep = @ + 1, !.pendingCalls = {}] \in Log!TraceType
  BY <1>1 DEF Log!TraceType
<1>. QED
  BY <1>2, <1>3, <1>4, <1>5

LEMMA AppendEventType ==
    ASSUME TypeOK, NEW type \in {"turn/start", "turn/end", "step/start", "step/end"},
           NEW turn \in Nat, NEW step \in Nat, AppendEvent(type, turn, step)
    PROVE  trace' \in Log!TraceType
<1>. DEFINE e == Log!Boundary(type, turn, step)
<1>1. trace \in Log!TraceType
  BY DEF TypeOK
<1>2. e.type = type /\ e.turn = turn /\ e.step = step
  BY DEF Log!Boundary
<1>3. Log!After(trace, e) \in Log!TraceType
  <2>1. CASE type = "turn/start"
    <3>1. Log!After(trace, e) = [trace EXCEPT !.openTurn = turn, !.nextStep = 1]
      BY <1>2, <2>1 DEF Log!After
    <3>. QED
      BY <1>1, <3>1, TraceUpdates
  <2>2. CASE type = "turn/end"
    <3>1. Log!After(trace, e) = [trace EXCEPT !.openTurn = 0, !.nextTurn = @ + 1]
      BY <1>2, <2>2 DEF Log!After, Log!None
    <3>. QED
      BY <1>1, <3>1, TraceUpdates
  <2>3. CASE type = "step/start"
    <3>1. Log!After(trace, e) = [trace EXCEPT !.openStep = step]
      BY <1>2, <2>3 DEF Log!After
    <3>. QED
      BY <1>1, <3>1, TraceUpdates
  <2>4. CASE type = "step/end"
    <3>1. Log!After(trace, e) = [trace EXCEPT !.openStep = 0, !.nextStep = @ + 1,
                                              !.pendingCalls = {}]
      BY <1>2, <2>4 DEF Log!After, Log!None
    <3>. QED
      BY <1>1, <3>1, TraceUpdates
  <2>. QED
    BY <2>1, <2>2, <2>3, <2>4
<1>4. [trace EXCEPT !.openTurn = Log!Refused] \in Log!TraceType
  BY <1>1 DEF Log!TraceType, Log!Refused
<1>. QED
  BY <1>3, <1>4 DEF AppendEvent, Log!Appended

LEMMA GotoType ==
    ASSUME TypeOK, NEW d, NEW location \in Locations, Goto(d, location)
    PROVE  pc' \in Seq(Locations)
  BY ExceptInSeq DEF Goto, TypeOK

LEMMA ThrowType ==
    ASSUME TypeOK, NEW d, Throw(d)
    PROVE  TypeOK'
<1>1. FailsTo(pc[d]) \in Locations
  BY DEF FailsTo, Locations, Driving, Sync
<1>2. pc' \in Seq(Locations)
  BY <1>1, GotoType DEF Throw
<1>3. run' \in Runs
  BY DEF Throw, TypeOK, Runs
<1>. QED
  BY <1>2, <1>3 DEF Throw, TypeOK

LEMMA PushFrameType ==
    ASSUME TypeOK, NEW kind \in {"send", "cancel", "start", "status", "error"},
           NEW wake \in BOOLEAN, NEW late \in BOOLEAN, NEW cause \in Causes
    PROVE  <<FrameOf(kind, wake, late, cause)>> \o stack \in Seq(Frames)
<1>1. FrameOf(kind, wake, late, cause) \in Frames
  BY DEF FrameOf, Frames
<1>. QED
  BY <1>1, PushInSeq DEF TypeOK

------------------------------------------------------------------------------
(* Type correctness.                                                       *)

LEMMA TypeInit == Init => TypeOK
  BY DEF Init, TypeOK, Phases, Runs, FreshRun, Ends, NoEnd, NoAbort, Targets, Disposals,
         Histories, Partings, Log!FreshTrace, Log!TraceType, Log!None

LEMMA ClientType ==
    ASSUME TypeOK, Client
    PROVE  TypeOK'
<1>0. phase \in Phases /\ run \in Runs /\ history \in Histories
  BY DEF TypeOK
<1>1. ASSUME NEW target \in Targets, NEW wake \in BOOLEAN, Send(target, wake)
      PROVE  TypeOK'
  <2>1. WakingAfterAbort(wake) \in BOOLEAN
    BY <1>1 DEF WakingAfterAbort
  <2>2. PICK chosen \in Targets : Insert(chosen, wake)
    BY <1>1 DEF Send, Targets
  <2>3. stack' \in Seq(Frames)
    BY <1>1, <2>1, PushFrameType DEF Send, Causes
  <2>4. history' \in Histories
    BY <1>0, <1>1 DEF Send, Histories, Phases
  <2>. QED
    BY <1>1, <2>2, <2>3, <2>4, InsertType DEF Send, TypeOK
<1>2. ASSUME NEW cause \in Causes, NEW keepInbox \in BOOLEAN, Cancel(cause, keepInbox)
      PROVE  TypeOK'
  <2>1. phase' \in Phases /\ mail' \in Seq(Letters) /\ disposal' \in Disposals
    BY <1>2, AbortType DEF Cancel, TypeOK
  <2>. QED
    BY <1>2, <2>1 DEF Cancel, TypeOK
<1>3. ASSUME NEW cause \in Causes, CancelClear(cause)
      PROVE  TypeOK'
  <2>1. \A m \in DOMAIN mail : mail[m] \in Letters
    BY ElementOfSeq DEF TypeOK
  <2>2. mail' \in [DOMAIN mail -> Letters]
    BY <1>3, <2>1 DEF CancelClear, Letters
  <2>3. mail' \in Seq(Letters)
    BY <2>2, MapInSeq DEF TypeOK
  <2>4. stack' \in Seq(Frames)
    BY <1>3, PushFrameType DEF CancelClear
  <2>5. nextTurn' \in Seq(Nat) /\ nextStep' \in Seq(Nat)
    <3>1. nextTurn' = <<>> /\ nextStep' = <<>>
      BY <1>3 DEF CancelClear
    <3>. QED
      BY <3>1
  <2>. QED
    BY <1>3, <2>3, <2>4, <2>5 DEF CancelClear, TypeOK
<1>4. ASSUME NEW keepInbox \in BOOLEAN, CancelInAppend(keepInbox)
      PROVE  TypeOK'
  <2>1. phase' \in Phases /\ mail' \in Seq(Letters) /\ disposal' \in Disposals
    BY <1>4, AbortType DEF CancelInAppend, TypeOK, Causes
  <2>. QED
    BY <1>4, <2>1 DEF CancelInAppend, TypeOK
<1>5. CASE DisposeFromAppend
  <2>1. CASE hasPending
    <3>1. Len(pc) \in Nat
      BY DEF TypeOK
    <3>2. disposal' \in Disposals /\ history' \in Histories
      BY <1>5, <2>1, <3>1 DEF DisposeFromAppend, TypeOK, Disposals, Histories, hasPending
    <3>. QED
      BY <1>5, <2>1, <3>2 DEF DisposeFromAppend, TypeOK, hasPending
  <2>2. CASE ~hasPending
    <3>1. Abort("disposed", FALSE, mail)
      BY <1>5, <2>2 DEF DisposeFromAppend, hasPending
    <3>2. phase' \in Phases /\ mail' \in Seq(Letters) /\ disposal' \in Disposals
      BY <3>1, AbortType DEF TypeOK, Causes
    <3>3. UNCHANGED history
      BY <1>5, <2>2 DEF DisposeFromAppend, hasPending
    <3>. QED
      BY <1>5, <3>2, <3>3 DEF DisposeFromAppend, TypeOK
  <2>. QED
    BY <2>1, <2>2
<1>6. ASSUME NEW m \in DOMAIN mail, Remove_(m)
      PROVE  TypeOK'
  <2>1. nextTurn' \in Seq(Nat) /\ nextStep' \in Seq(Nat)
    BY <1>6, RemoveInSeq DEF Remove_, TypeOK
  <2>2. [mail[m] EXCEPT !.fate = "discarded", !.promise = "none"] \in Letters
    <3>1. mail[m] \in Letters
      BY ElementOfSeq DEF TypeOK
    <3>. QED
      BY <3>1 DEF Letters
  <2>3. mail' = [mail EXCEPT ![m] = [mail[m] EXCEPT !.fate = "discarded", !.promise = "none"]]
    BY <1>6 DEF Remove_
  <2>4. mail' \in Seq(Letters)
    BY <2>2, <2>3, ExceptInSeq DEF TypeOK
  <2>. QED
    BY <1>6, <2>1, <2>4 DEF Remove_, TypeOK
<1>7. CASE RunMaintenance
  <2>1. phase' \in Phases
    <3>1. Len(pc) + 1 \in Nat
      BY DEF TypeOK
    <3>. QED
      BY <1>0, <1>7, <3>1 DEF RunMaintenance, Phases
  <2>2. pc' \in Seq(Locations)
    BY <1>7, AppendProperties DEF RunMaintenance, TypeOK, Locations
  <2>3. history' \in Histories
    BY <1>0, <1>7 DEF RunMaintenance, Histories
  <2>. QED
    BY <1>7, <2>1, <2>2, <2>3 DEF RunMaintenance, TypeOK
<1>. QED
  BY <1>1, <1>2, <1>3, <1>4, <1>5, <1>6, <1>7 DEF Client

LEMMA ReturnType ==
    ASSUME TypeOK, Return
    PROVE  TypeOK'
<1>0. phase \in Phases /\ run \in Runs /\ history \in Histories
  BY DEF TypeOK
<1>1. CASE FinishStart
  <2>1. pc' \in Seq(Locations)
    BY <1>1, GotoType DEF FinishStart, Locations, Driving, Sync
  <2>2. stack' \in Seq(Frames)
    BY <1>1, TailInSeq DEF FinishStart, TypeOK
  <2>. QED
    BY <1>1, <2>1, <2>2 DEF FinishStart, TypeOK
<1>2. CASE FinishSend
  <2>1. Head(stack) \in Frames /\ Tail(stack) \in Seq(Frames)
    BY <1>2, TailInSeq DEF FinishSend, TypeOK
  <2>2. Classified(Head(stack)) \in BOOLEAN
    BY <2>1 DEF Classified, Frames
  <2>3. phase' \in Phases /\ pc' \in Seq(Locations) /\ stack' \in Seq(Frames)
    BY <1>2, <2>1, <2>2, WakeDriverType DEF FinishSend, TypeOK
  <2>. QED
    BY <1>2, <2>3 DEF FinishSend, TypeOK
<1>3. CASE FinishCancel
  <2>1. Head(stack) \in Frames /\ Tail(stack) \in Seq(Frames)
    BY <1>3, TailInSeq DEF FinishCancel, TypeOK
  <2>2. Head(stack).cause \in Causes
    BY <2>1 DEF Frames
  <2>3. phase' \in Phases /\ mail' \in Seq(Letters) /\ disposal' \in Disposals
    BY <1>3, <2>2, AbortType DEF FinishCancel, TypeOK
  <2>. QED
    BY <1>3, <2>1, <2>3 DEF FinishCancel, TypeOK
<1>4. CASE FinishRetire
  <2>1. Tail(stack) \in Seq(Frames)
    BY <1>4, TailInSeq DEF FinishRetire, TypeOK
  <2>2. phase' \in Phases /\ pc' \in Seq(Locations) /\ stack' \in Seq(Frames)
    BY <1>4, <2>1, WakeDriverType DEF FinishRetire, TypeOK
  <2>. QED
    BY <1>4, <2>2 DEF FinishRetire, TypeOK
<1>5. CASE FinishError
  <2>1. pc' \in Seq(Locations)
    BY <1>5, GotoType DEF FinishError, Locations, Driving, Sync
  <2>2. stack' \in Seq(Frames)
    BY <1>5, TailInSeq DEF FinishError, TypeOK
  <2>. QED
    BY <1>5, <2>1, <2>2 DEF FinishError, TypeOK
<1>. QED
  BY <1>1, <1>2, <1>3, <1>4, <1>5 DEF Return

LEMMA SynchronousType ==
    ASSUME TypeOK, NEW d \in DOMAIN pc, Synchronous(d)
    PROVE  TypeOK'
<1>0. phase \in Phases /\ run \in Runs /\ history \in Histories
  BY DEF TypeOK
<1>1. CASE Open(d)
  <2>1. CASE Aborted
    BY <1>1, <2>1, GotoType DEF Open, TypeOK, Locations
  <2>2. CASE ~Aborted
    <3>1. pc' \in Seq(Locations)
      BY <1>1, <2>2, GotoType DEF Open, Locations, Driving, Sync
    <3>2. phase' \in Phases
      BY <1>0, <1>1, <2>2 DEF Open, Phases
    <3>3. trace' \in Log!TraceType
      BY <1>0, <1>1, <2>2, AppendEventType DEF Open, Phases
    <3>4. run' \in Runs
      <4>1. run' = FreshRun
        BY <1>1, <2>2 DEF Open
      <4>. QED
        BY <4>1 DEF FreshRun, Runs, Ends, Targets
    <3>5. mail' \in Seq(Letters)
      BY <1>1, <2>2, MetType DEF Open, TypeOK
    <3>6. history' \in Histories
      BY <1>0, <1>1, <2>2 DEF Open, Histories, Partings
    <3>. QED
      BY <1>1, <2>2, <3>1, <3>2, <3>3, <3>4, <3>5, <3>6 DEF Open, TypeOK
  <2>. QED
    BY <2>1, <2>2
<1>2. CASE Veto(d)
  <2>1. pc' \in Seq(Locations)
    BY <1>2, GotoType DEF Veto, Locations, Driving, Reporting
  <2>2. mail' \in Seq(Letters)
    BY <1>2, MetType DEF Veto, TypeOK
  <2>3. stack' \in Seq(Frames)
    BY <1>2, PushFrameType DEF Veto, Causes
  <2>. QED
    BY <1>2, <2>1, <2>2, <2>3 DEF Veto, TypeOK
<1>3. CASE Claim(d)
  <2>1. pc' \in Seq(Locations)
    BY <1>3, GotoType DEF Claim, Locations, Driving, Awaiting
  <2>2. nextTurn' \in Seq(Nat) /\ nextStep' \in Seq(Nat)
    <3>1. nextTurn # <<>> => Tail(nextTurn) \in Seq(Nat)
      BY TailInSeq DEF TypeOK
    <3>2. Unclaimed(run.target) \in Seq(Nat)
      BY <3>1 DEF Unclaimed, TakesTurn, TypeOK
    <3>3. nextTurn' = Unclaimed(run.target) /\ nextStep' = <<>>
      BY <1>3 DEF Claim
    <3>. QED
      BY <3>2, <3>3
  <2>3. \A m \in DOMAIN mail : mail[m] \in Letters
    BY ElementOfSeq DEF TypeOK
  <2>4. mail' \in [DOMAIN mail -> Letters]
    BY <1>3, <2>3 DEF Claim, Letters, TypeOK, Phases
  <2>5. mail' \in Seq(Letters)
    BY <2>4, MapInSeq DEF TypeOK
  <2>. QED
    BY <1>3, <2>1, <2>2, <2>5 DEF Claim, TypeOK
<1>4. CASE EndStep(d)
  <2>1. pc' \in Seq(Locations)
    BY <1>4, GotoType DEF EndStep, Locations, Driving, Sync
  <2>2. trace' \in Log!TraceType
    BY <1>4, <1>0, AppendEventType DEF EndStep, Phases
  <2>. QED
    BY <1>4, <2>1, <2>2 DEF EndStep, TypeOK
<1>5. CASE StepBoundary(d)
  <2>1. pc' \in Seq(Locations)
    BY <1>5, GotoType DEF StepBoundary, Locations, Driving, Sync, Awaiting
  <2>2. run' \in Runs
    BY <1>0, <1>5 DEF StepBoundary, NextTarget, Runs, Targets
  <2>. QED
    BY <1>5, <2>1, <2>2 DEF StepBoundary, TypeOK
<1>6. CASE SyncThrows(d)
  BY <1>6, ThrowType DEF SyncThrows
<1>7. CASE Catch(d)
  <2>1. pc' \in Seq(Locations)
    BY <1>7, GotoType DEF Catch, Locations, Driving, Sync, Reporting
  <2>2. run' \in Runs
    BY <1>0, <1>7 DEF Catch, Runs, Ends
  <2>3. stack' \in Seq(Frames)
    BY <1>7, PushFrameType DEF Catch, Causes, TypeOK
  <2>. QED
    BY <1>7, <2>1, <2>2, <2>3 DEF Catch, TypeOK
<1>8. CASE EndTurn(d)
  <2>1. pc' \in Seq(Locations)
    BY <1>8, GotoType DEF EndTurn, Locations, Driving, Sync
  <2>2. trace' \in Log!TraceType
    BY <1>8, <1>0, AppendEventType DEF EndTurn, Phases
  <2>. QED
    BY <1>8, <2>1, <2>2 DEF EndTurn, TypeOK
<1>9. CASE Continue(d)
  <2>1. pc' \in Seq(Locations)
    BY <1>9, GotoType DEF Continue, Locations, Driving, Awaiting
  <2>2. phase' \in Phases
    BY <1>0, <1>9 DEF Continue, Phases
  <2>. QED
    BY <1>9, <2>1, <2>2 DEF Continue, TypeOK
<1>10. CASE Retire(d)
  <2>1. phase' \in Phases /\ pc' \in Seq(Locations) /\ stack' \in Seq(Frames)
    BY <1>10, RetireRunningType DEF Retire, Locations
  <2>2. history' \in Histories
    BY <1>10, <1>0 DEF Retire, Parting, Histories, Partings, Excused
  <2>3. run' \in Runs
    BY <1>10 DEF Retire, FreshRun, Runs, Ends, Targets
  <2>. QED
    BY <1>10, <2>1, <2>2, <2>3 DEF Retire, TypeOK
<1>. QED
  BY <1>1, <1>2, <1>3, <1>4, <1>5, <1>6, <1>7, <1>8, <1>9, <1>10 DEF Synchronous

LEMMA ResumeType ==
    ASSUME TypeOK, NEW d \in DOMAIN pc, Resume(d)
    PROVE  TypeOK'
<1>0. phase \in Phases /\ run \in Runs /\ history \in Histories
  BY DEF TypeOK
<1>1. CASE Reject(d)
  <2>1. pc' \in Seq(Locations)
    BY <1>1, GotoType DEF Reject, Locations, Driving, Sync
  <2>2. run' \in Runs
    BY <1>0, <1>1 DEF Reject, Runs, Ends
  <2>. QED
    BY <1>1, <2>1, <2>2 DEF Reject, TypeOK
<1>2. CASE EnterEmpty(d)
  <2>1. pc' \in Seq(Locations)
    BY <1>2, GotoType DEF EnterEmpty, Locations, Driving, Sync
  <2>2. run' \in Runs
    BY <1>0, <1>2 DEF EnterEmpty, Runs, Ends
  <2>. QED
    BY <1>2, <2>1, <2>2 DEF EnterEmpty, TypeOK
<1>3. ASSUME NEW messages \in BOOLEAN, StartStep(d, messages)
      PROVE  TypeOK'
  <2>1. pc' \in Seq(Locations)
    BY <1>3, GotoType DEF StartStep, Locations, Driving, Awaiting
  <2>2. phase' \in Phases
    BY <1>0, <1>3 DEF StartStep, Phases
  <2>3. trace' \in Log!TraceType
    BY <1>3, <1>0, AppendEventType DEF StartStep, Phases
  <2>4. history' \in Histories
    BY <1>0, <1>3 DEF StartStep, Histories
  <2>. QED
    BY <1>3, <2>1, <2>2, <2>3, <2>4 DEF StartStep, TypeOK
<1>4. ASSUME NEW end \in {"completed", "max-tokens"}, Respond(d, end)
      PROVE  TypeOK'
  <2>1. pc' \in Seq(Locations)
    BY <1>4, GotoType DEF Respond, Locations, Driving, Sync
  <2>2. run' \in Runs
    BY <1>0, <1>4 DEF Respond, StepEnds, Runs, Ends
  <2>3. history' \in Histories
    BY <1>0, <1>4 DEF Respond, Histories
  <2>. QED
    BY <1>4, <2>1, <2>2, <2>3 DEF Respond, TypeOK
<1>5. CASE CallTools(d)
  BY <1>5, GotoType DEF CallTools, TypeOK, Locations, Driving, Awaiting
<1>6. CASE AcceptContext(d)
  BY <1>6, InsertType DEF AcceptContext, TypeOK, Targets
<1>7. ASSUME NEW concluded \in BOOLEAN, FinishTools(d, concluded)
      PROVE  TypeOK'
  <2>1. pc' \in Seq(Locations)
    BY <1>7, GotoType DEF FinishTools, Locations, Driving, Sync
  <2>2. run' \in Runs
    BY <1>0, <1>7 DEF FinishTools, StepEnds, Runs, Ends, NoEnd
  <2>3. history' \in Histories
    BY <1>0, <1>7 DEF FinishTools, Histories
  <2>. QED
    BY <1>7, <2>1, <2>2, <2>3 DEF FinishTools, TypeOK
<1>8. CASE AwaitThrows(d)
  BY <1>8, ThrowType DEF AwaitThrows
<1>9. CASE Stopped(d)
  <2>1. pc' \in Seq(Locations)
    BY <1>9, GotoType DEF Stopped, Locations, Driving, Sync
  <2>2. run' \in Runs
    BY <1>0, <1>9 DEF Stopped, NextTarget, Runs, Targets
  <2>. QED
    BY <1>9, <2>1, <2>2 DEF Stopped, TypeOK
<1>10. CASE Leave(d)
  <2>1. phase' \in Phases /\ pc' \in Seq(Locations) /\ stack' \in Seq(Frames)
    BY <1>10, RetireRunningType DEF Leave, Locations
  <2>2. history' \in Histories
    BY <1>10, <1>0 DEF Leave, Histories, Partings, Excused
  <2>. QED
    BY <1>10, <2>1, <2>2 DEF Leave, TypeOK
<1>. QED
  BY <1>1, <1>2, <1>3, <1>4, <1>5, <1>6, <1>7, <1>8, <1>9, <1>10 DEF Resume

LEMMA TypeStep == TypeOK /\ [Next]_vars => TypeOK'
<1>. SUFFICES ASSUME TypeOK, [Next]_vars PROVE TypeOK'
  OBVIOUS
<1>1. ASSUME NEW a \in DOMAIN pc, FinishMaintenance(a)
      PROVE  TypeOK'
  <2>. DEFINE idle == [phase EXCEPT !.kind = "idle", !.activity = 0, !.abort = NoAbort,
                                    !.wakeRequested = FALSE]
  <2>1. idle \in Phases
    BY DEF TypeOK, Phases
  <2>2. Resolved(a) \in Seq(Locations)
    BY ExceptInSeq DEF Resolved, TypeOK, Locations
  <2>3. phase' \in Phases /\ pc' \in Seq(Locations) /\ stack' \in Seq(Frames)
    BY <1>1, <2>1, <2>2, StartDriverType DEF FinishMaintenance, TypeOK
  <2>. QED
    BY <1>1, <2>3 DEF FinishMaintenance, TypeOK
<1>2. CASE WhenIdle
  <2>1. Len(pc) \in Nat
    BY DEF TypeOK
  <2>2. disposal' \in Disposals /\ history' \in Histories
    BY <1>2, <2>1 DEF WhenIdle, TypeOK, Disposals, Histories
  <2>. QED
    BY <1>2, <2>2 DEF WhenIdle, TypeOK
<1>3. CASE Detach \/ UNCHANGED vars
  BY <1>3 DEF Detach, vars, TypeOK, Disposals
<1>. QED
  BY <1>1, <1>2, <1>3, ClientType, ReturnType, SynchronousType, ResumeType DEF Next

(* Whatever the bounds and the listeners, every variable keeps the type    *)
(* the code declares for it.                                               *)
THEOREM TypeCorrect == Spec => []TypeOK
  BY TypeInit, TypeStep, PTL DEF Spec

------------------------------------------------------------------------------
(* Ownership.  Steps are sorted by what they do to the drivers and to the  *)
(* interrupted calls; each sort has a lemma.                               *)

Owned == OneDriver /\ FramesOwned

Silent(frames) == \A i \in DOMAIN frames : frames[i].kind \notin Reports

LEMMA Pushed ==
    ASSUME NEW frames \in Seq(Frames), NEW f \in Frames,
           NEW i \in DOMAIN (<<f>> \o frames)
    PROVE  \/ i = 1 /\ (<<f>> \o frames)[i] = f
           \/ i - 1 \in DOMAIN frames /\ (<<f>> \o frames)[i] = frames[i - 1]
<1>. DEFINE longer == <<f>> \o frames
<1>1. <<f>> \in Seq(Frames) /\ Len(<<f>>) = 1 /\ <<f>>[1] = f
  OBVIOUS
<1>2. /\ Len(longer) = 1 + Len(frames)
      /\ \A j \in 1..Len(longer) : longer[j] = IF j <= 1 THEN <<f>>[j] ELSE frames[j - 1]
      /\ longer \in Seq(Frames)
  BY <1>1, ConcatProperties
<1>3. i \in 1..Len(longer)
  BY <1>2
<1>. HIDE DEF longer
<1>4. CASE i = 1
  BY <1>1, <1>2, <1>3, <1>4 DEF longer
<1>5. CASE i # 1
  <2>1. i - 1 \in 1..Len(frames)
    BY <1>2, <1>3, <1>5
  <2>2. longer[i] = frames[i - 1]
    BY <1>2, <1>3, <1>5
  <2>. QED
    BY <2>1, <2>2 DEF longer
<1>. QED
  BY <1>4, <1>5

LEMMA Popped ==
    ASSUME NEW frames \in Seq(Frames), frames # <<>>, NEW i \in DOMAIN Tail(frames)
    PROVE  i + 1 \in DOMAIN frames /\ Tail(frames)[i] = frames[i + 1] /\ i + 1 # 1
<1>1. /\ Tail(frames) \in Seq(Frames) /\ Len(Tail(frames)) = Len(frames) - 1
      /\ \A j \in 1..Len(Tail(frames)) : Tail(frames)[j] = frames[j + 1]
  BY HeadTailProperties
<1>. QED
  BY <1>1

LEMMA TopFrame ==
    ASSUME TypeOK, stack # <<>>
    PROVE  1 \in DOMAIN stack /\ Head(stack) = stack[1]
  BY HeadTailProperties DEF TypeOK

(* A driver that neither starts nor reports has no such call interrupted.  *)
LEMMA Unreported ==
    ASSUME FramesOwned,
           phase.kind = "running" => pc[phase.activity] \notin {"start"} \union Reporting
    PROVE  Silent(stack)
  BY DEF FramesOwned, FrameOwned, Silent, Reports

LEMMA SilentFrames ==
    ASSUME Silent(stack')
    PROVE  FramesOwned'
  BY DEF Silent, FramesOwned, FrameOwned, Reports

LEMMA SilentPush ==
    ASSUME TypeOK, Silent(stack), NEW f \in Frames, f.kind \notin Reports,
           stack' = <<f>> \o stack
    PROVE  Silent(stack')
<1>. SUFFICES ASSUME NEW i \in DOMAIN stack' PROVE stack'[i].kind \notin Reports
  BY DEF Silent
<1>. QED
  BY Pushed DEF Silent, TypeOK

LEMMA SilentPop ==
    ASSUME TypeOK, Silent(stack), stack # <<>>, stack' = Tail(stack)
    PROVE  Silent(stack')
<1>. SUFFICES ASSUME NEW i \in DOMAIN stack' PROVE stack'[i].kind \notin Reports
  BY DEF Silent
<1>. QED
  BY Popped DEF Silent, TypeOK

(* The innermost call was the report: what is left is silent.              *)
LEMMA ReportReturns ==
    ASSUME TypeOK, FramesOwned, stack # <<>>, Head(stack).kind \in Reports,
           stack' = Tail(stack)
    PROVE  Silent(stack')
<1>. SUFFICES ASSUME NEW i \in DOMAIN stack' PROVE stack'[i].kind \notin Reports
  BY DEF Silent
<1>1. i + 1 \in DOMAIN stack /\ stack'[i] = stack[i + 1] /\ i + 1 # 1
  BY Popped DEF TypeOK
<1>2. 1 \in DOMAIN stack /\ stack[1].kind \in Reports
  BY TopFrame
<1>. QED
  BY <1>1, <1>2 DEF FramesOwned

(* One report is interrupted above silent calls.                           *)
LEMMA ReportPush ==
    ASSUME TypeOK, Silent(stack), NEW f \in Frames, stack' = <<f>> \o stack,
           phase'.kind = "running",
           f.kind = "start" => pc'[phase'.activity] = "start",
           f.kind = "error" => pc'[phase'.activity] \in Reporting
    PROVE  FramesOwned'
<1>1. \A i \in DOMAIN stack' :
         \/ i = 1 /\ stack'[i] = f
         \/ i # 1 /\ stack'[i].kind \notin Reports
  <2>. SUFFICES ASSUME NEW i \in DOMAIN stack', i # 1
                PROVE  stack'[i].kind \notin Reports
    BY Pushed DEF TypeOK
  <2>. QED
    BY Pushed DEF Silent, TypeOK
<1>. QED
  BY <1>1 DEF FramesOwned, FrameOwned, Reports

(* The driver stays where it is: calls and messages come and go.           *)
LEMMA StaysOwned ==
    ASSUME TypeOK, Owned, pc' = pc,
           phase'.kind = phase.kind, phase'.activity = phase.activity,
           \/ stack' = stack
           \/ stack # <<>> /\ stack' = Tail(stack)
           \/ \E f \in Frames : f.kind \notin Reports /\ stack' = <<f>> \o stack
    PROVE  Owned'
<1>1. OneDriver'
  BY DEF Owned, OneDriver, Running
<1>2. ASSUME stack' = stack
      PROVE  FramesOwned'
  BY <1>2 DEF Owned, FramesOwned, FrameOwned
<1>3. ASSUME stack # <<>>, stack' = Tail(stack)
      PROVE  FramesOwned'
  <2>1. \A i \in DOMAIN stack' : i + 1 \in DOMAIN stack /\ stack'[i] = stack[i + 1] /\ i \in Nat
    BY <1>3, Popped, TailInSeq DEF TypeOK
  <2>2. \A i \in DOMAIN stack' : FrameOwned(i)'
    BY <2>1 DEF Owned, FramesOwned, FrameOwned
  <2>3. \A i, j \in DOMAIN stack' :
           stack'[i].kind \in Reports /\ stack'[j].kind \in Reports => i = j
    <3>. SUFFICES ASSUME NEW i \in DOMAIN stack', NEW j \in DOMAIN stack',
                         stack'[i].kind \in Reports, stack'[j].kind \in Reports
                  PROVE  i = j
      OBVIOUS
    <3>1. i + 1 = j + 1
      BY <2>1 DEF Owned, FramesOwned
    <3>. QED
      BY <2>1, <3>1
  <2>. QED
    BY <2>2, <2>3 DEF FramesOwned
<1>4. ASSUME NEW f \in Frames, f.kind \notin Reports, stack' = <<f>> \o stack
      PROVE  FramesOwned'
  <2>1. \A i \in DOMAIN stack' :
           \/ stack'[i] = f
           \/ i - 1 \in DOMAIN stack /\ stack'[i] = stack[i - 1]
    BY <1>4, Pushed DEF TypeOK
  <2>2. \A i \in DOMAIN stack' : FrameOwned(i)'
    BY <1>4, <2>1 DEF Owned, FramesOwned, FrameOwned, Reports
  <2>3. \A i, j \in DOMAIN stack' :
           stack'[i].kind \in Reports /\ stack'[j].kind \in Reports => i = j
    <3>. SUFFICES ASSUME NEW i \in DOMAIN stack', NEW j \in DOMAIN stack',
                         stack'[i].kind \in Reports, stack'[j].kind \in Reports
                  PROVE  i = j
      OBVIOUS
    <3>1. stack' \in Seq(Frames)
      BY <1>4, PushInSeq DEF TypeOK
    <3>2. i \in Nat /\ j \in Nat
      BY <3>1
    <3>3. i - 1 = j - 1
      BY <1>4, <2>1 DEF Owned, FramesOwned
    <3>. QED
      BY <3>2, <3>3
  <2>. QED
    BY <2>2, <2>3 DEF FramesOwned
<1>. QED
  BY <1>1, <1>2, <1>3, <1>4 DEF Owned

(* The driver moves on.                                                    *)
LEMMA MovesOneDriver ==
    ASSUME TypeOK, OneDriver, NEW d \in DOMAIN pc, Running(d),
           NEW location \in Driving \union {"leave"}, Goto(d, location),
           phase'.kind = phase.kind, phase'.activity = phase.activity
    PROVE  /\ OneDriver'
           /\ phase'.kind = "running" /\ phase'.activity = d /\ pc'[d] = location
<1>1. DOMAIN pc' = DOMAIN pc /\ \A e \in DOMAIN pc : pc'[e] = IF e = d THEN location ELSE pc[e]
  BY DEF Goto
<1>2. phase.kind = "running" /\ phase.activity = d
  BY DEF Running
<1>3. location # "maintenance"
  BY DEF Driving, Sync, Awaiting, Reporting
<1>. QED
  BY <1>1, <1>2, <1>3 DEF OneDriver, Running

LEMMA MovesOwned ==
    ASSUME TypeOK, Owned, NEW d \in DOMAIN pc,
           pc[d] \in Driving \ ({"start"} \union Reporting),
           NEW location \in Driving \union {"leave"}, Goto(d, location),
           phase'.kind = phase.kind, phase'.activity = phase.activity, stack' = stack
    PROVE  Owned'
<1>1. Running(d)
  BY DEF Owned, OneDriver
<1>2. OneDriver'
  BY <1>1, MovesOneDriver DEF Owned
<1>3. Silent(stack)
  BY <1>1, Unreported DEF Owned, Running
<1>. QED
  BY <1>2, <1>3, SilentFrames DEF Owned

(* The driver reports an error, and waits for the listeners.               *)
LEMMA ReportsOwned ==
    ASSUME TypeOK, Owned, NEW d \in DOMAIN pc,
           pc[d] \in Driving \ ({"start"} \union Reporting),
           NEW location \in Reporting, Goto(d, location), phase' = phase,
           stack' = <<FrameOf("error", FALSE, FALSE, "user")>> \o stack
    PROVE  Owned'
<1>1. Running(d)
  BY DEF Owned, OneDriver
<1>2. OneDriver' /\ phase'.kind = "running" /\ pc'[phase'.activity] = location
  BY <1>1, MovesOneDriver DEF Owned, Driving
<1>3. Silent(stack)
  BY <1>1, Unreported DEF Owned, Running
<1>4. FrameOf("error", FALSE, FALSE, "user") \in Frames
  BY DEF FrameOf, Frames, Causes
<1>5. FrameOf("error", FALSE, FALSE, "user").kind = "error"
  BY DEF FrameOf
<1>6. FramesOwned'
  BY <1>2, <1>3, <1>4, <1>5, ReportPush
<1>. QED
  BY <1>2, <1>6 DEF Owned

(* The listeners return to the driver.                                     *)
LEMMA ResumesOwned ==
    ASSUME TypeOK, Owned, stack # <<>>, Head(stack).kind \in Reports, stack' = Tail(stack),
           NEW location \in Driving \union {"leave"}, Goto(phase.activity, location),
           phase' = phase
    PROVE  Owned'
<1>1. phase.kind = "running" /\ pc[phase.activity] \in {"start"} \union Reporting
  BY TopFrame DEF Owned, FramesOwned, FrameOwned, Reports
<1>2. phase.activity \in DOMAIN pc
  BY <1>1 DEF Owned, OneDriver
<1>3. OneDriver'
  BY <1>1, <1>2, MovesOneDriver DEF Owned, Running
<1>4. FramesOwned'
  BY ReportReturns, SilentFrames DEF Owned
<1>. QED
  BY <1>3, <1>4 DEF Owned

(* A driver is started where there is none; its start is interrupted above *)
(* calls that are not reports.                                             *)
LEMMA StartsOwned ==
    ASSUME NEW ph \in Phases, NEW acts \in Seq(Locations), NEW calls \in Seq(Frames),
           StartDriver(ph, acts, calls), Silent(calls),
           \A a \in DOMAIN acts : acts[a] \notin Driving \union {"maintenance"}
    PROVE  Owned'
<1>. DEFINE new == Len(acts) + 1
<1>1. /\ DOMAIN pc' = DOMAIN acts \union {new}
      /\ pc'[new] = "start"
      /\ \A a \in DOMAIN acts : pc'[a] = acts[a]
  BY DEF StartDriver
<1>2. phase'.kind = "running" /\ phase'.activity = new
  BY DEF StartDriver
<1>3. OneDriver'
  BY <1>1, <1>2 DEF OneDriver, Running, Driving, Sync, Awaiting, Reporting
<1>4. FrameOf("start", FALSE, FALSE, "user") \in Frames
      /\ FrameOf("start", FALSE, FALSE, "user").kind = "start"
  BY DEF FrameOf, Frames, Causes
<1>5. \A i \in DOMAIN stack' :
         \/ i = 1 /\ stack'[i].kind = "start"
         \/ i # 1 /\ stack'[i].kind \notin Reports
  <2>1. stack' = <<FrameOf("start", FALSE, FALSE, "user")>> \o calls
    BY DEF StartDriver
  <2>. SUFFICES ASSUME NEW i \in DOMAIN stack'
                PROVE  \/ i = 1 /\ stack'[i].kind = "start"
                       \/ i # 1 /\ stack'[i].kind \notin Reports
    OBVIOUS
  <2>2. \/ i = 1 /\ stack'[i] = FrameOf("start", FALSE, FALSE, "user")
        \/ i - 1 \in DOMAIN calls /\ stack'[i] = calls[i - 1]
    BY <1>4, <2>1, Pushed
  <2>3. i - 1 \in DOMAIN calls => i # 1
    OBVIOUS
  <2>. QED
    BY <1>4, <2>2, <2>3 DEF Silent
<1>6. FramesOwned'
  BY <1>1, <1>2, <1>5 DEF FramesOwned, FrameOwned, Reports
<1>. QED
  BY <1>3, <1>6 DEF Owned

LEMMA IdleIsFree ==
    ASSUME OneDriver, phase.kind = "idle"
    PROVE  \A a \in DOMAIN pc : pc[a] \notin Driving \union {"maintenance"}
  BY DEF OneDriver, Running

LEMMA WakesOwned ==
    ASSUME TypeOK, Owned, NEW late \in BOOLEAN, stack # <<>>,
           WakeDriver(late, Tail(stack))
    PROVE  Owned'
<1>1. CASE phase.kind = "idle"
  <2>1. Silent(Tail(stack))
    <3>. SUFFICES ASSUME NEW i \in DOMAIN Tail(stack)
                  PROVE  Tail(stack)[i].kind \notin Reports
      BY DEF Silent
    <3>. QED
      BY <1>1, Popped DEF TypeOK, Owned, FramesOwned, FrameOwned, Reports
  <2>2. StartDriver(phase, pc, Tail(stack))
    BY <1>1 DEF WakeDriver
  <2>. QED
    BY <1>1, <2>1, <2>2, IdleIsFree, StartsOwned, TailInSeq DEF TypeOK, Owned
<1>2. CASE phase.kind # "idle"
  <2>1. pc' = pc /\ stack' = Tail(stack)
    BY <1>2 DEF WakeDriver
  <2>2. phase'.kind = phase.kind /\ phase'.activity = phase.activity
    BY <1>2 DEF WakeDriver, TypeOK, Phases
  <2>. QED
    BY <2>1, <2>2, StaysOwned
<1>. QED
  BY <1>1, <1>2

(* A driver gives up the phase, or finds that it lost it.                  *)
LEMMA RetiresOwned ==
    ASSUME TypeOK, Owned, NEW d \in DOMAIN pc, pc[d] \in {"ended", "leave"},
           NEW location \in {"leave", "done"}, pc[d] = "ended" => location = "leave",
           pc[d] = "leave" => location = "done", RetireRunning(d, location)
    PROVE  Owned'
<1>1. DOMAIN pc' = DOMAIN pc /\ \A e \in DOMAIN pc : pc'[e] = IF e = d THEN location ELSE pc[e]
  BY DEF RetireRunning
<1>2. {"ended", "leave"} \intersect ({"start", "maintenance"} \union Reporting) = {}
  BY DEF Reporting
<1>3. location \notin Driving \union {"maintenance"}
  BY DEF Driving, Sync, Awaiting, Reporting
<1>4. CASE Running(d)
  <2>1. phase'.kind = "idle"
    BY <1>4 DEF RetireRunning
  <2>2. \A e \in DOMAIN pc : pc'[e] \notin Driving \union {"maintenance"}
    BY <1>1, <1>3, <1>4 DEF Owned, OneDriver, Running
  <2>3. OneDriver'
    BY <1>1, <2>1, <2>2 DEF OneDriver
  <2>4. Silent(stack)
    BY <1>2, <1>4, Unreported DEF Owned, Running
  <2>5. FrameOf("status", phase.wakeRequested, FALSE, "user") \in Frames
        /\ FrameOf("status", phase.wakeRequested, FALSE, "user").kind \notin Reports
    BY DEF FrameOf, Frames, Causes, Reports, TypeOK, Phases
  <2>6. stack' = <<FrameOf("status", phase.wakeRequested, FALSE, "user")>> \o stack
    BY <1>4 DEF RetireRunning
  <2>. QED
    BY <2>3, <2>4, <2>5, <2>6, SilentPush, SilentFrames DEF Owned
<1>5. CASE ~Running(d)
  <2>1. phase' = phase /\ stack' = stack
    BY <1>5 DEF RetireRunning
  <2>2. pc[d] = "leave" /\ location = "done"
    BY <1>5 DEF Owned, OneDriver, Driving, Sync
  <2>3. phase.kind = "running" => phase.activity # d
    BY <1>5 DEF Running
  <2>4. OneDriver'
    BY <1>1, <1>2, <1>3, <2>1, <2>2, <2>3 DEF Owned, OneDriver, Running
  <2>5. FramesOwned'
    BY <1>1, <2>1, <2>3 DEF Owned, FramesOwned, FrameOwned, OneDriver
  <2>. QED
    BY <2>4, <2>5 DEF Owned
<1>. QED
  BY <1>4, <1>5

LEMMA AbortStays ==
    ASSUME NEW cause, NEW keepInbox, NEW letters, phase \in Phases,
           Abort(cause, keepInbox, letters)
    PROVE  phase'.kind = phase.kind /\ phase'.activity = phase.activity
  BY DEF Abort, Phases

LEMMA ClientOwned ==
    ASSUME TypeOK, Owned, Client
    PROVE  Owned'
<1>0. phase \in Phases
  BY DEF TypeOK
<1>1. ASSUME NEW target \in Targets, NEW wake \in BOOLEAN, Send(target, wake)
      PROVE  Owned'
  <2>. DEFINE frame == FrameOf("send", wake, WakingAfterAbort(wake), "user")
  <2>1. frame \in Frames /\ frame.kind \notin Reports
    BY DEF FrameOf, Frames, WakingAfterAbort, Causes, Reports
  <2>2. stack' = <<frame>> \o stack /\ pc' = pc /\ phase' = phase
    BY <1>1 DEF Send
  <2>. HIDE DEF frame
  <2>. QED
    BY <2>1, <2>2, StaysOwned
<1>2. ASSUME NEW cause \in Causes, NEW keepInbox \in BOOLEAN, Cancel(cause, keepInbox)
      PROVE  Owned'
  BY <1>0, <1>2, AbortStays, StaysOwned DEF Cancel
<1>3. ASSUME NEW cause \in Causes, CancelClear(cause)
      PROVE  Owned'
  <2>. DEFINE frame == FrameOf("cancel", FALSE, FALSE, cause)
  <2>1. frame \in Frames /\ frame.kind \notin Reports
    BY DEF FrameOf, Frames, Reports
  <2>2. stack' = <<frame>> \o stack /\ pc' = pc /\ phase' = phase
    BY <1>3 DEF CancelClear
  <2>. HIDE DEF frame
  <2>. QED
    BY <2>1, <2>2, StaysOwned
<1>4. ASSUME NEW keepInbox \in BOOLEAN, CancelInAppend(keepInbox)
      PROVE  Owned'
  BY <1>0, <1>4, AbortStays, StaysOwned DEF CancelInAppend
<1>5. CASE DisposeFromAppend
  <2>1. phase'.kind = phase.kind /\ phase'.activity = phase.activity
    BY <1>0, <1>5, AbortStays DEF DisposeFromAppend
  <2>. QED
    BY <1>5, <2>1, StaysOwned DEF DisposeFromAppend
<1>6. ASSUME NEW m \in DOMAIN mail, Remove_(m)
      PROVE  Owned'
  BY <1>6, StaysOwned DEF Remove_
<1>7. CASE RunMaintenance
  <2>. DEFINE new == Len(pc) + 1
  <2>1. phase'.kind = "maintenance" /\ phase'.activity = new
    BY <1>0, <1>7 DEF RunMaintenance, Phases
  <2>2. /\ DOMAIN pc' = DOMAIN pc \union {new} /\ new \notin DOMAIN pc
        /\ pc'[new] = "maintenance"
        /\ \A a \in DOMAIN pc : pc'[a] = pc[a]
    BY <1>7 DEF RunMaintenance, TypeOK
  <2>3. phase.kind = "idle"
    BY <1>7 DEF RunMaintenance
  <2>4. OneDriver'
    BY <2>1, <2>2, <2>3, IdleIsFree DEF Owned, OneDriver, Running, Driving, Sync, Awaiting,
       Reporting
  <2>5. Silent(stack')
    BY <1>7, <2>3, Unreported DEF Owned, RunMaintenance
  <2>. QED
    BY <2>4, <2>5, SilentFrames DEF Owned
<1>. QED
  BY <1>1, <1>2, <1>3, <1>4, <1>5, <1>6, <1>7 DEF Client

LEMMA ReturnOwned ==
    ASSUME TypeOK, Owned, Return
    PROVE  Owned'
<1>0. phase \in Phases
  BY DEF TypeOK
<1>1. CASE FinishStart
  BY <1>1, ResumesOwned DEF FinishStart, Reports, Driving, Sync
<1>2. CASE FinishSend
  <2>1. Head(stack) \in Frames
    BY <1>2, TailInSeq DEF FinishSend, TypeOK
  <2>2. Classified(Head(stack)) \in BOOLEAN
    BY <2>1 DEF Classified, Frames
  <2>. QED
    BY <1>2, <2>2, WakesOwned, StaysOwned DEF FinishSend
<1>3. CASE FinishCancel
  <2>1. phase'.kind = phase.kind /\ phase'.activity = phase.activity
    BY <1>0, <1>3, AbortStays DEF FinishCancel
  <2>. QED
    BY <1>3, <2>1, StaysOwned DEF FinishCancel
<1>4. CASE FinishRetire
  BY <1>4, WakesOwned, StaysOwned DEF FinishRetire
<1>5. CASE FinishError
  BY <1>5, ResumesOwned DEF FinishError, Reports, Driving, Sync
<1>. QED
  BY <1>1, <1>2, <1>3, <1>4, <1>5 DEF Return

LEMMA ThrowOwned ==
    ASSUME TypeOK, Owned, NEW d \in DOMAIN pc, Throw(d),
           pc[d] \in {"preStep", "request", "tools", "stopping", "claim", "boundary"}
    PROVE  Owned'
<1>1. FailsTo(pc[d]) \in Driving
  BY DEF FailsTo, Driving, Sync
<1>2. pc[d] \in Driving \ ({"start"} \union Reporting)
  BY DEF Driving, Sync, Awaiting, Reporting
<1>. QED
  BY <1>1, <1>2, MovesOwned DEF Throw

LEMMA SynchronousOwned ==
    ASSUME TypeOK, Owned, NEW d \in DOMAIN pc, Synchronous(d)
    PROVE  Owned'
<1>0. phase \in Phases /\ Sync \subseteq Driving \ ({"start"} \union Reporting)
      /\ "gap" \in Driving \ ({"start"} \union Reporting)
  BY DEF TypeOK, Driving, Sync, Awaiting, Reporting
<1>1. CASE Open(d)
  <2>1. pc[d] \in Driving \ ({"start"} \union Reporting)
    BY <1>0, <1>1 DEF Open, Opening, At, Sync
  <2>2. phase'.kind = phase.kind /\ phase'.activity = phase.activity /\ stack' = stack
    BY <1>0, <1>1 DEF Open, Phases
  <2>3. PICK location \in Driving \union {"leave"} : Goto(d, location)
    BY <1>1 DEF Open, Driving, Sync
  <2>. QED
    BY <2>1, <2>2, <2>3, MovesOwned
<1>2. CASE Veto(d)
  <2>1. pc[d] \in Driving \ ({"start"} \union Reporting)
    BY <1>0, <1>2 DEF Veto, Opening, At, Sync
  <2>. QED
    BY <1>2, <2>1, ReportsOwned DEF Veto, Reporting
<1>3. CASE Claim(d)
  BY <1>0, <1>3, MovesOwned DEF Claim, At, Driving, Sync, Awaiting
<1>4. CASE EndStep(d)
  BY <1>0, <1>4, MovesOwned DEF EndStep, At, Driving, Sync, Awaiting
<1>5. CASE StepBoundary(d)
  BY <1>0, <1>5, MovesOwned DEF StepBoundary, At, Driving, Sync, Awaiting
<1>6. CASE SyncThrows(d)
  BY <1>6, ThrowOwned DEF SyncThrows
<1>7. CASE Catch(d)
  BY <1>0, <1>7, MovesOwned, ReportsOwned DEF Catch, At, Reporting, Driving, Sync
<1>8. CASE EndTurn(d)
  BY <1>0, <1>8, MovesOwned DEF EndTurn, At, Driving, Sync, Awaiting
<1>9. CASE Continue(d)
  BY <1>0, <1>9, MovesOwned DEF Continue, At, Phases, Driving, Sync, Awaiting
<1>10. CASE Retire(d)
  BY <1>10, RetiresOwned DEF Retire, At
<1>. QED
  BY <1>1, <1>2, <1>3, <1>4, <1>5, <1>6, <1>7, <1>8, <1>9, <1>10 DEF Synchronous

LEMMA ResumeOwned ==
    ASSUME TypeOK, Owned, NEW d \in DOMAIN pc, Resume(d)
    PROVE  Owned'
<1>0. /\ phase \in Phases
      /\ {"preStep", "request", "tools", "stopping"}
            \subseteq Driving \ ({"start"} \union Reporting)
      /\ {"endTurn", "request", "endStep", "tools", "claim"} \subseteq Driving
  BY DEF TypeOK, Driving, Sync, Awaiting, Reporting
<1>1. CASE Reject(d)
  BY <1>0, <1>1, MovesOwned DEF Reject, Decided, At
<1>2. CASE EnterEmpty(d)
  BY <1>0, <1>2, MovesOwned DEF EnterEmpty, Decided, At
<1>3. ASSUME NEW messages \in BOOLEAN, StartStep(d, messages) PROVE Owned'
  BY <1>0, <1>3, MovesOwned DEF StartStep, Decided, At, Phases
<1>4. ASSUME NEW end \in {"completed", "max-tokens"}, Respond(d, end) PROVE Owned'
  BY <1>0, <1>4, MovesOwned DEF Respond, At
<1>5. CASE CallTools(d)
  BY <1>0, <1>5, MovesOwned DEF CallTools, At
<1>6. CASE AcceptContext(d)
  BY <1>6, StaysOwned DEF AcceptContext
<1>7. ASSUME NEW concluded \in BOOLEAN, FinishTools(d, concluded) PROVE Owned'
  BY <1>0, <1>7, MovesOwned DEF FinishTools, At
<1>8. CASE AwaitThrows(d)
  BY <1>8, ThrowOwned DEF AwaitThrows
<1>9. CASE Stopped(d)
  BY <1>0, <1>9, MovesOwned DEF Stopped, At
<1>10. CASE Leave(d)
  BY <1>10, RetiresOwned DEF Leave, At
<1>. QED
  BY <1>1, <1>2, <1>3, <1>4, <1>5, <1>6, <1>7, <1>8, <1>9, <1>10 DEF Resume

LEMMA MaintenanceOwned ==
    ASSUME TypeOK, Owned, NEW a \in DOMAIN pc, FinishMaintenance(a)
    PROVE  Owned'
<1>. DEFINE idle == [phase EXCEPT !.kind = "idle", !.activity = 0, !.abort = NoAbort,
                                  !.wakeRequested = FALSE]
<1>1. phase.kind = "maintenance" /\ phase.activity = a
  BY DEF FinishMaintenance, Owned, OneDriver
<1>2. idle \in Phases /\ idle.kind = "idle"
  BY DEF TypeOK, Phases
<1>3. Resolved(a) \in Seq(Locations)
  BY ExceptInSeq DEF Resolved, TypeOK, Locations
<1>4. DOMAIN Resolved(a) = DOMAIN pc
      /\ \A e \in DOMAIN pc : Resolved(a)[e] = IF e = a THEN "done" ELSE pc[e]
  BY DEF Resolved
<1>5. \A e \in DOMAIN Resolved(a) : Resolved(a)[e] \notin Driving \union {"maintenance"}
  BY <1>1, <1>4 DEF Owned, OneDriver, Running, Driving, Sync, Awaiting, Reporting
<1>6. Silent(stack)
  BY <1>1, Unreported DEF Owned
<1>7. CASE Replays(phase.wakeRequested)
  BY <1>2, <1>3, <1>5, <1>6, <1>7, StartsOwned DEF FinishMaintenance, TypeOK
<1>8. CASE ~Replays(phase.wakeRequested)
  <2>1. phase' = idle /\ pc' = Resolved(a) /\ stack' = stack
    BY <1>8 DEF FinishMaintenance
  <2>2. OneDriver'
    BY <1>2, <1>5, <2>1 DEF OneDriver
  <2>. QED
    BY <1>6, <2>1, <2>2, SilentFrames DEF Owned
<1>. QED
  BY <1>7, <1>8

LEMMA OwnedStep == TypeOK /\ Owned /\ [Next]_vars => Owned'
<1>. SUFFICES ASSUME TypeOK, Owned, [Next]_vars PROVE Owned'
  OBVIOUS
<1>1. CASE WhenIdle \/ Detach
  BY <1>1, StaysOwned DEF WhenIdle, Detach
<1>2. CASE UNCHANGED vars
  BY <1>2, StaysOwned DEF vars
<1>. QED
  BY <1>1, <1>2, ClientOwned, ReturnOwned, SynchronousOwned, ResumeOwned, MaintenanceOwned
     DEF Next

LEMMA OwnedInit == Init => Owned
  BY DEF Init, Owned, OneDriver, FramesOwned

(* However listeners reenter the API while a driver is retired, replayed   *)
(* or replaced, the phase has exactly the driver it names, so no second    *)
(* driver ever writes the log or claims from the inbox.                    *)
THEOREM DriverOwnership == Spec => []OneDriver
<1>1. Owned => OneDriver
  BY DEF Owned
<1>. QED
  BY <1>1, TypeInit, TypeStep, OwnedInit, OwnedStep, PTL DEF Spec

------------------------------------------------------------------------------
(* The log.  Where the driver is determines what the log leaves open, so   *)
(* the companion accepts every boundary event a driver appends.            *)

Logged == LogFollows /\ FreshSteps

Fresh == {"start", "open", "gap"}

LEMMA LogKept ==
    ASSUME LogFollows, trace' = trace, phase'.turn = phase.turn, phase'.step = phase.step,
           TurnOpen' <=> TurnOpen, StepOpen' <=> StepOpen
    PROVE  LogFollows'
  BY DEF LogFollows

LEMMA StepInTurn == StepOpen => TurnOpen
  BY DEF StepOpen, TurnOpen, InTurn

LEMMA LogClosed ==
    ASSUME LogFollows, ~TurnOpen, ~TurnOpen', trace' = trace, phase'.turn = phase.turn
    PROVE  LogFollows'
<1>1. ~StepOpen /\ ~StepOpen'
  BY DEF StepOpen, TurnOpen, InTurn
<1>. QED
  BY <1>1 DEF LogFollows

(* Nothing the log depends on changes.                                     *)
LEMMA LoggedStays ==
    ASSUME Logged, trace' = trace, pc' = pc, phase'.kind = phase.kind,
           phase'.activity = phase.activity, phase'.turn = phase.turn,
           phase'.step = phase.step
    PROVE  Logged'
<1>1. (TurnOpen' <=> TurnOpen) /\ (StepOpen' <=> StepOpen)
  BY DEF TurnOpen, StepOpen
<1>2. LogFollows'
  BY <1>1, LogKept DEF Logged
<1>3. FreshSteps'
  BY DEF Logged, FreshSteps
<1>. QED
  BY <1>2, <1>3 DEF Logged

(* What a driver's location says, before and after it moves.               *)
LEMMA Located ==
    ASSUME OneDriver, NEW d \in DOMAIN pc, pc[d] \in Driving, NEW location,
           Goto(d, location), phase'.kind = phase.kind, phase'.activity = phase.activity
    PROVE  /\ TurnOpen <=> pc[d] \in InTurn
           /\ StepOpen <=> pc[d] \in InStep
           /\ TurnOpen' <=> location \in InTurn
           /\ StepOpen' <=> location \in InStep
           /\ phase.kind = "running" /\ phase.activity = d
           /\ FreshSteps <=> (pc[d] \in Fresh => phase.step = 0)
           /\ FreshSteps' <=> (location \in Fresh => phase'.step = 0)
<1>1. phase.kind = "running" /\ phase.activity = d
  BY DEF OneDriver, Running
<1>2. pc'[d] = location
  BY DEF Goto
<1>3. phase'.kind = "running" /\ phase'.activity = d
  BY <1>1
<1>. QED
  BY <1>1, <1>2, <1>3 DEF TurnOpen, StepOpen, FreshSteps, Fresh

LEMMA LoggedMoves ==
    ASSUME OneDriver, Logged, trace' = trace, NEW d \in DOMAIN pc, pc[d] \in Driving,
           NEW location, Goto(d, location),
           pc[d] \in InTurn <=> location \in InTurn,
           pc[d] \in InStep <=> location \in InStep,
           location \in Fresh => phase'.step = 0,
           phase'.kind = phase.kind, phase'.activity = phase.activity,
           phase'.turn = phase.turn, location \in InTurn => phase'.step = phase.step
    PROVE  Logged'
<1>1. /\ TurnOpen' <=> TurnOpen
      /\ StepOpen' <=> StepOpen
      /\ TurnOpen' => phase'.step = phase.step
      /\ FreshSteps'
  BY Located
<1>2. CASE TurnOpen
  BY <1>1, <1>2, LogKept DEF Logged
<1>3. CASE ~TurnOpen
  BY <1>1, <1>3, LogClosed DEF Logged
<1>. QED
  BY <1>2, <1>3

LEMMA LoggedStarts ==
    ASSUME Logged, trace' = trace, ~TurnOpen, NEW ph, NEW acts \in Seq(Locations), NEW calls,
           ph.turn = phase.turn, StartDriver(ph, acts, calls)
    PROVE  Logged'
<1>1. pc'[Len(acts) + 1] = "start"
  BY DEF StartDriver
<1>2. phase'.activity = Len(acts) + 1 /\ phase'.turn = phase.turn /\ phase'.step = 0
  BY DEF StartDriver
<1>3. ~TurnOpen'
  BY <1>1, <1>2 DEF TurnOpen, InTurn, InStep
<1>4. FreshSteps'
  BY <1>2 DEF FreshSteps
<1>. QED
  BY <1>2, <1>3, <1>4, LogClosed DEF Logged

LEMMA LoggedWakes ==
    ASSUME TypeOK, Logged, trace' = trace, NEW late, NEW calls, WakeDriver(late, calls)
    PROVE  Logged'
<1>1. CASE phase.kind = "idle"
  <2>1. ~TurnOpen
    BY <1>1 DEF TurnOpen
  <2>. QED
    BY <1>1, <2>1, LoggedStarts DEF WakeDriver, TypeOK
<1>2. CASE phase.kind # "idle"
  <2>1. /\ pc' = pc
        /\ phase' = [phase EXCEPT !.wakeRequested = @ \/ Latches(phase, late)]
    BY <1>2 DEF WakeDriver
  <2>2. phase \in Phases
    BY DEF TypeOK
  <2>. QED
    BY <2>1, <2>2, LoggedStays DEF Phases
<1>. QED
  BY <1>1, <1>2

LEMMA LoggedRetires ==
    ASSUME TypeOK, OneDriver, Logged, trace' = trace, NEW d \in DOMAIN pc,
           pc[d] \in {"ended", "leave"}, NEW location, RetireRunning(d, location)
    PROVE  Logged'
<1>1. CASE Running(d)
  <2>1. ~TurnOpen
    BY <1>1 DEF Running, TurnOpen, InTurn, InStep
  <2>2. phase'.kind = "idle" /\ phase'.turn = phase.turn
    BY <1>1 DEF RetireRunning
  <2>. QED
    BY <2>1, <2>2, LogClosed DEF Logged, TurnOpen, FreshSteps
<1>2. CASE ~Running(d)
  <2>1. phase' = phase
    BY <1>2 DEF RetireRunning
  <2>2. phase.kind = "running" => pc'[phase.activity] = pc[phase.activity]
    BY <1>2 DEF RetireRunning, Running, OneDriver
  <2>3. (TurnOpen' <=> TurnOpen) /\ (StepOpen' <=> StepOpen) /\ FreshSteps'
    BY <2>1, <2>2 DEF Logged, TurnOpen, StepOpen, FreshSteps
  <2>. QED
    BY <2>1, <2>3, LogKept DEF Logged
<1>. QED
  BY <1>1, <1>2

LEMMA AbortLogged ==
    ASSUME phase \in Phases, NEW cause, NEW keepInbox, NEW letters,
           Abort(cause, keepInbox, letters)
    PROVE  /\ phase'.kind = phase.kind /\ phase'.activity = phase.activity
           /\ phase'.turn = phase.turn /\ phase'.step = phase.step
  BY DEF Abort, Phases

(* The four appends.                                                       *)
LEMMA OpenLogged ==
    ASSUME TypeOK, OneDriver, Logged, NEW d \in DOMAIN pc, Open(d), ~Aborted
    PROVE  Logged' /\ Log!Next
<1>0. phase \in Phases /\ trace \in Log!TraceType
  BY DEF TypeOK
<1>. DEFINE e == Log!Boundary("turn/start", phase.turn + 1, 0)
<1>1. pc[d] \in Driving /\ pc[d] \in Fresh /\ pc[d] \notin InTurn
  BY DEF Open, Opening, At, Driving, Sync, Awaiting, Fresh, InTurn, InStep
<1>2. /\ Goto(d, "claim") /\ trace' = Log!Appended(trace, e)
      /\ phase' = [phase EXCEPT !.turn = phase.turn + 1]
  BY DEF Open, AppendEvent
<1>3. /\ phase'.kind = phase.kind /\ phase'.activity = phase.activity
      /\ phase'.turn = phase.turn + 1 /\ phase'.step = phase.step
      /\ phase.turn \in Nat /\ phase.step \in Nat
  BY <1>0, <1>2 DEF Phases
<1>4. ~TurnOpen /\ ~StepOpen /\ TurnOpen' /\ ~StepOpen' /\ phase.step = 0 /\ FreshSteps'
  BY <1>1, <1>2, <1>3, Located DEF Logged, InTurn, InStep, Fresh
<1>5. /\ trace.openTurn = 0 /\ trace.openStep = 0 /\ trace.nextTurn = phase.turn + 1
      /\ trace.pendingCalls = {}
  BY <1>4 DEF Logged, LogFollows, Log!None
<1>6. e.type = "turn/start" /\ e.turn = phase.turn + 1
  BY DEF Log!Boundary
<1>7. Log!Accepts(trace, e)
  BY <1>5, <1>6 DEF Log!Accepts, Log!None
<1>8. trace' = Log!After(trace, e)
  BY <1>2, <1>7 DEF Log!Appended
<1>9. Log!Next
  BY <1>5, <1>7, <1>8 DEF Log!Next, Log!TurnStart, Log!Commit, Log!None
<1>10. trace' = [trace EXCEPT !.openTurn = phase.turn + 1, !.nextStep = 1]
  BY <1>6, <1>8 DEF Log!After
<1>11. /\ trace'.openTurn = phase.turn + 1 /\ trace'.openStep = 0
       /\ trace'.nextTurn = phase.turn + 1 /\ trace'.nextStep = 1 /\ trace'.pendingCalls = {}
  BY <1>0, <1>5, <1>10 DEF Log!TraceType
<1>12. LogFollows'
  BY <1>3, <1>4, <1>11 DEF LogFollows, Log!None
<1>. QED
  BY <1>4, <1>9, <1>12 DEF Logged

LEMMA StartStepLogged ==
    ASSUME TypeOK, OneDriver, Logged, NEW d \in DOMAIN pc, NEW messages,
           StartStep(d, messages)
    PROVE  Logged' /\ Log!Next
<1>0. phase \in Phases /\ trace \in Log!TraceType
  BY DEF TypeOK
<1>. DEFINE e == Log!Boundary("step/start", phase.turn, phase.step + 1)
<1>1. pc[d] = "preStep" /\ pc[d] \in Driving
  BY DEF StartStep, Decided, At, Driving, Awaiting
<1>2. /\ Goto(d, "request") /\ trace' = Log!Appended(trace, e)
      /\ phase' = [phase EXCEPT !.step = phase.step + 1]
  BY DEF StartStep, AppendEvent
<1>3. /\ phase'.kind = phase.kind /\ phase'.activity = phase.activity
      /\ phase'.turn = phase.turn /\ phase'.step = phase.step + 1
      /\ phase.turn \in Nat /\ phase.step \in Nat
  BY <1>0, <1>2 DEF Phases
<1>4. TurnOpen /\ ~StepOpen /\ TurnOpen' /\ StepOpen' /\ FreshSteps'
  BY <1>1, <1>2, <1>3, Located DEF Logged, InTurn, InStep, Fresh
<1>5. /\ trace.openTurn = phase.turn /\ trace.openStep = 0 /\ trace.nextTurn = phase.turn
      /\ trace.pendingCalls = {} /\ trace.nextStep = phase.step + 1 /\ phase.turn > 0
  BY <1>4 DEF Logged, LogFollows, Log!None
<1>6. e.type = "step/start" /\ e.turn = phase.turn /\ e.step = phase.step + 1
  BY DEF Log!Boundary
<1>7. Log!Accepts(trace, e)
  BY <1>5, <1>6 DEF Log!Accepts, Log!None
<1>8. trace' = Log!After(trace, e)
  BY <1>2, <1>7 DEF Log!Appended
<1>9. Log!Next
  BY <1>3, <1>5, <1>7, <1>8 DEF Log!Next, Log!StepStart, Log!Commit, Log!None
<1>10. trace' = [trace EXCEPT !.openStep = phase.step + 1]
  BY <1>6, <1>8 DEF Log!After
<1>11. /\ trace'.openTurn = phase.turn /\ trace'.openStep = phase.step + 1
       /\ trace'.nextTurn = phase.turn /\ trace'.nextStep = phase.step + 1
       /\ trace'.pendingCalls = {}
  BY <1>0, <1>5, <1>10 DEF Log!TraceType
<1>12. LogFollows'
  BY <1>3, <1>4, <1>5, <1>11 DEF LogFollows, Log!None
<1>. QED
  BY <1>4, <1>9, <1>12 DEF Logged

LEMMA EndStepLogged ==
    ASSUME TypeOK, OneDriver, Logged, NEW d \in DOMAIN pc, EndStep(d)
    PROVE  Logged' /\ Log!Next
<1>0. phase \in Phases /\ trace \in Log!TraceType
  BY DEF TypeOK
<1>. DEFINE e == Log!Boundary("step/end", phase.turn, phase.step)
            next == IF run.thrown THEN "caught" ELSE "boundary"
<1>1. pc[d] = "endStep" /\ pc[d] \in Driving
  BY DEF EndStep, At, Driving, Sync
<1>2. Goto(d, next) /\ trace' = Log!Appended(trace, e) /\ phase' = phase
  BY DEF EndStep, AppendEvent
<1>3. phase.turn \in Nat /\ phase.step \in Nat
  BY <1>0 DEF Phases
<1>4. TurnOpen /\ StepOpen /\ TurnOpen' /\ ~StepOpen' /\ FreshSteps'
  BY <1>1, <1>2, Located DEF Logged, InTurn, InStep, Fresh
<1>5. /\ trace.openTurn = phase.turn /\ trace.openStep = phase.step
      /\ trace.nextTurn = phase.turn /\ trace.pendingCalls = {}
      /\ trace.nextStep = phase.step /\ phase.turn > 0 /\ phase.step > 0
  BY <1>4 DEF Logged, LogFollows, Log!None
<1>6. e.type = "step/end" /\ e.turn = phase.turn /\ e.step = phase.step
  BY DEF Log!Boundary
<1>7. Log!Accepts(trace, e)
  BY <1>5, <1>6 DEF Log!Accepts, Log!InOpenStep
<1>8. trace' = Log!After(trace, e)
  BY <1>2, <1>7 DEF Log!Appended
<1>9. Log!Next
  BY <1>3, <1>5, <1>7, <1>8 DEF Log!Next, Log!StepEnd, Log!Commit, Log!None
<1>10. trace' = [trace EXCEPT !.openStep = 0, !.nextStep = @ + 1, !.pendingCalls = {}]
  BY <1>6, <1>8 DEF Log!After, Log!None
<1>11. /\ trace'.openTurn = phase.turn /\ trace'.openStep = 0
       /\ trace'.nextTurn = phase.turn /\ trace'.nextStep = phase.step + 1
       /\ trace'.pendingCalls = {}
  BY <1>0, <1>5, <1>10 DEF Log!TraceType
<1>12. LogFollows'
  BY <1>2, <1>4, <1>5, <1>11 DEF LogFollows, Log!None
<1>. QED
  BY <1>4, <1>9, <1>12 DEF Logged

LEMMA EndTurnLogged ==
    ASSUME TypeOK, OneDriver, Logged, NEW d \in DOMAIN pc, EndTurn(d)
    PROVE  Logged' /\ Log!Next
<1>0. phase \in Phases /\ trace \in Log!TraceType
  BY DEF TypeOK
<1>. DEFINE e == Log!Boundary("turn/end", phase.turn, 0)
<1>1. pc[d] = "endTurn" /\ pc[d] \in Driving
  BY DEF EndTurn, At, Driving, Sync
<1>2. Goto(d, "ended") /\ trace' = Log!Appended(trace, e) /\ phase' = phase
  BY DEF EndTurn, AppendEvent
<1>3. phase.turn \in Nat /\ phase.step \in Nat
  BY <1>0 DEF Phases
<1>4. TurnOpen /\ ~StepOpen /\ ~TurnOpen' /\ ~StepOpen' /\ FreshSteps'
  BY <1>1, <1>2, Located DEF Logged, InTurn, InStep, Fresh
<1>5. /\ trace.openTurn = phase.turn /\ trace.openStep = 0
      /\ trace.nextTurn = phase.turn /\ trace.pendingCalls = {} /\ phase.turn > 0
  BY <1>4 DEF Logged, LogFollows, Log!None
<1>6. e.type = "turn/end" /\ e.turn = phase.turn
  BY DEF Log!Boundary
<1>7. Log!Accepts(trace, e)
  BY <1>5, <1>6 DEF Log!Accepts, Log!None
<1>8. trace' = Log!After(trace, e)
  BY <1>2, <1>7 DEF Log!Appended
<1>9. Log!Next
  BY <1>3, <1>5, <1>7, <1>8 DEF Log!Next, Log!TurnEnd, Log!Commit, Log!None
<1>10. trace' = [trace EXCEPT !.openTurn = 0, !.nextTurn = @ + 1]
  BY <1>6, <1>8 DEF Log!After, Log!None
<1>11. /\ trace'.openTurn = 0 /\ trace'.openStep = 0
       /\ trace'.nextTurn = phase.turn + 1 /\ trace'.pendingCalls = {}
  BY <1>0, <1>5, <1>10 DEF Log!TraceType
<1>12. LogFollows'
  BY <1>2, <1>4, <1>11 DEF LogFollows, Log!None
<1>. QED
  BY <1>4, <1>9, <1>12 DEF Logged

(* The rest appends nothing.                                               *)
LEMMA ClientLogged ==
    ASSUME TypeOK, OneDriver, Logged, Client
    PROVE  Logged' /\ trace' = trace
<1>0. phase \in Phases
  BY DEF TypeOK
<1>1. ASSUME NEW target \in Targets, NEW wake \in BOOLEAN, Send(target, wake)
      PROVE  Logged' /\ trace' = trace
  BY <1>1, LoggedStays DEF Send
<1>2. ASSUME NEW cause \in Causes, NEW keepInbox \in BOOLEAN, Cancel(cause, keepInbox)
      PROVE  Logged' /\ trace' = trace
  BY <1>0, <1>2, AbortLogged, LoggedStays DEF Cancel
<1>3. ASSUME NEW cause \in Causes, CancelClear(cause)
      PROVE  Logged' /\ trace' = trace
  BY <1>3, LoggedStays DEF CancelClear
<1>4. ASSUME NEW keepInbox \in BOOLEAN, CancelInAppend(keepInbox)
      PROVE  Logged' /\ trace' = trace
  BY <1>0, <1>4, AbortLogged, LoggedStays DEF CancelInAppend
<1>5. CASE DisposeFromAppend
  BY <1>0, <1>5, AbortLogged, LoggedStays DEF DisposeFromAppend
<1>6. ASSUME NEW m \in DOMAIN mail, Remove_(m)
      PROVE  Logged' /\ trace' = trace
  BY <1>6, LoggedStays DEF Remove_
<1>7. CASE RunMaintenance
  <2>1. ~TurnOpen
    BY <1>7 DEF RunMaintenance, TurnOpen
  <2>2. phase'.kind = "maintenance" /\ phase'.turn = phase.turn
    BY <1>0, <1>7 DEF RunMaintenance, Phases
  <2>3. ~TurnOpen' /\ FreshSteps'
    BY <2>2 DEF TurnOpen, FreshSteps
  <2>. QED
    BY <1>7, <2>1, <2>2, <2>3, LogClosed DEF Logged, RunMaintenance
<1>. QED
  BY <1>1, <1>2, <1>3, <1>4, <1>5, <1>6, <1>7 DEF Client

LEMMA ReturnLogged ==
    ASSUME TypeOK, Owned, Logged, Return
    PROVE  Logged' /\ trace' = trace
<1>0. phase \in Phases /\ OneDriver
  BY DEF TypeOK, Owned
<1>1. ASSUME stack # <<>>, Head(stack).kind \in Reports
      PROVE  /\ phase.activity \in DOMAIN pc
             /\ Head(stack).kind = "start" => pc[phase.activity] = "start"
             /\ Head(stack).kind = "error" => pc[phase.activity] \in Reporting
             /\ pc[phase.activity] \in Driving
  <2>1. /\ phase.kind = "running"
        /\ Head(stack).kind = "start" => pc[phase.activity] = "start"
        /\ Head(stack).kind = "error" => pc[phase.activity] \in Reporting
    BY <1>1, TopFrame DEF Owned, FramesOwned, FrameOwned, Reports
  <2>. QED
    BY <1>1, <2>1 DEF Owned, OneDriver, Driving, Reports
<1>2. CASE FinishStart
  <2>1. stack # <<>> /\ Head(stack).kind = "start" /\ Goto(phase.activity, "open")
        /\ phase' = phase /\ trace' = trace
    BY <1>2 DEF FinishStart
  <2>2. phase.activity \in DOMAIN pc /\ pc[phase.activity] = "start"
        /\ pc[phase.activity] \in Driving
    BY <1>1, <2>1 DEF Reports
  <2>3. phase.step = 0
    BY <1>0, <2>2 DEF Logged, FreshSteps, OneDriver, Running
  <2>. QED
    BY <1>0, <2>1, <2>2, <2>3, LoggedMoves DEF InTurn, InStep
<1>3. CASE FinishSend
  <2>1. trace' = trace
    BY <1>3 DEF FinishSend
  <2>2. CASE Head(stack).wake
    BY <1>3, <2>1, <2>2, LoggedWakes DEF FinishSend
  <2>3. CASE ~Head(stack).wake
    BY <1>3, <2>1, <2>3, LoggedStays DEF FinishSend
  <2>. QED
    BY <2>1, <2>2, <2>3
<1>4. CASE FinishCancel
  BY <1>0, <1>4, AbortLogged, LoggedStays DEF FinishCancel
<1>5. CASE FinishRetire
  <2>1. trace' = trace
    BY <1>5 DEF FinishRetire
  <2>2. CASE Replays(Head(stack).wake)
    BY <1>5, <2>1, <2>2, LoggedWakes DEF FinishRetire
  <2>3. CASE ~Replays(Head(stack).wake)
    BY <1>5, <2>1, <2>3, LoggedStays DEF FinishRetire
  <2>. QED
    BY <2>1, <2>2, <2>3
<1>6. CASE FinishError
  <2>1. stack # <<>> /\ Head(stack).kind = "error" /\ phase' = phase /\ trace' = trace
        /\ Goto(phase.activity, IF pc[phase.activity] = "vetoed" THEN "leave" ELSE "endTurn")
    BY <1>6 DEF FinishError
  <2>2. phase.activity \in DOMAIN pc /\ pc[phase.activity] \in Reporting
        /\ pc[phase.activity] \in Driving
    BY <1>1, <2>1 DEF Reports
  <2>3. CASE pc[phase.activity] = "vetoed"
    BY <1>0, <2>1, <2>2, <2>3, LoggedMoves DEF InTurn, InStep, Fresh
  <2>4. CASE pc[phase.activity] = "failing"
    BY <1>0, <2>1, <2>2, <2>4, LoggedMoves DEF InTurn, InStep, Fresh
  <2>. QED
    BY <2>2, <2>3, <2>4 DEF Reporting
<1>. QED
  BY <1>2, <1>3, <1>4, <1>5, <1>6 DEF Return

LEMMA ThrowLogged ==
    ASSUME TypeOK, OneDriver, Logged, NEW d \in DOMAIN pc, Throw(d),
           pc[d] \in {"preStep", "request", "tools", "stopping", "claim", "boundary"}
    PROVE  Logged' /\ trace' = trace
<1>1. pc[d] \in Driving /\ trace' = trace /\ phase' = phase /\ Goto(d, FailsTo(pc[d]))
  BY DEF Throw, Driving, Sync, Awaiting
<1>2. CASE pc[d] \in {"request", "tools"}
  <2>1. Goto(d, "endStep")
    BY <1>1, <1>2 DEF FailsTo
  <2>. QED
    BY <1>1, <1>2, <2>1, LoggedMoves DEF InTurn, InStep, Fresh
<1>3. CASE pc[d] \notin {"request", "tools"}
  <2>1. Goto(d, "caught")
    BY <1>1, <1>3 DEF FailsTo
  <2>. QED
    BY <1>1, <1>3, <2>1, LoggedMoves DEF InTurn, InStep, Fresh
<1>. QED
  BY <1>2, <1>3

LEMMA SynchronousLogged ==
    ASSUME TypeOK, OneDriver, Logged, NEW d \in DOMAIN pc, Synchronous(d)
    PROVE  Logged' /\ (trace' = trace \/ Log!Next)
<1>0. phase \in Phases /\ Sync \subseteq Driving /\ "gap" \in Driving
  BY DEF TypeOK, Driving, Awaiting
<1>1. CASE Open(d)
  <2>1. CASE Aborted
    <3>1. Goto(d, "leave") /\ phase' = phase /\ trace' = trace
      BY <1>1, <2>1 DEF Open, Aborted
    <3>2. pc[d] \in Driving /\ pc[d] \in {"open", "gap"}
      BY <1>0, <1>1 DEF Open, Opening, At, Sync
    <3>. QED
      BY <3>1, <3>2, LoggedMoves DEF InTurn, InStep, Fresh
  <2>. QED
    BY <1>1, <2>1, OpenLogged
<1>2. CASE Veto(d)
  <2>1. pc[d] \in Driving /\ pc[d] \in {"open", "gap"}
    BY <1>0, <1>2 DEF Veto, Opening, At, Sync
  <2>. QED
    BY <1>2, <2>1, LoggedMoves DEF Veto, InTurn, InStep, Fresh
<1>3. CASE Claim(d)
  BY <1>0, <1>3, LoggedMoves DEF Claim, At, Sync, InTurn, InStep, Fresh
<1>4. CASE StepBoundary(d)
  BY <1>0, <1>4, LoggedMoves DEF StepBoundary, At, Sync, InTurn, InStep, Fresh
<1>5. CASE SyncThrows(d)
  BY <1>5, ThrowLogged DEF SyncThrows
<1>6. CASE Catch(d)
  BY <1>0, <1>6, LoggedMoves DEF Catch, At, Sync, InTurn, InStep, Fresh
<1>7. CASE Continue(d)
  <2>1. pc[d] = "ended" /\ pc[d] \in Driving /\ Goto(d, "gap") /\ trace' = trace
    BY <1>0, <1>7 DEF Continue, At, Sync
  <2>2. phase'.kind = phase.kind /\ phase'.activity = phase.activity
        /\ phase'.turn = phase.turn /\ phase'.step = 0
    BY <1>0, <1>7 DEF Continue, Phases
  <2>. QED
    BY <2>1, <2>2, LoggedMoves DEF InTurn, InStep
<1>8. CASE Retire(d)
  BY <1>8, LoggedRetires DEF Retire, At
<1>. QED
  BY <1>1, <1>2, <1>3, <1>4, <1>5, <1>6, <1>7, <1>8, EndStepLogged, EndTurnLogged
     DEF Synchronous

LEMMA ResumeLogged ==
    ASSUME TypeOK, OneDriver, Logged, NEW d \in DOMAIN pc, Resume(d)
    PROVE  Logged' /\ (trace' = trace \/ Log!Next)
<1>0. Awaiting \subseteq Driving
  BY DEF Driving
<1>1. CASE Reject(d)
  BY <1>0, <1>1, LoggedMoves DEF Reject, Decided, At, Awaiting, InTurn, InStep, Fresh
<1>2. CASE EnterEmpty(d)
  BY <1>0, <1>2, LoggedMoves DEF EnterEmpty, Decided, At, Awaiting, InTurn, InStep, Fresh
<1>3. ASSUME NEW end \in {"completed", "max-tokens"}, Respond(d, end)
      PROVE  Logged' /\ trace' = trace
  BY <1>0, <1>3, LoggedMoves DEF Respond, At, Awaiting, InTurn, InStep, Fresh
<1>4. CASE CallTools(d)
  BY <1>0, <1>4, LoggedMoves DEF CallTools, At, Awaiting, InTurn, InStep, Fresh
<1>5. CASE AcceptContext(d)
  BY <1>5, LoggedStays DEF AcceptContext
<1>6. ASSUME NEW concluded \in BOOLEAN, FinishTools(d, concluded)
      PROVE  Logged' /\ trace' = trace
  BY <1>0, <1>6, LoggedMoves DEF FinishTools, At, Awaiting, InTurn, InStep, Fresh
<1>7. CASE AwaitThrows(d)
  BY <1>7, ThrowLogged DEF AwaitThrows
<1>8. CASE Stopped(d)
  BY <1>0, <1>8, LoggedMoves DEF Stopped, At, Awaiting, InTurn, InStep, Fresh
<1>9. CASE Leave(d)
  BY <1>9, LoggedRetires DEF Leave, At
<1>. QED
  BY <1>1, <1>2, <1>3, <1>4, <1>5, <1>6, <1>7, <1>8, <1>9, StartStepLogged DEF Resume

LEMMA MaintenanceLogged ==
    ASSUME TypeOK, OneDriver, Logged, NEW a \in DOMAIN pc, FinishMaintenance(a)
    PROVE  Logged' /\ trace' = trace
<1>. DEFINE idle == [phase EXCEPT !.kind = "idle", !.activity = 0, !.abort = NoAbort,
                                  !.wakeRequested = FALSE]
<1>1. phase.kind = "maintenance" /\ trace' = trace
  BY DEF FinishMaintenance, OneDriver
<1>2. ~TurnOpen
  BY <1>1 DEF TurnOpen
<1>3. idle.kind = "idle" /\ idle.turn = phase.turn
  BY DEF TypeOK, Phases
<1>4. Resolved(a) \in Seq(Locations)
  BY ExceptInSeq DEF Resolved, TypeOK, Locations
<1>5. CASE Replays(phase.wakeRequested)
  BY <1>1, <1>2, <1>3, <1>4, <1>5, LoggedStarts DEF FinishMaintenance
<1>6. CASE ~Replays(phase.wakeRequested)
  <2>1. phase' = idle
    BY <1>6 DEF FinishMaintenance
  <2>2. ~TurnOpen' /\ FreshSteps' /\ phase'.turn = phase.turn
    BY <1>3, <2>1 DEF TurnOpen, FreshSteps
  <2>. QED
    BY <1>1, <1>2, <2>2, LogClosed DEF Logged
<1>. QED
  BY <1>1, <1>5, <1>6

LEMMA LoggedStep ==
    TypeOK /\ Owned /\ Logged /\ [Next]_vars => Logged' /\ [Log!Next]_trace
<1>. SUFFICES ASSUME TypeOK, Owned, Logged, [Next]_vars
              PROVE  Logged' /\ (trace' = trace \/ Log!Next)
  OBVIOUS
<1>1. OneDriver
  BY DEF Owned
<1>2. CASE WhenIdle \/ Detach
  BY <1>2, LoggedStays DEF WhenIdle, Detach
<1>3. CASE UNCHANGED vars
  BY <1>3, LoggedStays DEF vars
<1>. QED
  BY <1>1, <1>2, <1>3, ClientLogged, ReturnLogged, SynchronousLogged, ResumeLogged,
     MaintenanceLogged DEF Next

LEMMA LoggedInit == Init => Logged
  BY DEF Init, Logged, LogFollows, FreshSteps, TurnOpen, StepOpen, Log!FreshTrace, Log!None

LEMMA Invariance == Spec => []IInv
<1>1. TypeOK /\ Owned /\ Logged <=> IInv
  BY DEF Owned, Logged, IInv
<1>. QED
  BY <1>1, TypeInit, TypeStep, OwnedInit, OwnedStep, LoggedInit, LoggedStep, PTL DEF Spec

(* Whenever no driver runs, whatever was cancelled, thrown, vetoed or      *)
(* replayed before, the log has no open turn and no open step.             *)
THEOREM RestBalanced == Spec => []RestIsBalanced
<1>1. IInv => RestIsBalanced
  BY DEF IInv, LogFollows, RestIsBalanced, TurnOpen, StepOpen
<1>. QED
  BY <1>1, Invariance, PTL

(* The driver implements SessionTrace: every boundary event it appends is  *)
(* one the session's invariant companion accepts.                          *)
THEOREM LogImplemented == Spec => LogAccepted
<1>1. Init => Log!Init
  BY DEF Init, Log!Init
<1>2. IInv /\ [Next]_vars => [Log!Next]_trace
  BY LoggedStep DEF IInv, Owned, Logged
<1>. QED
  BY <1>1, <1>2, Invariance, PTL DEF Spec, LogAccepted, Log!Spec

------------------------------------------------------------------------------
(* Who moves, and what a release of promises leaves alone.                 *)

LEMMA DriverOwns ==
    ASSUME OneDriver, NEW d \in DOMAIN pc, pc[d] \in Driving
    PROVE  phase.kind = "running" /\ phase.activity = d
  BY DEF OneDriver, Running

(* While no driver is between two awaits, the owner of the phase is not.   *)
LEMMA SyncOwner ==
    ASSUME OneDriver, phase.kind = "running", SyncDrivers = {}
    PROVE  phase.activity \in DOMAIN pc /\ pc[phase.activity] \notin Sync
  BY DEF OneDriver, SyncDrivers

LEMMA AppendOwner ==
    ASSUME OneDriver, InAppend
    PROVE  /\ phase.kind = "running" /\ phase.activity \in DOMAIN pc
           /\ pc[phase.activity] \in {"claim", "boundary", "caught", "ended"}
<1>1. PICK d \in DOMAIN pc : pc[d] \in {"claim", "boundary", "caught", "ended"}
  BY DEF InAppend, SyncDrivers
<1>2. pc[d] \in Driving
  BY <1>1 DEF Driving, Sync
<1>. QED
  BY <1>1, <1>2, DriverOwns

LEMMA MetKeeps ==
    ASSUME NEW letters \in Seq(Letters)
    PROVE  /\ DOMAIN Met(letters) = DOMAIN letters
           /\ \A m \in DOMAIN letters :
                 /\ Met(letters)[m].list = letters[m].list
                 /\ Met(letters)[m].fate = letters[m].fate
                 /\ Met(letters)[m].turn = letters[m].turn
<1>1. \A m \in DOMAIN letters : letters[m] \in Letters
  BY ElementOfSeq
<1>. QED
  BY <1>1 DEF Met, Letters

(* What abort() does to the phase, and to the letters only their promises. *)
LEMMA AbortKeeps ==
    ASSUME TypeOK, NEW cause, NEW keepInbox, Abort(cause, keepInbox, mail)
    PROVE  /\ phase'.kind = phase.kind /\ phase'.activity = phase.activity
           /\ phase'.turn = phase.turn /\ phase'.step = phase.step
           /\ phase'.wakeRequested => phase.wakeRequested
           /\ Aborted => phase'.abort = phase.abort
           /\ DOMAIN mail' = DOMAIN mail
           /\ \A m \in DOMAIN mail :
                 /\ mail'[m].list = mail[m].list /\ mail'[m].fate = mail[m].fate
                 /\ mail'[m].turn = mail[m].turn
<1>1. /\ phase'.kind = phase.kind /\ phase'.activity = phase.activity
      /\ phase'.turn = phase.turn /\ phase'.step = phase.step
      /\ phase'.wakeRequested => phase.wakeRequested
      /\ Aborted => phase'.abort = phase.abort
  BY DEF Abort, TypeOK, Phases, Aborted
<1>2. mail' = mail \/ mail' = Met(mail)
  BY DEF Abort
<1>. QED
  BY <1>1, <1>2, MetKeeps DEF TypeOK

LEMMA InsertKeeps ==
    ASSUME TypeOK, NEW target, NEW wake, Insert(target, wake)
    PROVE  /\ DOMAIN mail' = DOMAIN mail \union {Len(mail) + 1}
           /\ \A m \in DOMAIN mail : mail'[m] = mail[m]
           /\ mail'[Len(mail) + 1] = [list |-> target, fate |-> "pending", turn |-> 0,
                                      promise |-> PromiseTo(wake)]
  BY AppendProperties DEF Insert, TypeOK

------------------------------------------------------------------------------
(* Aborted turns.                                                          *)

NothingClaimed ==
    \A m \in DOMAIN mail : mail'[m].fate = "claimed" => mail[m].fate = "claimed"
NothingOpens ==
    /\ trace'.openStep \in {trace.openStep, Log!None}
    /\ trace'.openTurn \in {trace.openTurn, Log!None}

LEMMA NothingChanges ==
    ASSUME TypeOK
    PROVE  /\ trace' = trace => NothingOpens
           /\ mail' = mail => NothingClaimed
           /\ mail' = Met(mail) => NothingClaimed
  BY MetKeeps DEF NothingOpens, NothingClaimed, TypeOK

LEMMA ClientSeals ==
    ASSUME TypeOK, Client
    PROVE  NothingOpens /\ NothingClaimed
<1>1. ASSUME NEW target \in Targets, NEW wake \in BOOLEAN, Send(target, wake)
      PROVE  NothingOpens /\ NothingClaimed
  <2>1. PICK chosen \in Targets : Insert(chosen, wake)
    BY <1>1 DEF Send, Targets
  <2>. QED
    BY <1>1, <2>1, InsertKeeps DEF Send, NothingOpens, NothingClaimed
<1>2. ASSUME NEW cause \in Causes, NEW keepInbox \in BOOLEAN, Cancel(cause, keepInbox)
      PROVE  NothingOpens /\ NothingClaimed
  BY <1>2, AbortKeeps DEF Cancel, NothingOpens, NothingClaimed
<1>3. ASSUME NEW cause \in Causes, CancelClear(cause)
      PROVE  NothingOpens /\ NothingClaimed
  <2>1. \A m \in DOMAIN mail : mail[m] \in Letters
    BY ElementOfSeq DEF TypeOK
  <2>. QED
    BY <1>3, <2>1 DEF CancelClear, NothingOpens, NothingClaimed, Letters
<1>4. ASSUME NEW keepInbox \in BOOLEAN, CancelInAppend(keepInbox)
      PROVE  NothingOpens /\ NothingClaimed
  BY <1>4, AbortKeeps DEF CancelInAppend, NothingOpens, NothingClaimed
<1>5. CASE DisposeFromAppend
  <2>1. mail' = mail \/ Abort("disposed", FALSE, mail)
    BY <1>5 DEF DisposeFromAppend
  <2>. QED
    BY <1>5, <2>1, AbortKeeps DEF DisposeFromAppend, NothingOpens, NothingClaimed
<1>6. ASSUME NEW m \in DOMAIN mail, Remove_(m)
      PROVE  NothingOpens /\ NothingClaimed
  <2>1. \A n \in DOMAIN mail : mail[n] \in Letters
    BY ElementOfSeq DEF TypeOK
  <2>2. \A n \in DOMAIN mail : mail'[n].fate \in {mail[n].fate, "discarded"}
    BY <1>6, <2>1 DEF Remove_, Letters
  <2>. QED
    BY <1>6, <2>2 DEF Remove_, NothingOpens, NothingClaimed
<1>7. CASE RunMaintenance
  BY <1>7 DEF RunMaintenance, NothingOpens, NothingClaimed
<1>. QED
  BY <1>1, <1>2, <1>3, <1>4, <1>5, <1>6, <1>7 DEF Client

LEMMA ReturnSeals ==
    ASSUME TypeOK, Return
    PROVE  NothingOpens /\ NothingClaimed
<1>1. CASE FinishCancel
  BY <1>1, AbortKeeps DEF FinishCancel, NothingOpens, NothingClaimed
<1>. QED
  BY <1>1, NothingChanges
     DEF Return, FinishStart, FinishSend, FinishRetire, FinishError

(* The two events a driver still appends close what is open.               *)
LEMMA ClosingSeals ==
    ASSUME TypeOK, OneDriver, LogFollows, LogFollows', NEW d \in DOMAIN pc,
           NEW location, Goto(d, location), phase' = phase,
           \/ pc[d] = "endStep" /\ location \in {"caught", "boundary"}
           \/ pc[d] = "endTurn" /\ location = "ended"
    PROVE  NothingOpens
<1>1. pc[d] \in Driving
  BY DEF Driving, Sync
<1>2. /\ TurnOpen <=> pc[d] \in InTurn
      /\ StepOpen <=> pc[d] \in InStep
      /\ TurnOpen' <=> location \in InTurn
      /\ StepOpen' <=> location \in InStep
  BY <1>1, Located
<1>. QED
  BY <1>2 DEF LogFollows, NothingOpens, InTurn, InStep

LEMMA DriverSeals ==
    ASSUME TypeOK, OneDriver, Logged, Logged', Aborted, NEW d \in DOMAIN pc,
           Synchronous(d) \/ Resume(d) \/ FinishMaintenance(d)
    PROVE  NothingOpens /\ NothingClaimed
<1>1. CASE EndStep(d)
  BY <1>1, ClosingSeals, NothingChanges DEF EndStep, At, Logged
<1>2. CASE EndTurn(d)
  BY <1>2, ClosingSeals, NothingChanges DEF EndTurn, At, Logged
<1>3. CASE Open(d)
  BY <1>3, NothingChanges DEF Open
<1>4. CASE Veto(d) \/ Claim(d) \/ (\E messages \in BOOLEAN : StartStep(d, messages))
  BY <1>4 DEF Veto, Claim, StartStep, Decided
<1>5. CASE Retire(d) \/ Leave(d)
  <2>1. trace' = trace
    BY <1>5 DEF Retire, Leave
  <2>2. mail' = mail
    BY <1>5 DEF Retire, Leave
  <2>. QED
    BY <2>1, <2>2, NothingChanges
<1>6. CASE AcceptContext(d)
  BY <1>6, InsertKeeps DEF AcceptContext, NothingOpens, NothingClaimed
<1>7. CASE \/ StepBoundary(d) \/ SyncThrows(d) \/ Catch(d) \/ Continue(d)
           \/ Reject(d) \/ EnterEmpty(d) \/ CallTools(d) \/ AwaitThrows(d) \/ Stopped(d)
           \/ (\E end \in {"completed", "max-tokens"} : Respond(d, end))
           \/ (\E concluded \in BOOLEAN : FinishTools(d, concluded))
           \/ FinishMaintenance(d)
  <2>1. trace' = trace /\ mail' = mail
    BY <1>7 DEF StepBoundary, SyncThrows, Catch, Continue, Reject, EnterEmpty, CallTools,
                AwaitThrows, Stopped, Respond, FinishTools, FinishMaintenance, Throw
  <2>. QED
    BY <2>1, NothingChanges
<1>. QED
  BY <1>1, <1>2, <1>3, <1>4, <1>5, <1>6, <1>7 DEF Synchronous, Resume

(* Once its controller is aborted - by a user, a listener inside append,   *)
(* or a disposal - a turn opens no step and claims no message, through     *)
(* every failure and finally clause it still has to run.                   *)
THEOREM AbortedTurnsAreSealed == Spec => AbortSeals
<1>1. IInv /\ IInv' /\ [Next]_vars =>
        [phase.kind = "running" /\ Aborted => NothingOpens /\ NothingClaimed]_vars
  <2>. SUFFICES ASSUME IInv, IInv', Next, Aborted
                PROVE  NothingOpens /\ NothingClaimed
    OBVIOUS
  <2>1. TypeOK /\ OneDriver /\ Logged /\ Logged'
    BY DEF IInv, Logged
  <2>2. CASE WhenIdle \/ Detach
    BY <2>1, <2>2, NothingChanges DEF WhenIdle, Detach
  <2>. QED
    BY <2>1, <2>2, ClientSeals, ReturnSeals, DriverSeals DEF Next
<1>. QED
  BY <1>1, Invariance, PTL DEF Spec, AbortSeals, NothingOpens, NothingClaimed

------------------------------------------------------------------------------
(* Outcomes.  What a turn met so far is in run.turnEnds until its catch or *)
(* finally clause decides; only a throw leads to the catch clause, and a   *)
(* turn that retires completed with input still queued ran no step.        *)

Undecided == InTurn \ {"failing", "endTurn"}
Clean == {"completed", "max-tokens"}

Underway(location) ==
    /\ ~run.retire
    /\ run.turnEnds \in Clean \union {NoEnd}
    /\ history.ceiling => run.turnEnds = "max-tokens"
    /\ run.thrown => location \in {"endStep", "caught"}
    /\ location = "caught" => run.thrown
    /\ location = "stopping" => run.turnEnds # NoEnd

Recorded ==
    /\ run.turnEnds # NoEnd
    /\ run.thrown <=> run.turnEnds \in {"aborted", "error"}
    /\ run.thrown /\ ~Aborted => run.turnEnds = "error"
    /\ Aborted => run.thrown
    /\ history.ceiling => run.turnEnds # "completed"

(* A turn that closed cleanly and retires all the same ran no step.        *)
Stepless == run.retire /\ run.turnEnds \in Clean => phase.step = 0

OutcomeAt(location) ==
    /\ location \in Undecided => Underway(location)
    /\ location = "failing" => run.turnEnds = "error" /\ run.thrown
    /\ location = "endTurn" => Recorded /\ Stepless
    /\ location = "ended" =>
          run.turnEnds # NoEnd /\ (run.turnEnds = "aborted" => Aborted) /\ Stepless

Outcome == phase.kind = "running" => OutcomeAt(pc[phase.activity])

LEMMA OutcomeStays ==
    ASSUME Outcome, run' = run, history'.ceiling = history.ceiling,
           phase'.kind = phase.kind, phase'.step = phase.step,
           phase.kind = "running" =>
              /\ phase'.activity = phase.activity
              /\ pc'[phase.activity] = pc[phase.activity]
              /\ \/ phase'.abort = phase.abort
                 \/ pc[phase.activity] # "endTurn" /\ (Aborted => Aborted')
    PROVE  Outcome'
  BY DEF Outcome, OutcomeAt, Underway, Recorded, Stepless, Aborted

LEMMA OutcomeAbsent ==
    ASSUME \/ phase'.kind # "running"
           \/ pc'[phase'.activity] \notin InTurn \union {"ended"}
    PROVE  Outcome'
  BY DEF Outcome, OutcomeAt, Undecided, InTurn

(* The driver moves on its own.                                            *)
LEMMA OutcomeMoves ==
    ASSUME OneDriver, Outcome, NEW d \in DOMAIN pc, pc[d] \in Driving, NEW location,
           Goto(d, location), phase'.kind = phase.kind, phase'.activity = phase.activity,
           OutcomeAt(pc[d]) => OutcomeAt(location)'
    PROVE  Outcome'
<1>1. phase.kind = "running" /\ phase.activity = d
  BY DriverOwns
<1>2. pc'[d] = location
  BY DEF Goto
<1>. QED
  BY <1>1, <1>2 DEF Outcome, OutcomeAt

LEMMA OutcomeStarts ==
    ASSUME NEW ph, NEW acts \in Seq(Locations), NEW calls, StartDriver(ph, acts, calls)
    PROVE  Outcome'
<1>1. pc'[Len(acts) + 1] = "start"
  BY DEF StartDriver
<1>2. phase'.activity = Len(acts) + 1
  BY DEF StartDriver
<1>. QED
  BY <1>1, <1>2, OutcomeAbsent DEF InTurn, InStep

LEMMA OutcomeWakes ==
    ASSUME TypeOK, Outcome, NEW late, NEW calls, WakeDriver(late, calls),
           run' = run, history' = history
    PROVE  Outcome'
<1>1. CASE phase.kind = "idle"
  BY <1>1, OutcomeStarts DEF WakeDriver, TypeOK
<1>2. CASE phase.kind # "idle"
  <2>1. pc' = pc /\ phase' = [phase EXCEPT !.wakeRequested = @ \/ Latches(phase, late)]
    BY <1>2 DEF WakeDriver
  <2>2. /\ phase'.kind = phase.kind /\ phase'.activity = phase.activity
        /\ phase'.step = phase.step /\ phase'.abort = phase.abort
    BY <2>1 DEF TypeOK, Phases
  <2>3. history'.ceiling = history.ceiling
    OBVIOUS
  <2>. QED
    BY <2>1, <2>2, <2>3, OutcomeStays
<1>. QED
  BY <1>1, <1>2

LEMMA OutcomeRetires ==
    ASSUME Outcome, NEW d \in DOMAIN pc, NEW location, RetireRunning(d, location),
           ~Running(d) => run' = run /\ history' = history
    PROVE  Outcome'
<1>1. CASE Running(d)
  BY <1>1, OutcomeAbsent DEF RetireRunning
<1>2. CASE ~Running(d)
  <2>1. phase' = phase /\ (phase.kind = "running" => pc'[phase.activity] = pc[phase.activity])
    BY <1>2 DEF RetireRunning, Running
  <2>. QED
    BY <1>2, <2>1, OutcomeStays
<1>. QED
  BY <1>1, <1>2

(* A controller is never aborted between the decision and turn/end.        *)
LEMMA OutcomeAborts ==
    ASSUME TypeOK, OneDriver, Outcome, NEW cause, NEW keepInbox, SyncDrivers = {} \/ InAppend,
           Abort(cause, keepInbox, mail), pc' = pc, run' = run, history' = history
    PROVE  Outcome'
<1>1. phase.kind = "running" => pc[phase.activity] # "endTurn"
  BY SyncOwner, AppendOwner DEF Sync
<1>2. Aborted => Aborted'
  BY DEF Abort, Aborted, TypeOK, Phases
<1>. QED
  BY <1>1, <1>2, AbortKeeps, OutcomeStays

LEMMA ClientOutcome ==
    ASSUME TypeOK, OneDriver, Outcome, Client
    PROVE  Outcome'
<1>0. phase \in Phases /\ history \in Histories
  BY DEF TypeOK
<1>1. ASSUME NEW target \in Targets, NEW wake \in BOOLEAN, Send(target, wake)
      PROVE  Outcome'
  <2>1. history'.ceiling = history.ceiling
    BY <1>0, <1>1 DEF Send, Histories
  <2>. QED
    BY <1>1, <2>1, OutcomeStays DEF Send
<1>2. ASSUME NEW cause \in Causes, NEW keepInbox \in BOOLEAN, Cancel(cause, keepInbox)
      PROVE  Outcome'
  BY <1>2, OutcomeAborts DEF Cancel, CanCall
<1>3. ASSUME NEW cause \in Causes, CancelClear(cause)
      PROVE  Outcome'
  BY <1>3, OutcomeStays DEF CancelClear
<1>4. ASSUME NEW keepInbox \in BOOLEAN, CancelInAppend(keepInbox)
      PROVE  Outcome'
  BY <1>4, OutcomeAborts DEF CancelInAppend
<1>5. CASE DisposeFromAppend
  <2>1. CASE hasPending
    <3>1. history'.ceiling = history.ceiling
      BY <1>0, <1>5, <2>1 DEF DisposeFromAppend, Histories
    <3>. QED
      BY <1>5, <2>1, <3>1, OutcomeStays DEF DisposeFromAppend
  <2>2. CASE ~hasPending
    BY <1>5, <2>2, OutcomeAborts DEF DisposeFromAppend
  <2>. QED
    BY <2>1, <2>2
<1>6. ASSUME NEW m \in DOMAIN mail, Remove_(m)
      PROVE  Outcome'
  BY <1>6, OutcomeStays DEF Remove_
<1>7. CASE RunMaintenance
  <2>1. phase'.kind = "maintenance"
    BY <1>0, <1>7 DEF RunMaintenance, Phases
  <2>. QED
    BY <2>1, OutcomeAbsent
<1>. QED
  BY <1>1, <1>2, <1>3, <1>4, <1>5, <1>6, <1>7 DEF Client

LEMMA ReturnOutcome ==
    ASSUME TypeOK, Owned, Outcome, Return
    PROVE  Outcome'
<1>0. OneDriver /\ FramesOwned
  BY DEF Owned
<1>1. CASE FinishStart
  <2>1. phase' = phase /\ phase.activity \in DOMAIN pc /\ pc'[phase.activity] = "open"
    BY <1>0, <1>1 DEF FinishStart, Goto, OneDriver
  <2>. QED
    BY <2>1, OutcomeAbsent DEF InTurn, InStep
<1>2. CASE FinishSend \/ FinishRetire
  <2>1. CASE pc' = pc /\ phase' = phase
    BY <1>2, <2>1, OutcomeStays DEF FinishSend, FinishRetire
  <2>2. CASE \E late : WakeDriver(late, Tail(stack))
    BY <1>2, <2>2, OutcomeWakes DEF FinishSend, FinishRetire
  <2>. QED
    BY <1>2, <2>1, <2>2 DEF FinishSend, FinishRetire
<1>3. CASE FinishCancel
  BY <1>0, <1>3, OutcomeAborts DEF FinishCancel
<1>4. CASE FinishError
  <2>1. phase.kind = "running" /\ pc[phase.activity] \in Reporting
    BY <1>0, <1>4, TopFrame DEF FinishError, FramesOwned, FrameOwned
  <2>2. phase.activity \in DOMAIN pc
    BY <1>0, <2>1 DEF OneDriver
  <2>3. CASE pc[phase.activity] = "vetoed"
    <3>1. phase' = phase /\ pc'[phase.activity] = "leave"
      BY <1>4, <2>2, <2>3 DEF FinishError, Goto
    <3>. QED
      BY <3>1, OutcomeAbsent DEF InTurn, InStep
  <2>4. CASE pc[phase.activity] = "failing"
    <3>1. phase' = phase /\ pc'[phase.activity] = "endTurn"
      BY <1>4, <2>2, <2>4 DEF FinishError, Goto
    <3>2. run.turnEnds = "error" /\ run.thrown /\ run' = run
      BY <1>4, <2>1, <2>4 DEF Outcome, OutcomeAt, FinishError
    <3>. QED
      BY <3>1, <3>2 DEF Outcome, OutcomeAt, Undecided, Clean, Recorded, Stepless, NoEnd
  <2>. QED
    BY <2>1, <2>3, <2>4 DEF Reporting
<1>. QED
  BY <1>1, <1>2, <1>3, <1>4 DEF Return

LEMMA ThrowOutcome ==
    ASSUME TypeOK, OneDriver, Outcome, NEW d \in DOMAIN pc, Throw(d),
           pc[d] \in Undecided
    PROVE  Outcome'
<1>1. pc[d] \in Driving
  BY DEF Undecided, InTurn, InStep, Driving, Sync, Awaiting, Reporting
<1>2. run'.turnEnds = run.turnEnds /\ run'.retire = run.retire /\ run'.thrown
  BY DEF Throw, TypeOK, Runs
<1>3. PICK location \in {"caught", "endStep"} : FailsTo(pc[d]) = location
  BY DEF FailsTo
<1>4. Goto(d, location) /\ phase' = phase /\ history' = history
  BY <1>3 DEF Throw
<1>5. OutcomeAt(pc[d]) => OutcomeAt(location)'
  BY <1>2, <1>4 DEF OutcomeAt, Underway, Undecided, InTurn, InStep
<1>. QED
  BY <1>1, <1>4, <1>5, OutcomeMoves

LEMMA SynchronousOutcome ==
    ASSUME TypeOK, OneDriver, Outcome, NEW d \in DOMAIN pc, Synchronous(d)
    PROVE  Outcome'
<1>0. /\ phase \in Phases /\ run \in Runs /\ history \in Histories
      /\ Sync \subseteq Driving /\ "gap" \in Driving
  BY DEF TypeOK, Driving, Awaiting
<1>. USE DEF OutcomeAt, Underway, Recorded, Stepless, Undecided, InTurn, InStep, Clean,
             NoEnd
<1>1. CASE Open(d)
  <2>1. pc[d] \in Driving
    BY <1>0, <1>1 DEF Open, Opening, At, Sync
  <2>2. CASE Aborted
    BY <1>1, <2>1, <2>2, OutcomeMoves DEF Open
  <2>3. CASE ~Aborted
    <3>1. run' = FreshRun /\ history'.ceiling = FALSE /\ Goto(d, "claim")
      BY <1>0, <1>1, <2>3 DEF Open, Histories
    <3>2. phase'.kind = phase.kind /\ phase'.activity = phase.activity
      BY <1>0, <1>1, <2>3 DEF Open, Phases
    <3>3. OutcomeAt("claim")'
      BY <3>1 DEF FreshRun
    <3>. QED
      BY <2>1, <3>1, <3>2, <3>3, OutcomeMoves
  <2>. QED
    BY <2>2, <2>3
<1>2. CASE Veto(d)
  <2>1. pc[d] \in Driving
    BY <1>0, <1>2 DEF Veto, Opening, At, Sync
  <2>. QED
    BY <1>2, <2>1, OutcomeMoves DEF Veto
<1>3. CASE Claim(d)
  BY <1>0, <1>3, OutcomeMoves DEF Claim, At, Sync
<1>4. CASE EndStep(d)
  BY <1>0, <1>4, OutcomeMoves DEF EndStep, At, Sync
<1>5. CASE StepBoundary(d)
  <2>1. run'.turnEnds = run.turnEnds /\ run'.retire = run.retire /\ run'.thrown = run.thrown
    BY <1>0, <1>5 DEF StepBoundary, Runs
  <2>. QED
    BY <1>0, <1>5, <2>1, OutcomeMoves DEF StepBoundary, At, Sync
<1>6. CASE SyncThrows(d)
  BY <1>6, ThrowOutcome DEF SyncThrows
<1>7. CASE Catch(d)
  <2>1. run'.turnEnds = (IF Aborted THEN "aborted" ELSE "error") /\ run'.thrown = run.thrown
    BY <1>0, <1>7 DEF Catch, Runs
  <2>2. phase' = phase /\ history' = history /\ pc[d] = "caught"
    BY <1>7 DEF Catch, At
  <2>3. CASE Aborted
    <3>1. OutcomeAt("caught") => OutcomeAt("endTurn")'
      BY <2>1, <2>2, <2>3 DEF Aborted
    <3>. QED
      BY <1>0, <1>7, <2>2, <2>3, <3>1, OutcomeMoves DEF Catch, Sync
  <2>4. CASE ~Aborted
    BY <1>0, <1>7, <2>1, <2>2, <2>4, OutcomeMoves DEF Catch, Sync
  <2>. QED
    BY <2>3, <2>4
<1>8. CASE EndTurn(d)
  <2>1. OutcomeAt("endTurn") => OutcomeAt("ended")'
    BY <1>8 DEF EndTurn, Aborted
  <2>. QED
    BY <1>0, <1>8, <2>1, OutcomeMoves DEF EndTurn, At, Sync
<1>9. CASE Continue(d)
  <2>1. phase'.kind = phase.kind /\ phase'.activity = phase.activity
    BY <1>0, <1>9 DEF Continue, Phases
  <2>. QED
    BY <1>0, <1>9, <2>1, OutcomeMoves DEF Continue, At, Sync
<1>10. CASE Retire(d)
  <2>1. Running(d)
    BY <1>0, <1>10, DriverOwns DEF Retire, At, Sync, Running
  <2>. QED
    BY <1>10, <2>1, OutcomeRetires DEF Retire
<1>. QED
  BY <1>1, <1>2, <1>3, <1>4, <1>5, <1>6, <1>7, <1>8, <1>9, <1>10 DEF Synchronous

LEMMA ResumeOutcome ==
    ASSUME TypeOK, OneDriver, Outcome, NEW d \in DOMAIN pc, Resume(d)
    PROVE  Outcome'
<1>0. /\ phase \in Phases /\ run \in Runs /\ history \in Histories
      /\ Awaiting \subseteq Driving
  BY DEF TypeOK, Driving
<1>. USE DEF OutcomeAt, Underway, Recorded, Stepless, Undecided, InTurn, InStep, Clean,
             NoEnd
<1>1. CASE Reject(d)
  <2>1. run'.turnEnds = "blocked" /\ run'.thrown = run.thrown
    BY <1>0, <1>1 DEF Reject, Runs
  <2>. QED
    BY <1>0, <1>1, <2>1, OutcomeMoves DEF Reject, Decided, At, Awaiting, Aborted
<1>2. CASE EnterEmpty(d)
  <2>1. CASE run.turnEnds # NoEnd
    BY <1>0, <1>2, <2>1, OutcomeMoves DEF EnterEmpty, Decided, At, Awaiting, Aborted
  <2>2. CASE run.turnEnds = NoEnd
    <3>1. phase.step = 0 /\ ~Aborted /\ phase' = phase /\ history' = history
          /\ pc[d] = "preStep" /\ Goto(d, "endTurn")
      BY <1>2, <2>2 DEF EnterEmpty, Decided, At
    <3>4. run'.turnEnds = "completed" /\ run'.thrown = run.thrown
      BY <1>0, <1>2, <2>2 DEF EnterEmpty, Runs
    <3>2. pc[d] \in Driving
      BY <1>0, <3>1 DEF Awaiting
    <3>3. OutcomeAt("preStep") => OutcomeAt("endTurn")'
      BY <2>2, <3>1, <3>4 DEF NoEnd, Aborted
    <3>. QED
      BY <3>1, <3>2, <3>3, OutcomeMoves
  <2>. QED
    BY <2>1, <2>2
<1>3. ASSUME NEW messages \in BOOLEAN, StartStep(d, messages)
      PROVE  Outcome'
  <2>1. phase'.kind = phase.kind /\ phase'.activity = phase.activity
    BY <1>0, <1>3 DEF StartStep, Phases
  <2>. QED
    BY <1>0, <1>3, <2>1, OutcomeMoves DEF StartStep, Decided, At, Awaiting
<1>4. ASSUME NEW end \in {"completed", "max-tokens"}, Respond(d, end)
      PROVE  Outcome'
  <2>1. /\ run'.turnEnds = IF run.turnEnds = "max-tokens" THEN "max-tokens" ELSE end
        /\ run'.retire = run.retire /\ run'.thrown = run.thrown
    BY <1>0, <1>4 DEF Respond, StepEnds, Runs
  <2>2. history'.ceiling = (history.ceiling \/ end = "max-tokens")
    BY <1>0, <1>4 DEF Respond, Histories
  <2>. QED
    BY <1>0, <1>4, <2>1, <2>2, OutcomeMoves DEF Respond, At, Awaiting
<1>5. CASE CallTools(d)
  BY <1>0, <1>5, OutcomeMoves DEF CallTools, At, Awaiting
<1>6. CASE AcceptContext(d)
  BY <1>6, OutcomeStays DEF AcceptContext
<1>7. ASSUME NEW concluded \in BOOLEAN, FinishTools(d, concluded)
      PROVE  Outcome'
  <2>1. /\ run.turnEnds = "max-tokens" => run'.turnEnds = "max-tokens"
        /\ run'.turnEnds \in {"completed", NoEnd, "max-tokens"}
        /\ run'.retire = run.retire /\ run'.thrown = run.thrown
    BY <1>0, <1>7 DEF FinishTools, StepEnds, Runs
  <2>. QED
    BY <1>0, <1>7, <2>1, OutcomeMoves DEF FinishTools, At, Awaiting
<1>8. CASE AwaitThrows(d)
  BY <1>8, ThrowOutcome DEF AwaitThrows
<1>9. CASE Stopped(d)
  <2>1. run'.turnEnds = run.turnEnds /\ run'.retire = run.retire /\ run'.thrown = run.thrown
    BY <1>0, <1>9 DEF Stopped, Runs
  <2>. QED
    BY <1>0, <1>9, <2>1, OutcomeMoves DEF Stopped, At, Awaiting, Aborted
<1>10. CASE Leave(d)
  BY <1>10, OutcomeRetires DEF Leave
<1>. QED
  BY <1>1, <1>2, <1>3, <1>4, <1>5, <1>6, <1>7, <1>8, <1>9, <1>10 DEF Resume

LEMMA OutcomeStep == TypeOK /\ Owned /\ Outcome /\ [Next]_vars => Outcome'
<1>. SUFFICES ASSUME TypeOK, Owned, Outcome, [Next]_vars PROVE Outcome'
  OBVIOUS
<1>0. OneDriver
  BY DEF Owned
<1>1. ASSUME NEW a \in DOMAIN pc, FinishMaintenance(a)
      PROVE  Outcome'
  <2>1. Resolved(a) \in Seq(Locations)
    BY ExceptInSeq DEF Resolved, TypeOK, Locations
  <2>2. phase.kind = "maintenance"
    BY <1>0, <1>1 DEF FinishMaintenance, OneDriver
  <2>3. [phase EXCEPT !.kind = "idle", !.activity = 0, !.abort = NoAbort,
                      !.wakeRequested = FALSE].kind # "running"
    BY DEF TypeOK, Phases
  <2>. QED
    BY <1>1, <2>1, <2>3, OutcomeStarts, OutcomeAbsent DEF FinishMaintenance
<1>2. CASE WhenIdle \/ Detach \/ UNCHANGED vars
  <2>1. history'.ceiling = history.ceiling
    BY <1>2 DEF WhenIdle, Detach, vars, TypeOK, Histories
  <2>. QED
    BY <1>2, <2>1, OutcomeStays DEF WhenIdle, Detach, vars
<1>. QED
  BY <1>0, <1>1, <1>2, ClientOutcome, ReturnOutcome, SynchronousOutcome, ResumeOutcome
     DEF Next

LEMMA OutcomeInit == Init => Outcome
  BY DEF Init, Outcome

(* A turn records an outcome on every exit, and the one it met: an error   *)
(* exactly when something was thrown in it, which a cancellation turns     *)
(* into aborted; a cancelled turn is never reported completed, nor one     *)
(* that hit the output ceiling in any of its steps.                        *)
THEOREM OutcomesAreHonest == Spec => []HonestOutcome
<1>1. TypeOK /\ OneDriver /\ Outcome => HonestOutcome
  <2>. SUFFICES ASSUME OneDriver, Outcome, NEW d \in DOMAIN pc, pc[d] = "endTurn"
                PROVE  Recorded
    BY DEF HonestOutcome, Recorded
  <2>1. pc[d] \in Driving
    BY DEF Driving, Sync
  <2>. QED
    BY <2>1, DriverOwns DEF Outcome, OutcomeAt
<1>2. IInv => TypeOK /\ Owned
  BY DEF IInv, Owned
<1>. QED
  BY <1>1, <1>2, Invariance, OutcomeInit, OutcomeStep, PTL DEF Spec, IInv, Owned

------------------------------------------------------------------------------
(* Latches.  A send that was classified as late holds its place: while it  *)
(* is interrupted the activity it was classified against cannot move, as   *)
(* no start or report of a driver was interrupted after it.                *)

LateSend(i) == stack[i].kind = "send" /\ stack[i].late

Holds(i) ==
    /\ \/ phase.kind = "maintenance"
       \/ phase.kind = "running" /\ history.late = phase.activity
    /\ \A j \in DOMAIN stack : j < i => stack[j].kind \notin Reports
    /\ SyncDrivers = {}

LateHolds == \A i \in DOMAIN stack : LateSend(i) => Holds(i)

NoneLate(frames) == \A i \in DOMAIN frames : ~(frames[i].kind = "send" /\ frames[i].late)

LEMMA NoneLatePush ==
    ASSUME NEW frames \in Seq(Frames), NoneLate(frames), NEW f \in Frames,
           ~(f.kind = "send" /\ f.late)
    PROVE  NoneLate(<<f>> \o frames)
<1>. SUFFICES ASSUME NEW i \in DOMAIN (<<f>> \o frames)
              PROVE  ~((<<f>> \o frames)[i].kind = "send" /\ (<<f>> \o frames)[i].late)
  BY DEF NoneLate
<1>. QED
  BY Pushed DEF NoneLate

LEMMA NoneLatePop ==
    ASSUME TypeOK, NoneLate(stack), stack # <<>>
    PROVE  NoneLate(Tail(stack))
  BY Popped DEF NoneLate, TypeOK

(* The calls a late send cannot be under.                                  *)
LEMMA NoneLateNow ==
    ASSUME TypeOK, LateHolds,
           \/ phase.kind = "idle" \/ SyncDrivers # {}
           \/ stack # <<>> /\ Head(stack).kind \in Reports
    PROVE  NoneLate(stack)
<1>1. stack # <<>> => 1 \in DOMAIN stack /\ Head(stack) = stack[1]
  BY TopFrame
<1>2. \A i \in DOMAIN stack : i # 1 => 1 < i
  BY DEF TypeOK
<1>3. "send" \notin Reports
  BY DEF Reports
<1>. QED
  BY <1>1, <1>2, <1>3 DEF NoneLate, LateHolds, LateSend, Holds

LEMMA NoneLateHolds ==
    ASSUME NoneLate(stack') PROVE LateHolds'
  BY DEF NoneLate, LateHolds, LateSend

(* The activity stays, and calls that report nothing come and go above.    *)
LEMMA LateStays ==
    ASSUME TypeOK, LateHolds, pc' = pc,
           phase'.kind = phase.kind, phase'.activity = phase.activity,
           history'.late \in {history.late, phase.activity},
           stack' = stack \/ (stack # <<>> /\ stack' = Tail(stack))
    PROVE  LateHolds'
<1>1. SyncDrivers' = SyncDrivers
  BY DEF SyncDrivers
<1>2. CASE stack' = stack
  BY <1>1, <1>2 DEF LateHolds, LateSend, Holds
<1>3. CASE stack # <<>> /\ stack' = Tail(stack)
  <2>1. \A i \in DOMAIN stack' : i \in Nat /\ i + 1 \in DOMAIN stack /\ stack'[i] = stack[i + 1]
    BY <1>3, Popped, TailInSeq DEF TypeOK
  <2>. SUFFICES ASSUME NEW i \in DOMAIN stack', LateSend(i)'
                PROVE  Holds(i)'
    BY DEF LateHolds
  <2>2. Holds(i + 1)
    BY <2>1 DEF LateHolds, LateSend
  <2>3. ASSUME NEW j \in DOMAIN stack', j < i
        PROVE  stack'[j].kind \notin Reports
    <3>1. j + 1 < i + 1
      BY <2>1, <2>3
    <3>. QED
      BY <2>1, <2>2, <2>3, <3>1 DEF Holds
  <2>. QED
    BY <1>1, <2>2, <2>3 DEF Holds
<1>. QED
  BY <1>2, <1>3

LEMMA LatePush ==
    ASSUME TypeOK, LateHolds, pc' = pc, phase' = phase, SyncDrivers = {},
           history'.late \in {history.late, phase.activity},
           NEW f \in Frames, f.kind \notin Reports, stack' = <<f>> \o stack,
           f.kind = "send" /\ f.late =>
              \/ phase.kind = "maintenance"
              \/ phase.kind = "running" /\ history'.late = phase.activity
    PROVE  LateHolds'
<1>1. SyncDrivers' = SyncDrivers
  BY DEF SyncDrivers
<1>2. \A i \in DOMAIN stack' :
         \/ i = 1 /\ stack'[i] = f
         \/ i \in Nat /\ i - 1 \in DOMAIN stack /\ stack'[i] = stack[i - 1]
  <2>1. stack' \in Seq(Frames)
    BY PushInSeq DEF TypeOK
  <2>. QED
    BY <2>1, Pushed DEF TypeOK
<1>. SUFFICES ASSUME NEW i \in DOMAIN stack', LateSend(i)'
              PROVE  Holds(i)'
  BY DEF LateHolds
<1>3. stack' \in Seq(Frames) /\ i \in Nat
  BY PushInSeq DEF TypeOK
<1>4. CASE i = 1 /\ stack'[i] = f
  <2>1. \A j \in DOMAIN stack' : ~(j < i)
    BY <1>3, <1>4
  <2>. QED
    BY <1>1, <1>4, <2>1 DEF Holds, LateSend
<1>5. CASE i - 1 \in DOMAIN stack /\ stack'[i] = stack[i - 1]
  <2>1. Holds(i - 1)
    BY <1>5 DEF LateHolds, LateSend
  <2>2. ASSUME NEW j \in DOMAIN stack', j < i
        PROVE  stack'[j].kind \notin Reports
    <3>1. CASE j = 1 /\ stack'[j] = f
      BY <3>1
    <3>2. CASE j \in Nat /\ j - 1 \in DOMAIN stack /\ stack'[j] = stack[j - 1]
      <4>1. j - 1 < i - 1
        BY <1>3, <2>2, <3>2
      <4>. QED
        BY <2>1, <3>2, <4>1 DEF Holds
    <3>. QED
      BY <1>2, <3>1, <3>2
  <2>. QED
    BY <1>1, <2>1, <2>2 DEF Holds
<1>. QED
  BY <1>2, <1>4, <1>5

Earned == LatchIsEarned /\ LateHolds

LEMMA EarnedStays ==
    ASSUME TypeOK, Earned, pc' = pc,
           phase'.kind = phase.kind, phase'.activity = phase.activity,
           phase'.wakeRequested => phase.wakeRequested,
           history'.late \in {history.late, phase.activity},
           stack' = stack \/ (stack # <<>> /\ stack' = Tail(stack))
    PROVE  Earned'
  BY LateStays DEF Earned, LatchIsEarned

LEMMA EarnedStarts ==
    ASSUME NEW ph, NEW acts, NEW calls \in Seq(Frames), StartDriver(ph, acts, calls),
           NoneLate(calls)
    PROVE  Earned'
<1>1. ~phase'.wakeRequested
  BY DEF StartDriver
<1>2. FrameOf("start", FALSE, FALSE, "user") \in Frames
      /\ FrameOf("start", FALSE, FALSE, "user").kind = "start"
  BY DEF FrameOf, Frames, Causes
<1>3. NoneLate(stack')
  BY <1>2, NoneLatePush DEF StartDriver
<1>. QED
  BY <1>1, <1>3, NoneLateHolds DEF Earned, LatchIsEarned

(* A wake latches behind a driver only for a late send.                    *)
LEMMA EarnedWakes ==
    ASSUME TypeOK, Earned, stack # <<>>, NEW late \in BOOLEAN,
           late => Head(stack).kind = "send" /\ Head(stack).late,
           WakeDriver(late, Tail(stack)), history' = history
    PROVE  Earned'
<1>1. Tail(stack) \in Seq(Frames)
  BY TailInSeq DEF TypeOK
<1>2. CASE phase.kind = "idle"
  <2>1. NoneLate(Tail(stack))
    BY <1>2, NoneLateNow, NoneLatePop DEF Earned
  <2>. QED
    BY <1>1, <1>2, <2>1, EarnedStarts DEF WakeDriver
<1>3. CASE phase.kind # "idle"
  <2>1. /\ phase'.kind = phase.kind /\ phase'.activity = phase.activity
        /\ phase'.wakeRequested = (phase.wakeRequested \/ Latches(phase, late))
        /\ pc' = pc /\ stack' = Tail(stack)
    BY <1>3 DEF WakeDriver, TypeOK, Phases
  <2>2. LateHolds'
    BY <2>1, LateStays DEF Earned
  <2>3. phase.kind = "running" /\ late => history.late = phase.activity
    <3>1. late => LateSend(1) /\ 1 \in DOMAIN stack
      BY TopFrame DEF LateSend
    <3>. QED
      BY <3>1 DEF Earned, LateHolds, Holds
  <2>. QED
    BY <2>1, <2>2, <2>3 DEF Earned, LatchIsEarned, Latches
<1>. QED
  BY <1>2, <1>3

(* A driver moves only when no late send is interrupted.                   *)
LEMMA EarnedMoves ==
    ASSUME TypeOK, Earned, NoneLate(stack),
           \/ stack' = stack
           \/ \E f \in Frames : ~(f.kind = "send" /\ f.late) /\ stack' = <<f>> \o stack,
           \/ phase'.kind # "running" \/ ~phase'.wakeRequested
           \/ phase'.kind = phase.kind /\ phase'.activity = phase.activity
              /\ phase'.wakeRequested = phase.wakeRequested /\ history'.late = history.late
    PROVE  Earned'
<1>1. NoneLate(stack')
  BY NoneLatePush DEF TypeOK
<1>. QED
  BY <1>1, NoneLateHolds DEF Earned, LatchIsEarned

LEMMA EarnedRetires ==
    ASSUME TypeOK, Earned, NoneLate(stack), NEW d, NEW location, RetireRunning(d, location),
           history'.late = history.late
    PROVE  Earned'
<1>1. CASE Running(d)
  <2>. DEFINE f == FrameOf("status", phase.wakeRequested, FALSE, "user")
  <2>1. f \in Frames /\ ~(f.kind = "send" /\ f.late)
    BY DEF FrameOf, Frames, Causes, TypeOK, Phases
  <2>2. phase'.kind = "idle"
    BY <1>1 DEF RetireRunning
  <2>3. stack' = <<f>> \o stack
    BY <1>1 DEF RetireRunning
  <2>. HIDE DEF f
  <2>4. \E g \in Frames : ~(g.kind = "send" /\ g.late) /\ stack' = <<g>> \o stack
    BY <2>1, <2>3
  <2>. QED
    BY <2>2, <2>4, EarnedMoves
<1>2. CASE ~Running(d)
  BY <1>2, EarnedMoves DEF RetireRunning
<1>. QED
  BY <1>1, <1>2

LEMMA ClientEarned ==
    ASSUME TypeOK, OneDriver, Earned, Client
    PROVE  Earned'
<1>0. phase \in Phases /\ history \in Histories
  BY DEF TypeOK
<1>1. ASSUME NEW target \in Targets, NEW wake \in BOOLEAN, Send(target, wake)
      PROVE  Earned'
  <2>. DEFINE f == FrameOf("send", wake, WakingAfterAbort(wake), "user")
  <2>1. WakingAfterAbort(wake) \in BOOLEAN
    BY DEF WakingAfterAbort
  <2>2. f \in Frames /\ f.kind = "send" /\ f.late = WakingAfterAbort(wake)
    BY <2>1 DEF FrameOf, Frames, Causes
  <2>3. history'.late = IF wake /\ phase.kind = "running" /\ Aborted
                        THEN phase.activity ELSE history.late
    BY <1>0, <1>1 DEF Send, Histories
  <2>4. stack' = <<f>> \o stack /\ pc' = pc /\ phase' = phase /\ SyncDrivers = {}
    BY <1>1 DEF Send, CanCall
  <2>5. f.late => phase.kind \in {"maintenance", "running"} /\ wake /\ Aborted
    BY <1>0, <2>2 DEF WakingAfterAbort, Phases
  <2>. HIDE DEF f
  <2>6. LateHolds'
    BY <2>2, <2>3, <2>4, <2>5, LatePush DEF Earned, Reports
  <2>. QED
    BY <2>3, <2>4, <2>6 DEF Earned, LatchIsEarned
<1>2. ASSUME NEW cause \in Causes, NEW keepInbox \in BOOLEAN, Cancel(cause, keepInbox)
      PROVE  Earned'
  BY <1>2, AbortKeeps, EarnedStays DEF Cancel
<1>3. ASSUME NEW cause \in Causes, CancelClear(cause)
      PROVE  Earned'
  <2>. DEFINE f == FrameOf("cancel", FALSE, FALSE, cause)
  <2>1. f \in Frames /\ f.kind = "cancel"
    BY DEF FrameOf, Frames
  <2>2. stack' = <<f>> \o stack /\ pc' = pc /\ phase' = phase /\ SyncDrivers = {}
        /\ history' = history
    BY <1>3 DEF CancelClear, CanCall
  <2>. HIDE DEF f
  <2>3. LateHolds'
    BY <2>1, <2>2, LatePush DEF Earned, Reports
  <2>. QED
    BY <2>2, <2>3 DEF Earned, LatchIsEarned
<1>4. ASSUME NEW keepInbox \in BOOLEAN, CancelInAppend(keepInbox)
      PROVE  Earned'
  BY <1>4, AbortKeeps, EarnedStays DEF CancelInAppend
<1>5. CASE DisposeFromAppend
  <2>1. phase' = phase \/ Abort("disposed", FALSE, mail)
    BY <1>5 DEF DisposeFromAppend
  <2>2. history'.late = history.late
    BY <1>0, <1>5 DEF DisposeFromAppend, Histories
  <2>. QED
    BY <1>5, <2>1, <2>2, AbortKeeps, EarnedStays DEF DisposeFromAppend
<1>6. ASSUME NEW m \in DOMAIN mail, Remove_(m)
      PROVE  Earned'
  BY <1>6, EarnedStays DEF Remove_
<1>7. CASE RunMaintenance
  <2>1. phase'.kind = "maintenance" /\ stack' = stack
    BY <1>0, <1>7 DEF RunMaintenance, Phases
  <2>2. NoneLate(stack)
    BY <1>7, NoneLateNow DEF RunMaintenance, Earned
  <2>. QED
    BY <2>1, <2>2, EarnedMoves
<1>. QED
  BY <1>1, <1>2, <1>3, <1>4, <1>5, <1>6, <1>7 DEF Client

LEMMA ReturnEarned ==
    ASSUME TypeOK, Owned, Earned, Return
    PROVE  Earned'
<1>1. CASE FinishStart \/ FinishError
  <2>1. stack # <<>> /\ Head(stack).kind \in Reports /\ stack' = Tail(stack)
        /\ phase' = phase /\ history' = history
    BY <1>1 DEF FinishStart, FinishError, Reports
  <2>2. NoneLate(stack')
    BY <2>1, NoneLateNow, NoneLatePop DEF Earned
  <2>. QED
    BY <2>1, <2>2, NoneLateHolds DEF Earned, LatchIsEarned
<1>2. CASE FinishSend
  <2>1. Head(stack) \in Frames
    BY <1>2, TailInSeq DEF FinishSend, TypeOK
  <2>2. CASE WakeDriver(Classified(Head(stack)), Tail(stack))
    BY <1>2, <2>1, <2>2, EarnedWakes DEF FinishSend, Classified, Frames
  <2>3. CASE stack' = Tail(stack) /\ UNCHANGED <<phase, pc>>
    BY <1>2, <2>3, EarnedStays DEF FinishSend
  <2>. QED
    BY <1>2, <2>2, <2>3 DEF FinishSend
<1>3. CASE FinishRetire
  <2>1. CASE WakeDriver(FALSE, Tail(stack))
    BY <1>3, <2>1, EarnedWakes DEF FinishRetire
  <2>2. CASE stack' = Tail(stack) /\ UNCHANGED <<phase, pc>>
    BY <1>3, <2>2, EarnedStays DEF FinishRetire
  <2>. QED
    BY <1>3, <2>1, <2>2 DEF FinishRetire
<1>4. CASE FinishCancel
  BY <1>4, AbortKeeps, EarnedStays DEF FinishCancel
<1>. QED
  BY <1>1, <1>2, <1>3, <1>4 DEF Return

LEMMA SynchronousEarned ==
    ASSUME TypeOK, OneDriver, Earned, NEW d \in DOMAIN pc, Synchronous(d)
    PROVE  Earned'
<1>0. phase \in Phases /\ history \in Histories
  BY DEF TypeOK
<1>1. NoneLate(stack)
  <2>1. CASE pc[d] \in Sync
    BY <2>1, NoneLateNow DEF SyncDrivers, Earned
  <2>2. CASE pc[d] \notin Sync
    <3>1. stack = <<>>
      BY <2>2 DEF Synchronous, Open, Veto, Opening, Claim, EndStep, StepBoundary, SyncThrows,
                  Catch, EndTurn, Continue, Retire, At, Sync, Quiet
    <3>. QED
      BY <3>1 DEF NoneLate
  <2>. QED
    BY <2>1, <2>2
<1>2. CASE Retire(d)
  <2>1. history'.late = history.late
    BY <1>0, <1>2 DEF Retire, Histories
  <2>. QED
    BY <1>1, <1>2, <2>1, EarnedRetires DEF Retire
<1>3. CASE Veto(d) \/ Catch(d)
  <2>1. FrameOf("error", FALSE, FALSE, "user") \in Frames
        /\ FrameOf("error", FALSE, FALSE, "user").kind = "error"
    BY DEF FrameOf, Frames, Causes
  <2>2. phase' = phase /\ history' = history
    BY <1>3 DEF Veto, Catch
  <2>3. stack' = stack \/ stack' = <<FrameOf("error", FALSE, FALSE, "user")>> \o stack
    BY <1>3 DEF Veto, Catch
  <2>4. \/ stack' = stack
        \/ \E f \in Frames : ~(f.kind = "send" /\ f.late) /\ stack' = <<f>> \o stack
    BY <2>1, <2>3
  <2>. QED
    BY <1>1, <2>2, <2>4, EarnedMoves
<1>4. CASE Open(d)
  <2>1. /\ stack' = stack
        /\ phase'.kind = phase.kind /\ phase'.activity = phase.activity
        /\ phase'.wakeRequested = phase.wakeRequested /\ history'.late = history.late
    BY <1>0, <1>4 DEF Open, Phases, Histories
  <2>. QED
    BY <1>1, <2>1, EarnedMoves
<1>5. CASE Continue(d)
  <2>1. stack' = stack /\ ~phase'.wakeRequested
    BY <1>0, <1>5 DEF Continue, Phases
  <2>. QED
    BY <1>1, <2>1, EarnedMoves
<1>6. CASE Claim(d) \/ EndStep(d) \/ StepBoundary(d) \/ SyncThrows(d) \/ EndTurn(d)
  <2>1. stack' = stack /\ phase' = phase /\ history'.late = history.late
    BY <1>0, <1>6 DEF Claim, EndStep, StepBoundary, SyncThrows, EndTurn, Throw, Histories
  <2>. QED
    BY <1>1, <2>1, EarnedMoves
<1>. QED
  BY <1>2, <1>3, <1>4, <1>5, <1>6 DEF Synchronous

LEMMA ResumeEarned ==
    ASSUME TypeOK, OneDriver, Earned, NEW d \in DOMAIN pc, Resume(d)
    PROVE  Earned'
<1>0. phase \in Phases /\ history \in Histories
  BY DEF TypeOK
<1>1. stack = <<>>
  BY DEF Resume, Reject, EnterEmpty, StartStep, Decided, Respond, CallTools, AcceptContext,
         FinishTools, AwaitThrows, Stopped, Leave, Quiet
<1>2. NoneLate(stack)
  BY <1>1 DEF NoneLate
<1>3. CASE Leave(d)
  <2>1. history'.late = history.late
    BY <1>0, <1>3 DEF Leave, Histories
  <2>. QED
    BY <1>2, <1>3, <2>1, EarnedRetires DEF Leave
<1>4. CASE ~Leave(d)
  <2>1. /\ stack' = stack
        /\ phase'.kind = phase.kind /\ phase'.activity = phase.activity
        /\ phase'.wakeRequested = phase.wakeRequested /\ history'.late = history.late
    BY <1>0, <1>4 DEF Resume, Reject, EnterEmpty, StartStep, Decided, Respond, CallTools,
         AcceptContext, FinishTools, AwaitThrows, Stopped, Throw, Phases, Histories
  <2>. QED
    BY <1>2, <2>1, EarnedMoves
<1>. QED
  BY <1>3, <1>4

LEMMA EarnedStep == TypeOK /\ Owned /\ Earned /\ [Next]_vars => Earned'
<1>. SUFFICES ASSUME TypeOK, Owned, Earned, [Next]_vars PROVE Earned'
  OBVIOUS
<1>0. OneDriver
  BY DEF Owned
<1>1. ASSUME NEW a \in DOMAIN pc, FinishMaintenance(a)
      PROVE  Earned'
  <2>1. stack = <<>> /\ stack \in Seq(Frames)
    BY <1>1 DEF FinishMaintenance, Quiet, TypeOK
  <2>. DEFINE idle == [phase EXCEPT !.kind = "idle", !.activity = 0, !.abort = NoAbort,
                                    !.wakeRequested = FALSE]
  <2>2. NoneLate(stack)
    BY <2>1 DEF NoneLate
  <2>3. idle.kind # "running"
    BY DEF TypeOK, Phases
  <2>4. CASE StartDriver(idle, Resolved(a), stack)
    BY <2>1, <2>2, <2>4, EarnedStarts
  <2>5. CASE phase' = idle /\ stack' = stack
    BY <2>2, <2>3, <2>5, EarnedMoves
  <2>. QED
    BY <1>1, <2>4, <2>5 DEF FinishMaintenance
<1>2. CASE WhenIdle \/ Detach \/ UNCHANGED vars
  <2>1. history'.late = history.late
    BY <1>2 DEF WhenIdle, Detach, vars, TypeOK, Histories
  <2>. QED
    BY <1>2, <2>1, EarnedStays DEF WhenIdle, Detach, vars
<1>. QED
  BY <1>0, <1>1, <1>2, ClientEarned, ReturnEarned, SynchronousEarned, ResumeEarned DEF Next

LEMMA EarnedInit == Init => Earned
  BY DEF Init, Earned, LatchIsEarned, LateHolds

(* A latch on a driver stands for a wake that some caller submitted after  *)
(* that very driver was cancelled, however its listeners cancel, send and  *)
(* wake inside one another.                                                *)
THEOREM LatchesAreEarned == Spec => []LatchIsEarned
<1>1. IInv => TypeOK /\ Owned
  BY DEF IInv, Owned
<1>2. Earned => LatchIsEarned
  BY DEF Earned
<1>. QED
  BY <1>1, <1>2, Invariance, EarnedInit, EarnedStep, PTL DEF Spec

------------------------------------------------------------------------------
(* Sequences of message numbers in increasing order, and their sets.       *)

Ordered(s) == \A i, j \in 1..Len(s) : i < j => s[i] < s[j]

LEMMA InToSet ==
    ASSUME NEW s \in Seq(Nat)
    PROVE  /\ \A x : x \in ToSet(s) <=> \E i \in 1..Len(s) : s[i] = x
           /\ Len(s) \in Nat /\ \A i \in 1..Len(s) : s[i] \in Nat
<1>1. DOMAIN s = 1..Len(s) /\ Len(s) \in Nat /\ \A i \in 1..Len(s) : s[i] \in Nat
  BY ElementOfSeq
<1>2. \A x : x \in ToSet(s) <=> \E i \in DOMAIN s : s[i] = x
  BY DEF ToSet
<1>. QED
  BY <1>1, <1>2

LEMMA OrderedAppend ==
    ASSUME NEW s \in Seq(Nat), Ordered(s), NEW n \in Nat, \A x \in ToSet(s) : x < n
    PROVE  Ordered(Append(s, n)) /\ ToSet(Append(s, n)) = ToSet(s) \union {n}
<1>. DEFINE t == Append(s, n)
<1>1. /\ t \in Seq(Nat) /\ Len(t) = Len(s) + 1 /\ t[Len(s) + 1] = n
      /\ \A i \in 1..Len(s) : t[i] = s[i]
  BY AppendProperties
<1>. HIDE DEF t
<1>2. \A i \in 1..Len(s) : s[i] < n
  BY InToSet
<1>3. Ordered(t)
  <2>1. Len(s) \in Nat /\ \A i, j \in 1..Len(s) : i < j => s[i] < s[j]
    BY InToSet DEF Ordered
  <2>. SUFFICES ASSUME NEW i \in 1..Len(s) + 1, NEW j \in 1..Len(s) + 1, i < j
                PROVE  t[i] < t[j]
    BY <1>1 DEF Ordered
  <2>2. i \in 1..Len(s)
    BY <2>1
  <2>3. j \in 1..Len(s) \/ j = Len(s) + 1
    BY <2>1
  <2>. QED
    BY <1>1, <1>2, <2>1, <2>2, <2>3
<1>4. ASSUME NEW x
      PROVE  x \in ToSet(t) <=> x \in ToSet(s) \/ x = n
  <2>1. ASSUME x \in ToSet(t) PROVE x \in ToSet(s) \/ x = n
    <3>1. PICK i \in 1..Len(t) : t[i] = x
      BY <1>1, <2>1, InToSet
    <3>2. i \in 1..Len(s) \/ i = Len(s) + 1
      BY <1>1, InToSet
    <3>. QED
      BY <1>1, <3>1, <3>2, InToSet
  <2>2. ASSUME x \in ToSet(s) PROVE x \in ToSet(t)
    <3>1. PICK i \in 1..Len(s) : s[i] = x
      BY <2>2, InToSet
    <3>2. i \in 1..Len(t)
      BY <1>1, InToSet
    <3>. QED
      BY <1>1, <3>1, <3>2, InToSet
  <2>3. n \in ToSet(t)
    <3>1. Len(s) + 1 \in 1..Len(t)
      BY <1>1, InToSet
    <3>. QED
      BY <1>1, <3>1, InToSet
  <2>. QED
    BY <2>1, <2>2, <2>3
<1>5. ToSet(t) = ToSet(s) \union {n}
  BY <1>4
<1>. QED
  BY <1>3, <1>5 DEF t

LEMMA OrderedTail ==
    ASSUME NEW s \in Seq(Nat), Ordered(s), s # <<>>
    PROVE  /\ Ordered(Tail(s)) /\ ToSet(Tail(s)) = ToSet(s) \ {Head(s)}
           /\ Head(s) \in ToSet(s) /\ \A x \in ToSet(s) : Head(s) <= x
<1>. DEFINE t == Tail(s)
<1>1. /\ t \in Seq(Nat) /\ Len(t) = Len(s) - 1 /\ Head(s) = s[1]
      /\ \A i \in 1..Len(s) - 1 : t[i] = s[i + 1]
  BY HeadTailProperties
<1>2. Len(s) \in Nat /\ Len(s) > 0 /\ \A i \in 1..Len(s) : s[i] \in Nat
  BY InToSet, EmptySeq
<1>. HIDE DEF t
<1>3. Ordered(t)
  <2>. SUFFICES ASSUME NEW i \in 1..Len(s) - 1, NEW j \in 1..Len(s) - 1, i < j
                PROVE  t[i] < t[j]
    BY <1>1 DEF Ordered
  <2>1. i + 1 \in 1..Len(s) /\ j + 1 \in 1..Len(s) /\ i + 1 < j + 1
    BY <1>2
  <2>2. s[i + 1] < s[j + 1]
    BY <2>1 DEF Ordered
  <2>. QED
    BY <1>1, <2>2
<1>4. \A i \in 1..Len(s) : i = 1 \/ s[1] < s[i]
  BY <1>2 DEF Ordered
<1>5. Head(s) \in ToSet(s) /\ \A x \in ToSet(s) : Head(s) <= x
  <2>1. 1 \in 1..Len(s)
    BY <1>2
  <2>2. \A i \in 1..Len(s) : s[1] <= s[i]
    BY <1>2, <1>4, <2>1
  <2>. QED
    BY <1>1, <2>1, <2>2, InToSet
<1>6. ASSUME NEW x
      PROVE  x \in ToSet(t) <=> x \in ToSet(s) /\ x # Head(s)
  <2>1. ASSUME x \in ToSet(t) PROVE x \in ToSet(s) /\ x # Head(s)
    <3>1. PICK i \in 1..Len(t) : t[i] = x
      BY <1>1, <2>1, InToSet
    <3>2. i + 1 \in 1..Len(s) /\ s[i + 1] = x /\ i + 1 # 1
      BY <1>1, <1>2, <3>1
    <3>3. s[1] < s[i + 1]
      BY <1>4, <3>2
    <3>4. x # s[1]
      BY <1>2, <3>2, <3>3
    <3>. QED
      BY <1>1, <3>2, <3>4, InToSet
  <2>2. ASSUME x \in ToSet(s), x # Head(s) PROVE x \in ToSet(t)
    <3>1. PICK i \in 1..Len(s) : s[i] = x
      BY <2>2, InToSet
    <3>2. i - 1 \in 1..Len(t) /\ t[i - 1] = x
      BY <1>1, <1>2, <2>2, <3>1
    <3>. QED
      BY <1>1, <3>2, InToSet
  <2>. QED
    BY <2>1, <2>2
<1>7. ToSet(t) = ToSet(s) \ {Head(s)}
  BY <1>6
<1>. QED
  BY <1>3, <1>5, <1>7 DEF t

LEMMA EmptySet == Ordered(<<>>) /\ ToSet(<<>>) = {}
  BY DEF Ordered, ToSet

LEMMA OrderedRemove ==
    ASSUME NEW s \in Seq(Nat), Ordered(s), NEW i \in DOMAIN s
    PROVE  Ordered(RemoveAt(s, i)) /\ ToSet(RemoveAt(s, i)) = ToSet(s) \ {s[i]}
<1>. DEFINE t == RemoveAt(s, i)
            u == SubSeq(s, 1, i - 1)
            v == SubSeq(s, i + 1, Len(s))
<1>1. /\ Len(s) \in Nat /\ i \in 1..Len(s) /\ \A j \in 1..Len(s) : s[j] \in Nat
      /\ \A j, k \in 1..Len(s) : j < k => s[j] < s[k]
  BY InToSet DEF Ordered
<1>2. u \in Seq(Nat) /\ Len(u) = i - 1 /\ \A j \in 1..i - 1 : u[j] = s[j]
  BY <1>1, SubSeqProperties
<1>3. v \in Seq(Nat) /\ Len(v) = Len(s) - i /\ \A j \in 1..Len(s) - i : v[j] = s[j + i]
  <2>1. \A j \in i + 1..Len(s) : s[j] \in Nat
    BY <1>1
  <2>2. i + 1 \in Int /\ Len(s) \in Int
    BY <1>1
  <2>3. /\ v \in Seq(Nat)
        /\ Len(v) = IF i + 1 <= Len(s) THEN Len(s) - (i + 1) + 1 ELSE 0
        /\ \A j \in 1..Len(s) - (i + 1) + 1 : v[j] = s[(i + 1) + j - 1]
    BY <2>1, <2>2, SubSeqProperties
  <2>. HIDE DEF v
  <2>4. Len(v) = Len(s) - i
    BY <1>1, <2>3
  <2>5. ASSUME NEW j \in 1..Len(s) - i
        PROVE  v[j] = s[j + i]
    <3>1. j \in 1..Len(s) - (i + 1) + 1 /\ (i + 1) + j - 1 = j + i
      BY <1>1
    <3>. QED
      BY <2>3, <3>1
  <2>. QED
    BY <2>3, <2>4, <2>5
<1>4. t = u \o v
  BY DEF RemoveAt
<1>. HIDE DEF t, u, v
<1>5. /\ t \in Seq(Nat) /\ Len(t) = Len(s) - 1
      /\ \A j \in 1..Len(s) - 1 : t[j] = IF j < i THEN u[j] ELSE v[j - (i - 1)]
  <2>1. /\ t \in Seq(Nat) /\ Len(t) = Len(u) + Len(v)
        /\ \A j \in 1..Len(u) + Len(v) :
              t[j] = IF j <= Len(u) THEN u[j] ELSE v[j - Len(u)]
    BY <1>2, <1>3, <1>4, ConcatProperties
  <2>2. Len(u) + Len(v) = Len(s) - 1 /\ \A j \in Nat : j <= Len(u) <=> j < i
    BY <1>1, <1>2, <1>3
  <2>3. Len(u) = i - 1
    BY <1>2
  <2>4. ASSUME NEW j \in 1..Len(s) - 1
        PROVE  t[j] = IF j < i THEN u[j] ELSE v[j - (i - 1)]
    <3>1. j \in 1..Len(u) + Len(v) /\ (j <= i - 1 <=> j < i)
      BY <1>1, <2>2
    <3>. QED
      BY <2>1, <2>3, <3>1
  <2>. QED
    BY <2>1, <2>2, <2>4
<1>6. \A j \in 1..Len(s) - 1 : t[j] = IF j < i THEN s[j] ELSE s[j + 1]
  <2>. TAKE j \in 1..Len(s) - 1
  <2>1. CASE j < i
    BY <1>1, <1>2, <1>5, <2>1
  <2>2. CASE ~(j < i)
    <3>1. j - (i - 1) \in 1..Len(s) - i /\ (j - (i - 1)) + i = j + 1
      BY <1>1, <2>2
    <3>. QED
      BY <1>3, <1>5, <2>2, <3>1
  <2>. QED
    BY <2>1, <2>2
<1>7. Ordered(t)
  <2>. SUFFICES ASSUME NEW j \in 1..Len(s) - 1, NEW k \in 1..Len(s) - 1, j < k
                PROVE  t[j] < t[k]
    BY <1>5 DEF Ordered
  <2>. DEFINE old(n) == IF n < i THEN n ELSE n + 1
  <2>1. \A n \in 1..Len(s) - 1 : old(n) \in 1..Len(s) /\ t[n] = s[old(n)]
    BY <1>1, <1>6
  <2>2. old(j) < old(k)
    BY <1>1
  <2>. HIDE DEF old
  <2>. QED
    BY <1>1, <2>1, <2>2
<1>8. ASSUME NEW x
      PROVE  x \in ToSet(t) <=> x \in ToSet(s) /\ x # s[i]
  <2>1. ASSUME x \in ToSet(t) PROVE x \in ToSet(s) /\ x # s[i]
    <3>1. PICK j \in 1..Len(s) - 1 : t[j] = x
      BY <1>5, <2>1, InToSet
    <3>2. PICK k \in 1..Len(s) : k # i /\ s[k] = x
      <4>1. CASE j < i
        BY <1>1, <1>6, <3>1, <4>1
      <4>2. CASE ~(j < i)
        <5>1. j + 1 \in 1..Len(s) /\ j + 1 # i /\ s[j + 1] = x
          BY <1>1, <1>6, <3>1, <4>2
        <5>. QED
          BY <5>1
      <4>. QED
        BY <4>1, <4>2
    <3>3. k < i \/ i < k
      BY <1>1, <3>2
    <3>4. s[k] < s[i] \/ s[i] < s[k]
      BY <1>1, <3>3
    <3>5. s[k] # s[i]
      BY <1>1, <3>4
    <3>. QED
      BY <3>2, <3>5, InToSet
  <2>2. ASSUME x \in ToSet(s), x # s[i] PROVE x \in ToSet(t)
    <3>1. PICK j \in 1..Len(s) : s[j] = x /\ j # i
      BY <2>2, InToSet
    <3>2. CASE j < i
      <4>1. j \in 1..Len(t) /\ t[j] = x
        BY <1>1, <1>5, <1>6, <3>1, <3>2
      <4>. QED
        BY <1>5, <4>1, InToSet
    <3>3. CASE i < j
      <4>1. j - 1 \in 1..Len(t) /\ t[j - 1] = x
        <5>1. j - 1 \in 1..Len(s) - 1 /\ ~(j - 1 < i) /\ (j - 1) + 1 = j
          BY <1>1, <3>1, <3>3
        <5>. QED
          BY <1>5, <1>6, <3>1, <5>1
      <4>. QED
        BY <1>5, <4>1, InToSet
    <3>. QED
      BY <1>1, <3>1, <3>2, <3>3
  <2>. QED
    BY <2>1, <2>2
<1>9. ToSet(t) = ToSet(s) \ {s[i]}
  BY <1>8
<1>. QED
  BY <1>7, <1>9 DEF t

LEMMA ToSetConcat ==
    ASSUME NEW s \in Seq(Nat), NEW t \in Seq(Nat)
    PROVE  ToSet(s \o t) = ToSet(s) \union ToSet(t)
<1>. DEFINE u == s \o t
<1>1. /\ u \in Seq(Nat) /\ Len(u) = Len(s) + Len(t) /\ Len(s) \in Nat /\ Len(t) \in Nat
      /\ \A i \in 1..Len(u) : u[i] = IF i <= Len(s) THEN s[i] ELSE t[i - Len(s)]
  BY ConcatProperties, InToSet
<1>. HIDE DEF u
<1>2. ASSUME NEW x
      PROVE  x \in ToSet(u) <=> x \in ToSet(s) \/ x \in ToSet(t)
  <2>1. ASSUME x \in ToSet(u) PROVE x \in ToSet(s) \/ x \in ToSet(t)
    <3>1. PICK i \in 1..Len(u) : u[i] = x
      BY <1>1, <2>1, InToSet
    <3>2. \/ i \in 1..Len(s) /\ s[i] = x
          \/ i - Len(s) \in 1..Len(t) /\ t[i - Len(s)] = x
      BY <1>1, <3>1
    <3>. QED
      BY <3>2, InToSet
  <2>2. ASSUME x \in ToSet(s) PROVE x \in ToSet(u)
    <3>1. PICK i \in 1..Len(s) : s[i] = x
      BY <2>2, InToSet
    <3>2. i \in 1..Len(u) /\ u[i] = x
      BY <1>1, <3>1
    <3>. QED
      BY <1>1, <3>2, InToSet
  <2>3. ASSUME x \in ToSet(t) PROVE x \in ToSet(u)
    <3>1. PICK i \in 1..Len(t) : t[i] = x
      BY <2>3, InToSet
    <3>2. Len(s) + i \in 1..Len(u) /\ ~(Len(s) + i <= Len(s)) /\ Len(s) + i - Len(s) = i
      BY <1>1, <3>1
    <3>3. u[Len(s) + i] = x
      BY <1>1, <3>1, <3>2
    <3>. QED
      BY <1>1, <3>2, <3>3, InToSet
  <2>. QED
    BY <2>1, <2>2, <2>3
<1>. QED
  BY <1>2 DEF u

------------------------------------------------------------------------------
(* The inbox.  A list holds, in the order they were queued, the messages   *)
(* that were sent to it and met no fate; a message is claimed for the open *)
(* turn or for an earlier one.                                             *)

Waits(list) == {m \in DOMAIN mail : mail[m].fate = "pending" /\ mail[m].list = list}

Queued ==
    /\ Ordered(nextTurn) /\ ToSet(nextTurn) = Waits("next-turn")
    /\ Ordered(nextStep) /\ ToSet(nextStep) = Waits("next-step")

(* Nothing is claimed for a turn before its first claim.                   *)
Claiming == phase.kind = "running" /\ pc[phase.activity] = "claim" /\ run.target = "next-turn"

Dated ==
    /\ \A m \in DOMAIN mail :
          mail[m].turn <= phase.turn /\ (mail[m].fate = "pending" => mail[m].turn = 0)
    /\ Claiming => \A m \in DOMAIN mail : mail[m].turn < phase.turn

Received == Queued /\ Dated

LEMMA LettersNumbered ==
    ASSUME TypeOK
    PROVE  /\ \A m \in DOMAIN mail : m \in Nat /\ mail[m] \in Letters /\ mail[m].turn \in Nat
           /\ phase.turn \in Nat /\ Len(mail) \in Nat /\ DOMAIN mail = 1..Len(mail)
<1>1. Len(mail) \in Nat /\ DOMAIN mail = 1..Len(mail) /\ phase.turn \in Nat
  BY LenProperties DEF TypeOK, Phases
<1>2. \A m \in DOMAIN mail : mail[m] \in Letters
  BY ElementOfSeq DEF TypeOK
<1>3. \A m \in DOMAIN mail : mail[m].turn \in Nat
  BY <1>2 DEF Letters
<1>4. \A m \in DOMAIN mail : m \in Nat
  BY <1>1
<1>. QED
  BY <1>1, <1>2, <1>3, <1>4

(* Only turn() and its continuations move a driver to a claim.             *)
NoNewClaim ==
    \A a \in DOMAIN pc' : pc'[a] = "claim" => a \in DOMAIN pc /\ pc[a] = "claim"

LEMMA ClaimingStays ==
    ASSUME OneDriver, OneDriver', run'.target = run.target, NoNewClaim
    PROVE  Claiming' => Claiming
<1>1. "claim" \in Driving
  BY DEF Driving, Sync
<1>. QED
  BY <1>1 DEF Claiming, NoNewClaim, OneDriver, Running

LEMMA GotoNoClaim ==
    ASSUME TypeOK, NEW d \in DOMAIN pc, NEW location, Goto(d, location), location # "claim"
    PROVE  NoNewClaim
  BY DEF NoNewClaim, Goto

LEMMA StartNoClaim ==
    ASSUME TypeOK, NEW acts \in Seq(Locations), NEW location, location # "claim",
           pc' = Append(acts, location),
           \A a \in DOMAIN acts : acts[a] = "claim" => a \in DOMAIN pc /\ pc[a] = "claim"
    PROVE  NoNewClaim
<1>1. \A a \in DOMAIN pc' : (a \in DOMAIN acts /\ pc'[a] = acts[a]) \/ pc'[a] = location
  BY AppendProperties
<1>. QED
  BY <1>1 DEF NoNewClaim

LEMMA WakeNoClaim ==
    ASSUME TypeOK, NEW late, NEW calls, WakeDriver(late, calls)
    PROVE  NoNewClaim
<1>1. pc \in Seq(Locations)
  BY DEF TypeOK
<1>. QED
  BY <1>1, StartNoClaim DEF WakeDriver, StartDriver, NoNewClaim

LEMMA WakeTurn ==
    ASSUME TypeOK, NEW late, NEW calls, WakeDriver(late, calls)
    PROVE  phase'.turn = phase.turn
<1>1. phase' = [phase EXCEPT !.wakeRequested = @ \/ Latches(phase, late)]
      \/ StartDriver(phase, pc, calls)
  BY DEF WakeDriver
<1>. QED
  BY <1>1 DEF StartDriver, TypeOK, Phases

LEMMA StillClaiming ==
    ASSUME OneDriver, OneDriver', run'.target = run.target, pc' = pc
    PROVE  Claiming' => Claiming
  BY ClaimingStays DEF NoNewClaim

------------------------------------------------------------------------------
(* No fate changes.                                                        *)
SameMail ==
    /\ DOMAIN mail' = DOMAIN mail
    /\ \A m \in DOMAIN mail :
          /\ mail'[m].list = mail[m].list /\ mail'[m].fate = mail[m].fate
          /\ mail'[m].turn = mail[m].turn

LEMMA SameWaits ==
    ASSUME SameMail
    PROVE  Waits("next-turn")' = Waits("next-turn") /\ Waits("next-step")' = Waits("next-step")
  BY DEF Waits, SameMail

LEMMA MailKept ==
    ASSUME TypeOK
    PROVE  /\ mail' = mail => SameMail
           /\ mail' = Met(mail) => SameMail
  BY MetKeeps DEF SameMail, TypeOK

LEMMA ReceivedStays ==
    ASSUME Received, SameMail, nextTurn' = nextTurn, nextStep' = nextStep,
           phase'.turn = phase.turn, Claiming' => Claiming
    PROVE  Received'
<1>1. Queued'
  BY SameWaits DEF Received, Queued
<1>2. Dated'
  BY DEF Received, Dated, SameMail
<1>. QED
  BY <1>1, <1>2 DEF Received

LEMMA ReceivedInserts ==
    ASSUME TypeOK, Received, NEW target \in Targets, NEW wake,
           Insert(target, wake), phase' = phase, Claiming' => Claiming, ~Claiming
    PROVE  Received'
<1>. DEFINE new == Len(mail) + 1
<1>1. /\ DOMAIN mail' = DOMAIN mail \union {new}
      /\ \A m \in DOMAIN mail : mail'[m] = mail[m]
      /\ mail'[new].list = target /\ mail'[new].fate = "pending" /\ mail'[new].turn = 0
  <2>1. /\ DOMAIN mail' = DOMAIN mail \union {new}
        /\ \A m \in DOMAIN mail : mail'[m] = mail[m]
        /\ mail'[new] = [list |-> target, fate |-> "pending", turn |-> 0,
                         promise |-> PromiseTo(wake)]
    BY InsertKeeps
  <2>. HIDE DEF new
  <2>. QED
    BY <2>1
<1>2. /\ new \in Nat /\ \A m \in DOMAIN mail : m < new
      /\ nextTurn \in Seq(Nat) /\ nextStep \in Seq(Nat)
  <2>1. Len(mail) \in Nat /\ DOMAIN mail = 1..Len(mail)
    BY LettersNumbered
  <2>2. \A m \in 1..Len(mail) : m < new
    BY <2>1
  <2>. QED
    BY <2>1, <2>2 DEF TypeOK
<1>. HIDE DEF new
<1>3. Dated'
  <2>1. 0 <= phase'.turn
    BY LettersNumbered
  <2>. QED
    BY <1>1, <2>1 DEF Received, Dated
<1>4. \A list : Waits(list)' = IF list = target THEN Waits(list) \union {new} ELSE Waits(list)
  <2>. TAKE list
  <2>1. new \notin DOMAIN mail
    BY <1>2
  <2>2. \A m : m \in Waits(list)' <=> m \in Waits(list) \/ (m = new /\ list = target)
    BY <1>1, <2>1 DEF Waits
  <2>. QED
    BY <2>2
<1>5. \A list : \A m \in Waits(list) : m < new
  BY <1>2 DEF Waits
<1>6. Queued'
  <2>1. CASE target = "next-turn"
    <3>1. nextTurn' = Append(nextTurn, new) /\ nextStep' = nextStep
      BY <2>1 DEF Insert, AtEnd, new
    <3>2. Ordered(nextTurn') /\ ToSet(nextTurn') = ToSet(nextTurn) \union {new}
      BY <1>2, <1>5, <3>1, OrderedAppend DEF Received, Queued
    <3>. QED
      BY <1>4, <2>1, <3>1, <3>2 DEF Received, Queued
  <2>2. CASE target = "next-step"
    <3>1. nextStep' = Append(nextStep, new) /\ nextTurn' = nextTurn
      BY <2>2 DEF Insert, AtEnd, new
    <3>2. Ordered(nextStep') /\ ToSet(nextStep') = ToSet(nextStep) \union {new}
      BY <1>2, <1>5, <3>1, OrderedAppend DEF Received, Queued
    <3>. QED
      BY <1>4, <2>2, <3>1, <3>2 DEF Received, Queued
  <2>. QED
    BY <2>1, <2>2 DEF Targets
<1>. QED
  BY <1>3, <1>6 DEF Received

(* Some pending messages leave their lists with one fate.                  *)
Settle(messages, fate, turn) ==
    /\ DOMAIN mail' = DOMAIN mail
    /\ \A m \in DOMAIN mail :
          /\ mail'[m].list = mail[m].list
          /\ mail'[m].fate = IF m \in messages THEN fate ELSE mail[m].fate
          /\ mail'[m].turn = IF m \in messages THEN turn ELSE mail[m].turn

LEMMA ReceivedSettles ==
    ASSUME TypeOK, Received, NEW messages, NEW fate \in {"claimed", "discarded"},
           NEW turn \in {0, phase.turn}, Settle(messages, fate, turn),
           phase'.turn = phase.turn, ~Claiming',
           Ordered(nextTurn'), ToSet(nextTurn') = ToSet(nextTurn) \ messages,
           Ordered(nextStep'), ToSet(nextStep') = ToSet(nextStep) \ messages
    PROVE  Received'
<1>1. phase.turn \in Nat
  BY LettersNumbered
<1>2. Dated'
  BY <1>1 DEF Received, Dated, Settle
<1>3. ASSUME NEW list
      PROVE  Waits(list)' = Waits(list) \ messages
  BY DEF Waits, Settle
<1>. QED
  BY <1>2, <1>3 DEF Received, Queued

------------------------------------------------------------------------------
(* Every step keeps the lists and the fates in step.                       *)

LEMMA ClearSettles ==
    ASSUME TypeOK, Received, NEW cause, CancelClear(cause)
    PROVE  Settle(ToSet(nextStep) \union ToSet(nextTurn), "discarded", 0)
<1>. DEFINE messages == ToSet(nextStep) \union ToSet(nextTurn)
<1>1. ToSet(nextStep \o nextTurn) = messages
  BY ToSetConcat DEF TypeOK
<1>2. \A m \in DOMAIN mail : m \in messages => mail[m].turn = 0
  BY DEF Received, Queued, Dated, Waits
<1>3. \A m \in DOMAIN mail : mail[m] \in Letters
  BY LettersNumbered
<1>4. mail' = [m \in DOMAIN mail |-> IF m \in messages
                 THEN [mail[m] EXCEPT !.fate = "discarded", !.promise = "none"] ELSE mail[m]]
  BY <1>1 DEF CancelClear
<1>. HIDE DEF messages
<1>5. Settle(messages, "discarded", 0)
  BY <1>2, <1>3, <1>4 DEF Settle, Letters
<1>. QED
  BY <1>5 DEF messages

LEMMA RemoveSettles ==
    ASSUME TypeOK, Received, NEW m \in DOMAIN mail, Remove_(m)
    PROVE  mail[m].fate = "pending" /\ Settle({m}, "discarded", 0)
<1>1. m \in ToSet(nextTurn) \union ToSet(nextStep)
  BY DEF Remove_, ToSet
<1>2. mail[m].fate = "pending" /\ mail[m].turn = 0
  BY <1>1 DEF Received, Queued, Dated, Waits
<1>3. \A n \in DOMAIN mail : mail[n] \in Letters
  BY LettersNumbered
<1>4. mail' = [mail EXCEPT ![m].fate = "discarded", ![m].promise = "none"]
  BY DEF Remove_
<1>. QED
  BY <1>2, <1>3, <1>4 DEF Settle, Letters

LEMMA ClientReceived ==
    ASSUME TypeOK, OneDriver, OneDriver', Received, Client
    PROVE  Received'
<1>0. phase \in Phases /\ nextTurn \in Seq(Nat) /\ nextStep \in Seq(Nat)
  BY DEF TypeOK
<1>1. CanCall => ~Claiming
  BY SyncOwner DEF CanCall, Claiming, Sync
<1>2. ASSUME NEW target \in Targets, NEW wake \in BOOLEAN, Send(target, wake)
      PROVE  Received'
  <2>1. PICK chosen \in Targets : Insert(chosen, wake)
    BY <1>2 DEF Send, Targets
  <2>. QED
    BY <1>1, <1>2, <2>1, ReceivedInserts, StillClaiming DEF Send
<1>3. ASSUME NEW cause, NEW keepInbox, Abort(cause, keepInbox, mail),
             UNCHANGED <<run, pc, nextTurn, nextStep>>
      PROVE  Received'
  BY <1>3, AbortKeeps, StillClaiming, ReceivedStays DEF SameMail
<1>4. ASSUME NEW cause \in Causes, NEW keepInbox \in BOOLEAN, Cancel(cause, keepInbox)
      PROVE  Received'
  BY <1>3, <1>4 DEF Cancel
<1>5. ASSUME NEW cause \in Causes, CancelClear(cause)
      PROVE  Received'
  <2>1. ~Claiming'
    BY <1>1, <1>5, StillClaiming DEF CancelClear
  <2>. DEFINE messages == ToSet(nextStep) \union ToSet(nextTurn)
  <2>2. Settle(messages, "discarded", 0)
    BY <1>5, ClearSettles
  <2>3. nextTurn' = <<>> /\ nextStep' = <<>> /\ phase' = phase
    BY <1>5 DEF CancelClear
  <2>4. /\ Ordered(nextTurn') /\ ToSet(nextTurn') = ToSet(nextTurn) \ messages
        /\ Ordered(nextStep') /\ ToSet(nextStep') = ToSet(nextStep) \ messages
    BY <2>3, EmptySet
  <2>. HIDE DEF messages
  <2>. QED
    BY <2>1, <2>2, <2>3, <2>4, ReceivedSettles
<1>6. ASSUME NEW keepInbox \in BOOLEAN, CancelInAppend(keepInbox)
      PROVE  Received'
  BY <1>3, <1>6 DEF CancelInAppend
<1>7. CASE DisposeFromAppend
  <2>1. CASE mail' = mail /\ phase' = phase
    BY <1>7, <2>1, MailKept, StillClaiming, ReceivedStays DEF DisposeFromAppend
  <2>2. CASE Abort("disposed", FALSE, mail)
    BY <1>3, <1>7, <2>2 DEF DisposeFromAppend
  <2>. QED
    BY <1>7, <2>1, <2>2 DEF DisposeFromAppend
<1>8. ASSUME NEW m \in DOMAIN mail, Remove_(m)
      PROVE  Received'
  <2>1. ~Claiming'
    BY <1>1, <1>8, StillClaiming DEF Remove_
  <2>2. \/ \E i \in DOMAIN nextTurn : /\ nextTurn[i] = m
                                      /\ nextTurn' = RemoveAt(nextTurn, i)
                                      /\ nextStep' = nextStep
        \/ \E i \in DOMAIN nextStep : /\ nextStep[i] = m
                                      /\ nextStep' = RemoveAt(nextStep, i)
                                      /\ nextTurn' = nextTurn
    BY <1>8 DEF Remove_
  <2>3. \A x \in ToSet(nextTurn) : x \notin ToSet(nextStep)
    BY DEF Received, Queued, Waits
  <2>4. /\ Ordered(nextTurn') /\ ToSet(nextTurn') = ToSet(nextTurn) \ {m}
        /\ Ordered(nextStep') /\ ToSet(nextStep') = ToSet(nextStep) \ {m}
    <3>1. CASE \E i \in DOMAIN nextTurn : /\ nextTurn[i] = m
                                          /\ nextTurn' = RemoveAt(nextTurn, i)
                                          /\ nextStep' = nextStep
      <4>1. PICK i \in DOMAIN nextTurn : nextTurn[i] = m /\ nextTurn' = RemoveAt(nextTurn, i)
        BY <3>1
      <4>2. m \in ToSet(nextTurn)
        BY <4>1 DEF ToSet
      <4>. QED
        BY <1>0, <2>3, <3>1, <4>1, <4>2, OrderedRemove DEF Received, Queued
    <3>2. CASE \E i \in DOMAIN nextStep : /\ nextStep[i] = m
                                          /\ nextStep' = RemoveAt(nextStep, i)
                                          /\ nextTurn' = nextTurn
      <4>1. PICK i \in DOMAIN nextStep : nextStep[i] = m /\ nextStep' = RemoveAt(nextStep, i)
        BY <3>2
      <4>2. m \in ToSet(nextStep)
        BY <4>1 DEF ToSet
      <4>. QED
        BY <1>0, <2>3, <3>2, <4>1, <4>2, OrderedRemove DEF Received, Queued
    <3>. QED
      BY <2>2, <3>1, <3>2
  <2>5. Settle({m}, "discarded", 0)
    BY <1>8, RemoveSettles
  <2>. QED
    BY <1>8, <2>1, <2>4, <2>5, ReceivedSettles DEF Remove_
<1>9. CASE RunMaintenance
  <2>1. NoNewClaim
    BY <1>9, StartNoClaim DEF RunMaintenance, TypeOK
  <2>2. phase'.turn = phase.turn
    BY <1>0, <1>9 DEF RunMaintenance, Phases
  <2>. QED
    BY <1>9, <2>1, <2>2, ClaimingStays, MailKept, ReceivedStays DEF RunMaintenance
<1>. QED
  BY <1>2, <1>4, <1>5, <1>6, <1>7, <1>8, <1>9 DEF Client

LEMMA ReturnReceived ==
    ASSUME TypeOK, OneDriver, OneDriver', Received, Return
    PROVE  Received'
<1>0. phase \in Phases
  BY DEF TypeOK
<1>1. CASE FinishSend \/ FinishRetire
  <2>1. \/ WakeDriver(Classified(Head(stack)), Tail(stack))
        \/ WakeDriver(FALSE, Tail(stack))
        \/ phase' = phase /\ pc' = pc
    BY <1>1 DEF FinishSend, FinishRetire
  <2>2. NoNewClaim
    BY <2>1, WakeNoClaim DEF NoNewClaim
  <2>3. phase'.turn = phase.turn
    BY <2>1, WakeTurn
  <2>. QED
    BY <1>1, <2>2, <2>3, ClaimingStays, MailKept, ReceivedStays DEF FinishSend, FinishRetire
<1>2. CASE FinishCancel
  BY <1>2, AbortKeeps, StillClaiming, ReceivedStays DEF FinishCancel, SameMail
<1>3. CASE FinishStart \/ FinishError
  <2>1. NoNewClaim
    BY <1>3 DEF FinishStart, FinishError, NoNewClaim, Goto, TypeOK
  <2>. QED
    BY <1>3, <2>1, ClaimingStays, MailKept, ReceivedStays DEF FinishStart, FinishError
<1>. QED
  BY <1>1, <1>2, <1>3 DEF Return

LEMMA Batched ==
    ASSUME TypeOK, Received, NEW target \in Targets
    PROVE  LET followups == IF TakesTurn(target) THEN {Head(nextTurn)} ELSE {}
           IN  /\ ToSet(Batch(target)) = Waits("next-step") \union followups
               /\ followups \subseteq Waits("next-turn")
               /\ \A m \in followups, n \in Waits("next-turn") : m <= n
               /\ Ordered(Unclaimed(target))
               /\ ToSet(Unclaimed(target)) = ToSet(nextTurn) \ followups
<1>0. /\ nextTurn \in Seq(Nat) /\ nextStep \in Seq(Nat)
      /\ Ordered(nextTurn) /\ ToSet(nextTurn) = Waits("next-turn")
      /\ ToSet(nextStep) = Waits("next-step")
  BY DEF TypeOK, Received, Queued
<1>1. CASE TakesTurn(target)
  <2>1. /\ Head(nextTurn) \in Waits("next-turn")
        /\ \A n \in Waits("next-turn") : Head(nextTurn) <= n
        /\ Ordered(Tail(nextTurn)) /\ ToSet(Tail(nextTurn)) = ToSet(nextTurn) \ {Head(nextTurn)}
        /\ Head(nextTurn) \in Nat
    BY <1>0, <1>1, OrderedTail, TailInSeq DEF TakesTurn
  <2>2. ToSet(Batch(target)) = Waits("next-step") \union {Head(nextTurn)}
    <3>1. <<Head(nextTurn)>> \in Seq(Nat) /\ ToSet(<<Head(nextTurn)>>) = {Head(nextTurn)}
      BY <2>1 DEF ToSet
    <3>2. Batch(target) = nextStep \o <<Head(nextTurn)>>
      BY <1>1 DEF Batch
    <3>. QED
      BY <1>0, <3>1, <3>2, ToSetConcat
  <2>. QED
    BY <1>1, <2>1, <2>2 DEF Unclaimed
<1>2. CASE ~TakesTurn(target)
  <2>1. Batch(target) = nextStep
    BY <1>0, <1>2, ConcatEmptySeq DEF Batch
  <2>. QED
    BY <1>0, <1>2, <2>1 DEF Unclaimed
<1>. QED
  BY <1>1, <1>2

LEMMA ClaimSettles ==
    ASSUME TypeOK, NEW d, Claim(d)
    PROVE  Settle(ToSet(Batch(run.target)), "claimed", phase.turn)
<1>1. \A m \in DOMAIN mail : mail[m] \in Letters
  BY LettersNumbered
<1>. QED
  BY <1>1 DEF Claim, Settle, Letters

LEMMA ClaimReceived ==
    ASSUME TypeOK, OneDriver, OneDriver', Received, NEW d \in DOMAIN pc, Claim(d)
    PROVE  Received'
<1>. DEFINE messages == ToSet(Batch(run.target))
<1>1. ~Claiming'
  <2>1. pc[d] = "claim" /\ pc' = [pc EXCEPT ![d] = "preStep"] /\ phase' = phase
    BY DEF Claim, At, Goto
  <2>2. phase.activity = d
    BY <2>1, DriverOwns DEF Driving, Sync
  <2>. QED
    BY <2>1, <2>2 DEF Claiming
<1>2. Settle(messages, "claimed", phase.turn)
  BY ClaimSettles
<1>3. /\ nextTurn' = Unclaimed(run.target) /\ nextStep' = <<>> /\ phase' = phase
      /\ run.target \in Targets
  BY DEF Claim, TypeOK, Runs
<1>4. /\ Ordered(nextTurn') /\ ToSet(nextTurn') = ToSet(nextTurn) \ messages
      /\ Ordered(nextStep') /\ ToSet(nextStep') = ToSet(nextStep) \ messages
  <2>1. /\ ToSet(nextTurn) = Waits("next-turn") /\ ToSet(nextStep) = Waits("next-step")
        /\ \A m \in Waits("next-turn") : m \notin Waits("next-step")
    BY DEF Received, Queued, Waits
  <2>. DEFINE followups == IF TakesTurn(run.target) THEN {Head(nextTurn)} ELSE {}
  <2>2. /\ messages = Waits("next-step") \union followups
        /\ Ordered(nextTurn') /\ ToSet(nextTurn') = ToSet(nextTurn) \ followups
    BY <1>3, Batched
  <2>. HIDE DEF messages, followups
  <2>3. Ordered(nextStep') /\ ToSet(nextStep') = {}
    BY <1>3, EmptySet
  <2>. QED
    BY <2>1, <2>2, <2>3
<1>. HIDE DEF messages
<1>. QED
  BY <1>1, <1>2, <1>3, <1>4, ReceivedSettles

LEMMA SynchronousReceived ==
    ASSUME TypeOK, OneDriver, OneDriver', Received, NEW d \in DOMAIN pc, Synchronous(d)
    PROVE  Received'
<1>0. phase \in Phases /\ pc \in Seq(Locations) /\ run \in Runs
  BY DEF TypeOK
<1>1. CASE Open(d)
  <2>1. CASE Aborted
    <3>1. NoNewClaim
      BY <1>1, <2>1, GotoNoClaim DEF Open
    <3>. QED
      BY <1>1, <2>1, <3>1, ClaimingStays, MailKept, ReceivedStays DEF Open
  <2>2. CASE ~Aborted
    <3>1. SameMail /\ nextTurn' = nextTurn /\ nextStep' = nextStep
      BY <1>1, <2>2, MailKept DEF Open
    <3>2. phase'.turn = phase.turn + 1
      BY <1>0, <1>1, <2>2 DEF Open, Phases
    <3>3. Queued'
      BY <3>1, SameWaits DEF Received, Queued
    <3>4. \A m \in DOMAIN mail :
             /\ mail[m].turn <= phase.turn /\ mail[m].turn \in Nat /\ phase.turn \in Nat
             /\ mail[m].fate = "pending" => mail[m].turn = 0
      BY LettersNumbered DEF Received, Dated
    <3>5. Dated'
      BY <3>1, <3>2, <3>4 DEF Dated, SameMail
    <3>. QED
      BY <3>3, <3>5 DEF Received
  <2>. QED
    BY <2>1, <2>2
<1>2. CASE StepBoundary(d)
  <2>1. ~Claiming' \/ (NoNewClaim /\ run' = run)
    <3>1. CASE run.turnEnds # NoEnd /\ nextStep = <<>>
      BY <1>2, <3>1, GotoNoClaim DEF StepBoundary
    <3>2. CASE ~(run.turnEnds # NoEnd /\ nextStep = <<>>)
      <4>1. run' = [run EXCEPT !.target = "next-step"]
        BY <1>2, <3>2 DEF StepBoundary, NextTarget, Goto
      <4>2. run'.target = "next-step"
        BY <1>0, <4>1 DEF Runs
      <4>. QED
        BY <4>2 DEF Claiming
    <3>. QED
      BY <3>1, <3>2
  <2>. QED
    BY <1>2, <2>1, ClaimingStays, MailKept, ReceivedStays DEF StepBoundary
<1>3. CASE Claim(d)
  BY <1>3, ClaimReceived
<1>4. CASE Retire(d)
  <2>1. Running(d)
    BY <1>4, DriverOwns DEF Retire, At, Driving, Sync, Running
  <2>2. phase'.kind = "idle" /\ phase'.turn = phase.turn
    BY <1>4, <2>1 DEF Retire, RetireRunning
  <2>. QED
    BY <1>4, <2>2, MailKept, ReceivedStays DEF Retire, Claiming
<1>5. CASE Veto(d) \/ EndStep(d) \/ SyncThrows(d) \/ Catch(d) \/ EndTurn(d) \/ Continue(d)
  <2>1. NoNewClaim
    BY <1>0, <1>5 DEF Veto, EndStep, SyncThrows, Catch, EndTurn, Continue, Throw, FailsTo,
                      NoNewClaim, Goto
  <2>2. phase'.turn = phase.turn /\ run'.target = run.target
    BY <1>0, <1>5 DEF Veto, EndStep, SyncThrows, Catch, EndTurn, Continue, Throw, Phases, Runs
  <2>3. mail' = mail \/ mail' = Met(mail)
    BY <1>5 DEF Veto, EndStep, SyncThrows, Catch, EndTurn, Continue, Throw
  <2>4. nextTurn' = nextTurn /\ nextStep' = nextStep
    BY <1>5 DEF Veto, EndStep, SyncThrows, Catch, EndTurn, Continue, Throw
  <2>. QED
    BY <2>1, <2>2, <2>3, <2>4, ClaimingStays, MailKept, ReceivedStays
<1>. QED
  BY <1>1, <1>2, <1>3, <1>4, <1>5 DEF Synchronous

LEMMA ResumeReceived ==
    ASSUME TypeOK, OneDriver, OneDriver', Received, NEW d \in DOMAIN pc, Resume(d)
    PROVE  Received'
<1>0. phase \in Phases /\ pc \in Seq(Locations) /\ run \in Runs
  BY DEF TypeOK
<1>1. CASE AcceptContext(d)
  <2>1. ~Claiming
    BY <1>1, SyncOwner DEF AcceptContext, Quiet, Claiming, Sync
  <2>. QED
    BY <1>1, <2>1, StillClaiming, ReceivedInserts DEF AcceptContext, Targets
<1>2. CASE Stopped(d)
  <2>1. ~Claiming' \/ (NoNewClaim /\ run' = run)
    <3>1. CASE nextStep = <<>>
      BY <1>2, <3>1, GotoNoClaim DEF Stopped
    <3>2. CASE nextStep # <<>>
      <4>1. run' = [run EXCEPT !.target = "next-step"]
        BY <1>2, <3>2 DEF Stopped, NextTarget, Goto
      <4>2. run'.target = "next-step"
        BY <1>0, <4>1 DEF Runs
      <4>. QED
        BY <4>2 DEF Claiming
    <3>. QED
      BY <3>1, <3>2
  <2>. QED
    BY <1>2, <2>1, ClaimingStays, MailKept, ReceivedStays DEF Stopped
<1>3. CASE Leave(d)
  <2>1. NoNewClaim /\ phase'.turn = phase.turn
    BY <1>0, <1>3 DEF Leave, RetireRunning, NoNewClaim
  <2>. QED
    BY <1>3, <2>1, ClaimingStays, MailKept, ReceivedStays DEF Leave
<1>4. CASE \/ Reject(d) \/ EnterEmpty(d) \/ CallTools(d) \/ AwaitThrows(d)
           \/ (\E messages \in BOOLEAN : StartStep(d, messages))
           \/ (\E end \in {"completed", "max-tokens"} : Respond(d, end))
           \/ (\E concluded \in BOOLEAN : FinishTools(d, concluded))
  <2>1. NoNewClaim
    BY <1>0, <1>4 DEF Reject, EnterEmpty, CallTools, AwaitThrows, StartStep, Respond,
                      FinishTools, Throw, FailsTo, NoNewClaim, Goto
  <2>2. phase'.turn = phase.turn /\ run'.target = run.target
    BY <1>0, <1>4 DEF Reject, EnterEmpty, CallTools, AwaitThrows, StartStep, Respond,
                      FinishTools, StepEnds, Throw, Phases, Runs
  <2>3. mail' = mail /\ nextTurn' = nextTurn /\ nextStep' = nextStep
    BY <1>4 DEF Reject, EnterEmpty, CallTools, AwaitThrows, StartStep, Respond,
                FinishTools, Throw
  <2>. QED
    BY <2>1, <2>2, <2>3, ClaimingStays, MailKept, ReceivedStays
<1>. QED
  BY <1>1, <1>2, <1>3, <1>4 DEF Resume

LEMMA ReceivedStep == TypeOK /\ OneDriver /\ OneDriver' /\ Received /\ [Next]_vars => Received'
<1>. SUFFICES ASSUME TypeOK, OneDriver, OneDriver', Received, [Next]_vars PROVE Received'
  OBVIOUS
<1>1. ASSUME NEW a \in DOMAIN pc, FinishMaintenance(a)
      PROVE  Received'
  <2>. DEFINE acts == [pc EXCEPT ![a] = "done"]
  <2>1. acts \in Seq(Locations) /\ DOMAIN acts = DOMAIN pc
    BY ExceptInSeq DEF TypeOK, Locations
  <2>2. \A b \in DOMAIN acts : acts[b] = "claim" => b \in DOMAIN pc /\ pc[b] = "claim"
    BY <2>1
  <2>. DEFINE idle == [phase EXCEPT !.kind = "idle", !.activity = 0, !.abort = NoAbort,
                                    !.wakeRequested = FALSE]
  <2>. HIDE DEF acts
  <2>3. \/ StartDriver(idle, acts, stack)
        \/ phase' = idle /\ pc' = acts
    BY <1>1 DEF FinishMaintenance, Resolved, acts
  <2>4. idle.turn = phase.turn
    BY DEF TypeOK, Phases
  <2>. HIDE DEF idle
  <2>5. NoNewClaim
    BY <2>1, <2>2, <2>3, StartNoClaim DEF NoNewClaim, StartDriver
  <2>6. phase'.turn = phase.turn
    BY <2>3, <2>4 DEF StartDriver
  <2>. QED
    BY <1>1, <2>5, <2>6, ClaimingStays, MailKept, ReceivedStays DEF FinishMaintenance
<1>2. CASE WhenIdle \/ Detach \/ UNCHANGED vars
  BY <1>2, StillClaiming, MailKept, ReceivedStays DEF WhenIdle, Detach, vars
<1>. QED
  BY <1>1, <1>2, ClientReceived, ReturnReceived, SynchronousReceived, ResumeReceived DEF Next

LEMMA ReceivedInit == Init => Received
<1>. SUFFICES ASSUME Init PROVE Received
  OBVIOUS
<1>1. nextTurn = <<>> /\ nextStep = <<>> /\ DOMAIN mail = {} /\ phase.kind = "idle"
  BY DEF Init
<1>2. \A list : Waits(list) = {}
  BY <1>1 DEF Waits
<1>. QED
  BY <1>1, <1>2, EmptySet DEF Received, Queued, Dated, Claiming

------------------------------------------------------------------------------
(* The refinement: what AgentInput sees of the mail.                       *)

View == [m \in DOMAIN mail |->
            [list |-> mail[m].list, fate |-> mail[m].fate, turn |-> mail[m].turn]]

LEMMA MapOfSeq ==
    ASSUME NEW S, NEW T, NEW s \in Seq(S), NEW g \in [DOMAIN s -> T]
    PROVE  g \in Seq(T) /\ Len(g) = Len(s)
<1>1. g \in Seq(T)
  BY MapInSeq
<1>2. /\ Len(g) \in Nat /\ Len(s) \in Nat
      /\ DOMAIN g = 1..Len(g) /\ DOMAIN s = 1..Len(s) /\ DOMAIN g = DOMAIN s
  BY <1>1, LenProperties
<1>3. \A n \in Nat : n \in 1..Len(g) <=> n \in 1..Len(s)
  BY <1>2
<1>4. Len(g) = 0 \/ Len(g) \in 1..Len(g)
  BY <1>2
<1>5. Len(s) = 0 \/ Len(s) \in 1..Len(s)
  BY <1>2
<1>6. Len(g) <= Len(s) /\ Len(s) <= Len(g)
  BY <1>2, <1>3, <1>4, <1>5
<1>. QED
  BY <1>1, <1>2, <1>6

LEMMA ViewStays ==
    ASSUME SameMail
    PROVE  View' = View
  BY DEF SameMail, View

LEMMA ViewAccepts ==
    ASSUME TypeOK, NEW target, NEW wake, Insert(target, wake)
    PROVE  View' = Append(View, [list |-> target, fate |-> "pending", turn |-> 0])
<1>. DEFINE S == [list : {mail'[m].list : m \in DOMAIN mail'} \union {target},
                  fate : {mail'[m].fate : m \in DOMAIN mail'} \union {"pending"},
                  turn : {mail'[m].turn : m \in DOMAIN mail'} \union {0}]
            new == Len(mail) + 1
            letter == [list |-> target, fate |-> "pending", turn |-> 0]
<1>1. /\ Len(mail) \in Nat /\ DOMAIN mail = 1..Len(mail) /\ mail \in Seq(Letters)
  BY LettersNumbered DEF TypeOK
<1>2. /\ DOMAIN mail' = DOMAIN mail \union {new}
      /\ \A m \in DOMAIN mail : mail'[m] = mail[m]
      /\ mail'[new] = [list |-> target, fate |-> "pending", turn |-> 0,
                       promise |-> PromiseTo(wake)]
  BY InsertKeeps
<1>3. letter \in S
  OBVIOUS
<1>4. /\ View \in [DOMAIN mail -> S] /\ View' \in [DOMAIN mail' -> S]
      /\ \A m \in DOMAIN mail : View'[m] = View[m]
      /\ View'[new] = letter
  BY <1>2 DEF View
<1>. HIDE DEF S, letter
<1>5. View \in Seq(S) /\ Len(View) = Len(mail)
  BY <1>1, <1>4, MapOfSeq
<1>6. /\ Append(View, letter) \in Seq(S) /\ Len(Append(View, letter)) = Len(mail) + 1
      /\ \A m \in 1..Len(mail) : Append(View, letter)[m] = View[m]
      /\ Append(View, letter)[Len(mail) + 1] = letter
  BY <1>3, <1>5, AppendProperties
<1>7. View' \in Seq(S) /\ Len(View') = Len(mail) + 1
  <2>1. mail' \in Seq(Letters \union {mail'[new]}) /\ Len(mail') = Len(mail) + 1
    <3>1. mail \in Seq(Letters \union {mail'[new]})
      BY <1>1, SeqMonotonic
    <3>2. mail' = Append(mail, mail'[new])
      BY <1>2 DEF Insert
    <3>. QED
      BY <3>1, <3>2, AppendProperties
  <2>. QED
    BY <1>4, <2>1, MapOfSeq
<1>8. \A m \in 1..Len(mail) + 1 : View'[m] = Append(View, letter)[m]
  <2>. TAKE m \in 1..Len(mail) + 1
  <2>1. m \in DOMAIN mail \/ m = new
    BY <1>1
  <2>. QED
    BY <1>1, <1>4, <1>6, <2>1
<1>9. View' = Append(View, letter)
  BY <1>6, <1>7, <1>8, SeqEqual
<1>. QED
  BY <1>9 DEF letter

Settled(messages, fate, turn) ==
    [m \in DOMAIN View |->
        IF m \in messages THEN [View[m] EXCEPT !.fate = fate, !.turn = turn] ELSE View[m]]

LEMMA ViewSettles ==
    ASSUME NEW messages, NEW fate, NEW turn, Settle(messages, fate, turn)
    PROVE  View' = Settled(messages, fate, turn)
  BY DEF Settle, View, Settled

LEMMA ViewLists ==
    /\ Input!Pending = {m \in DOMAIN mail : mail[m].fate = "pending"}
    /\ Input!Listed("next-turn") = Waits("next-turn")
    /\ Input!Listed("next-step") = Waits("next-step")
  BY DEF Input!Pending, Input!Listed, Waits

(* What one step of the driver is to AgentInput.                           *)
Serves == Input!Next \/ (View' = View /\ phase'.turn = phase.turn)

LEMMA ServesStutter ==
    ASSUME SameMail, phase'.turn = phase.turn
    PROVE  Serves
  BY ViewStays DEF Serves

LEMMA ServesInsert ==
    ASSUME TypeOK, NEW target \in Targets, NEW wake, Insert(target, wake), phase' = phase
    PROVE  Serves
<1>1. View' = Append(View, [list |-> target, fate |-> "pending", turn |-> 0])
  BY ViewAccepts
<1>. QED
  BY <1>1 DEF Serves, Input!Next, Input!Accept, View, Targets

LEMMA ServesDiscard ==
    ASSUME NEW messages, \A m \in messages : m \in DOMAIN mail /\ mail[m].fate = "pending",
           Settle(messages, "discarded", 0), phase' = phase
    PROVE  Serves
<1>1. messages \in SUBSET Input!Pending
  BY ViewLists
<1>2. Input!Outcome(messages, "discarded", 0)
  <2>1. View' = Settled(messages, "discarded", 0)
    BY ViewSettles
  <2>. QED
    BY <2>1, Zenon DEF Input!Outcome, View, Settled
<1>. QED
  BY <1>1, <1>2 DEF Serves, Input!Next, Input!Discard

LEMMA ServesClaim ==
    ASSUME TypeOK, OneDriver, Received, NEW d \in DOMAIN pc, Claim(d)
    PROVE  Serves
<1>. DEFINE followups == IF TakesTurn(run.target) THEN {Head(nextTurn)} ELSE {}
<1>1. /\ Settle(ToSet(Batch(run.target)), "claimed", phase.turn)
      /\ ToSet(Batch(run.target)) = Waits("next-step") \union followups
  BY ClaimSettles, Batched DEF TypeOK, Runs
<1>2. Input!Outcome(Input!Listed("next-step") \union followups, "claimed", phase.turn)
  <2>. DEFINE messages == ToSet(Batch(run.target))
  <2>. HIDE DEF followups, messages
  <2>1. View' = Settled(messages, "claimed", phase.turn)
    BY <1>1, ViewSettles DEF messages
  <2>2. messages = Input!Listed("next-step") \union followups
    BY <1>1, ViewLists DEF messages
  <2>. QED
    BY <2>1, <2>2, Zenon DEF Input!Outcome, View, Settled
<1>3. phase' = phase
  BY DEF Claim
<1>4. CASE ~TakesTurn(run.target)
  <2>1. followups = {}
    BY <1>4
  <2>. HIDE DEF followups
  <2>. QED
    BY <1>2, <1>3, <2>1 DEF Serves, Input!Next, Input!Claim
<1>5. CASE TakesTurn(run.target)
  <2>1. Claiming
    <3>1. pc[d] = "claim" /\ run.target = "next-turn"
      BY <1>5 DEF Claim, At, TakesTurn
    <3>. QED
      BY <3>1, DriverOwns DEF Claiming, Driving, Sync
  <2>2. ~Input!HasFollowup
    <3>1. \A m \in DOMAIN mail : mail[m].turn # phase.turn
      BY <2>1, LettersNumbered DEF Received, Dated
    <3>. QED
      BY <3>1 DEF Input!HasFollowup
  <2>3. followups = Input!Oldest(Input!Listed("next-turn"))
    <3>1. /\ Head(nextTurn) \in Waits("next-turn")
          /\ \A n \in Waits("next-turn") : Head(nextTurn) <= n
      BY <1>5, Batched DEF TypeOK, Runs
    <3>2. \A m \in Waits("next-turn") : m \in Nat
      BY LettersNumbered DEF Waits
    <3>3. {m \in Waits("next-turn") : \A n \in Waits("next-turn") : m <= n}
             = {Head(nextTurn)}
      BY <3>1, <3>2
    <3>. QED
      BY <1>5, <3>3, ViewLists DEF Input!Oldest
  <2>. HIDE DEF followups
  <2>. QED
    BY <1>2, <1>3, <2>2, <2>3 DEF Serves, Input!Next, Input!Claim
<1>. QED
  BY <1>4, <1>5

LEMMA ClientServes ==
    ASSUME TypeOK, Received, Client
    PROVE  Serves
<1>0. phase \in Phases /\ nextTurn \in Seq(Nat) /\ nextStep \in Seq(Nat)
  BY DEF TypeOK
<1>1. ASSUME NEW target \in Targets, NEW wake \in BOOLEAN, Send(target, wake)
      PROVE  Serves
  <2>1. PICK chosen \in Targets : Insert(chosen, wake)
    BY <1>1 DEF Send, Targets
  <2>. QED
    BY <1>1, <2>1, ServesInsert DEF Send
<1>2. ASSUME NEW cause, NEW keepInbox, Abort(cause, keepInbox, mail)
      PROVE  Serves
  BY <1>2, AbortKeeps, ServesStutter DEF SameMail
<1>3. ASSUME NEW cause \in Causes, CancelClear(cause)
      PROVE  Serves
  <2>. DEFINE messages == ToSet(nextStep) \union ToSet(nextTurn)
  <2>1. \A m \in messages : m \in DOMAIN mail /\ mail[m].fate = "pending"
    BY DEF Received, Queued, Waits
  <2>2. Settle(messages, "discarded", 0)
    BY <1>3, ClearSettles
  <2>. HIDE DEF messages
  <2>. QED
    BY <1>3, <2>1, <2>2, ServesDiscard DEF CancelClear
<1>4. CASE DisposeFromAppend
  <2>1. CASE mail' = mail /\ phase' = phase
    BY <2>1, MailKept, ServesStutter
  <2>. QED
    BY <1>2, <1>4, <2>1 DEF DisposeFromAppend
<1>5. ASSUME NEW m \in DOMAIN mail, Remove_(m)
      PROVE  Serves
  <2>1. mail[m].fate = "pending" /\ Settle({m}, "discarded", 0)
    BY <1>5, RemoveSettles
  <2>. QED
    BY <1>5, <2>1, ServesDiscard DEF Remove_
<1>6. CASE RunMaintenance
  <2>1. phase'.turn = phase.turn
    BY <1>0, <1>6 DEF RunMaintenance, Phases
  <2>. QED
    BY <1>6, <2>1, MailKept, ServesStutter DEF RunMaintenance
<1>. QED
  BY <1>1, <1>2, <1>3, <1>4, <1>5, <1>6 DEF Client, Cancel, CancelInAppend

LEMMA ReturnServes ==
    ASSUME TypeOK, Return
    PROVE  Serves
<1>1. CASE FinishSend \/ FinishRetire
  <2>1. \/ WakeDriver(Classified(Head(stack)), Tail(stack))
        \/ WakeDriver(FALSE, Tail(stack))
        \/ phase' = phase
    BY <1>1 DEF FinishSend, FinishRetire
  <2>2. phase'.turn = phase.turn
    BY <2>1, WakeTurn
  <2>. QED
    BY <1>1, <2>2, MailKept, ServesStutter DEF FinishSend, FinishRetire
<1>2. CASE FinishCancel
  BY <1>2, AbortKeeps, ServesStutter DEF FinishCancel, SameMail
<1>3. CASE FinishStart \/ FinishError
  BY <1>3, MailKept, ServesStutter DEF FinishStart, FinishError
<1>. QED
  BY <1>1, <1>2, <1>3 DEF Return

LEMMA DriverServes ==
    ASSUME TypeOK, OneDriver, Received, NEW d \in DOMAIN pc,
           Synchronous(d) \/ Resume(d) \/ FinishMaintenance(d)
    PROVE  Serves
<1>0. phase \in Phases
  BY DEF TypeOK
<1>1. CASE Open(d)
  <2>1. SameMail
    BY <1>1, MailKept DEF Open
  <2>2. CASE Aborted
    BY <1>1, <2>1, <2>2, ServesStutter DEF Open
  <2>3. CASE ~Aborted
    <3>1. phase'.turn = phase.turn + 1
      BY <1>0, <1>1, <2>3 DEF Open, Phases
    <3>. QED
      BY <2>1, <3>1, ViewStays DEF Serves, Input!Next, Input!OpenTurn, View
  <2>. QED
    BY <2>2, <2>3
<1>2. CASE Claim(d)
  BY <1>2, ServesClaim
<1>3. CASE Retire(d) \/ Leave(d)
  <2>1. phase'.turn = phase.turn
    BY <1>0, <1>3 DEF Retire, Leave, RetireRunning
  <2>2. mail' = mail
    BY <1>3 DEF Retire, Leave
  <2>. QED
    BY <2>1, <2>2, MailKept, ServesStutter
<1>4. CASE AcceptContext(d)
  BY <1>4, ServesInsert DEF AcceptContext, Targets
<1>5. CASE FinishMaintenance(d)
  <2>1. phase'.turn = phase.turn
    <3>. DEFINE idle == [phase EXCEPT !.kind = "idle", !.activity = 0, !.abort = NoAbort,
                                      !.wakeRequested = FALSE]
    <3>1. idle.turn = phase.turn
      BY <1>0 DEF Phases
    <3>2. phase' = idle \/ StartDriver(idle, Resolved(d), stack)
      BY <1>5 DEF FinishMaintenance
    <3>. HIDE DEF idle
    <3>. QED
      BY <3>1, <3>2 DEF StartDriver
  <2>. QED
    BY <1>5, <2>1, MailKept, ServesStutter DEF FinishMaintenance
<1>6. CASE \/ Veto(d) \/ EndStep(d) \/ StepBoundary(d) \/ SyncThrows(d) \/ Catch(d)
           \/ EndTurn(d) \/ Continue(d)
  <2>1. phase'.turn = phase.turn
    BY <1>0, <1>6 DEF Veto, EndStep, StepBoundary, SyncThrows, Catch, EndTurn, Continue,
                      Throw, Phases
  <2>2. mail' = mail \/ mail' = Met(mail)
    BY <1>6 DEF Veto, EndStep, StepBoundary, SyncThrows, Catch, EndTurn, Continue, Throw
  <2>. QED
    BY <2>1, <2>2, MailKept, ServesStutter
<1>7. CASE \/ Reject(d) \/ EnterEmpty(d) \/ CallTools(d) \/ AwaitThrows(d) \/ Stopped(d)
           \/ (\E messages \in BOOLEAN : StartStep(d, messages))
           \/ (\E end \in {"completed", "max-tokens"} : Respond(d, end))
           \/ (\E concluded \in BOOLEAN : FinishTools(d, concluded))
  <2>1. phase'.turn = phase.turn
    BY <1>0, <1>7 DEF Reject, EnterEmpty, CallTools, AwaitThrows, Stopped, StartStep,
                      Respond, FinishTools, Throw, Phases
  <2>2. mail' = mail
    BY <1>7 DEF Reject, EnterEmpty, CallTools, AwaitThrows, Stopped, StartStep, Respond,
                FinishTools, Throw
  <2>. QED
    BY <2>1, <2>2, MailKept, ServesStutter
<1>. QED
  BY <1>1, <1>2, <1>3, <1>4, <1>5, <1>6, <1>7 DEF Synchronous, Resume

LEMMA ServesStep == TypeOK /\ OneDriver /\ Received /\ [Next]_vars => Serves
<1>. SUFFICES ASSUME TypeOK, OneDriver, Received, [Next]_vars PROVE Serves
  OBVIOUS
<1>1. CASE WhenIdle \/ Detach \/ UNCHANGED vars
  BY <1>1, MailKept, ServesStutter DEF WhenIdle, Detach, vars
<1>. QED
  BY <1>1, ClientServes, ReturnServes, DriverServes DEF Next

LEMMA ReceivedAlways == Spec => [](IInv /\ Received)
<1>1. IInv => TypeOK /\ OneDriver
  BY DEF IInv
<1>. QED
  BY <1>1, Invariance, ReceivedInit, ReceivedStep, PTL DEF Spec

(* The driver and its two lists implement AgentInput: whatever is steered, *)
(* cancelled, vetoed or replayed around it, a message meets one fate, a    *)
(* follow-up is the only one of its turn and the oldest that waited, and a *)
(* step takes all that was steered.                                        *)
THEOREM InputImplemented == Spec => InputServed
<1>1. Init => Input!Init
  <2>. SUFFICES ASSUME Init PROVE Input!Init
    OBVIOUS
  <2>1. mail = <<>> /\ phase.turn = 0
    BY DEF Init
  <2>2. View = <<>>
    <3>1. View \in Seq({}) /\ Len(View) = 0
      BY <2>1, EmptySeq, MapOfSeq DEF View
    <3>. QED
      BY <3>1, EmptySeq
  <2>. QED
    BY <2>1, <2>2 DEF Input!Init, View
<1>2. IInv /\ Received /\ [Next]_vars => [Input!Next]_<<View, phase.turn>>
  BY ServesStep DEF IInv, Serves
<1>. QED
  BY <1>1, <1>2, ReceivedAlways, PTL DEF Spec, InputServed, Input!Spec, View

------------------------------------------------------------------------------
(* Stranded work.  Once no driver runs, the last one left without looking  *)
(* at the inbox, or no pending message still counts on a driver.           *)

Counted(letter) == letter.fate = "pending" /\ letter.promise = "live"

Stranding ==
    phase.kind # "running" =>
        history.parting \in Excused \/ \A m \in DOMAIN mail : ~Counted(mail[m])

(* No message starts to count on a driver.                                 *)
NoNewPromise ==
    \A m \in DOMAIN mail' : Counted(mail'[m]) => m \in DOMAIN mail /\ Counted(mail[m])

LEMMA StrandingStays ==
    ASSUME Stranding,
           phase'.kind # "running" =>
              phase.kind # "running" /\ NoNewPromise /\ history'.parting = history.parting
    PROVE  Stranding'
  BY DEF Stranding, NoNewPromise

(* Only a driver that nobody cancelled is counted on.                      *)
LEMMA InsertPromises ==
    ASSUME TypeOK, NEW target, NEW wake, Insert(target, wake), phase.kind # "running"
    PROVE  NoNewPromise
<1>1. PromiseTo(wake) # "live"
  BY DEF PromiseTo, TypeOK, Phases
<1>. DEFINE new == Len(mail) + 1
<1>2. /\ DOMAIN mail' = DOMAIN mail \union {new}
      /\ \A m \in DOMAIN mail : mail'[m] = mail[m]
      /\ mail'[new] = [list |-> target, fate |-> "pending", turn |-> 0,
                       promise |-> PromiseTo(wake)]
  BY InsertKeeps
<1>. HIDE DEF new
<1>3. ~Counted(mail'[new])
  BY <1>1, <1>2 DEF Counted
<1>. QED
  BY <1>2, <1>3 DEF NoNewPromise

(* Aborting a driver moves what it owed to whoever runs next, and nobody   *)
(* else owes anything.                                                     *)
LEMMA AbortStrands ==
    ASSUME TypeOK, Stranding, NEW cause, NEW keepInbox, Abort(cause, keepInbox, mail),
           history' = history
    PROVE  Stranding'
<1>1. phase'.kind = phase.kind
  BY AbortKeeps
<1>2. phase.kind # "running" => mail' = mail
  BY DEF Abort
<1>. QED
  BY <1>1, <1>2, StrandingStays DEF NoNewPromise

LEMMA ClientStrands ==
    ASSUME TypeOK, Stranding, Client
    PROVE  Stranding'
<1>0. phase \in Phases /\ history \in Histories
      /\ \A m \in DOMAIN mail : mail[m] \in Letters
  BY LettersNumbered DEF TypeOK
<1>1. ASSUME NEW target \in Targets, NEW wake \in BOOLEAN, Send(target, wake)
      PROVE  Stranding'
  <2>1. history'.parting = history.parting /\ phase' = phase
    BY <1>0, <1>1 DEF Send, Histories
  <2>2. CASE phase.kind # "running"
    <3>1. NoNewPromise
      BY <1>1, <2>2, InsertPromises DEF Send
    <3>. QED
      BY <2>1, <2>2, <3>1, StrandingStays
  <2>. QED
    BY <2>1, <2>2 DEF Stranding
<1>2. ASSUME NEW cause, NEW keepInbox, Abort(cause, keepInbox, mail), history' = history
      PROVE  Stranding'
  BY <1>2, AbortStrands
<1>3. ASSUME NEW cause \in Causes, CancelClear(cause)
      PROVE  Stranding'
  <2>1. NoNewPromise
    BY <1>0, <1>3 DEF CancelClear, NoNewPromise, Counted, Letters
  <2>. QED
    BY <1>3, <2>1, StrandingStays DEF CancelClear
<1>4. CASE DisposeFromAppend
  <2>1. CASE hasPending
    <3>1. history'.parting = history.parting /\ mail' = mail /\ phase' = phase
      BY <1>0, <1>4, <2>1 DEF DisposeFromAppend, Histories
    <3>. QED
      BY <3>1, StrandingStays DEF NoNewPromise
  <2>. QED
    BY <1>2, <1>4, <2>1 DEF DisposeFromAppend
<1>5. ASSUME NEW m \in DOMAIN mail, Remove_(m)
      PROVE  Stranding'
  <2>1. NoNewPromise
    BY <1>0, <1>5 DEF Remove_, NoNewPromise, Counted, Letters
  <2>. QED
    BY <1>5, <2>1, StrandingStays DEF Remove_
<1>6. CASE RunMaintenance
  <2>1. NoNewPromise /\ phase.kind # "running" /\ history'.parting = history.parting
    BY <1>0, <1>6 DEF RunMaintenance, NoNewPromise, Histories
  <2>. QED
    BY <2>1, StrandingStays
<1>. QED
  BY <1>1, <1>2, <1>3, <1>4, <1>5, <1>6 DEF Client, Cancel, CancelInAppend

LEMMA WakeRuns ==
    ASSUME TypeOK, NEW late, NEW calls, WakeDriver(late, calls), phase'.kind # "running"
    PROVE  phase.kind # "running"
<1>1. phase' = [phase EXCEPT !.wakeRequested = @ \/ Latches(phase, late)]
      \/ phase.kind = "idle"
  BY DEF WakeDriver
<1>. QED
  BY <1>1 DEF TypeOK, Phases

LEMMA ReturnStrands ==
    ASSUME TypeOK, Stranding, Return
    PROVE  Stranding'
<1>1. CASE FinishSend \/ FinishRetire
  <2>1. \/ WakeDriver(Classified(Head(stack)), Tail(stack))
        \/ WakeDriver(FALSE, Tail(stack))
        \/ phase' = phase
    BY <1>1 DEF FinishSend, FinishRetire
  <2>2. phase'.kind # "running" => phase.kind # "running"
    BY <2>1, WakeRuns
  <2>3. NoNewPromise /\ history' = history
    BY <1>1 DEF FinishSend, FinishRetire, NoNewPromise
  <2>. QED
    BY <2>2, <2>3, StrandingStays
<1>2. CASE FinishCancel
  BY <1>2, AbortStrands DEF FinishCancel
<1>3. CASE FinishStart \/ FinishError
  <2>1. NoNewPromise /\ phase' = phase /\ history' = history
    BY <1>3 DEF FinishStart, FinishError, NoNewPromise
  <2>. QED
    BY <2>1, StrandingStays
<1>. QED
  BY <1>1, <1>2, <1>3 DEF Return

(* A driver that retires from a turn that neither was cancelled, rejected  *)
(* or failed nor opened no step has found the inbox empty.                 *)
LEMMA RetireStrands ==
    ASSUME TypeOK, OneDriver, Outcome, Received, NEW d \in DOMAIN pc, Retire(d)
    PROVE  Stranding'
<1>0. history \in Histories /\ phase \in Phases /\ run \in Runs
  BY DEF TypeOK
<1>1. pc[d] = "ended" /\ history'.parting = Parting /\ mail' = mail
  BY <1>0 DEF Retire, At, Histories
<1>2. phase.kind = "running" /\ phase.activity = d
  BY <1>1, DriverOwns DEF Driving, Sync
<1>3. CASE Parting = "served"
  <2>1. ~Aborted /\ run.turnEnds \notin {"blocked", "error"} /\ phase.step # 0
    BY <1>3 DEF Parting
  <2>2. run.turnEnds # NoEnd /\ run.turnEnds # "aborted" /\ Stepless
    BY <1>1, <1>2, <2>1 DEF Outcome, OutcomeAt
  <2>3. ~run.retire
    BY <1>0, <2>1, <2>2 DEF Stepless, Clean, Runs, Ends
  <2>4. nextTurn = <<>> /\ nextStep = <<>>
    BY <2>3 DEF Retire, Retires, hasPending
  <2>5. Waits("next-turn") = {} /\ Waits("next-step") = {}
    BY <2>4, EmptySet DEF Received, Queued
  <2>6. \A m \in DOMAIN mail : mail[m].fate # "pending"
    <3>1. \A m \in DOMAIN mail : mail[m].list \in Targets
      BY LettersNumbered DEF Letters
    <3>. QED
      BY <2>5, <3>1 DEF Waits, Targets
  <2>. QED
    BY <1>1, <2>6 DEF Stranding, Counted
<1>4. CASE Parting # "served"
  <2>1. Parting \in Excused
    BY <1>4 DEF Parting, Excused
  <2>. QED
    BY <1>1, <2>1 DEF Stranding
<1>. QED
  BY <1>3, <1>4

LEMMA DriverStrands ==
    ASSUME TypeOK, OneDriver, Outcome, Received, Stranding, NEW d \in DOMAIN pc,
           Synchronous(d) \/ Resume(d) \/ FinishMaintenance(d)
    PROVE  Stranding'
<1>0. phase \in Phases
  BY DEF TypeOK
<1>1. CASE Retire(d)
  BY <1>1, RetireStrands
<1>2. CASE Leave(d)
  <2>1. CASE Running(d)
    <3>1. history'.parting \in {"cancelled", "vetoed"}
      BY <1>2, <2>1 DEF Leave, TypeOK, Histories
    <3>. QED
      BY <3>1 DEF Stranding, Excused
  <2>2. CASE ~Running(d)
    <3>1. mail' = mail /\ phase' = phase /\ history' = history
      BY <1>2, <2>2 DEF Leave, RetireRunning
    <3>. QED
      BY <3>1, StrandingStays DEF NoNewPromise
  <2>. QED
    BY <2>1, <2>2
<1>3. CASE FinishMaintenance(d)
  <2>1. phase.kind = "maintenance"
    BY <1>3 DEF FinishMaintenance, OneDriver
  <2>2. mail' = mail /\ history' = history
    BY <1>3 DEF FinishMaintenance
  <2>. QED
    BY <2>1, <2>2, StrandingStays DEF NoNewPromise
<1>4. CASE ~Retire(d) /\ ~Leave(d) /\ ~FinishMaintenance(d)
  <2>1. pc[d] \in Driving
    BY <1>4 DEF Synchronous, Resume, Open, Veto, Opening, Claim, EndStep, StepBoundary,
       SyncThrows, Catch, EndTurn, Continue, Reject, EnterEmpty, StartStep, Decided, Respond,
       CallTools, AcceptContext, FinishTools, AwaitThrows, Stopped, At, Driving, Sync,
       Awaiting, Reporting
  <2>2. phase.kind = "running"
    BY <2>1, DriverOwns
  <2>3. phase'.kind = phase.kind
    BY <1>0, <1>4 DEF Synchronous, Resume, Open, Veto, Claim, EndStep, StepBoundary,
       SyncThrows, Catch, EndTurn, Continue, Reject, EnterEmpty, StartStep, Respond,
       CallTools, AcceptContext, FinishTools, AwaitThrows, Stopped, Throw, Phases
  <2>. QED
    BY <2>2, <2>3 DEF Stranding
<1>. QED
  BY <1>1, <1>2, <1>3, <1>4

LEMMA StrandingStep ==
    TypeOK /\ OneDriver /\ Outcome /\ Received /\ Stranding /\ [Next]_vars => Stranding'
<1>. SUFFICES ASSUME TypeOK, OneDriver, Outcome, Received, Stranding, [Next]_vars
              PROVE  Stranding'
  OBVIOUS
<1>1. CASE WhenIdle \/ Detach \/ UNCHANGED vars
  <2>1. history'.parting = history.parting
    BY <1>1 DEF WhenIdle, Detach, vars, TypeOK, Histories
  <2>. QED
    BY <1>1, <2>1, StrandingStays DEF WhenIdle, Detach, vars, NoNewPromise
<1>. QED
  BY <1>1, ClientStrands, ReturnStrands, DriverStrands DEF Next

LEMMA StrandingInit == Init => Stranding
  BY DEF Init, Stranding

(* However work arrives while a driver is stopping, one that leaves after  *)
(* serving its turn - it was not cancelled, no turn of its was vetoed,     *)
(* rejected or failed at the end, and its last turn opened a step - has    *)
(* claimed all the waking input that counted on it.                        *)
THEOREM WorkIsNeverStranded == Spec => []NothingStranded
<1>1. IInv => TypeOK /\ OneDriver /\ Owned
  BY DEF IInv, Owned
<1>2. Stranding => NothingStranded
  BY DEF Stranding, Counted, NothingStranded, AtRest
<1>. QED
  BY <1>1, <1>2, ReceivedAlways, OutcomeInit, OutcomeStep, StrandingInit, StrandingStep, PTL
     DEF Spec

------------------------------------------------------------------------------
(* Disposal.  The phase belongs to the latest activity, so whenIdle, which *)
(* awaits the latest one, leaves nothing behind that began before it ended. *)

Newest == phase.kind # "idle" => Len(pc) > 0 /\ phase.activity = Len(pc)

Awaited == history.waited <= Len(pc) /\ OnlyLateWorkRuns

(* A step leaves the phase with the activity it had, with none, or with    *)
(* one that it has just begun.                                             *)
Succeeds ==
    \/ /\ Len(pc') = Len(pc)
       /\ phase'.kind # "idle" => phase.kind # "idle" /\ phase'.activity = phase.activity
    \/ Len(pc') = Len(pc) + 1 /\ phase'.activity = Len(pc) + 1

LEMMA LengthKept ==
    ASSUME NEW S, NEW s \in Seq(S), NEW i, NEW e \in S
    PROVE  Len([s EXCEPT ![i] = e]) = Len(s)
<1>1. CASE i \in 1..Len(s)
  BY <1>1, ExceptSeq
<1>2. CASE i \notin 1..Len(s)
  <2>1. [s EXCEPT ![i] = e] = s
    BY <1>2
  <2>. QED
    BY <2>1
<1>. QED
  BY <1>1, <1>2

LEMMA ActivityMoves ==
    ASSUME TypeOK, NEW d, NEW location \in Locations, Goto(d, location),
           phase'.kind # "idle" => phase.kind # "idle" /\ phase'.activity = phase.activity
    PROVE  Succeeds
<1>1. Len(pc') = Len(pc)
  BY LengthKept DEF Goto, TypeOK
<1>. QED
  BY <1>1 DEF Succeeds

LEMMA ActivityStarts ==
    ASSUME NEW ph, NEW acts \in Seq(Locations), NEW calls, StartDriver(ph, acts, calls),
           Len(acts) = Len(pc)
    PROVE  Succeeds
<1>1. "start" \in Locations
  BY DEF Locations, Driving
<1>2. Len(pc') = Len(acts) + 1
  BY <1>1, AppendProperties DEF StartDriver
<1>. QED
  BY <1>2 DEF Succeeds, StartDriver

LEMMA ActivityWakes ==
    ASSUME TypeOK, NEW late, NEW calls, WakeDriver(late, calls)
    PROVE  Succeeds
<1>1. CASE phase.kind = "idle"
  BY <1>1, ActivityStarts DEF WakeDriver, TypeOK
<1>2. CASE phase.kind # "idle"
  <2>1. pc' = pc /\ phase' = [phase EXCEPT !.wakeRequested = @ \/ Latches(phase, late)]
    BY <1>2 DEF WakeDriver
  <2>2. phase'.kind = phase.kind /\ phase'.activity = phase.activity
    BY <2>1 DEF TypeOK, Phases
  <2>. QED
    BY <2>1, <2>2 DEF Succeeds
<1>. QED
  BY <1>1, <1>2

LEMMA ActivityRetires ==
    ASSUME TypeOK, NEW d, NEW location \in Locations, RetireRunning(d, location)
    PROVE  Succeeds
<1>1. Goto(d, location)
  BY DEF RetireRunning, Goto
<1>2. phase'.kind = "idle" \/ phase' = phase
  BY DEF RetireRunning
<1>. QED
  BY <1>1, <1>2, ActivityMoves

LEMMA ActivityStep == TypeOK /\ [Next]_vars => Succeeds
<1>. SUFFICES ASSUME TypeOK, [Next]_vars PROVE Succeeds
  OBVIOUS
<1>0. phase \in Phases /\ pc \in Seq(Locations)
  BY DEF TypeOK
<1>1. ASSUME NEW cause, NEW keepInbox, Abort(cause, keepInbox, mail), pc' = pc
      PROVE  Succeeds
  BY <1>1, AbortKeeps DEF Succeeds
<1>2. CASE Client
  <2>1. CASE RunMaintenance
    <3>1. "maintenance" \in Locations
      BY DEF Locations
    <3>2. Len(pc') = Len(pc) + 1 /\ Len(pc) \in Nat /\ phase'.activity = Len(pc) + 1
      BY <1>0, <2>1, <3>1, AppendProperties, LenProperties DEF RunMaintenance, Phases
    <3>. QED
      BY <3>2 DEF Succeeds
  <2>2. CASE \/ \E target \in Targets, wake \in BOOLEAN : Send(target, wake)
             \/ \E cause \in Causes : CancelClear(cause)
             \/ \E m \in DOMAIN mail : Remove_(m)
    BY <2>2 DEF Send, CancelClear, Remove_, Succeeds
  <2>3. CASE DisposeFromAppend
    BY <1>1, <2>3 DEF DisposeFromAppend, Succeeds
  <2>. QED
    BY <1>1, <1>2, <2>1, <2>2, <2>3 DEF Client, Cancel, CancelInAppend
<1>3. CASE Return
  <2>1. CASE FinishSend \/ FinishRetire
    <3>1. \/ WakeDriver(Classified(Head(stack)), Tail(stack))
          \/ WakeDriver(FALSE, Tail(stack))
          \/ phase' = phase /\ pc' = pc
      BY <2>1 DEF FinishSend, FinishRetire
    <3>. QED
      BY <3>1, ActivityWakes DEF Succeeds
  <2>2. CASE FinishCancel
    BY <1>1, <2>2 DEF FinishCancel
  <2>3. CASE FinishStart \/ FinishError
    <3>1. \E location \in Locations : Goto(phase.activity, location)
      BY <2>3 DEF FinishStart, FinishError, Locations, Driving, Sync
    <3>. QED
      BY <2>3, <3>1, ActivityMoves DEF FinishStart, FinishError
  <2>. QED
    BY <1>3, <2>1, <2>2, <2>3 DEF Return
<1>4. ASSUME NEW d \in DOMAIN pc, Synchronous(d) \/ Resume(d)
      PROVE  Succeeds
  <2>1. CASE Retire(d) \/ Leave(d)
    <3>1. "leave" \in Locations /\ "done" \in Locations
      BY DEF Locations
    <3>. QED
      BY <2>1, <3>1, ActivityRetires DEF Retire, Leave
  <2>2. CASE AcceptContext(d)
    BY <2>2 DEF AcceptContext, Succeeds
  <2>3. CASE ~Retire(d) /\ ~Leave(d) /\ ~AcceptContext(d)
    <3>1. \E location \in Locations : Goto(d, location)
      BY <1>4, <2>3 DEF Synchronous, Resume, Open, Veto, Claim, EndStep, StepBoundary,
         SyncThrows, Catch, EndTurn, Continue, Reject, EnterEmpty, StartStep, Respond,
         CallTools, FinishTools, AwaitThrows, Stopped, Throw, FailsTo, Locations, Driving,
         Sync, Awaiting, Reporting
    <3>2. phase'.kind = phase.kind /\ phase'.activity = phase.activity
      BY <1>0, <1>4, <2>3 DEF Synchronous, Resume, Open, Veto, Claim, EndStep, StepBoundary,
         SyncThrows, Catch, EndTurn, Continue, Reject, EnterEmpty, StartStep, Respond,
         CallTools, FinishTools, AwaitThrows, Stopped, Throw, Phases
    <3>. QED
      BY <3>1, <3>2, ActivityMoves
  <2>. QED
    BY <2>1, <2>2, <2>3
<1>5. ASSUME NEW a \in DOMAIN pc, FinishMaintenance(a)
      PROVE  Succeeds
  <2>. DEFINE idle == [phase EXCEPT !.kind = "idle", !.activity = 0, !.abort = NoAbort,
                                    !.wakeRequested = FALSE]
  <2>1. Resolved(a) \in Seq(Locations) /\ Len(Resolved(a)) = Len(pc)
    BY <1>0, ExceptInSeq, LengthKept DEF Resolved, Locations
  <2>2. idle.kind = "idle"
    BY <1>0 DEF Phases
  <2>3. (phase' = idle /\ pc' = Resolved(a)) \/ StartDriver(idle, Resolved(a), stack)
    BY <1>5 DEF FinishMaintenance
  <2>. HIDE DEF idle
  <2>. QED
    BY <2>1, <2>2, <2>3, ActivityStarts DEF Succeeds
<1>6. CASE WhenIdle \/ Detach \/ UNCHANGED vars
  BY <1>6 DEF WhenIdle, Detach, vars, Succeeds
<1>. QED
  BY <1>2, <1>3, <1>4, <1>5, <1>6 DEF Next

LEMMA NewestStep == TypeOK /\ Newest /\ [Next]_vars => Newest'
<1>. SUFFICES ASSUME TypeOK, Newest, Succeeds PROVE Newest'
  BY ActivityStep
<1>1. Len(pc) \in Nat
  BY DEF TypeOK
<1>. QED
  BY <1>1 DEF Newest, Succeeds

(* Whatever runs is the activity that ran when the wait ended, of which    *)
(* there was none, or began since.                                         *)
LEMMA AwaitedStays ==
    ASSUME TypeOK, Awaited, Succeeds, history'.waited = history.waited,
           disposal'.state \in {"unwinding", "detached"} =>
              disposal.state \in {"unwinding", "detached"}
    PROVE  Awaited'
<1>1. history.waited \in Nat /\ phase.activity \in Nat /\ Len(pc) \in Nat
  BY DEF TypeOK, Histories, Phases
<1>2. Len(pc') >= Len(pc) /\ Len(pc') \in Nat
  BY <1>1 DEF Succeeds
<1>3. history.waited <= Len(pc)
  BY DEF Awaited
<1>4. history'.waited <= Len(pc')
  BY <1>1, <1>2, <1>3
<1>5. CASE disposal'.state \in {"unwinding", "detached"} /\ phase'.kind # "idle"
  <2>1. phase.kind = "idle" \/ phase.activity > history.waited
    BY <1>5 DEF Awaited, OnlyLateWorkRuns
  <2>2. phase'.activity > history'.waited
    BY <1>1, <1>3, <1>5, <2>1 DEF Succeeds
  <2>. QED
    BY <1>4, <2>2 DEF Awaited, OnlyLateWorkRuns
<1>. QED
  BY <1>4, <1>5 DEF Awaited, OnlyLateWorkRuns

(* What whenIdle has awaited when it returns is the activity of the phase. *)
LEMMA WaitEndsAtRest ==
    ASSUME TypeOK, OneDriver, Newest, WhenIdle, ~Replaced
    PROVE  phase.kind = "idle"
<1>1. disposal.on = Len(pc) /\ (disposal.on # 0 => pc[disposal.on] = "done")
  BY DEF WhenIdle, Replaced
<1>. SUFFICES ASSUME phase.kind # "idle" PROVE FALSE
  OBVIOUS
<1>2. phase.activity = Len(pc) /\ Len(pc) > 0
  BY DEF Newest
<1>3. Len(pc) \in DOMAIN pc /\ Len(pc) # 0
  BY <1>2, LenProperties DEF TypeOK
<1>4. pc[phase.activity] = "done"
  BY <1>1, <1>2, <1>3
<1>5. phase.kind \in {"maintenance", "running"}
  BY DEF TypeOK, Phases
<1>. QED
  BY <1>2, <1>3, <1>4, <1>5 DEF OneDriver, Driving, Sync, Awaiting, Reporting

LEMMA AwaitedStep ==
    ASSUME DisposeInAppend = FALSE
    PROVE  TypeOK /\ OneDriver /\ Newest /\ Awaited /\ [Next]_vars => Awaited'
<1>. SUFFICES ASSUME TypeOK, OneDriver, Newest, Awaited, [Next]_vars PROVE Awaited'
  OBVIOUS
<1>0. Succeeds /\ history \in Histories /\ disposal \in Disposals
  BY ActivityStep DEF TypeOK
<1>1. CASE WhenIdle /\ ~Replaced
  <2>1. phase' = phase /\ pc' = pc /\ history'.waited = Len(pc) /\ phase.kind = "idle"
    BY <1>0, <1>1, WaitEndsAtRest DEF WhenIdle, Histories
  <2>2. Len(pc) \in Nat
    BY DEF TypeOK
  <2>. QED
    BY <2>1, <2>2 DEF Awaited, OnlyLateWorkRuns
<1>2. CASE (WhenIdle /\ Replaced) \/ Detach
  <2>1. history' = history /\ disposal'.state \in {disposal.state, "detached"}
        /\ (disposal'.state = "detached" => disposal.state \in {"unwinding", "detached"})
    BY <1>0, <1>2 DEF WhenIdle, Detach, Disposals
  <2>. QED
    BY <1>0, <2>1, AwaitedStays
<1>3. ASSUME NEW cause, NEW keepInbox, Abort(cause, keepInbox, mail)
      PROVE  disposal'.state \in {disposal.state, "waiting"}
  BY <1>3 DEF Abort
<1>4. CASE Client \/ Return
  <2>1. disposal'.state \in {disposal.state, "waiting"}
    BY <1>3, <1>4 DEF Client, Send, Cancel, CancelClear, CancelInAppend,
       DisposeFromAppend, Remove_, RunMaintenance, Return, FinishStart, FinishSend,
       FinishCancel, FinishRetire, FinishError
  <2>2. history'.waited = history.waited
    BY <1>0, <1>4 DEF Client, Send, Cancel, CancelClear, CancelInAppend,
       DisposeFromAppend, Remove_, RunMaintenance, Return, FinishStart, FinishSend,
       FinishCancel, FinishRetire, FinishError, Histories
  <2>. QED
    BY <1>0, <2>1, <2>2, AwaitedStays
<1>5. ASSUME NEW d \in DOMAIN pc, Synchronous(d) \/ Resume(d) \/ FinishMaintenance(d)
      PROVE  Awaited'
  <2>1. disposal' = disposal /\ history'.waited = history.waited
    BY <1>0, <1>5 DEF Synchronous, Resume, Open, Veto, Claim, EndStep, StepBoundary,
       SyncThrows, Catch, EndTurn, Continue, Retire, Reject, EnterEmpty, StartStep, Respond,
       CallTools, AcceptContext, FinishTools, AwaitThrows, Stopped, Leave, Throw,
       FinishMaintenance, Histories
  <2>. QED
    BY <1>0, <2>1, AwaitedStays
<1>6. CASE UNCHANGED vars
  BY <1>0, <1>6, AwaitedStays DEF vars
<1>. QED
  BY <1>1, <1>2, <1>4, <1>5, <1>6 DEF Next

(* dispose() stops waiting only when no activity that had begun remains:   *)
(* it follows every replacement, and what runs while the scope unwinds and *)
(* after the agent is detached was started later.  This holds as long as   *)
(* no session/event listener disposes the agent from inside an append:     *)
(* clear() throws there, and its finally block detaches with no wait.      *)
THEOREM DisposalAwaitsAll ==
    ASSUME DisposeInAppend = FALSE
    PROVE  Spec => []OnlyLateWorkRuns
<1>1. Init => Newest /\ Awaited
  BY DEF Init, Newest, Awaited, OnlyLateWorkRuns
<1>2. IInv => TypeOK /\ OneDriver
  BY DEF IInv
<1>3. Awaited => OnlyLateWorkRuns
  BY DEF Awaited
<1>. QED
  BY <1>1, <1>2, <1>3, Invariance, NewestStep, AwaitedStep, PTL DEF Spec
=============================================================================
