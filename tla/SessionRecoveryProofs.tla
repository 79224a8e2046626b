------------------------- MODULE SessionRecoveryProofs -------------------------
(***************************************************************************)
(* Proofs about crashes and repair, for logs of every length: the repaired *)
(* log is accepted and balanced, an interrupted repair goes on where it    *)
(* stopped, every call is answered once, and no tool that ran is reported  *)
(* as not started.                                                         *)
(***************************************************************************)
EXTENDS SessionRecovery, SequenceTheorems, WellFoundedInduction, TLAPS

(* What the scan of the repair and the companion's trace agree on after    *)
(* the first k events: the calls without a result are distinct calls of    *)
(* the open step, and the trace has those that were recorded.              *)
Open(s, k) == Scanned(s)[k]
Seen(s, k) == Replay(s)[k]

Calling(o) == {o.pending[i].call : i \in DOMAIN o.pending}
RecordedOf(o) == {o.pending[i].call : i \in {j \in DOMAIN o.pending : o.pending[j].recorded}}

Distinct(p) == \A i, j \in DOMAIN p : p[i].call = p[j].call => i = j

Matched(o, t) ==
    /\ t.openTurn = o.turn /\ t.openStep = o.step /\ t.pendingCalls = RecordedOf(o)
    /\ o.turn # None => o.turn = t.nextTurn
    /\ o.step # None => o.turn # None /\ o.step = t.nextStep
    /\ o.step = None => o.pending = <<>>
    /\ Distinct(o.pending)
    /\ \A i \in DOMAIN o.pending : o.pending[i].step = o.step
    /\ t.nextTurn > 0 /\ t.nextStep > 0

(* The number of the last turn is that of the last turn/start.             *)
LatestTurn(o, t) == IF o.turn = None THEN t.nextTurn - 1 ELSE o.turn
Numbered(s, k, o, t) ==
    \/ LatestTurn(o, t) = None /\ \A i \in 1..k : s[i].type # "turn/start"
    \/ \E j \in 1..k :
          /\ s[j].type = "turn/start" /\ s[j].turn = LatestTurn(o, t)
          /\ \A i \in j + 1..k : s[i].type # "turn/start"

(* No event so far belongs to a step that is still to come.                *)
Called == {"assistant/message", "tool/call", "tool/result"}
Of(e, turn, step) == e.turn = turn /\ e.step = step
Past(s, k, o, t) ==
    \A i \in 1..k : s[i].type \in Called =>
        \/ s[i].turn < t.nextTurn
        \/ o.turn # None /\ s[i].turn = o.turn
              /\ (s[i].step < t.nextStep \/ s[i].step = o.step)

(* A pending call has no result yet, and one that is not recorded has no   *)
(* tool/call.                                                              *)
Unanswered(s, k, o) ==
    \A i \in 1..k : s[i].type = "tool/result" /\ Of(s[i], o.turn, o.step) =>
        s[i].call \notin Calling(o)
Unrecorded(s, k, o) ==
    \A i \in 1..k : s[i].type = "tool/call" /\ Of(s[i], o.turn, o.step)
                       /\ s[i].call \in Calling(o) => s[i].call \in RecordedOf(o)

(* Every call of a message has a result, or is pending, or its step was    *)
(* closed by the loop after a failure.                                     *)
HasResult(s, k, e, call) ==
    \E j \in 1..k : s[j].type = "tool/result" /\ s[j].call = call /\ Of(s[j], e.turn, e.step)
GaveUp(s, k, e) ==
    \E i \in 1..k :
        /\ s[i] = Log!Boundary("step/end", e.turn, e.step)
        /\ \A j \in 1..i : s[j].type = "tool/result" =>
              s[j].outcome = "ran" \/ ~Of(s[j], e.turn, e.step)
Accounted(s, k, o) ==
    \A i \in 1..k : s[i].type = "assistant/message" =>
        \A call \in 1..s[i].asked :
            \/ HasResult(s, k, s[i], call)
            \/ Of(s[i], o.turn, o.step) /\ call \in Calling(o)
            \/ GaveUp(s, k, s[i])

SoundAt(s, k, o, t) ==
    /\ Matched(o, t) /\ Numbered(s, k, o, t) /\ Past(s, k, o, t)
    /\ Unanswered(s, k, o) /\ Unrecorded(s, k, o) /\ Accounted(s, k, o)

(* No call of a step is answered twice.                                    *)
Once(s) ==
    \A i, j \in DOMAIN s :
        /\ s[i].type = "tool/result" /\ s[j].type = "tool/result"
        /\ s[i].call = s[j].call /\ Of(s[i], s[j].turn, s[j].step)
        => i = j

Sound(s) == Once(s) /\ \A k \in 0..Len(s) : SoundAt(s, k, Open(s, k), Seen(s, k))

(* The events that the loop or the repair may append next.                 *)
TurnStarts(o, t, e) == o.turn = None /\ e = Log!Boundary("turn/start", t.nextTurn, None)
StepStarts(o, t, e) ==
    o.turn # None /\ o.step = None /\ e = Log!Boundary("step/start", o.turn, t.nextStep)
Asks(s, o, e) ==
    /\ o.step # None /\ o.pending = <<>>
    /\ \E asked \in 0..MaxCalls : e = Assistant(o.turn, o.step, asked)
    /\ \A i \in 1..Len(s) : s[i].type \in Called => ~Of(s[i], o.turn, o.step)
Records(o, e) == \E i \in DOMAIN o.pending : e = Log!ToolCall(o.turn, o.step, o.pending[i].call)
Answers(o, e) ==
    \E i \in DOMAIN o.pending, outcome \in {"ran", "unknown", "not-started"} :
        /\ e = Result(o.turn, o.step, o.pending[i].call, outcome)
        /\ o.pending[i].recorded \/ outcome = "not-started"
OnlyRan(s, turn, step) ==
    \A i \in 1..Len(s) :
        s[i].type = "tool/result" => s[i].outcome = "ran" \/ ~Of(s[i], turn, step)
StepEnds(s, o, e) ==
    /\ o.step # None /\ e = Log!Boundary("step/end", o.turn, o.step)
    /\ o.pending = <<>> \/ OnlyRan(s, o.turn, o.step)
TurnEnds(o, e) ==
    o.turn # None /\ o.step = None /\ e = Log!Boundary("turn/end", o.turn, None)

Fits(s, o, t, e) ==
    \/ TurnStarts(o, t, e) \/ StepStarts(o, t, e) \/ Asks(s, o, e) \/ Records(o, e)
    \/ Answers(o, e) \/ StepEnds(s, o, e) \/ TurnEnds(o, e)

(* Where the loop stands is what the log leaves open.                      *)
Wrote(w, s, o, t) ==
    /\ w.at = "idle" => o.turn = None /\ w.turn = t.nextTurn - 1
    /\ w.at # "idle" => o.turn = w.turn /\ o.turn # None
    /\ w.at = "turn" => o.step = None /\ t.nextStep = w.step + 1
    /\ w.at \in {"step", "tools"} =>
          o.step = w.step /\ o.step # None /\ OnlyRan(s, o.turn, o.step)
    /\ w.at # "tools" => w.called = 0 /\ w.answered = 0
    /\ w.at = "step" =>
          /\ o.pending = <<>>
          /\ \A i \in 1..Len(s) : s[i].type \in Called => ~Of(s[i], o.turn, o.step)
    /\ w.at = "tools" =>
          /\ w.answered <= w.called /\ w.called <= w.asked
          /\ Len(o.pending) = w.asked - w.answered
          /\ \A i \in 1..w.asked - w.answered :
                /\ o.pending[i].call = w.answered + i
                /\ o.pending[i].recorded <=> w.answered + i <= w.called

Followed ==
    /\ mode = "live" => trace = Replayed(log) /\ Wrote(writer, log, Open(log, Len(log)), trace)
    /\ mode = "prepared" => trace = Replayed(log \o Closers(log))
    /\ AlwaysAccepted

(* A body that ran has its tool/call in storage.                           *)
Behind ==
    \A body \in effects : \E i \in 1..durable :
        log[i] = Log!ToolCall(body.turn, body.step, body.call)

IInv == TypeOK /\ Sound(log) /\ Followed /\ Behind /\ RunIsNeverNotStarted

------------------------------------------------------------------------------
(* Induction, from the least element of a set of counterexamples.          *)

LEMMA Induction ==
    ASSUME NEW T, 0 \in T, \A n \in Nat : n \in T => n + 1 \in T
    PROVE  Nat \subseteq T
<1>. DEFINE R == OpToRel(<, Nat)
            U == Nat \ T
<1>. SUFFICES ASSUME U # {} PROVE FALSE
  OBVIOUS
<1>1. IsWellFoundedOn(R, Nat)
  BY NatLessThanWellFounded
<1>2. \A x, y \in Nat : x < y => <<x, y>> \in R
  BY DEF OpToRel
<1>3. U \subseteq Nat
  OBVIOUS
<1>. HIDE DEF R
<1>4. PICK x \in U : \A y \in U : ~(<<y, x>> \in R)
  <2>. HIDE DEF U
  <2>. QED
    BY <1>1, <1>3, WFMin
<1>5. x # 0 /\ x \in Nat
  BY <1>4
<1>6. x - 1 \in Nat /\ x - 1 < x
  BY <1>5
<1>7. x - 1 \notin U
  BY <1>2, <1>4, <1>5, <1>6
<1>8. x - 1 \in T
  BY <1>6, <1>7
<1>9. x - 1 + 1 = x
  BY <1>5
<1>. QED
  BY <1>4, <1>6, <1>8, <1>9

(* The scan and the trace are what their recursive definitions say.        *)
LEMMA ScanUnfolds ==
    ASSUME NEW s, Len(s) \in Nat
    PROVE  /\ Open(s, 0) = NothingOpen
           /\ \A k \in 1..Len(s) : Open(s, k) = Scan(Open(s, k - 1), s[k])
<1>. DEFINE Sofar(g, n) ==
               g = [k \in 0..n |-> IF k = 0 THEN NothingOpen ELSE Scan(g[k - 1], s[k])]
            T == {n \in Nat : \E g : Sofar(g, n)}
<1>1. 0 \in T
  <2>1. Sofar([k \in 0..0 |-> NothingOpen], 0)
    OBVIOUS
  <2>. QED
    BY <2>1
<1>2. ASSUME NEW n \in Nat, n \in T
      PROVE  n + 1 \in T
  <2>1. PICK g : Sofar(g, n)
    BY <1>2
  <2>. DEFINE h == [k \in 0..n + 1 |-> IF k = n + 1 THEN Scan(g[n], s[n + 1]) ELSE g[k]]
  <2>2. \A k \in 0..n : h[k] = g[k]
    OBVIOUS
  <2>3. \A k \in 0..n + 1 : h[k] = IF k = 0 THEN NothingOpen ELSE Scan(h[k - 1], s[k])
    <3>1. h[n + 1] = Scan(h[n], s[n + 1])
      BY <2>2
    <3>2. ASSUME NEW k \in 0..n
          PROVE  h[k] = IF k = 0 THEN NothingOpen ELSE Scan(h[k - 1], s[k])
      <4>1. g[k] = IF k = 0 THEN NothingOpen ELSE Scan(g[k - 1], s[k])
        BY <2>1
      <4>2. k = 0 \/ h[k - 1] = g[k - 1]
        BY <2>2
      <4>. QED
        BY <2>2, <4>1, <4>2
    <3>3. n + 1 # 0 /\ n + 1 - 1 = n
      OBVIOUS
    <3>4. \A k \in 0..n + 1 : k \in 0..n \/ k = n + 1
      OBVIOUS
    <3>. HIDE DEF h
    <3>5. ASSUME NEW k \in 0..n + 1
          PROVE  h[k] = IF k = 0 THEN NothingOpen ELSE Scan(h[k - 1], s[k])
      <4>1. CASE k = n + 1
        BY <3>1, <3>3, <4>1
      <4>2. CASE k \in 0..n
        BY <3>2, <4>2
      <4>. QED
        BY <3>4, <4>1, <4>2
    <3>. QED
      BY <3>5
  <2>. HIDE DEF h
  <2>4. Sofar(h, n + 1)
    <3>1. h = [k \in 0..n + 1 |-> h[k]]
      BY DEF h
    <3>. QED
      BY <2>3, <3>1
  <2>. QED
    BY <2>4
<1>3. Len(s) \in T
  <2>. HIDE DEF T
  <2>. QED
    BY <1>1, <1>2, Induction
<1>4. PICK g : Sofar(g, Len(s))
  BY <1>3
<1>5. Sofar(Scanned(s), Len(s))
  BY <1>4 DEF Scanned
<1>. QED
  BY <1>5 DEF Open

LEMMA TraceUnfolds ==
    ASSUME NEW s, Len(s) \in Nat
    PROVE  /\ Seen(s, 0) = Log!FreshTrace
           /\ \A k \in 1..Len(s) : Seen(s, k) = Log!Appended(Seen(s, k - 1), s[k])
<1>. DEFINE Sofar(g, n) ==
               g = [k \in 0..n |->
                       IF k = 0 THEN Log!FreshTrace ELSE Log!Appended(g[k - 1], s[k])]
            T == {n \in Nat : \E g : Sofar(g, n)}
<1>1. 0 \in T
  <2>1. Sofar([k \in 0..0 |-> Log!FreshTrace], 0)
    OBVIOUS
  <2>. QED
    BY <2>1
<1>2. ASSUME NEW n \in Nat, n \in T
      PROVE  n + 1 \in T
  <2>1. PICK g : Sofar(g, n)
    BY <1>2
  <2>. DEFINE h == [k \in 0..n + 1 |->
                       IF k = n + 1 THEN Log!Appended(g[n], s[n + 1]) ELSE g[k]]
  <2>2. \A k \in 0..n : h[k] = g[k]
    OBVIOUS
  <2>3. \A k \in 0..n + 1 :
           h[k] = IF k = 0 THEN Log!FreshTrace ELSE Log!Appended(h[k - 1], s[k])
    <3>1. h[n + 1] = Log!Appended(h[n], s[n + 1])
      BY <2>2
    <3>2. ASSUME NEW k \in 0..n
          PROVE  h[k] = IF k = 0 THEN Log!FreshTrace ELSE Log!Appended(h[k - 1], s[k])
      <4>1. g[k] = IF k = 0 THEN Log!FreshTrace ELSE Log!Appended(g[k - 1], s[k])
        BY <2>1
      <4>2. k = 0 \/ h[k - 1] = g[k - 1]
        BY <2>2
      <4>. QED
        BY <2>2, <4>1, <4>2
    <3>3. n + 1 # 0 /\ n + 1 - 1 = n
      OBVIOUS
    <3>4. \A k \in 0..n + 1 : k \in 0..n \/ k = n + 1
      OBVIOUS
    <3>. HIDE DEF h
    <3>5. ASSUME NEW k \in 0..n + 1
          PROVE  h[k] = IF k = 0 THEN Log!FreshTrace ELSE Log!Appended(h[k - 1], s[k])
      <4>1. CASE k = n + 1
        BY <3>1, <3>3, <4>1
      <4>2. CASE k \in 0..n
        BY <3>2, <4>2
      <4>. QED
        BY <3>4, <4>1, <4>2
    <3>. QED
      BY <3>5
  <2>. HIDE DEF h
  <2>4. Sofar(h, n + 1)
    <3>1. h = [k \in 0..n + 1 |-> h[k]]
      BY DEF h
    <3>. QED
      BY <2>3, <3>1
  <2>. QED
    BY <2>4
<1>3. Len(s) \in T
  <2>. HIDE DEF T
  <2>. QED
    BY <1>1, <1>2, Induction
<1>4. PICK g : Sofar(g, Len(s))
  BY <1>3
<1>5. Sofar(Replay(s), Len(s))
  BY <1>4 DEF Replay
<1>. QED
  BY <1>5 DEF Seen

(* What the first k events come to depends on nothing behind them.         *)
LEMMA PrefixDecides ==
    ASSUME NEW s, NEW u, Len(s) \in Nat, Len(u) \in Nat,
           NEW k \in Nat, k <= Len(s), k <= Len(u), \A i \in 1..k : s[i] = u[i]
    PROVE  Open(s, k) = Open(u, k) /\ Seen(s, k) = Seen(u, k)
<1>. DEFINE T == {n \in Nat : n <= k => Open(s, n) = Open(u, n) /\ Seen(s, n) = Seen(u, n)}
<1>1. 0 \in T
  BY ScanUnfolds, TraceUnfolds
<1>2. ASSUME NEW n \in Nat, n \in T
      PROVE  n + 1 \in T
  <2>. SUFFICES ASSUME n + 1 <= k
                PROVE  Open(s, n + 1) = Open(u, n + 1) /\ Seen(s, n + 1) = Seen(u, n + 1)
    OBVIOUS
  <2>1. Open(s, n) = Open(u, n) /\ Seen(s, n) = Seen(u, n) /\ s[n + 1] = u[n + 1]
    BY <1>2
  <2>2. n + 1 \in 1..Len(s) /\ n + 1 \in 1..Len(u) /\ n + 1 - 1 = n
    OBVIOUS
  <2>3. Open(s, n + 1) = Scan(Open(s, n), s[n + 1]) /\ Open(u, n + 1) = Scan(Open(u, n), u[n + 1])
    BY <2>2, ScanUnfolds
  <2>4. /\ Seen(s, n + 1) = Log!Appended(Seen(s, n), s[n + 1])
        /\ Seen(u, n + 1) = Log!Appended(Seen(u, n), u[n + 1])
    BY <2>2, TraceUnfolds
  <2>. QED
    BY <2>1, <2>3, <2>4
<1>3. k \in T
  <2>. HIDE DEF T
  <2>. QED
    BY <1>1, <1>2, Induction
<1>. QED
  BY <1>3

------------------------------------------------------------------------------
(* The list of calls without a result.                                     *)

Pendings == [call : 1..MaxCalls, step : Nat, recorded : BOOLEAN]
Opens == [turn : Nat, step : Nat, pending : Seq(Pendings)]

LEMMA RecordedList ==
    ASSUME NEW p \in Seq(Pendings), NEW c
    PROVE  /\ Recorded(p, c) \in Seq(Pendings) /\ DOMAIN Recorded(p, c) = DOMAIN p
           /\ \A i \in DOMAIN p :
                 /\ Recorded(p, c)[i].call = p[i].call /\ Recorded(p, c)[i].step = p[i].step
                 /\ Recorded(p, c)[i].recorded <=> p[i].recorded \/ p[i].call = c
<1>. DEFINE q == Recorded(p, c)
            E(i) == IF p[i].call = c THEN [p[i] EXCEPT !.recorded = TRUE] ELSE p[i]
<1>1. Len(p) \in Nat /\ DOMAIN p = 1..Len(p) /\ \A i \in 1..Len(p) : p[i] \in Pendings
  BY LenProperties, ElementOfSeq
<1>2. q = [i \in 1..Len(p) |-> E(i)]
  BY <1>1 DEF Recorded
<1>3. ASSUME NEW i \in 1..Len(p)
      PROVE  /\ E(i) \in Pendings /\ E(i).call = p[i].call /\ E(i).step = p[i].step
             /\ E(i).recorded <=> p[i].recorded \/ p[i].call = c
  <2>1. p[i] \in Pendings
    BY <1>1
  <2>. QED
    BY <2>1 DEF Pendings
<1>. HIDE DEF E
<1>4. q \in Seq(Pendings)
  BY <1>1, <1>2, <1>3, SeqDef
<1>5. DOMAIN q = DOMAIN p /\ \A i \in DOMAIN p : q[i] = E(i)
  BY <1>1, <1>2
<1>. HIDE DEF q
<1>. QED
  BY <1>1, <1>3, <1>4, <1>5 DEF q

LEMMA AnsweredList ==
    ASSUME NEW p \in Seq(Pendings), Distinct(p), NEW i \in DOMAIN p
    PROVE  LET q == Answered(p, p[i].call) IN
           /\ q \in Seq(Pendings) /\ Len(q) = Len(p) - 1 /\ DOMAIN q = 1..Len(p) - 1
           /\ \A j \in DOMAIN q : q[j] = IF j < i THEN p[j] ELSE p[j + 1]
<1>. DEFINE q == Answered(p, p[i].call)
            at == {j \in DOMAIN p : p[j].call = p[i].call}
            front == SubSeq(p, 1, i - 1)
            back == SubSeq(p, i + 1, Len(p))
<1>1. /\ Len(p) \in Nat /\ DOMAIN p = 1..Len(p) /\ i \in 1..Len(p)
      /\ \A j \in 1..Len(p) : p[j] \in Pendings
  BY LenProperties, ElementOfSeq
<1>2. q = RemoveAt(p, i)
  <2>1. at = {i}
    BY DEF Distinct
  <2>2. (CHOOSE j \in at : TRUE) = i
    BY <2>1
  <2>. QED
    BY <2>1, <2>2 DEF Answered
<1>3. /\ front \in Seq(Pendings) /\ Len(front) = i - 1
      /\ \A j \in 1..i - 1 : front[j] = p[j]
  <2>1. \A j \in 1..i - 1 : p[j] \in Pendings
    BY <1>1
  <2>. QED
    BY <1>1, <2>1, SubSeqProperties
<1>4. /\ back \in Seq(Pendings) /\ Len(back) = Len(p) - i
      /\ \A j \in 1..Len(p) - i : back[j] = p[i + j]
  <2>1. \A j \in i + 1..Len(p) : p[j] \in Pendings
    BY <1>1
  <2>. QED
    BY <1>1, <2>1, SubSeqProperties
<1>5. q = front \o back
  BY <1>2 DEF RemoveAt
<1>. HIDE DEF q, front, back
<1>6. /\ q \in Seq(Pendings) /\ Len(q) = i - 1 + (Len(p) - i)
      /\ \A j \in 1..i - 1 + (Len(p) - i) :
            q[j] = IF j <= i - 1 THEN front[j] ELSE back[j - (i - 1)]
  <2>1. /\ front \o back \in Seq(Pendings) /\ Len(front \o back) = Len(front) + Len(back)
        /\ \A j \in 1..Len(front) + Len(back) :
              (front \o back)[j] = IF j <= Len(front) THEN front[j] ELSE back[j - Len(front)]
    BY <1>3, <1>4, ConcatProperties
  <2>. QED
    BY <1>3, <1>4, <1>5, <2>1
<1>7. Len(q) = Len(p) - 1 /\ DOMAIN q = 1..Len(p) - 1
  BY <1>1, <1>6, LenProperties
<1>8. ASSUME NEW j \in DOMAIN q
      PROVE  q[j] = IF j < i THEN p[j] ELSE p[j + 1]
  <2>1. j \in 1..i - 1 + (Len(p) - i)
    BY <1>1, <1>7
  <2>2. CASE j < i
    BY <1>1, <1>3, <1>6, <2>1, <2>2
  <2>3. CASE ~(j < i)
    <3>1. q[j] = back[j - (i - 1)] /\ j - (i - 1) \in 1..Len(p) - i /\ i + (j - (i - 1)) = j + 1
      BY <1>1, <1>6, <2>1, <2>3
    <3>. QED
      BY <1>4, <2>3, <3>1
  <2>. QED
    BY <2>2, <2>3
<1>. QED
  BY <1>6, <1>7, <1>8 DEF q

(* A list without its first call is its tail.                              *)
LEMMA AnsweredFirst ==
    ASSUME NEW p \in Seq(Pendings), Distinct(p), p # <<>>
    PROVE  Answered(p, p[1].call) = Tail(p)
<1>. DEFINE q == Answered(p, p[1].call)
<1>1. Len(p) \in Nat /\ DOMAIN p = 1..Len(p) /\ 1 \in DOMAIN p
  BY LenProperties, EmptySeq
<1>2. /\ q \in Seq(Pendings) /\ Len(q) = Len(p) - 1 /\ DOMAIN q = 1..Len(p) - 1
      /\ \A j \in DOMAIN q : q[j] = IF j < 1 THEN p[j] ELSE p[j + 1]
  BY <1>1, AnsweredList
<1>. HIDE DEF q
<1>3. /\ Tail(p) \in Seq(Pendings) /\ Len(Tail(p)) = Len(p) - 1
      /\ \A j \in 1..Len(Tail(p)) : Tail(p)[j] = p[j + 1]
  BY HeadTailProperties
<1>4. q = Tail(p)
  <2>1. \A j \in 1..Len(q) : q[j] = Tail(p)[j]
    BY <1>1, <1>2, <1>3
  <2>. QED
    BY <1>2, <1>3, <2>1, SeqEqual
<1>. QED
  BY <1>4 DEF q

LEMMA RegisteredList ==
    ASSUME NEW step \in Nat, NEW asked \in 0..MaxCalls
    PROVE  /\ Registered(step, asked) \in Seq(Pendings)
           /\ DOMAIN Registered(step, asked) = 1..asked
           /\ \A i \in 1..asked : Registered(step, asked)[i] =
                 [call |-> i, step |-> step, recorded |-> FALSE]
<1>1. asked \in Nat /\ MaxCalls \in Nat
  BY SessionRecoveryAssumption
<1>2. \A i \in 1..asked : [call |-> i, step |-> step, recorded |-> FALSE] \in Pendings
  BY <1>1 DEF Pendings
<1>. QED
  BY <1>1, <1>2, SeqDef DEF Registered

------------------------------------------------------------------------------
(* Types.                                                                  *)

Boundaries == {"turn/start", "turn/end", "step/start", "step/end"}
Kinds == Boundaries \union {"assistant/message", "tool/call", "tool/result"}

LEMMA EventsTyped ==
    ASSUME NEW e \in Events
    PROVE  /\ e.type \in Kinds /\ e.turn \in Nat /\ e.step \in Nat
           /\ e.type = "assistant/message" => e.asked \in 0..MaxCalls
           /\ e.type \in {"tool/call", "tool/result"} => e.call \in 1..MaxCalls
           /\ e.type = "tool/result" => /\ e.outcome \in {"ran", "unknown", "not-started"}
                                        /\ e.synthetic \in BOOLEAN
  BY DEF Events, Kinds, Boundaries

LEMMA EventTypes ==
    /\ \A type \in Boundaries, turn, step \in Nat : Log!Boundary(type, turn, step) \in Events
    /\ \A turn, step \in Nat, asked \in 0..MaxCalls : Assistant(turn, step, asked) \in Events
    /\ \A turn, step \in Nat, call \in 1..MaxCalls :
          /\ Log!ToolCall(turn, step, call) \in Events
          /\ \A outcome \in {"ran", "unknown", "not-started"} :
                Result(turn, step, call, outcome) \in Events
  BY DEF Events, Boundaries, Log!Boundary, Assistant, Log!ToolCall, Result

LEMMA ScanTyped ==
    ASSUME NEW o \in Opens, NEW e \in Events
    PROVE  Scan(o, e) \in Opens
<1>1. /\ e.type \in Kinds /\ e.turn \in Nat /\ e.step \in Nat
      /\ e.type = "assistant/message" => e.asked \in 0..MaxCalls
      /\ e.type \in {"tool/call", "tool/result"} => e.call \in 1..MaxCalls
  BY EventsTyped
<1>2. /\ o.turn \in Nat /\ o.step \in Nat /\ o.pending \in Seq(Pendings)
      /\ <<>> \in Seq(Pendings) /\ None \in Nat
  BY EmptySeq DEF Opens, None, Log!None
<1>3. CASE e.type \in Boundaries
  BY <1>1, <1>2, <1>3 DEF Scan, NothingOpen, StepClosed, Opens, Boundaries
<1>4. CASE e.type = "assistant/message"
  <2>1. o.pending \o Registered(e.step, e.asked) \in Seq(Pendings)
    BY <1>1, <1>2, <1>4, RegisteredList, ConcatProperties
  <2>2. Scan(o, e) = [o EXCEPT !.pending = o.pending \o Registered(e.step, e.asked)]
    BY <1>4 DEF Scan
  <2>. QED
    BY <2>1, <2>2 DEF Opens
<1>5. CASE e.type = "tool/call"
  <2>1. Recorded(o.pending, e.call) \in Seq(Pendings)
    BY <1>2, RecordedList
  <2>2. Scan(o, e) = [o EXCEPT !.pending = Recorded(o.pending, e.call)]
    BY <1>5 DEF Scan
  <2>. QED
    BY <2>1, <2>2 DEF Opens
<1>6. CASE e.type = "tool/result"
  <2>1. Answered(o.pending, e.call) \in Seq(Pendings)
    <3>. DEFINE at == {i \in DOMAIN o.pending : o.pending[i].call = e.call}
                i == CHOOSE j \in at : TRUE
    <3>1. CASE at = {}
      BY <1>2, <3>1 DEF Answered
    <3>2. CASE at # {}
      <4>1. i \in at
        BY <3>2
      <4>. HIDE DEF i
      <4>2. i \in 1..Len(o.pending) /\ Len(o.pending) \in Nat
        BY <1>2, <4>1, LenProperties
      <4>3. \A j \in 1..Len(o.pending) : o.pending[j] \in Pendings
        BY <1>2, ElementOfSeq
      <4>4. \A j \in 1..i - 1 : o.pending[j] \in Pendings
        BY <4>2, <4>3
      <4>5. \A j \in i + 1..Len(o.pending) : o.pending[j] \in Pendings
        BY <4>2, <4>3
      <4>6. /\ SubSeq(o.pending, 1, i - 1) \in Seq(Pendings)
            /\ SubSeq(o.pending, i + 1, Len(o.pending)) \in Seq(Pendings)
        BY <4>2, <4>4, <4>5, SubSeqProperties
      <4>7. RemoveAt(o.pending, i) \in Seq(Pendings)
        BY <4>6, ConcatProperties DEF RemoveAt
      <4>. QED
        BY <3>2, <4>7 DEF Answered, i
    <3>. QED
      BY <3>1, <3>2
  <2>2. Scan(o, e) = [o EXCEPT !.pending = Answered(o.pending, e.call)]
    BY <1>6 DEF Scan
  <2>. QED
    BY <2>1, <2>2 DEF Opens
<1>. QED
  BY <1>1, <1>3, <1>4, <1>5, <1>6 DEF Kinds

LEMMA TraceTyped ==
    ASSUME NEW t \in Log!TraceType, NEW e \in Events
    PROVE  Log!Appended(t, e) \in Log!TraceType
<1>1. /\ e.type \in Kinds /\ e.turn \in Nat /\ e.step \in Nat
      /\ e.type \in {"tool/call", "tool/result"} => e.call \in 1..MaxCalls
  BY EventsTyped
<1>2. [t EXCEPT !.openTurn = Log!Refused] \in Log!TraceType
  BY DEF Log!TraceType, Log!Refused
<1>3. Log!After(t, e) \in Log!TraceType
  <2>1. /\ t.openTurn \in Int /\ t.openStep \in Nat /\ t.nextTurn \in Nat /\ t.nextStep \in Nat
        /\ t.pendingCalls \subseteq 1..MaxCalls
    BY DEF Log!TraceType
  <2>2. CASE e.type \in Boundaries
    <3>1. CASE e.type = "turn/start"
      <4>1. Log!After(t, e) = [t EXCEPT !.openTurn = e.turn, !.nextStep = 1]
        BY <3>1 DEF Log!After
      <4>2. Log!After(t, e) = [openTurn |-> e.turn, openStep |-> t.openStep,
                               nextTurn |-> t.nextTurn, nextStep |-> 1,
                               pendingCalls |-> t.pendingCalls]
        BY <4>1 DEF Log!TraceType
      <4>. QED
        BY <1>1, <2>1, <4>2 DEF Log!TraceType
    <3>2. CASE e.type = "turn/end"
      <4>1. Log!After(t, e) = [t EXCEPT !.openTurn = Log!None, !.nextTurn = t.nextTurn + 1]
        BY <3>2 DEF Log!After
      <4>2. Log!After(t, e) = [openTurn |-> 0, openStep |-> t.openStep,
                               nextTurn |-> t.nextTurn + 1, nextStep |-> t.nextStep,
                               pendingCalls |-> t.pendingCalls]
        BY <4>1 DEF Log!TraceType, Log!None
      <4>. QED
        BY <2>1, <4>2 DEF Log!TraceType
    <3>3. CASE e.type = "step/start"
      <4>1. Log!After(t, e) = [t EXCEPT !.openStep = e.step]
        BY <3>3 DEF Log!After
      <4>. QED
        BY <1>1, <4>1 DEF Log!TraceType
    <3>4. CASE e.type = "step/end"
      <4>1. Log!After(t, e) = [t EXCEPT !.openStep = Log!None, !.nextStep = t.nextStep + 1,
                                        !.pendingCalls = {}]
        BY <3>4 DEF Log!After
      <4>2. Log!After(t, e) = [openTurn |-> t.openTurn, openStep |-> 0,
                               nextTurn |-> t.nextTurn, nextStep |-> t.nextStep + 1,
                               pendingCalls |-> {}]
        BY <4>1 DEF Log!TraceType, Log!None
      <4>. QED
        BY <2>1, <4>2 DEF Log!TraceType
    <3>. QED
      BY <2>2, <3>1, <3>2, <3>3, <3>4 DEF Boundaries
  <2>3. CASE e.type \in {"tool/call", "tool/result"}
    BY <1>1, <2>1, <2>3 DEF Log!After, Log!TraceType
  <2>4. CASE e.type = "assistant/message"
    BY <2>4 DEF Log!After, Log!TraceType
  <2>. QED
    BY <1>1, <2>2, <2>3, <2>4 DEF Kinds
<1>. QED
  BY <1>2, <1>3 DEF Log!Appended

LEMMA PrefixTyped ==
    ASSUME NEW s \in Seq(Events)
    PROVE  \A k \in 0..Len(s) : Open(s, k) \in Opens /\ Seen(s, k) \in Log!TraceType
<1>. DEFINE T == {n \in Nat : n <= Len(s) =>
                                Open(s, n) \in Opens /\ Seen(s, n) \in Log!TraceType}
<1>1. Len(s) \in Nat /\ \A i \in 1..Len(s) : s[i] \in Events
  BY LenProperties, ElementOfSeq
<1>2. 0 \in T
  <2>1. NothingOpen \in Opens /\ Log!FreshTrace \in Log!TraceType
    BY EmptySeq DEF NothingOpen, Opens, None, Log!None, Log!FreshTrace, Log!TraceType
  <2>. QED
    BY <1>1, <2>1, ScanUnfolds, TraceUnfolds
<1>3. ASSUME NEW n \in Nat, n \in T
      PROVE  n + 1 \in T
  <2>. SUFFICES ASSUME n + 1 <= Len(s)
                PROVE  Open(s, n + 1) \in Opens /\ Seen(s, n + 1) \in Log!TraceType
    OBVIOUS
  <2>1. Open(s, n) \in Opens /\ Seen(s, n) \in Log!TraceType
    BY <1>1, <1>3
  <2>2. n + 1 \in 1..Len(s) /\ n + 1 - 1 = n
    BY <1>1
  <2>3. /\ Open(s, n + 1) = Scan(Open(s, n), s[n + 1])
        /\ Seen(s, n + 1) = Log!Appended(Seen(s, n), s[n + 1])
    BY <1>1, <2>2, ScanUnfolds, TraceUnfolds
  <2>. QED
    BY <1>1, <2>1, <2>2, <2>3, ScanTyped, TraceTyped
<1>4. Nat \subseteq T
  <2>. HIDE DEF T
  <2>. QED
    BY <1>2, <1>3, Induction
<1>. QED
  BY <1>1, <1>4

------------------------------------------------------------------------------
(* What each kind of event does to the scan and to the trace.              *)

LEMMA Fields ==
    ASSUME NEW o \in Opens, NEW t \in Log!TraceType, Matched(o, t)
    PROVE  /\ o.turn \in Nat /\ o.step \in Nat /\ o.pending \in Seq(Pendings)
           /\ Len(o.pending) \in Nat /\ DOMAIN o.pending = 1..Len(o.pending)
           /\ \A i \in DOMAIN o.pending : o.pending[i] \in Pendings
           /\ t.nextTurn \in Nat /\ t.nextStep \in Nat /\ None = 0 /\ Log!None = 0
           /\ t.pendingCalls \subseteq 1..MaxCalls
           /\ t.nextTurn > 0 /\ t.nextStep > 0 /\ t.openTurn = o.turn /\ t.openStep = o.step
           /\ o.turn # None => o.turn = t.nextTurn
           /\ o.step # None => o.turn # None /\ o.step = t.nextStep
           /\ o.step = None => o.pending = <<>>
<1>1. /\ o.turn \in Nat /\ o.step \in Nat /\ o.pending \in Seq(Pendings)
      /\ t.nextTurn \in Nat /\ t.nextStep \in Nat /\ None = 0 /\ Log!None = 0
      /\ t.pendingCalls \subseteq 1..MaxCalls
  BY DEF Opens, Log!TraceType, None, Log!None
<1>2. /\ Len(o.pending) \in Nat /\ DOMAIN o.pending = 1..Len(o.pending)
      /\ \A i \in DOMAIN o.pending : o.pending[i] \in Pendings
  BY <1>1, LenProperties, ElementOfSeq
<1>. QED
  BY <1>1, <1>2 DEF Matched

LEMMA NoCalls ==
    ASSUME NEW o, o.pending = <<>>
    PROVE  Calling(o) = {} /\ RecordedOf(o) = {} /\ DOMAIN o.pending = {} /\ Distinct(o.pending)
<1>1. DOMAIN o.pending = {}
  BY EmptySeq
<1>. QED
  BY <1>1 DEF Calling, RecordedOf, Distinct

(* A turn opens, or closes.                                                *)
LEMMA TurnStartsIs ==
    ASSUME NEW o \in Opens, NEW t \in Log!TraceType, Matched(o, t), NEW e, TurnStarts(o, t, e)
    PROVE  LET p == Scan(o, e)  u == Log!After(t, e) IN
           /\ Log!Accepts(t, e) /\ Matched(p, u) /\ Calling(p) = {}
           /\ p.turn = t.nextTurn /\ p.step = None /\ o.pending = <<>> /\ p.pending = <<>>
           /\ u.nextTurn = t.nextTurn /\ u.nextStep = 1
           /\ e.type = "turn/start" /\ e.turn = t.nextTurn /\ o.turn = None
<1>. DEFINE p == Scan(o, e)
            u == Log!After(t, e)
<1>1. /\ e.type = "turn/start" /\ e.turn = t.nextTurn /\ e.step = None /\ o.turn = None
  BY DEF TurnStarts, Log!Boundary
<1>2. /\ t.nextTurn \in Nat \ {0} /\ t.openTurn = 0 /\ t.openStep = 0 /\ None = 0 /\ Log!None = 0
      /\ o.pending = <<>>
  BY <1>1, Fields
<1>3. p = [NothingOpen EXCEPT !.turn = e.turn]
  BY <1>1 DEF Scan
<1>4. p.turn = t.nextTurn /\ p.step = None /\ p.pending = <<>>
  BY <1>1, <1>3 DEF NothingOpen
<1>5. u = [t EXCEPT !.openTurn = e.turn, !.nextStep = 1]
  BY <1>1 DEF Log!After
<1>6. /\ u.openTurn = t.nextTurn /\ u.openStep = 0 /\ u.nextTurn = t.nextTurn /\ u.nextStep = 1
      /\ u.pendingCalls = t.pendingCalls
  BY <1>1, <1>2, <1>5 DEF Log!TraceType
<1>7. Log!Accepts(t, e)
  BY <1>1, <1>2 DEF Log!Accepts
<1>. HIDE DEF p, u
<1>8. /\ Calling(p) = {} /\ RecordedOf(p) = {} /\ DOMAIN p.pending = {} /\ Distinct(p.pending)
      /\ RecordedOf(o) = {}
  BY <1>2, <1>4, NoCalls
<1>9. t.pendingCalls = {}
  BY <1>8 DEF Matched
<1>10. Matched(p, u)
  BY <1>2, <1>4, <1>6, <1>8, <1>9 DEF Matched
<1>. QED
  BY <1>1, <1>2, <1>4, <1>6, <1>7, <1>8, <1>10 DEF p, u

LEMMA TurnEndsIs ==
    ASSUME NEW o \in Opens, NEW t \in Log!TraceType, Matched(o, t), NEW e, TurnEnds(o, e)
    PROVE  LET p == Scan(o, e)  u == Log!After(t, e) IN
           /\ Log!Accepts(t, e) /\ Matched(p, u) /\ Calling(p) = {}
           /\ p.turn = None /\ p.step = None /\ o.pending = <<>> /\ p.pending = <<>>
           /\ u.nextTurn = t.nextTurn + 1 /\ u.nextStep = t.nextStep
           /\ e.type = "turn/end" /\ e.turn = o.turn /\ o.turn = t.nextTurn
<1>. DEFINE p == Scan(o, e)
            u == Log!After(t, e)
<1>1. /\ e.type = "turn/end" /\ e.turn = o.turn /\ o.turn # None /\ o.step = None
  BY DEF TurnEnds, Log!Boundary
<1>2. /\ t.nextTurn \in Nat \ {0} /\ t.nextStep \in Nat \ {0} /\ o.turn = t.nextTurn
      /\ t.openTurn = o.turn /\ t.openStep = 0 /\ None = 0 /\ Log!None = 0 /\ o.pending = <<>>
  BY <1>1, Fields
<1>3. p = NothingOpen
  BY <1>1 DEF Scan
<1>4. p.turn = None /\ p.step = None /\ p.pending = <<>>
  BY <1>3 DEF NothingOpen
<1>5. u = [t EXCEPT !.openTurn = Log!None, !.nextTurn = t.nextTurn + 1]
  BY <1>1 DEF Log!After
<1>6. /\ u.openTurn = 0 /\ u.openStep = 0 /\ u.nextTurn = t.nextTurn + 1
      /\ u.nextStep = t.nextStep /\ u.pendingCalls = t.pendingCalls
  BY <1>2, <1>5 DEF Log!TraceType
<1>7. Log!Accepts(t, e)
  BY <1>1, <1>2 DEF Log!Accepts
<1>. HIDE DEF p, u
<1>8. /\ Calling(p) = {} /\ RecordedOf(p) = {} /\ DOMAIN p.pending = {} /\ Distinct(p.pending)
      /\ RecordedOf(o) = {}
  BY <1>2, <1>4, NoCalls
<1>9. t.pendingCalls = {}
  BY <1>8 DEF Matched
<1>10. Matched(p, u)
  BY <1>2, <1>4, <1>6, <1>8, <1>9 DEF Matched
<1>. QED
  BY <1>1, <1>2, <1>4, <1>6, <1>7, <1>8, <1>10 DEF p, u

(* A step opens, or closes.                                                *)
LEMMA StepStartsIs ==
    ASSUME NEW o \in Opens, NEW t \in Log!TraceType, Matched(o, t), NEW e, StepStarts(o, t, e)
    PROVE  LET p == Scan(o, e)  u == Log!After(t, e) IN
           /\ Log!Accepts(t, e) /\ Matched(p, u) /\ Calling(p) = {}
           /\ p.turn = o.turn /\ p.step = t.nextStep /\ o.pending = <<>> /\ p.pending = <<>>
           /\ u.nextTurn = t.nextTurn /\ u.nextStep = t.nextStep
           /\ e.type = "step/start" /\ o.turn # None /\ o.step = None
<1>. DEFINE p == Scan(o, e)
            u == Log!After(t, e)
<1>1. /\ e.type = "step/start" /\ e.turn = o.turn /\ e.step = t.nextStep
      /\ o.turn # None /\ o.step = None
  BY DEF StepStarts, Log!Boundary
<1>2. /\ t.nextTurn \in Nat \ {0} /\ t.nextStep \in Nat \ {0} /\ o.turn = t.nextTurn
      /\ t.openTurn = o.turn /\ t.openStep = 0 /\ None = 0 /\ Log!None = 0 /\ o.pending = <<>>
  BY <1>1, Fields
<1>3. p = [o EXCEPT !.step = e.step]
  BY <1>1 DEF Scan
<1>4. p.turn = o.turn /\ p.step = t.nextStep /\ p.pending = <<>>
  BY <1>1, <1>2, <1>3 DEF Opens
<1>5. u = [t EXCEPT !.openStep = e.step]
  BY <1>1 DEF Log!After
<1>6. /\ u.openTurn = o.turn /\ u.openStep = t.nextStep /\ u.nextTurn = t.nextTurn
      /\ u.nextStep = t.nextStep /\ u.pendingCalls = t.pendingCalls
  BY <1>1, <1>2, <1>5 DEF Log!TraceType
<1>7. Log!Accepts(t, e)
  BY <1>1, <1>2 DEF Log!Accepts
<1>. HIDE DEF p, u
<1>8. /\ Calling(p) = {} /\ RecordedOf(p) = {} /\ DOMAIN p.pending = {} /\ Distinct(p.pending)
      /\ RecordedOf(o) = {}
  BY <1>2, <1>4, NoCalls
<1>9. t.pendingCalls = {}
  BY <1>8 DEF Matched
<1>10. Matched(p, u)
  BY <1>2, <1>4, <1>6, <1>8, <1>9 DEF Matched
<1>. QED
  BY <1>1, <1>2, <1>4, <1>6, <1>7, <1>8, <1>10 DEF p, u

LEMMA StepEndsIs ==
    ASSUME NEW o \in Opens, NEW t \in Log!TraceType, Matched(o, t), NEW s, NEW e,
           StepEnds(s, o, e)
    PROVE  LET p == Scan(o, e)  u == Log!After(t, e) IN
           /\ Log!Accepts(t, e) /\ Matched(p, u) /\ Calling(p) = {}
           /\ p.turn = o.turn /\ p.step = None /\ p.pending = <<>>
           /\ u.nextTurn = t.nextTurn /\ u.nextStep = t.nextStep + 1
           /\ e.type = "step/end" /\ o.turn # None /\ o.step = t.nextStep
<1>. DEFINE p == Scan(o, e)
            u == Log!After(t, e)
<1>1. /\ e.type = "step/end" /\ e.turn = o.turn /\ e.step = o.step /\ o.step # None
  BY DEF StepEnds, Log!Boundary
<1>2. /\ t.nextTurn \in Nat \ {0} /\ t.nextStep \in Nat \ {0} /\ o.turn = t.nextTurn
      /\ t.openTurn = o.turn /\ t.openStep = o.step /\ o.step = t.nextStep
      /\ None = 0 /\ Log!None = 0
  BY <1>1, Fields
<1>3. p = [o EXCEPT !.step = None, !.pending = <<>>]
  BY <1>1 DEF Scan, StepClosed
<1>4. p.turn = o.turn /\ p.step = None /\ p.pending = <<>>
  BY <1>1, <1>2, <1>3 DEF Opens
<1>5. u = [t EXCEPT !.openStep = Log!None, !.nextStep = t.nextStep + 1, !.pendingCalls = {}]
  BY <1>1 DEF Log!After
<1>6. /\ u.openTurn = o.turn /\ u.openStep = 0 /\ u.nextTurn = t.nextTurn
      /\ u.nextStep = t.nextStep + 1 /\ u.pendingCalls = {}
  BY <1>1, <1>2, <1>5 DEF Log!TraceType
<1>7. Log!Accepts(t, e)
  BY <1>1, <1>2 DEF Log!Accepts, Log!InOpenStep
<1>. HIDE DEF p, u
<1>8. Calling(p) = {} /\ RecordedOf(p) = {} /\ DOMAIN p.pending = {} /\ Distinct(p.pending)
  BY <1>4, NoCalls
<1>9. Matched(p, u)
  BY <1>2, <1>4, <1>6, <1>8 DEF Matched
<1>. QED
  BY <1>1, <1>2, <1>4, <1>6, <1>7, <1>8, <1>9 DEF p, u

(* A message asks for calls; each is recorded, then answered.              *)
LEMMA AsksIs ==
    ASSUME NEW o \in Opens, NEW t \in Log!TraceType, Matched(o, t), NEW s, NEW e, Asks(s, o, e)
    PROVE  LET p == Scan(o, e)  u == Log!After(t, e) IN
           /\ Log!Accepts(t, e) /\ Matched(p, u) /\ Calling(p) = 1..e.asked /\ RecordedOf(p) = {}
           /\ p.turn = o.turn /\ p.step = o.step /\ o.pending = <<>> /\ u = t
           /\ p.pending = Registered(o.step, e.asked)
           /\ e.type = "assistant/message" /\ e.turn = o.turn /\ e.step = o.step
           /\ o.turn # None /\ o.step # None /\ e.asked \in 0..MaxCalls
<1>. DEFINE p == Scan(o, e)
            u == Log!After(t, e)
            r == Registered(o.step, e.asked)
<1>1. /\ e.type = "assistant/message" /\ e.turn = o.turn /\ e.step = o.step /\ o.step # None
      /\ e.asked \in 0..MaxCalls /\ o.pending = <<>>
  BY DEF Asks, Assistant
<1>2. /\ t.nextTurn \in Nat \ {0} /\ t.nextStep \in Nat \ {0} /\ o.turn = t.nextTurn
      /\ t.openTurn = o.turn /\ t.openStep = o.step /\ o.step = t.nextStep /\ o.step \in Nat
      /\ None = 0 /\ Log!None = 0
  BY <1>1, Fields
<1>3. /\ r \in Seq(Pendings) /\ DOMAIN r = 1..e.asked
      /\ \A i \in 1..e.asked : r[i] = [call |-> i, step |-> o.step, recorded |-> FALSE]
  BY <1>1, <1>2, RegisteredList
<1>. HIDE DEF r
<1>4. p = [o EXCEPT !.pending = o.pending \o r]
  BY <1>1 DEF Scan, r
<1>5. o.pending \o r = r
  BY <1>1, <1>3, ConcatEmptySeq
<1>6. p.turn = o.turn /\ p.step = o.step /\ p.pending = r
  BY <1>4, <1>5 DEF Opens
<1>7. u = t
  BY <1>1 DEF Log!After
<1>8. Log!Accepts(t, e)
  BY <1>1, <1>2 DEF Log!Accepts, Log!InOpenStep
<1>. HIDE DEF p, u
<1>a. /\ DOMAIN p.pending = 1..e.asked
      /\ \A i \in DOMAIN p.pending :
            /\ p.pending[i].call = i /\ p.pending[i].step = p.step
            /\ ~p.pending[i].recorded
  <2>1. ASSUME NEW i \in 1..e.asked
        PROVE  r[i].call = i /\ r[i].step = o.step /\ ~r[i].recorded
    <3>1. r[i] = [call |-> i, step |-> o.step, recorded |-> FALSE]
      BY <1>3
    <3>. QED
      BY <3>1
  <2>. QED
    BY <1>3, <1>6, <2>1
<1>9. Calling(p) = 1..e.asked
  BY <1>a DEF Calling
<1>10. RecordedOf(p) = {}
  BY <1>a DEF RecordedOf
<1>11. Distinct(p.pending) /\ \A i \in DOMAIN p.pending : p.pending[i].step = p.step
  BY <1>a DEF Distinct
<1>12. t.pendingCalls = {}
  BY <1>1, NoCalls DEF Matched
<1>13. Matched(p, u)
  BY <1>1, <1>2, <1>6, <1>7, <1>10, <1>11, <1>12 DEF Matched
<1>. QED
  BY <1>1, <1>2, <1>6, <1>7, <1>8, <1>9, <1>10, <1>13 DEF p, u, r

LEMMA RecordsIs ==
    ASSUME NEW o \in Opens, NEW t \in Log!TraceType, Matched(o, t), NEW e, Records(o, e)
    PROVE  LET p == Scan(o, e)  u == Log!After(t, e) IN
           /\ Log!Accepts(t, e) /\ Matched(p, u) /\ Calling(p) = Calling(o)
           /\ RecordedOf(p) = RecordedOf(o) \union {e.call}
           /\ p.turn = o.turn /\ p.step = o.step /\ p.pending = Recorded(o.pending, e.call)
           /\ u.nextTurn = t.nextTurn /\ u.nextStep = t.nextStep
           /\ e.type = "tool/call" /\ e.turn = o.turn /\ e.step = o.step
           /\ o.turn # None /\ o.step # None /\ e.call \in Calling(o)
<1>. DEFINE p == Scan(o, e)
            u == Log!After(t, e)
            q == Recorded(o.pending, e.call)
<1>1. PICK c \in DOMAIN o.pending : e = Log!ToolCall(o.turn, o.step, o.pending[c].call)
  BY DEF Records
<1>2. /\ e.type = "tool/call" /\ e.turn = o.turn /\ e.step = o.step /\ e.call = o.pending[c].call
  BY <1>1 DEF Log!ToolCall
<1>3. /\ o.pending \in Seq(Pendings) /\ None = 0 /\ Log!None = 0
      /\ o.step = None => o.pending = <<>>
  BY Fields
<1>4. o.step # None
  BY <1>1, <1>3, EmptySeq
<1>5. /\ t.nextTurn \in Nat \ {0} /\ t.nextStep \in Nat \ {0} /\ o.turn = t.nextTurn
      /\ t.openTurn = o.turn /\ t.openStep = o.step /\ o.step = t.nextStep /\ o.step \in Nat
  BY <1>3, <1>4, Fields
<1>6. /\ DOMAIN q = DOMAIN o.pending
      /\ \A i \in DOMAIN o.pending :
            /\ q[i].call = o.pending[i].call /\ q[i].step = o.pending[i].step
            /\ q[i].recorded <=> o.pending[i].recorded \/ o.pending[i].call = e.call
  BY <1>3, RecordedList
<1>7. p = [o EXCEPT !.pending = q]
  BY <1>2 DEF Scan
<1>. HIDE DEF q
<1>8. p.turn = o.turn /\ p.step = o.step /\ p.pending = q
  BY <1>7 DEF Opens
<1>9. u = [t EXCEPT !.pendingCalls = t.pendingCalls \union {e.call}]
  BY <1>2 DEF Log!After
<1>10. /\ u.openTurn = t.openTurn /\ u.openStep = t.openStep /\ u.nextTurn = t.nextTurn
       /\ u.nextStep = t.nextStep /\ u.pendingCalls = t.pendingCalls \union {e.call}
  BY <1>9 DEF Log!TraceType
<1>11. Log!Accepts(t, e)
  BY <1>2, <1>5 DEF Log!Accepts, Log!InOpenStep
<1>. HIDE DEF p, u
<1>12. Calling(p) = Calling(o) /\ e.call \in Calling(o)
  BY <1>2, <1>6, <1>8 DEF Calling
<1>13. RecordedOf(p) = RecordedOf(o) \union {e.call}
  <2>1. {j \in DOMAIN q : q[j].recorded} =
           {j \in DOMAIN o.pending : o.pending[j].recorded} \union
              {j \in DOMAIN o.pending : o.pending[j].call = e.call}
    BY <1>6
  <2>2. \A j \in {i \in DOMAIN q : q[i].recorded} : q[j].call = o.pending[j].call
    BY <1>6
  <2>. QED
    BY <1>2, <1>8, <2>1, <2>2 DEF RecordedOf
<1>14. Distinct(q) /\ \A i \in DOMAIN q : q[i].step = o.step
  BY <1>6 DEF Matched, Distinct
<1>15. Matched(p, u)
  BY <1>3, <1>4, <1>5, <1>8, <1>10, <1>13, <1>14 DEF Matched
<1>. QED
  BY <1>2, <1>3, <1>4, <1>5, <1>8, <1>10, <1>11, <1>12, <1>13, <1>15 DEF p, u, q

LEMMA AnswersIs ==
    ASSUME NEW o \in Opens, NEW t \in Log!TraceType, Matched(o, t), NEW e, Answers(o, e)
    PROVE  LET p == Scan(o, e)  u == Log!After(t, e) IN
           /\ Log!Accepts(t, e) /\ Matched(p, u) /\ Calling(p) = Calling(o) \ {e.call}
           /\ RecordedOf(p) = RecordedOf(o) \ {e.call}
           /\ p.turn = o.turn /\ p.step = o.step /\ p.pending = Answered(o.pending, e.call)
           /\ u.nextTurn = t.nextTurn /\ u.nextStep = t.nextStep
           /\ e.type = "tool/result" /\ e.turn = o.turn /\ e.step = o.step
           /\ o.turn # None /\ o.step # None /\ e.call \in Calling(o)
<1>. DEFINE p == Scan(o, e)
            u == Log!After(t, e)
            q == Answered(o.pending, e.call)
<1>1. PICK c \in DOMAIN o.pending, outcome \in {"ran", "unknown", "not-started"} :
         /\ e = Result(o.turn, o.step, o.pending[c].call, outcome)
         /\ o.pending[c].recorded \/ outcome = "not-started"
  BY DEF Answers
<1>2. /\ e.type = "tool/result" /\ e.turn = o.turn /\ e.step = o.step
      /\ e.call = o.pending[c].call /\ e.synthetic = (outcome = "not-started")
  BY <1>1 DEF Result
<1>3. /\ o.pending \in Seq(Pendings) /\ None = 0 /\ Log!None = 0
      /\ Len(o.pending) \in Nat /\ DOMAIN o.pending = 1..Len(o.pending)
      /\ o.step = None => o.pending = <<>>
  BY Fields
<1>4. o.step # None
  BY <1>1, <1>3, EmptySeq
<1>5. /\ t.nextTurn \in Nat \ {0} /\ t.nextStep \in Nat \ {0} /\ o.turn = t.nextTurn
      /\ t.openTurn = o.turn /\ t.openStep = o.step /\ o.step = t.nextStep /\ o.step \in Nat
  BY <1>3, <1>4, Fields
<1>6. Distinct(o.pending) /\ t.pendingCalls = RecordedOf(o)
  BY DEF Matched
<1>7. /\ q \in Seq(Pendings) /\ DOMAIN q = 1..Len(o.pending) - 1
      /\ \A j \in DOMAIN q : q[j] = IF j < c THEN o.pending[j] ELSE o.pending[j + 1]
  BY <1>1, <1>2, <1>3, <1>6, AnsweredList
<1>8. p = [o EXCEPT !.pending = q]
  BY <1>2 DEF Scan
<1>. HIDE DEF q
<1>9. p.turn = o.turn /\ p.step = o.step /\ p.pending = q
  BY <1>8 DEF Opens
<1>10. u = [t EXCEPT !.pendingCalls = t.pendingCalls \ {e.call}]
  BY <1>2 DEF Log!After
<1>11. /\ u.openTurn = t.openTurn /\ u.openStep = t.openStep /\ u.nextTurn = t.nextTurn
       /\ u.nextStep = t.nextStep /\ u.pendingCalls = t.pendingCalls \ {e.call}
  BY <1>10 DEF Log!TraceType
<1>12. Log!Accepts(t, e)
  <2>1. CASE o.pending[c].recorded
    <3>1. e.call \in t.pendingCalls
      BY <1>1, <1>2, <1>6, <2>1 DEF RecordedOf
    <3>. QED
      BY <1>2, <1>5, <3>1 DEF Log!Accepts, Log!InOpenStep
  <2>2. CASE outcome = "not-started"
    BY <1>2, <1>5, <2>2 DEF Log!Accepts, Log!InOpenStep
  <2>. QED
    BY <1>1, <2>1, <2>2
<1>. HIDE DEF p, u
(* Where each call that stays has moved to.                                *)
<1>13. \A j \in DOMAIN q : \E i \in DOMAIN o.pending :
          i # c /\ q[j] = o.pending[i] /\ i = IF j < c THEN j ELSE j + 1
  <2>. SUFFICES ASSUME NEW j \in DOMAIN q
                PROVE  \E i \in DOMAIN o.pending :
                          i # c /\ q[j] = o.pending[i] /\ i = IF j < c THEN j ELSE j + 1
    OBVIOUS
  <2>1. CASE j < c
    BY <1>1, <1>3, <1>7, <2>1
  <2>2. CASE ~(j < c)
    <3>1. j + 1 \in DOMAIN o.pending /\ j + 1 # c /\ q[j] = o.pending[j + 1]
      BY <1>1, <1>3, <1>7, <2>2
    <3>. QED
      BY <2>2, <3>1
  <2>. QED
    BY <2>1, <2>2
<1>14. \A i \in DOMAIN o.pending : i # c => \E j \in DOMAIN q : q[j] = o.pending[i]
  <2>. SUFFICES ASSUME NEW i \in DOMAIN o.pending, i # c
                PROVE  \E j \in DOMAIN q : q[j] = o.pending[i]
    OBVIOUS
  <2>1. CASE i < c
    BY <1>1, <1>3, <1>7, <2>1
  <2>2. CASE ~(i < c)
    <3>1. i - 1 \in DOMAIN q /\ ~(i - 1 < c) /\ i - 1 + 1 = i
      BY <1>1, <1>3, <1>7, <2>2
    <3>. QED
      BY <1>7, <3>1
  <2>. QED
    BY <2>1, <2>2
<1>15. \A i \in DOMAIN o.pending : o.pending[i].call = e.call <=> i = c
  BY <1>2, <1>6 DEF Distinct
<1>16. Calling(p) = Calling(o) \ {e.call} /\ e.call \in Calling(o)
  BY <1>2, <1>9, <1>13, <1>14, <1>15 DEF Calling
<1>17. RecordedOf(p) = RecordedOf(o) \ {e.call}
  BY <1>9, <1>13, <1>14, <1>15 DEF RecordedOf
<1>18. Distinct(q)
  <2>. SUFFICES ASSUME NEW j \in DOMAIN q, NEW k \in DOMAIN q, q[j].call = q[k].call
                PROVE  j = k
    BY DEF Distinct
  <2>1. PICK i \in DOMAIN o.pending :
           i # c /\ q[j] = o.pending[i] /\ i = IF j < c THEN j ELSE j + 1
    BY <1>13
  <2>2. PICK h \in DOMAIN o.pending :
           h # c /\ q[k] = o.pending[h] /\ h = IF k < c THEN k ELSE k + 1
    BY <1>13
  <2>3. i = h
    BY <1>6, <2>1, <2>2 DEF Distinct
  <2>. QED
    BY <1>1, <1>3, <1>7, <2>1, <2>2, <2>3
<1>19. \A j \in DOMAIN q : q[j].step = o.step
  BY <1>13 DEF Matched
<1>20. Matched(p, u)
  BY <1>3, <1>4, <1>5, <1>6, <1>9, <1>11, <1>17, <1>18, <1>19 DEF Matched
<1>. QED
  BY <1>2, <1>3, <1>4, <1>5, <1>9, <1>11, <1>12, <1>16, <1>17, <1>20 DEF p, u, q

------------------------------------------------------------------------------
(* A log that grows by an event that fits stays sound.                     *)

Grown(s, u, e) ==
    /\ Len(s) \in Nat /\ Len(u) = Len(s) + 1
    /\ \A i \in 1..Len(s) : u[i] = s[i]
    /\ u[Len(s) + 1] = e

LEMMA FitsKinds ==
    ASSUME NEW o \in Opens, NEW t \in Log!TraceType, Matched(o, t), NEW s, NEW e, Fits(s, o, t, e)
    PROVE  /\ Log!Accepts(t, e) /\ Matched(Scan(o, e), Log!After(t, e))
           /\ Log!Appended(t, e) = Log!After(t, e)
           /\ e.type = "turn/start" => TurnStarts(o, t, e)
           /\ e.type = "turn/end" => TurnEnds(o, e)
           /\ e.type = "step/start" => StepStarts(o, t, e)
           /\ e.type = "step/end" => StepEnds(s, o, e)
           /\ e.type = "assistant/message" => Asks(s, o, e)
           /\ e.type = "tool/call" => Records(o, e)
           /\ e.type = "tool/result" => Answers(o, e)
           /\ e.type \in Kinds
<1>1. CASE TurnStarts(o, t, e)
  BY <1>1, TurnStartsIs DEF Kinds, Boundaries, Log!Appended
<1>2. CASE TurnEnds(o, e)
  BY <1>2, TurnEndsIs DEF Kinds, Boundaries, Log!Appended
<1>3. CASE StepStarts(o, t, e)
  BY <1>3, StepStartsIs DEF Kinds, Boundaries, Log!Appended
<1>4. CASE StepEnds(s, o, e)
  BY <1>4, StepEndsIs DEF Kinds, Boundaries, Log!Appended
<1>5. CASE Asks(s, o, e)
  BY <1>5, AsksIs DEF Kinds, Boundaries, Log!Appended
<1>6. CASE Records(o, e)
  BY <1>6, RecordsIs DEF Kinds, Boundaries, Log!Appended
<1>7. CASE Answers(o, e)
  BY <1>7, AnswersIs DEF Kinds, Boundaries, Log!Appended
<1>. QED
  BY <1>1, <1>2, <1>3, <1>4, <1>5, <1>6, <1>7 DEF Fits

LEMMA NumberedGrows ==
    ASSUME NEW o \in Opens, NEW t \in Log!TraceType, Matched(o, t), NEW s, NEW u, NEW e,
           Grown(s, u, e), Fits(s, o, t, e), Numbered(s, Len(s), o, t)
    PROVE  Numbered(u, Len(s) + 1, Scan(o, e), Log!After(t, e))
<1>. DEFINE n == Len(s)
            p == Scan(o, e)
            v == Log!After(t, e)
<1>1. /\ n \in Nat /\ (\A i \in 1..n : u[i] = s[i]) /\ u[n + 1] = e
  BY DEF Grown
<1>2. t.nextTurn \in Nat \ {0} /\ None = 0 /\ (o.turn # None => o.turn = t.nextTurn)
  BY Fields
<1>3. CASE TurnStarts(o, t, e)
  <2>1. p.turn = t.nextTurn /\ e.type = "turn/start" /\ e.turn = t.nextTurn
    BY <1>3, TurnStartsIs
  <2>. HIDE DEF p, v
  <2>2. LatestTurn(p, v) = e.turn
    BY <1>2, <2>1 DEF LatestTurn
  <2>3. /\ n + 1 \in 1..n + 1 /\ u[n + 1].type = "turn/start"
        /\ u[n + 1].turn = LatestTurn(p, v)
        /\ \A i \in n + 1 + 1..n + 1 : u[i].type # "turn/start"
    BY <1>1, <2>1, <2>2
  <2>. QED
    BY <2>3 DEF Numbered, p, v
<1>4. CASE ~TurnStarts(o, t, e)
  <2>1. e.type # "turn/start"
    BY <1>4, FitsKinds
  <2>2. LatestTurn(p, v) = LatestTurn(o, t)
    <3>1. CASE TurnEnds(o, e)
      <4>1. p.turn = None /\ v.nextTurn = t.nextTurn + 1 /\ o.turn = t.nextTurn /\ o.turn # None
        BY <1>2, <3>1, TurnEndsIs
      <4>. HIDE DEF p, v
      <4>. QED
        BY <1>2, <4>1 DEF LatestTurn
    <3>2. CASE ~TurnEnds(o, e)
      <4>1. p.turn = o.turn /\ v.nextTurn = t.nextTurn
        BY <1>4, <3>2, StepStartsIs, StepEndsIs, AsksIs, RecordsIs, AnswersIs DEF Fits
      <4>. HIDE DEF p, v
      <4>. QED
        BY <4>1 DEF LatestTurn
    <3>. QED
      BY <3>1, <3>2
  <2>. HIDE DEF p, v
  <2>3. CASE LatestTurn(o, t) = None /\ \A i \in 1..n : s[i].type # "turn/start"
    <3>1. \A i \in 1..n + 1 : u[i].type # "turn/start"
      BY <1>1, <2>1, <2>3
    <3>. QED
      BY <2>2, <2>3, <3>1 DEF Numbered, p, v
  <2>4. CASE \E j \in 1..n :
                /\ s[j].type = "turn/start" /\ s[j].turn = LatestTurn(o, t)
                /\ \A i \in j + 1..n : s[i].type # "turn/start"
    <3>1. PICK j \in 1..n :
             /\ s[j].type = "turn/start" /\ s[j].turn = LatestTurn(o, t)
             /\ \A i \in j + 1..n : s[i].type # "turn/start"
      BY <2>4
    <3>2. /\ j \in 1..n + 1 /\ u[j].type = "turn/start" /\ u[j].turn = LatestTurn(p, v)
          /\ \A i \in j + 1..n + 1 : u[i].type # "turn/start"
      BY <1>1, <2>1, <2>2, <3>1
    <3>. QED
      BY <3>2 DEF Numbered, p, v
  <2>. QED
    BY <2>3, <2>4 DEF Numbered
<1>. QED
  BY <1>3, <1>4

LEMMA PastGrows ==
    ASSUME NEW o \in Opens, NEW t \in Log!TraceType, Matched(o, t), NEW s \in Seq(Events), NEW u,
           NEW e, Grown(s, u, e), Fits(s, o, t, e), Past(s, Len(s), o, t)
    PROVE  Past(u, Len(s) + 1, Scan(o, e), Log!After(t, e))
<1>. DEFINE n == Len(s)
            p == Scan(o, e)
            v == Log!After(t, e)
            Then(w, q, x) == \/ x.turn < q.nextTurn
                             \/ w.turn # None /\ x.turn = w.turn
                                   /\ (x.step < q.nextStep \/ x.step = w.step)
<1>1. /\ n \in Nat /\ (\A i \in 1..n : u[i] = s[i]) /\ u[n + 1] = e
  BY DEF Grown
<1>2. /\ o.turn \in Nat /\ o.step \in Nat /\ t.nextTurn \in Nat \ {0} /\ t.nextStep \in Nat \ {0}
      /\ None = 0 /\ (o.turn # None => o.turn = t.nextTurn)
      /\ o.step # None => o.turn # None /\ o.step = t.nextStep
  BY Fields
<1>3. \A i \in 1..n : s[i].turn \in Nat /\ s[i].step \in Nat
  BY ElementOfSeq, EventsTyped
<1>4. ASSUME NEW x, x.turn \in Nat, x.step \in Nat, Then(o, t, x)
      PROVE  Then(p, v, x)
  <2>1. CASE TurnStarts(o, t, e)
    <3>1. p.turn = t.nextTurn /\ v.nextTurn = t.nextTurn /\ o.turn = None
      BY <2>1, TurnStartsIs
    <3>. QED
      BY <1>2, <1>4, <3>1
  <2>2. CASE TurnEnds(o, e)
    <3>1. v.nextTurn = t.nextTurn + 1
      BY <2>2, TurnEndsIs
    <3>. QED
      BY <1>2, <1>4, <3>1
  <2>3. CASE StepStarts(o, t, e)
    <3>1. /\ p.turn = o.turn /\ v.nextTurn = t.nextTurn /\ v.nextStep = t.nextStep
          /\ o.turn # None /\ o.step = None
      BY <2>3, StepStartsIs
    <3>. QED
      BY <1>2, <1>4, <3>1
  <2>4. CASE StepEnds(s, o, e)
    <3>1. /\ p.turn = o.turn /\ v.nextTurn = t.nextTurn /\ v.nextStep = t.nextStep + 1
          /\ o.turn # None /\ o.step = t.nextStep
      BY <2>4, StepEndsIs
    <3>. QED
      BY <1>2, <1>4, <3>1
  <2>5. CASE Asks(s, o, e) \/ Records(o, e) \/ Answers(o, e)
    <3>1. /\ p.turn = o.turn /\ p.step = o.step /\ v.nextTurn = t.nextTurn
          /\ v.nextStep = t.nextStep
      BY <2>5, AsksIs, RecordsIs, AnswersIs
    <3>. QED
      BY <1>4, <3>1
  <2>. QED
    BY <2>1, <2>2, <2>3, <2>4, <2>5 DEF Fits
<1>5. ASSUME e.type \in Called
      PROVE  Then(p, v, e)
  <2>1. Asks(s, o, e) \/ Records(o, e) \/ Answers(o, e)
    BY <1>5, FitsKinds DEF Called
  <2>2. /\ p.turn = o.turn /\ p.step = o.step /\ e.turn = o.turn /\ e.step = o.step
        /\ o.turn # None
    BY <2>1, AsksIs, RecordsIs, AnswersIs
  <2>. QED
    BY <2>2
<1>. HIDE DEF p, v
<1>6. ASSUME NEW i \in 1..n + 1, u[i].type \in Called
      PROVE  Then(p, v, u[i])
  <2>1. CASE i = n + 1
    BY <1>1, <1>5, <1>6, <2>1
  <2>2. CASE i # n + 1
    <3>1. i \in 1..n /\ u[i] = s[i]
      BY <1>1, <2>2
    <3>2. Then(o, t, s[i])
      BY <1>6, <3>1 DEF Past
    <3>. HIDE DEF Then
    <3>. QED
      BY <1>3, <1>4, <3>1, <3>2
  <2>. QED
    BY <2>1, <2>2
<1>. QED
  BY <1>6 DEF Past, p, v

LEMMA UnansweredGrows ==
    ASSUME NEW o \in Opens, NEW t \in Log!TraceType, Matched(o, t), NEW s, NEW u, NEW e,
           Grown(s, u, e), Fits(s, o, t, e),
           Unanswered(s, Len(s), o), Unrecorded(s, Len(s), o)
    PROVE  Unanswered(u, Len(s) + 1, Scan(o, e)) /\ Unrecorded(u, Len(s) + 1, Scan(o, e))
<1>. DEFINE n == Len(s)
            p == Scan(o, e)
<1>1. /\ n \in Nat /\ (\A i \in 1..n : u[i] = s[i]) /\ u[n + 1] = e
  BY DEF Grown
<1>2. CASE TurnStarts(o, t, e) \/ TurnEnds(o, e) \/ StepStarts(o, t, e) \/ StepEnds(s, o, e)
  <2>1. Calling(p) = {}
    BY <1>2, TurnStartsIs, TurnEndsIs, StepStartsIs, StepEndsIs
  <2>. QED
    BY <2>1 DEF Unanswered, Unrecorded
<1>3. CASE Asks(s, o, e)
  <2>1. e.type = "assistant/message" /\ p.turn = o.turn /\ p.step = o.step
    BY <1>3, AsksIs
  <2>. HIDE DEF p
  <2>2. \A i \in 1..n : s[i].type \in Called => ~Of(s[i], o.turn, o.step)
    BY <1>3 DEF Asks
  <2>3. \A i \in 1..n + 1 : u[i].type \in {"tool/call", "tool/result"} =>
           ~Of(u[i], p.turn, p.step)
    BY <1>1, <2>1, <2>2 DEF Called
  <2>. QED
    BY <2>3 DEF Unanswered, Unrecorded, p
<1>4. CASE Records(o, e)
  <2>1. /\ e.type = "tool/call" /\ p.turn = o.turn /\ p.step = o.step
        /\ Calling(p) = Calling(o) /\ RecordedOf(p) = RecordedOf(o) \union {e.call}
    BY <1>4, RecordsIs
  <2>. HIDE DEF p
  <2>2. Unanswered(u, n + 1, p)
    BY <1>1, <2>1 DEF Unanswered
  <2>3. Unrecorded(u, n + 1, p)
    BY <1>1, <2>1 DEF Unrecorded
  <2>. QED
    BY <2>2, <2>3 DEF p
<1>5. CASE Answers(o, e)
  <2>1. /\ e.type = "tool/result" /\ p.turn = o.turn /\ p.step = o.step
        /\ Calling(p) = Calling(o) \ {e.call} /\ RecordedOf(p) = RecordedOf(o) \ {e.call}
    BY <1>5, AnswersIs
  <2>. HIDE DEF p
  <2>2. Unanswered(u, n + 1, p)
    BY <1>1, <2>1 DEF Unanswered
  <2>3. Unrecorded(u, n + 1, p)
    BY <1>1, <2>1 DEF Unrecorded
  <2>. QED
    BY <2>2, <2>3 DEF p
<1>. QED
  BY <1>2, <1>3, <1>4, <1>5 DEF Fits

LEMMA OnceGrows ==
    ASSUME NEW o \in Opens, NEW t \in Log!TraceType, Matched(o, t), NEW s \in Seq(Events),
           NEW u \in Seq(Events), NEW e,
           Grown(s, u, e), Fits(s, o, t, e), Unanswered(s, Len(s), o), Once(s)
    PROVE  Once(u)
<1>. DEFINE n == Len(s)
<1>1. /\ n \in Nat /\ (\A i \in 1..n : u[i] = s[i]) /\ u[n + 1] = e
      /\ DOMAIN s = 1..n /\ DOMAIN u = 1..n + 1
  BY LenProperties DEF Grown
<1>2. ASSUME NEW i \in 1..n, s[i].type = "tool/result", e.type = "tool/result",
             s[i].call = e.call, Of(s[i], e.turn, e.step)
      PROVE  FALSE
  <2>1. e.turn = o.turn /\ e.step = o.step /\ e.call \in Calling(o)
    BY <1>2, FitsKinds, AnswersIs
  <2>. QED
    BY <1>2, <2>1 DEF Unanswered
<1>. SUFFICES ASSUME NEW i \in 1..n + 1, NEW j \in 1..n + 1,
                     u[i].type = "tool/result", u[j].type = "tool/result",
                     u[i].call = u[j].call, Of(u[i], u[j].turn, u[j].step)
              PROVE  i = j
  BY <1>1 DEF Once
<1>3. CASE i \in 1..n /\ j \in 1..n
  BY <1>1, <1>3 DEF Once
<1>4. CASE i = n + 1 /\ j \in 1..n
  BY <1>1, <1>2, <1>4 DEF Of
<1>5. CASE i \in 1..n /\ j = n + 1
  BY <1>1, <1>2, <1>5
<1>. QED
  BY <1>1, <1>3, <1>4, <1>5

LEMMA AccountedGrows ==
    ASSUME NEW o \in Opens, NEW t \in Log!TraceType, Matched(o, t), NEW s \in Seq(Events),
           NEW u, NEW e, Grown(s, u, e), Fits(s, o, t, e), Accounted(s, Len(s), o)
    PROVE  Accounted(u, Len(s) + 1, Scan(o, e))
<1>. DEFINE n == Len(s)
            p == Scan(o, e)
<1>1. /\ n \in Nat /\ (\A i \in 1..n : u[i] = s[i]) /\ u[n + 1] = e
  BY DEF Grown
<1>2. ASSUME NEW x, NEW call, HasResult(s, n, x, call)
      PROVE  HasResult(u, n + 1, x, call)
  BY <1>1, <1>2 DEF HasResult
<1>3. ASSUME NEW x, GaveUp(s, n, x)
      PROVE  GaveUp(u, n + 1, x)
  <2>1. PICK i \in 1..n :
           /\ s[i] = Log!Boundary("step/end", x.turn, x.step)
           /\ \A j \in 1..i : s[j].type = "tool/result" =>
                 s[j].outcome = "ran" \/ ~Of(s[j], x.turn, x.step)
    BY <1>3 DEF GaveUp
  <2>2. i \in 1..n + 1 /\ u[i] = s[i] /\ \A j \in 1..i : u[j] = s[j]
    BY <1>1
  <2>. QED
    BY <2>1, <2>2 DEF GaveUp
<1>4. ASSUME NEW x, NEW call, Of(x, o.turn, o.step), call \in Calling(o)
      PROVE  \/ HasResult(u, n + 1, x, call)
             \/ Of(x, p.turn, p.step) /\ call \in Calling(p)
             \/ GaveUp(u, n + 1, x)
  <2>1. CASE TurnStarts(o, t, e) \/ TurnEnds(o, e) \/ StepStarts(o, t, e) \/ Asks(s, o, e)
    <3>1. o.pending = <<>>
      BY <2>1, TurnStartsIs, TurnEndsIs, StepStartsIs, AsksIs
    <3>. QED
      BY <1>4, <3>1, NoCalls
  <2>2. CASE Records(o, e)
    BY <1>4, <2>2, RecordsIs
  <2>3. CASE Answers(o, e)
    <3>1. /\ e.type = "tool/result" /\ e.turn = o.turn /\ e.step = o.step
          /\ p.turn = o.turn /\ p.step = o.step /\ Calling(p) = Calling(o) \ {e.call}
      BY <2>3, AnswersIs
    <3>2. CASE call = e.call
      BY <1>1, <1>4, <3>1, <3>2 DEF HasResult, Of
    <3>. QED
      BY <1>4, <3>1, <3>2
  <2>4. CASE StepEnds(s, o, e)
    <3>1. o.pending # <<>>
      BY <1>4, NoCalls
    <3>2. /\ e = Log!Boundary("step/end", o.turn, o.step) /\ OnlyRan(s, o.turn, o.step)
      BY <2>4, <3>1 DEF StepEnds
    <3>3. e.type = "step/end"
      BY <3>2 DEF Log!Boundary
    <3>4. \A j \in 1..n + 1 : u[j].type = "tool/result" =>
             u[j].outcome = "ran" \/ ~Of(u[j], o.turn, o.step)
      BY <1>1, <3>2, <3>3 DEF OnlyRan
    <3>5. n + 1 \in 1..n + 1 /\ u[n + 1] = Log!Boundary("step/end", x.turn, x.step)
      BY <1>1, <1>4, <3>2 DEF Of
    <3>. QED
      BY <1>4, <3>4, <3>5 DEF GaveUp, Of
  <2>. QED
    BY <2>1, <2>2, <2>3, <2>4 DEF Fits
<1>5. ASSUME e.type = "assistant/message", NEW call \in 1..e.asked
      PROVE  Of(e, p.turn, p.step) /\ call \in Calling(p)
  <2>1. Asks(s, o, e)
    BY <1>5, FitsKinds
  <2>. QED
    BY <1>5, <2>1, AsksIs DEF Of
<1>. HIDE DEF p
<1>6. ASSUME NEW i \in 1..n + 1, u[i].type = "assistant/message", NEW call \in 1..u[i].asked
      PROVE  \/ HasResult(u, n + 1, u[i], call)
             \/ Of(u[i], p.turn, p.step) /\ call \in Calling(p)
             \/ GaveUp(u, n + 1, u[i])
  <2>1. CASE i = n + 1
    BY <1>1, <1>5, <1>6, <2>1
  <2>2. CASE i # n + 1
    <3>1. i \in 1..n /\ u[i] = s[i]
      BY <1>1, <2>2
    <3>2. \/ HasResult(s, n, s[i], call)
          \/ Of(s[i], o.turn, o.step) /\ call \in Calling(o)
          \/ GaveUp(s, n, s[i])
      BY <1>6, <3>1 DEF Accounted
    <3>. QED
      BY <1>2, <1>3, <1>4, <3>1, <3>2
  <2>. QED
    BY <2>1, <2>2
<1>. QED
  BY <1>6 DEF Accounted, p

(* What holds after k events does not depend on those behind them.         *)
LEMMA Carried ==
    ASSUME NEW s, NEW u, NEW k \in Nat, \A i \in 1..k : u[i] = s[i], NEW o, NEW t,
           SoundAt(s, k, o, t)
    PROVE  SoundAt(u, k, o, t)
<1>1. Numbered(u, k, o, t)
  <2>1. CASE LatestTurn(o, t) = None /\ \A i \in 1..k : s[i].type # "turn/start"
    BY <2>1 DEF Numbered
  <2>2. CASE \E j \in 1..k :
                /\ s[j].type = "turn/start" /\ s[j].turn = LatestTurn(o, t)
                /\ \A i \in j + 1..k : s[i].type # "turn/start"
    <3>1. PICK j \in 1..k :
             /\ s[j].type = "turn/start" /\ s[j].turn = LatestTurn(o, t)
             /\ \A i \in j + 1..k : s[i].type # "turn/start"
      BY <2>2
    <3>2. u[j] = s[j] /\ \A i \in j + 1..k : u[i] = s[i]
      OBVIOUS
    <3>. QED
      BY <3>1, <3>2 DEF Numbered
  <2>. QED
    BY <2>1, <2>2 DEF SoundAt, Numbered
<1>2. Past(u, k, o, t) /\ Unanswered(u, k, o) /\ Unrecorded(u, k, o)
  BY DEF SoundAt, Past, Unanswered, Unrecorded
<1>3. ASSUME NEW x, NEW call, HasResult(s, k, x, call)
      PROVE  HasResult(u, k, x, call)
  BY <1>3 DEF HasResult
<1>4. ASSUME NEW x, GaveUp(s, k, x)
      PROVE  GaveUp(u, k, x)
  <2>1. PICK i \in 1..k :
           /\ s[i] = Log!Boundary("step/end", x.turn, x.step)
           /\ \A j \in 1..i : s[j].type = "tool/result" =>
                 s[j].outcome = "ran" \/ ~Of(s[j], x.turn, x.step)
    BY <1>4 DEF GaveUp
  <2>2. u[i] = s[i] /\ \A j \in 1..i : u[j] = s[j]
    OBVIOUS
  <2>. QED
    BY <2>1, <2>2 DEF GaveUp
<1>5. Accounted(u, k, o)
  BY <1>3, <1>4 DEF SoundAt, Accounted
<1>. QED
  BY <1>1, <1>2, <1>5 DEF SoundAt

LEMMA SoundGrows ==
    ASSUME NEW s \in Seq(Events), Sound(s), NEW e \in Events,
           Fits(s, Open(s, Len(s)), Seen(s, Len(s)), e)
    PROVE  LET u == Append(s, e)  n == Len(s) IN
           /\ u \in Seq(Events) /\ Len(u) = n + 1 /\ Sound(u)
           /\ Open(u, n + 1) = Scan(Open(s, n), e)
           /\ Seen(u, n + 1) = Log!After(Seen(s, n), e)
           /\ Seen(u, n + 1) = Log!Appended(Seen(s, n), e)
<1>. DEFINE n == Len(s)
            u == Append(s, e)
            o == Open(s, n)
            t == Seen(s, n)
<1>1. /\ n \in Nat /\ u \in Seq(Events) /\ Len(u) = n + 1
      /\ (\A i \in 1..n : u[i] = s[i]) /\ u[n + 1] = e
  BY LenProperties, AppendProperties
<1>. HIDE DEF u
<1>2. Grown(s, u, e)
  BY <1>1 DEF Grown
<1>3. o \in Opens /\ t \in Log!TraceType
  BY <1>1, PrefixTyped
<1>4. SoundAt(s, n, o, t)
  BY <1>1 DEF Sound
<1>5. \A k \in 0..n : Open(u, k) = Open(s, k) /\ Seen(u, k) = Seen(s, k)
  <2>. SUFFICES ASSUME NEW k \in 0..n
                PROVE  Open(u, k) = Open(s, k) /\ Seen(u, k) = Seen(s, k)
    OBVIOUS
  <2>1. k \in Nat /\ k <= Len(s) /\ k <= Len(u) /\ \A i \in 1..k : s[i] = u[i]
    BY <1>1
  <2>. QED
    BY <1>1, <2>1, PrefixDecides
<1>6. /\ Open(u, n + 1) = Scan(o, e) /\ Seen(u, n + 1) = Log!Appended(t, e)
  <2>1. n + 1 \in 1..Len(u) /\ n + 1 - 1 = n /\ Len(u) \in Nat
    BY <1>1
  <2>2. /\ Open(u, n + 1) = Scan(Open(u, n), u[n + 1])
        /\ Seen(u, n + 1) = Log!Appended(Seen(u, n), u[n + 1])
    BY <2>1, ScanUnfolds, TraceUnfolds
  <2>. QED
    BY <1>1, <1>5, <2>2
<1>. HIDE DEF o, t
<1>7. Matched(o, t) /\ Fits(s, o, t, e)
  BY <1>4 DEF SoundAt, o, t
<1>8. Matched(Scan(o, e), Log!After(t, e)) /\ Log!Appended(t, e) = Log!After(t, e)
  BY <1>3, <1>7, FitsKinds
<1>9. SoundAt(u, n + 1, Scan(o, e), Log!After(t, e))
  <2>1. /\ Numbered(s, n, o, t) /\ Past(s, n, o, t) /\ Unanswered(s, n, o)
        /\ Unrecorded(s, n, o) /\ Accounted(s, n, o)
    BY <1>4 DEF SoundAt
  <2>2. Numbered(u, n + 1, Scan(o, e), Log!After(t, e))
    BY <1>2, <1>3, <1>7, <2>1, NumberedGrows
  <2>3. Past(u, n + 1, Scan(o, e), Log!After(t, e))
    BY <1>2, <1>3, <1>7, <2>1, PastGrows
  <2>4. Unanswered(u, n + 1, Scan(o, e)) /\ Unrecorded(u, n + 1, Scan(o, e))
    BY <1>2, <1>3, <1>7, <2>1, UnansweredGrows
  <2>5. Accounted(u, n + 1, Scan(o, e))
    BY <1>2, <1>3, <1>7, <2>1, AccountedGrows
  <2>. QED
    BY <1>8, <2>2, <2>3, <2>4, <2>5 DEF SoundAt
<1>10. Once(u)
  BY <1>1, <1>2, <1>3, <1>4, <1>7, OnceGrows DEF Sound, SoundAt
<1>11. Sound(u)
  <2>. SUFFICES ASSUME NEW k \in 0..Len(u)
                PROVE  SoundAt(u, k, Open(u, k), Seen(u, k))
    BY <1>10 DEF Sound
  <2>1. CASE k = n + 1
    BY <1>6, <1>8, <1>9, <2>1
  <2>2. CASE k \in 0..n
    <3>1. SoundAt(s, k, Open(s, k), Seen(s, k)) /\ k \in Nat /\ \A i \in 1..k : u[i] = s[i]
      BY <1>1, <2>2 DEF Sound
    <3>. QED
      BY <1>5, <2>2, <3>1, Carried
  <2>. QED
    BY <1>1, <2>1, <2>2
<1>. QED
  BY <1>1, <1>6, <1>8, <1>11 DEF u, o, t

LEMMA SoundCut ==
    ASSUME NEW s \in Seq(Events), Sound(s), NEW k \in 0..Len(s)
    PROVE  SubSeq(s, 1, k) \in Seq(Events) /\ Sound(SubSeq(s, 1, k))
<1>. DEFINE u == SubSeq(s, 1, k)
<1>1. /\ Len(s) \in Nat /\ DOMAIN s = 1..Len(s) /\ \A i \in 1..Len(s) : s[i] \in Events
  BY LenProperties, ElementOfSeq
<1>2. /\ u \in Seq(Events) /\ Len(u) = k /\ \A i \in 1..k : u[i] = s[i]
  <2>1. 1 \in Int /\ k \in Int /\ \A i \in 1..k : s[i] \in Events
    BY <1>1
  <2>. QED
    BY <1>1, <2>1, SubSeqProperties
<1>. HIDE DEF u
<1>3. DOMAIN u = 1..k
  BY <1>2, LenProperties
<1>4. Once(u)
  <2>1. \A i \in 1..k : i \in DOMAIN s
    BY <1>1
  <2>. QED
    BY <1>2, <1>3, <2>1 DEF Once, Sound
<1>5. ASSUME NEW j \in 0..k
      PROVE  SoundAt(u, j, Open(u, j), Seen(u, j))
  <2>1. /\ j \in Nat /\ j <= Len(s) /\ j <= Len(u) /\ Len(u) \in Nat
        /\ (\A i \in 1..j : s[i] = u[i]) /\ \A i \in 1..j : u[i] = s[i]
    BY <1>1, <1>2
  <2>2. Open(s, j) = Open(u, j) /\ Seen(s, j) = Seen(u, j)
    BY <1>1, <2>1, PrefixDecides
  <2>3. SoundAt(s, j, Open(s, j), Seen(s, j))
    BY <1>1 DEF Sound
  <2>. QED
    BY <2>1, <2>2, <2>3, Carried
<1>. QED
  BY <1>2, <1>4, <1>5 DEF Sound, u

------------------------------------------------------------------------------
(* The closers of an interrupted turn are events that fit, one after the   *)
(* other, and each leaves the rest of the closers to be appended.          *)

EndOf(o) == Append(StepLast(o), Log!Boundary("turn/end", o.turn, None))
OutcomeOf(p) == IF p.recorded THEN "unknown" ELSE "not-started"
Closing == {"tool/result", "step/end", "turn/end"}

LEMMA EndOfIs ==
    ASSUME NEW o \in Opens
    PROVE  LET m == Len(o.pending)
               d == EndOf(o) IN
           /\ d \in Seq(Events) /\ m \in Nat
           /\ Len(d) = IF o.step = None THEN m + 1 ELSE m + 2
           /\ \A i \in 1..m : d[i] = Result(o.turn, o.pending[i].step, o.pending[i].call,
                                            OutcomeOf(o.pending[i]))
           /\ o.step # None => d[m + 1] = Log!Boundary("step/end", o.turn, o.step)
           /\ d[Len(d)] = Log!Boundary("turn/end", o.turn, None)
<1>. DEFINE m == Len(o.pending)
            r == ResultClosers(o)
            c == StepCloser(o)
            f == r \o c
            z == Log!Boundary("turn/end", o.turn, None)
            d == EndOf(o)
<1>1. /\ o.turn \in Nat /\ o.step \in Nat /\ m \in Nat /\ None \in Nat
      /\ DOMAIN o.pending = 1..m /\ \A i \in 1..m : o.pending[i] \in Pendings
  <2>1. o.turn \in Nat /\ o.step \in Nat /\ o.pending \in Seq(Pendings) /\ None \in Nat
    BY DEF Opens, None, Log!None
  <2>. QED
    BY <2>1, LenProperties, ElementOfSeq
<1>2. /\ r \in Seq(Events) /\ Len(r) = m
      /\ \A i \in 1..m : r[i] = Result(o.turn, o.pending[i].step, o.pending[i].call,
                                       OutcomeOf(o.pending[i]))
  <2>. DEFINE R(i) == Result(o.turn, o.pending[i].step, o.pending[i].call,
                             OutcomeOf(o.pending[i]))
  <2>1. r = [i \in 1..m |-> R(i)]
    BY <1>1 DEF ResultClosers, OutcomeOf
  <2>2. ASSUME NEW i \in 1..m
        PROVE  R(i) \in Events
    <3>1. o.pending[i].step \in Nat /\ o.pending[i].call \in 1..MaxCalls
      BY <1>1 DEF Pendings
    <3>2. OutcomeOf(o.pending[i]) \in {"ran", "unknown", "not-started"}
      BY DEF OutcomeOf
    <3>. QED
      BY <1>1, <3>1, <3>2, EventTypes
  <2>. HIDE DEF R, r
  <2>3. r \in Seq(Events)
    BY <1>1, <2>1, <2>2, SeqDef
  <2>4. DOMAIN r = 1..m /\ \A i \in 1..m : r[i] = R(i)
    BY <2>1
  <2>5. Len(r) = m
    BY <1>1, <2>3, <2>4, LenProperties
  <2>. QED
    BY <2>3, <2>4, <2>5 DEF R
<1>3. /\ c \in Seq(Events) /\ Len(c) = IF o.step = None THEN 0 ELSE 1
      /\ o.step # None => c[1] = Log!Boundary("step/end", o.turn, o.step)
  <2>1. Log!Boundary("step/end", o.turn, o.step) \in Events
    BY <1>1, EventTypes DEF Boundaries
  <2>. QED
    BY <2>1, EmptySeq DEF StepCloser
<1>4. z \in Events
  BY <1>1, EventTypes DEF Boundaries
<1>5. d = Append(f, z)
  BY DEF EndOf, StepLast
<1>. HIDE DEF m, r, c, z, d
<1>6. /\ f \in Seq(Events) /\ Len(f) = Len(r) + Len(c)
      /\ \A i \in 1..Len(r) + Len(c) : f[i] = IF i <= Len(r) THEN r[i] ELSE c[i - Len(r)]
  BY <1>2, <1>3, ConcatProperties
<1>. HIDE DEF f
<1>7. /\ d \in Seq(Events) /\ Len(d) = Len(f) + 1
      /\ (\A i \in 1..Len(f) : d[i] = f[i]) /\ d[Len(f) + 1] = z
  BY <1>4, <1>5, <1>6, AppendProperties
<1>8. CASE o.step = None
  <2>1. Len(c) = 0 /\ Len(f) = m /\ Len(d) = m + 1 /\ \A i \in 1..m : f[i] = r[i] /\ d[i] = f[i]
    BY <1>1, <1>2, <1>3, <1>6, <1>7, <1>8
  <2>2. \A i \in 1..m : d[i] = Result(o.turn, o.pending[i].step, o.pending[i].call,
                                      OutcomeOf(o.pending[i]))
    BY <1>2, <2>1
  <2>. QED
    BY <1>1, <1>7, <1>8, <2>1, <2>2 DEF m, z, d
<1>9. CASE o.step # None
  <2>1. /\ Len(c) = 1 /\ Len(f) = m + 1 /\ Len(d) = m + 2
        /\ \A i \in 1..m : f[i] = r[i] /\ d[i] = f[i]
    BY <1>1, <1>2, <1>3, <1>6, <1>7, <1>9
  <2>2. \A i \in 1..m : d[i] = Result(o.turn, o.pending[i].step, o.pending[i].call,
                                      OutcomeOf(o.pending[i]))
    BY <1>2, <2>1
  <2>3. m + 1 \in 1..Len(f) /\ ~(m + 1 <= m) /\ m + 1 - m = 1
    BY <1>1, <2>1
  <2>4. d[m + 1] = Log!Boundary("step/end", o.turn, o.step)
    BY <1>2, <1>3, <1>6, <1>7, <1>9, <2>3
  <2>. QED
    BY <1>1, <1>7, <1>9, <2>1, <2>2, <2>4 DEF m, z, d
<1>. QED
  BY <1>8, <1>9

LEMMA ClosersAre ==
    ASSUME NEW s \in Seq(Events)
    PROVE  LET o == Open(s, Len(s)) IN
           /\ o.turn = None => Closers(s) = <<>>
           /\ o.turn # None => Closers(s) = EndOf(o) /\ Closers(s) # <<>>
           /\ Closers(s) \in Seq(Events)
<1>. DEFINE o == Open(s, Len(s))
<1>1. o \in Opens
  BY LenProperties, PrefixTyped
<1>2. Closers(s) = IF o.turn = None THEN <<>> ELSE EndOf(o)
  BY DEF Closers, EndOf, Open
<1>. HIDE DEF o
<1>3. EndOf(o) \in Seq(Events) /\ Len(EndOf(o)) # 0
  BY <1>1, EndOfIs
<1>4. EndOf(o) # <<>>
  BY <1>3, EmptySeq
<1>. QED
  BY <1>2, <1>3, <1>4, EmptySeq DEF o

(* Each closer is a result of a pending call, or closes the step or turn.  *)
LEMMA CloserKinds ==
    ASSUME NEW s \in Seq(Events), Sound(s), NEW i \in 1..Len(Closers(s))
    PROVE  LET o == Open(s, Len(s)) IN
           /\ Closers(s)[i].type \in Closing
           /\ Closers(s)[i].type = "tool/result" =>
                \E j \in DOMAIN o.pending :
                    Closers(s)[i] = Result(o.turn, o.step, o.pending[j].call,
                                           OutcomeOf(o.pending[j]))
<1>. DEFINE o == Open(s, Len(s))
            t == Seen(s, Len(s))
            m == Len(o.pending)
            d == EndOf(o)
<1>1. Len(s) \in Nat /\ o \in Opens /\ t \in Log!TraceType
  BY LenProperties, PrefixTyped
<1>2. Matched(o, t)
  BY <1>1 DEF Sound, SoundAt
<1>3. o.turn # None /\ Closers(s) = d
  <2>1. o.turn # None
    BY ClosersAre, EmptySeq
  <2>. QED
    BY <2>1, ClosersAre
<1>. HIDE DEF o, t
<1>4. /\ m \in Nat /\ DOMAIN o.pending = 1..m
      /\ Len(d) = IF o.step = None THEN m + 1 ELSE m + 2
      /\ \A j \in 1..m : d[j] = Result(o.turn, o.pending[j].step, o.pending[j].call,
                                       OutcomeOf(o.pending[j]))
      /\ o.step # None => d[m + 1] = Log!Boundary("step/end", o.turn, o.step)
      /\ d[Len(d)] = Log!Boundary("turn/end", o.turn, None)
  BY <1>1, <1>2, EndOfIs, Fields
<1>5. \A j \in 1..m : o.pending[j].step = o.step
  BY <1>2, <1>4 DEF Matched
<1>. HIDE DEF d
<1>6. CASE i \in 1..m
  <2>1. d[i] = Result(o.turn, o.step, o.pending[i].call, OutcomeOf(o.pending[i]))
    BY <1>4, <1>5, <1>6
  <2>. QED
    BY <1>3, <1>4, <1>6, <2>1 DEF Result, Closing, o
<1>7. CASE i \notin 1..m
  <2>1. d[i].type \in {"step/end", "turn/end"}
    <3>1. i = Len(d) \/ (o.step # None /\ i = m + 1)
      BY <1>3, <1>4, <1>7
    <3>. QED
      BY <1>4, <3>1 DEF Log!Boundary
  <2>. QED
    BY <1>3, <2>1 DEF Closing
<1>. QED
  BY <1>6, <1>7

LEMMA NextCloser ==
    ASSUME NEW s \in Seq(Events), Sound(s), Closers(s) # <<>>
    PROVE  LET e == Closers(s)[1] IN
           /\ e \in Events /\ Fits(s, Open(s, Len(s)), Seen(s, Len(s)), e)
           /\ Closers(Append(s, e)) = Tail(Closers(s))
<1>. DEFINE n == Len(s)
            o == Open(s, n)
            t == Seen(s, n)
            p == o.pending
            m == Len(p)
            d == EndOf(o)
            e == d[1]
            u == Append(s, e)
            q == Scan(o, e)
<1>1. n \in Nat /\ o \in Opens /\ t \in Log!TraceType
  BY LenProperties, PrefixTyped
<1>2. Matched(o, t)
  BY <1>1 DEF Sound, SoundAt
<1>3. o.turn # None /\ Closers(s) = d
  BY ClosersAre
<1>. HIDE DEF o, t
<1>4. /\ p \in Seq(Pendings) /\ m \in Nat /\ DOMAIN p = 1..m /\ o.turn = t.nextTurn /\ None = 0
      /\ o.step = None => p = <<>>
      /\ o.step # None => o.step = t.nextStep
      /\ t.nextTurn \in Nat \ {0} /\ t.nextStep \in Nat \ {0}
  BY <1>1, <1>2, <1>3, Fields
<1>5. /\ d \in Seq(Events) /\ Len(d) = IF o.step = None THEN m + 1 ELSE m + 2
      /\ \A i \in 1..m : d[i] = Result(o.turn, p[i].step, p[i].call, OutcomeOf(p[i]))
      /\ o.step # None => d[m + 1] = Log!Boundary("step/end", o.turn, o.step)
      /\ d[Len(d)] = Log!Boundary("turn/end", o.turn, None)
  BY <1>1, EndOfIs
<1>. HIDE DEF d
<1>6. Len(d) \in Nat /\ Len(d) # 0 /\ e \in Events
  <2>1. Len(d) \in Nat \ {0}
    BY <1>4, <1>5
  <2>. QED
    BY <1>5, <2>1, ElementOfSeq
<1>7. /\ Tail(d) \in Seq(Events) /\ Len(Tail(d)) = Len(d) - 1
      /\ \A i \in 1..Len(d) - 1 : Tail(d)[i] = d[i + 1]
  <2>1. d # <<>>
    BY <1>6, EmptySeq
  <2>. QED
    BY <1>5, <2>1, HeadTailProperties
<1>. HIDE DEF e
<1>8. ASSUME Fits(s, o, t, e)
      PROVE  /\ q \in Opens /\ (q.turn = None => Closers(u) = <<>>)
             /\ (q.turn # None => Closers(u) = EndOf(q))
  <2>1. u \in Seq(Events) /\ Len(u) = n + 1 /\ Open(u, n + 1) = q
    BY <1>6, <1>8, SoundGrows DEF o, t
  <2>2. q \in Opens
    BY <1>1, <1>6, ScanTyped
  <2>. QED
    BY <2>1, <2>2, ClosersAre
<1>9. CASE p # <<>>
  <2>1. m # 0 /\ 1 \in 1..m /\ o.step # None
    BY <1>4, <1>9, EmptySeq
  <2>2. p[1].step = o.step
    BY <1>2, <1>4, <2>1 DEF Matched
  <2>3. e = Result(o.turn, o.step, p[1].call, OutcomeOf(p[1]))
    BY <1>5, <2>1, <2>2 DEF e
  <2>4. Answers(o, e)
    <3>1. /\ OutcomeOf(p[1]) \in {"ran", "unknown", "not-started"}
          /\ p[1].recorded \/ OutcomeOf(p[1]) = "not-started"
      BY DEF OutcomeOf
    <3>. QED
      BY <1>4, <2>1, <2>3, <3>1 DEF Answers
  <2>5. Fits(s, o, t, e)
    BY <2>4 DEF Fits
  <2>6. e.call = p[1].call
    BY <2>3 DEF Result
  <2>7. q.turn = o.turn /\ q.step = o.step /\ q.pending = Tail(p)
    <3>1. q.turn = o.turn /\ q.step = o.step /\ q.pending = Answered(p, e.call)
      BY <1>1, <1>2, <2>4, AnswersIs
    <3>2. Distinct(p)
      BY <1>2 DEF Matched
    <3>. QED
      BY <1>4, <1>9, <2>6, <3>1, <3>2, AnsweredFirst
  <2>8. q \in Opens /\ Closers(u) = EndOf(q)
    BY <1>3, <1>8, <2>5, <2>7
  <2>. HIDE DEF q
  <2>9. Len(Tail(p)) = m - 1 /\ \A i \in 1..m - 1 : Tail(p)[i] = p[i + 1]
    BY <1>4, <1>9, HeadTailProperties
  <2>10. /\ EndOf(q) \in Seq(Events) /\ Len(EndOf(q)) = m + 1
         /\ \A i \in 1..m - 1 : EndOf(q)[i] =
               Result(o.turn, Tail(p)[i].step, Tail(p)[i].call, OutcomeOf(Tail(p)[i]))
         /\ EndOf(q)[m] = Log!Boundary("step/end", o.turn, o.step)
         /\ EndOf(q)[m + 1] = Log!Boundary("turn/end", o.turn, None)
    <3>1. Len(q.pending) = m - 1 /\ m - 1 + 2 = m + 1 /\ m - 1 + 1 = m
      BY <1>4, <2>7, <2>9
    <3>. QED
      BY <2>1, <2>7, <2>8, <3>1, EndOfIs
  <2>11. Len(d) = m + 2 /\ Len(Tail(d)) = m + 1
    BY <1>4, <1>5, <1>7, <2>1
  <2>12. ASSUME NEW i \in 1..m + 1
         PROVE  EndOf(q)[i] = Tail(d)[i]
    <3>1. Tail(d)[i] = d[i + 1]
      BY <1>4, <1>7, <2>11
    <3>2. CASE i \in 1..m - 1
      <4>1. i + 1 \in 1..m /\ Tail(p)[i] = p[i + 1]
        BY <1>4, <2>9, <3>2
      <4>. QED
        BY <1>5, <2>10, <3>1, <3>2, <4>1
    <3>3. CASE i = m
      BY <1>5, <2>1, <2>10, <3>1, <3>3
    <3>4. CASE i = m + 1
      <4>1. i + 1 = Len(d)
        BY <1>4, <2>11, <3>4
      <4>. QED
        BY <1>5, <2>10, <3>1, <3>4, <4>1
    <3>5. i \in 1..m - 1 \/ i = m \/ i = m + 1
      BY <1>4, <2>1
    <3>. QED
      BY <3>2, <3>3, <3>4, <3>5
  <2>13. EndOf(q) = Tail(d)
    BY <1>7, <2>10, <2>11, <2>12, SeqEqual
  <2>. QED
    BY <1>3, <1>6, <2>5, <2>8, <2>13 DEF e, o, t
<1>10. CASE p = <<>> /\ o.step # None
  <2>1. m = 0 /\ Len(d) = 2
    BY <1>4, <1>5, <1>10, EmptySeq
  <2>2. e = Log!Boundary("step/end", o.turn, o.step)
    BY <1>5, <1>10, <2>1 DEF e
  <2>3. StepEnds(s, o, e)
    BY <1>10, <2>2 DEF StepEnds
  <2>4. Fits(s, o, t, e)
    BY <2>3 DEF Fits
  <2>5. q.turn = o.turn /\ q.step = None /\ q.pending = <<>>
    BY <1>1, <1>2, <2>3, StepEndsIs
  <2>6. q \in Opens /\ Closers(u) = EndOf(q)
    BY <1>3, <1>8, <2>4, <2>5
  <2>. HIDE DEF q
  <2>7. /\ EndOf(q) \in Seq(Events) /\ Len(EndOf(q)) = 1
        /\ EndOf(q)[1] = Log!Boundary("turn/end", o.turn, None)
    <3>1. Len(q.pending) = 0
      BY <2>5, EmptySeq
    <3>2. /\ EndOf(q) \in Seq(Events)
          /\ Len(EndOf(q)) = IF q.step = None THEN Len(q.pending) + 1 ELSE Len(q.pending) + 2
          /\ EndOf(q)[Len(EndOf(q))] = Log!Boundary("turn/end", q.turn, None)
      BY <2>6, EndOfIs
    <3>. QED
      BY <2>5, <3>1, <3>2
  <2>8. Len(Tail(d)) = 1 /\ Tail(d)[1] = d[2] /\ d[2] = Log!Boundary("turn/end", o.turn, None)
    <3>1. 1 \in 1..Len(d) - 1 /\ 1 + 1 = 2 /\ Len(d) - 1 = 1
      BY <2>1
    <3>. QED
      BY <1>5, <1>7, <2>1, <3>1
  <2>9. EndOf(q) = Tail(d)
    <3>1. \A i \in 1..Len(EndOf(q)) : EndOf(q)[i] = Tail(d)[i]
      BY <2>7, <2>8
    <3>. QED
      BY <1>7, <2>7, <2>8, <3>1, SeqEqual
  <2>. QED
    BY <1>3, <1>6, <2>4, <2>6, <2>9 DEF e, o, t
<1>11. CASE o.step = None
  <2>1. m = 0 /\ Len(d) = 1
    BY <1>4, <1>5, <1>11, EmptySeq
  <2>2. e = Log!Boundary("turn/end", o.turn, None)
    BY <1>5, <2>1 DEF e
  <2>3. TurnEnds(o, e)
    BY <1>3, <1>11, <2>2 DEF TurnEnds
  <2>4. Fits(s, o, t, e)
    BY <2>3 DEF Fits
  <2>5. q.turn = None
    BY <1>1, <1>2, <2>3, TurnEndsIs
  <2>6. Closers(u) = <<>>
    BY <1>8, <2>4, <2>5
  <2>7. Tail(d) = <<>>
    <3>1. Tail(d) \in Seq(Events) /\ Len(Tail(d)) = 0
      BY <1>7, <2>1
    <3>. QED
      BY <3>1, EmptySeq
  <2>. QED
    BY <1>3, <1>6, <2>4, <2>6, <2>7 DEF e, o, t
<1>. QED
  BY <1>9, <1>10, <1>11

(* Appending the closers, or the first of them.                            *)
LEMMA OneMore ==
    ASSUME NEW s \in Seq(Events), NEW c \in Seq(Events), NEW k \in Nat, k < Len(c)
    PROVE  LET b == SubSeq(c, k + 1, Len(c)) IN
           /\ s \o SubSeq(c, 1, k + 1) = Append(s \o SubSeq(c, 1, k), c[k + 1])
           /\ b # <<>> /\ b[1] = c[k + 1] /\ Tail(b) = SubSeq(c, k + 1 + 1, Len(c))
<1>. DEFINE l == Len(c)
            n == Len(s)
            a == SubSeq(c, 1, k)
            f == SubSeq(c, 1, k + 1)
            b == SubSeq(c, k + 1, l)
            r == SubSeq(c, k + 1 + 1, l)
<1>1. /\ l \in Nat /\ n \in Nat /\ k + 1 \in 1..l /\ \A i \in 1..l : c[i] \in Events
  BY LenProperties, ElementOfSeq
<1>2. a \in Seq(Events) /\ Len(a) = k /\ \A i \in 1..k : a[i] = c[i]
  <2>1. 1 \in Int /\ k \in Int /\ \A i \in 1..k : c[i] \in Events
    BY <1>1
  <2>. QED
    BY <1>1, <2>1, SubSeqProperties
<1>3. f \in Seq(Events) /\ Len(f) = k + 1 /\ \A i \in 1..k + 1 : f[i] = c[i]
  <2>1. 1 \in Int /\ k + 1 \in Int /\ \A i \in 1..k + 1 : c[i] \in Events
    BY <1>1
  <2>. QED
    BY <1>1, <2>1, SubSeqProperties
<1>4. b \in Seq(Events) /\ Len(b) = l - k /\ \A i \in 1..l - k : b[i] = c[k + i]
  <2>1. k + 1 \in Int /\ l \in Int /\ k + 1 <= l /\ \A i \in k + 1..l : c[i] \in Events
    BY <1>1
  <2>2. /\ SubSeq(c, k + 1, l) \in Seq(Events)
        /\ Len(SubSeq(c, k + 1, l)) = IF k + 1 <= l THEN l - (k + 1) + 1 ELSE 0
        /\ \A i \in 1..l - (k + 1) + 1 : SubSeq(c, k + 1, l)[i] = c[k + 1 + i - 1]
    BY <2>1, SubSeqProperties
  <2>3. l - (k + 1) + 1 = l - k /\ \A i \in 1..l - k : k + 1 + i - 1 = k + i
    BY <1>1
  <2>. QED
    BY <2>1, <2>2, <2>3
<1>5. r \in Seq(Events) /\ Len(r) = l - k - 1 /\ \A i \in 1..l - k - 1 : r[i] = c[k + i + 1]
  <2>1. k + 1 + 1 \in Int /\ l \in Int /\ \A i \in k + 1 + 1..l : c[i] \in Events
    BY <1>1
  <2>2. /\ SubSeq(c, k + 1 + 1, l) \in Seq(Events)
        /\ Len(SubSeq(c, k + 1 + 1, l)) = IF k + 1 + 1 <= l THEN l - (k + 1 + 1) + 1 ELSE 0
        /\ \A i \in 1..l - (k + 1 + 1) + 1 :
              SubSeq(c, k + 1 + 1, l)[i] = c[k + 1 + 1 + i - 1]
    BY <2>1, SubSeqProperties
  <2>3. /\ l - (k + 1 + 1) + 1 = l - k - 1 /\ (~(k + 1 + 1 <= l) => l - k - 1 = 0)
        /\ \A i \in 1..l - k - 1 : k + 1 + 1 + i - 1 = k + i + 1
    BY <1>1
  <2>. QED
    BY <2>2, <2>3
<1>. HIDE DEF a, f, b, r
<1>6. s \o f = Append(s \o a, c[k + 1])
  <2>1. /\ s \o f \in Seq(Events) /\ Len(s \o f) = n + (k + 1)
        /\ \A i \in 1..n + (k + 1) : (s \o f)[i] = IF i <= n THEN s[i] ELSE f[i - n]
    <3>1. /\ s \o f \in Seq(Events) /\ Len(s \o f) = Len(s) + Len(f)
          /\ \A i \in 1..Len(s) + Len(f) :
                (s \o f)[i] = IF i <= Len(s) THEN s[i] ELSE f[i - Len(s)]
      BY <1>3, ConcatProperties
    <3>. QED
      BY <1>3, <3>1
  <2>2. /\ s \o a \in Seq(Events) /\ Len(s \o a) = n + k
        /\ \A i \in 1..n + k : (s \o a)[i] = IF i <= n THEN s[i] ELSE a[i - n]
    BY <1>2, ConcatProperties
  <2>3. /\ Append(s \o a, c[k + 1]) \in Seq(Events)
        /\ Len(Append(s \o a, c[k + 1])) = n + k + 1
        /\ \A i \in 1..n + k : Append(s \o a, c[k + 1])[i] = (s \o a)[i]
        /\ Append(s \o a, c[k + 1])[n + k + 1] = c[k + 1]
    BY <1>1, <2>2, AppendProperties
  <2>. DEFINE x == s \o f
              y == s \o a
              z == Append(y, c[k + 1])
  <2>. HIDE DEF x, y, z
  <2>4. ASSUME NEW i \in 1..n + (k + 1)
        PROVE  x[i] = z[i]
    <3>1. CASE i <= n
      <4>1. i \in 1..n + k
        BY <1>1, <3>1
      <4>. QED
        BY <2>1, <2>2, <2>3, <3>1, <4>1 DEF x, y, z
    <3>2. CASE i > n /\ i <= n + k
      <4>1. i \in 1..n + k /\ ~(i <= n) /\ i - n \in 1..k /\ i - n \in 1..k + 1
        BY <1>1, <3>2
      <4>2. x[i] = f[i - n] /\ z[i] = a[i - n]
        BY <2>1, <2>2, <2>3, <4>1 DEF x, y, z
      <4>. QED
        BY <1>2, <1>3, <4>1, <4>2
    <3>3. CASE i = n + k + 1
      <4>1. ~(i <= n) /\ i - n = k + 1 /\ k + 1 \in 1..k + 1
        BY <1>1, <3>3
      <4>2. x[i] = f[k + 1] /\ z[i] = c[k + 1]
        BY <2>1, <2>3, <3>3, <4>1 DEF x, y, z
      <4>. QED
        BY <1>3, <4>1, <4>2
    <3>. QED
      BY <1>1, <3>1, <3>2, <3>3
  <2>5. /\ x \in Seq(Events) /\ z \in Seq(Events) /\ Len(x) = n + (k + 1)
        /\ Len(z) = n + (k + 1)
    BY <1>1, <2>1, <2>3 DEF x, y, z
  <2>6. x = z
    BY <2>4, <2>5, SeqEqual
  <2>. QED
    BY <2>6 DEF x, y, z
<1>7. b # <<>> /\ b[1] = c[k + 1]
  <2>1. Len(b) # 0 /\ 1 \in 1..l - k
    BY <1>1, <1>4
  <2>. QED
    BY <1>4, <2>1, EmptySeq
<1>8. Tail(b) = r
  <2>1. /\ Tail(b) \in Seq(Events) /\ Len(Tail(b)) = l - k - 1
        /\ \A i \in 1..Len(Tail(b)) : Tail(b)[i] = b[i + 1]
    BY <1>4, <1>7, HeadTailProperties
  <2>2. ASSUME NEW i \in 1..l - k - 1
        PROVE  Tail(b)[i] = r[i]
    <3>1. i + 1 \in 1..l - k /\ k + (i + 1) = k + i + 1
      BY <1>1
    <3>. QED
      BY <1>4, <1>5, <2>1, <3>1
  <2>. QED
    BY <1>5, <2>1, <2>2, SeqEqual
<1>. QED
  BY <1>6, <1>7, <1>8 DEF a, f, b, r

(* A repair interrupted anywhere goes on where it stopped.                 *)
LEMMA Repairs ==
    ASSUME NEW s \in Seq(Events), Sound(s)
    PROVE  \A k \in 0..Len(Closers(s)) :
              LET w == s \o SubSeq(Closers(s), 1, k) IN
              /\ w \in Seq(Events) /\ Sound(w)
              /\ Closers(w) = SubSeq(Closers(s), k + 1, Len(Closers(s)))
<1>. DEFINE c == Closers(s)
            w(k) == s \o SubSeq(c, 1, k)
            Good(k) == /\ w(k) \in Seq(Events) /\ Sound(w(k))
                       /\ Closers(w(k)) = SubSeq(c, k + 1, Len(c))
            T == {k \in Nat : k <= Len(c) => Good(k)}
<1>1. c \in Seq(Events) /\ Len(c) \in Nat
  BY ClosersAre, LenProperties
<1>2. 0 \in T
  <2>1. SubSeq(c, 1, 0) = <<>>
    <3>1. SubSeq(c, 1, 0) \in Seq(Events) /\ Len(SubSeq(c, 1, 0)) = 0
      BY <1>1, SubSeqProperties
    <3>. QED
      BY <3>1, EmptySeq
  <2>2. w(0) = s
    BY <2>1, ConcatEmptySeq
  <2>3. SubSeq(c, 0 + 1, Len(c)) = c
    <3>. HIDE DEF c
    <3>1. \A i \in 1..Len(c) : c[i] \in Events
      BY <1>1, ElementOfSeq
    <3>2. /\ SubSeq(c, 1, Len(c)) \in Seq(Events) /\ Len(SubSeq(c, 1, Len(c))) = Len(c)
          /\ \A i \in 1..Len(c) : SubSeq(c, 1, Len(c))[i] = c[i]
      BY <1>1, <3>1, SubSeqProperties
    <3>. QED
      BY <1>1, <3>2, SeqEqual
  <2>4. Good(0)
    BY <2>2, <2>3
  <2>. QED
    BY <2>4
<1>3. ASSUME NEW k \in Nat, k \in T
      PROVE  k + 1 \in T
  <2>. SUFFICES ASSUME k + 1 <= Len(c)
                PROVE  Good(k + 1)
    OBVIOUS
  <2>1. Good(k) /\ k < Len(c)
    BY <1>1, <1>3
  <2>. DEFINE v == w(k)
              b == SubSeq(c, k + 1, Len(c))
  <2>2. v \in Seq(Events) /\ Sound(v) /\ Closers(v) = b
    BY <2>1
  <2>3. /\ w(k + 1) = Append(v, c[k + 1]) /\ b # <<>> /\ b[1] = c[k + 1]
        /\ Tail(b) = SubSeq(c, k + 1 + 1, Len(c))
    BY <1>1, <2>1, OneMore
  <2>. HIDE DEF v, b, w, c
  <2>4. /\ c[k + 1] \in Events
        /\ Fits(v, Open(v, Len(v)), Seen(v, Len(v)), c[k + 1])
        /\ Closers(Append(v, c[k + 1])) = Tail(b)
    BY <2>2, <2>3, NextCloser
  <2>5. Append(v, c[k + 1]) \in Seq(Events) /\ Sound(Append(v, c[k + 1]))
    BY <2>2, <2>4, SoundGrows
  <2>. QED
    BY <2>3, <2>4, <2>5
<1>4. Nat \subseteq T
  <2>. HIDE DEF T
  <2>. QED
    BY <1>2, <1>3, Induction
<1>. QED
  BY <1>1, <1>4

------------------------------------------------------------------------------
(* The steps of the live loop.                                             *)

Writers ==
    [at : Places, turn : Nat, step : Nat, asked : 0..MaxCalls,
     called : 0..MaxCalls, answered : 0..MaxCalls, failed : BOOLEAN]

LEMMA LogFacts ==
    ASSUME IInv
    PROVE  LET n == Len(log)  o == Open(log, n)  t == Seen(log, n) IN
           /\ log \in Seq(Events) /\ n \in Nat /\ DOMAIN log = 1..n
           /\ (\A i \in 1..n : log[i] \in Events) /\ durable \in 0..n
           /\ o \in Opens /\ t \in Log!TraceType /\ SoundAt(log, n, o, t) /\ Matched(o, t)
           /\ Sound(log) /\ writer \in Writers /\ effects \subseteq Bodies
           /\ trace \in Log!TraceType /\ mode \in {"live", "cold", "prepared"}
           /\ mode = "live" => trace = t /\ Wrote(writer, log, o, trace)
<1>1. /\ log \in Seq(Events) /\ durable \in 0..Len(log) /\ Sound(log) /\ writer \in Writers
      /\ effects \subseteq Bodies /\ trace \in Log!TraceType
      /\ mode \in {"live", "cold", "prepared"}
  BY DEF IInv, TypeOK, Writers
<1>2. Len(log) \in Nat /\ DOMAIN log = 1..Len(log) /\ \A i \in 1..Len(log) : log[i] \in Events
  BY <1>1, LenProperties, ElementOfSeq
<1>3. Open(log, Len(log)) \in Opens /\ Seen(log, Len(log)) \in Log!TraceType
  BY <1>1, <1>2, PrefixTyped
<1>4. SoundAt(log, Len(log), Open(log, Len(log)), Seen(log, Len(log)))
  BY <1>1, <1>2 DEF Sound
<1>5. mode = "live" => /\ trace = Seen(log, Len(log))
                       /\ Wrote(writer, log, Open(log, Len(log)), trace)
  BY DEF IInv, Followed, Replayed, Seen
<1>. QED
  BY <1>1, <1>2, <1>3, <1>4, <1>5 DEF SoundAt

LEMMA WriterFields ==
    ASSUME NEW w \in Writers
    PROVE  /\ w.at \in Places /\ w.turn \in Nat /\ w.step \in Nat /\ w.asked \in 0..MaxCalls
           /\ w.called \in 0..MaxCalls /\ w.answered \in 0..MaxCalls /\ w.failed \in BOOLEAN
           /\ MaxCalls \in Nat
  BY SessionRecoveryAssumption DEF Writers

LEMMA WriterMade ==
    ASSUME NEW at \in Places, NEW turn \in Nat, NEW step \in Nat, NEW asked \in 0..MaxCalls,
           NEW called \in 0..MaxCalls, NEW answered \in 0..MaxCalls, NEW failed \in BOOLEAN
    PROVE  [at |-> at, turn |-> turn, step |-> step, asked |-> asked, called |-> called,
            answered |-> answered, failed |-> failed] \in Writers
  BY DEF Writers

LEMMA LiveStep ==
    ASSUME IInv, mode = "live", NEW e \in Events, Write(e),
           Fits(log, Open(log, Len(log)), trace, e),
           e.type = "tool/result" => e.outcome = "ran", writer' \in Writers,
           Wrote(writer', log', Scan(Open(log, Len(log)), e), Log!After(trace, e))
    PROVE  IInv'
<1>. DEFINE n == Len(log)
            o == Open(log, n)
<1>1. /\ log' = Append(log, e) /\ trace' = Log!Appended(trace, e)
      /\ durable' = durable /\ mode' = mode /\ effects' = effects
  BY DEF Write
<1>2. /\ log \in Seq(Events) /\ n \in Nat /\ DOMAIN log = 1..n /\ durable \in 0..n
      /\ Sound(log) /\ effects \subseteq Bodies /\ trace \in Log!TraceType
      /\ trace = Seen(log, n) /\ o \in Opens /\ Matched(o, trace)
  BY LogFacts
<1>3. /\ log' \in Seq(Events) /\ Len(log') = n + 1 /\ Sound(log')
      /\ Open(log', n + 1) = Scan(o, e) /\ Seen(log', n + 1) = Log!After(trace, e)
      /\ Seen(log', n + 1) = Log!Appended(trace, e)
  BY <1>1, <1>2, SoundGrows
<1>4. /\ DOMAIN log' = 1..n + 1 /\ (\A i \in 1..n : log'[i] = log[i]) /\ log'[n + 1] = e
  BY <1>1, <1>2, <1>3, AppendProperties, LenProperties
<1>5. trace' \in Log!TraceType
  BY <1>1, <1>2, TraceTyped
<1>6. TypeOK'
  BY <1>1, <1>2, <1>3, <1>5 DEF TypeOK, Writers
<1>7. Followed'
  <2>1. trace' = Replayed(log')
    BY <1>1, <1>3 DEF Replayed, Seen
  <2>2. Wrote(writer', log', Open(log', Len(log')), trace')
    BY <1>1, <1>3
  <2>3. trace'.openTurn # Log!Refused
    <3>1. Matched(Scan(o, e), Log!After(trace, e))
      BY <1>2, FitsKinds
    <3>2. trace'.openTurn = Scan(o, e).turn /\ Scan(o, e) \in Opens
      BY <1>1, <1>2, <1>3, <3>1, ScanTyped DEF Matched
    <3>. QED
      BY <3>2 DEF Opens, Log!Refused
  <2>. QED
    BY <1>1, <2>1, <2>2, <2>3 DEF Followed, AlwaysAccepted
<1>8. Behind'
  <2>1. \A i \in 1..durable : log'[i] = log[i]
    BY <1>2, <1>4
  <2>. QED
    BY <1>1, <2>1 DEF IInv, Behind
<1>9. RunIsNeverNotStarted'
  <2>. SUFFICES ASSUME NEW i \in 1..n + 1, log'[i].type = "tool/result",
                       log'[i].outcome = "not-started"
                PROVE  [turn |-> log'[i].turn, step |-> log'[i].step,
                        call |-> log'[i].call] \notin effects
    BY <1>1, <1>4 DEF RunIsNeverNotStarted
  <2>1. i \in 1..n /\ log'[i] = log[i]
    BY <1>2, <1>4
  <2>. QED
    BY <1>2, <2>1 DEF IInv, RunIsNeverNotStarted
<1>. QED
  BY <1>3, <1>6, <1>7, <1>8, <1>9 DEF IInv

(* What the appended log keeps of OnlyRan.                                 *)
LEMMA StillOnlyRan ==
    ASSUME NEW s \in Seq(Events), NEW e \in Events, NEW turn, NEW step, OnlyRan(s, turn, step),
           e.type = "tool/result" => e.outcome = "ran"
    PROVE  OnlyRan(Append(s, e), turn, step)
<1>1. /\ Len(s) \in Nat /\ Len(Append(s, e)) = Len(s) + 1
      /\ (\A i \in 1..Len(s) : Append(s, e)[i] = s[i]) /\ Append(s, e)[Len(s) + 1] = e
  BY LenProperties, AppendProperties
<1>. SUFFICES ASSUME NEW i \in 1..Len(s) + 1, Append(s, e)[i].type = "tool/result"
              PROVE  Append(s, e)[i].outcome = "ran" \/ ~Of(Append(s, e)[i], turn, step)
  BY <1>1 DEF OnlyRan
<1>2. CASE i = Len(s) + 1
  BY <1>1, <1>2
<1>3. CASE i \in 1..Len(s)
  BY <1>1, <1>3 DEF OnlyRan
<1>. QED
  BY <1>1, <1>2, <1>3

LEMMA StartTurnKeeps == ASSUME IInv, StartTurn PROVE IInv'
<1>. DEFINE o == Open(log, Len(log))
            e == Log!Boundary("turn/start", writer.turn + 1, None)
            p == Scan(o, e)
            u == Log!After(trace, e)
<1>1. /\ mode = "live" /\ writer.at = "idle" /\ Write(e)
      /\ writer' = [Idle(writer.turn + 1) EXCEPT !.at = "turn"]
  BY DEF StartTurn
<1>2. o \in Opens /\ trace \in Log!TraceType /\ Matched(o, trace) /\ writer \in Writers
  BY <1>1, LogFacts
<1>3. /\ o.turn = None /\ writer.turn = trace.nextTurn - 1
      /\ writer.turn \in Nat /\ trace.nextTurn \in Nat \ {0} /\ None = 0 /\ MaxCalls \in Nat
  BY <1>1, <1>2, LogFacts, Fields, WriterFields DEF Wrote
<1>4. TurnStarts(o, trace, e) /\ writer.turn + 1 = trace.nextTurn
  BY <1>3 DEF TurnStarts
<1>5. e \in Events /\ e.type = "turn/start"
  <2>1. writer.turn + 1 \in Nat /\ None \in Nat
    BY <1>3
  <2>. QED
    BY <2>1, EventTypes DEF Boundaries, Log!Boundary
<1>6. p.turn = trace.nextTurn /\ p.step = None /\ u.nextStep = 1
  BY <1>2, <1>4, TurnStartsIs
<1>7. Fits(log, o, trace, e)
  BY <1>4 DEF Fits
<1>. HIDE DEF o, e, p, u
<1>8. /\ writer'.at = "turn" /\ writer'.turn = trace.nextTurn /\ writer'.step = 0
      /\ writer'.called = 0 /\ writer'.answered = 0 /\ writer' \in Writers
  <2>1. writer' = [at |-> "turn", turn |-> writer.turn + 1, step |-> 0, asked |-> 0,
                   called |-> 0, answered |-> 0, failed |-> FALSE]
    BY <1>1 DEF Idle
  <2>. QED
    BY <1>3, <1>4, <2>1 DEF Writers, Places
<1>9. Wrote(writer', log', p, u)
  BY <1>3, <1>6, <1>8 DEF Wrote
<1>. QED
  BY <1>1, <1>5, <1>7, <1>8, <1>9, LiveStep DEF o, p, u

LEMMA StartStepKeeps == ASSUME IInv, StartStep PROVE IInv'
<1>. DEFINE n == Len(log)
            o == Open(log, n)
            e == Log!Boundary("step/start", writer.turn, writer.step + 1)
            p == Scan(o, e)
            u == Log!After(trace, e)
<1>1. /\ mode = "live" /\ writer.at = "turn" /\ Write(e)
      /\ writer' = [writer EXCEPT !.at = "step", !.step = @ + 1]
  BY DEF StartStep
<1>2. /\ o \in Opens /\ trace \in Log!TraceType /\ Matched(o, trace) /\ writer \in Writers
      /\ n \in Nat /\ log \in Seq(Events) /\ (\A i \in 1..n : log[i] \in Events)
      /\ Past(log, n, o, trace)
  BY <1>1, LogFacts DEF SoundAt
<1>3. /\ o.turn = writer.turn /\ o.turn # None /\ o.step = None
      /\ trace.nextStep = writer.step + 1 /\ o.turn = trace.nextTurn
      /\ writer.called = 0 /\ writer.answered = 0
      /\ writer.turn \in Nat /\ writer.step \in Nat /\ None = 0 /\ MaxCalls \in Nat
  BY <1>1, <1>2, LogFacts, Fields, WriterFields DEF Wrote
<1>4. StepStarts(o, trace, e)
  BY <1>3 DEF StepStarts
<1>5. e \in Events /\ e.type = "step/start"
  BY <1>3, EventTypes DEF Boundaries, Log!Boundary
<1>6. p.turn = o.turn /\ p.step = trace.nextStep /\ p.pending = <<>>
  BY <1>2, <1>4, StepStartsIs
<1>7. Fits(log, o, trace, e)
  BY <1>4 DEF Fits
<1>8. log' = Append(log, e)
  BY <1>1 DEF Write
<1>. HIDE DEF o, e, p, u
<1>9. /\ writer'.at = "step" /\ writer'.turn = writer.turn /\ writer'.step = writer.step + 1
      /\ writer'.called = 0 /\ writer'.answered = 0 /\ writer' \in Writers
  <2>1. writer' = [at |-> "step", turn |-> writer.turn, step |-> writer.step + 1,
                   asked |-> writer.asked, called |-> writer.called,
                   answered |-> writer.answered, failed |-> writer.failed]
    BY <1>1, <1>2 DEF Writers
  <2>2. /\ writer.asked \in 0..MaxCalls /\ writer.called \in 0..MaxCalls
        /\ writer.answered \in 0..MaxCalls /\ writer.failed \in BOOLEAN
    BY <1>2, WriterFields
  <2>3. writer' \in Writers
    <3>1. "step" \in Places /\ writer.step + 1 \in Nat
      BY <1>3 DEF Places
    <3>. QED
      BY <1>3, <2>1, <2>2, <3>1, WriterMade
  <2>. QED
    BY <1>3, <2>1, <2>3
<1>10. /\ Len(log') = n + 1 /\ (\A i \in 1..n : log'[i] = log[i]) /\ log'[n + 1] = e
  BY <1>2, <1>5, <1>8, AppendProperties
<1>11. ASSUME NEW i \in 1..n, log[i].type \in Called
       PROVE  ~Of(log[i], p.turn, p.step)
  <2>1. log[i].turn \in Nat /\ log[i].step \in Nat
    BY <1>2, EventsTyped
  <2>2. \/ log[i].turn < trace.nextTurn
        \/ log[i].turn = o.turn /\ (log[i].step < trace.nextStep \/ log[i].step = o.step)
    BY <1>2, <1>11 DEF Past
  <2>. QED
    BY <1>3, <1>6, <2>1, <2>2 DEF Of
<1>12. \A i \in 1..Len(log') : log'[i].type \in Called => ~Of(log'[i], p.turn, p.step)
  BY <1>2, <1>5, <1>10, <1>11 DEF Called
<1>13. OnlyRan(log', p.turn, p.step)
  BY <1>12 DEF OnlyRan, Called
<1>14. Wrote(writer', log', p, u)
  <2>1. p.turn = writer'.turn /\ p.turn # None
    BY <1>3, <1>6, <1>9
  <2>2. p.step = writer'.step
    BY <1>3, <1>6, <1>9
  <2>3. writer.step + 1 # None
    BY <1>3
  <2>4. p.step # None
    BY <1>9, <2>2, <2>3
  <2>. QED
    BY <1>6, <1>9, <1>12, <1>13, <2>1, <2>2, <2>4 DEF Wrote
<1>. QED
  BY <1>1, <1>5, <1>7, <1>9, <1>14, LiveStep DEF o, p, u

LEMMA AnswerKeeps == ASSUME IInv, NEW asked \in 0..MaxCalls, Answer(asked) PROVE IInv'
<1>. DEFINE n == Len(log)
            o == Open(log, n)
            e == Assistant(writer.turn, writer.step, asked)
            p == Scan(o, e)
            u == Log!After(trace, e)
<1>1. /\ mode = "live" /\ writer.at = "step" /\ Write(e)
      /\ writer' = [writer EXCEPT !.at = "tools", !.asked = asked]
  BY DEF Answer
<1>2. /\ o \in Opens /\ trace \in Log!TraceType /\ Matched(o, trace) /\ writer \in Writers
      /\ n \in Nat /\ log \in Seq(Events) /\ Wrote(writer, log, o, trace)
  BY <1>1, LogFacts
<1>3. /\ o.turn = writer.turn /\ o.turn # None /\ o.step = writer.step /\ o.step # None
      /\ writer.called = 0 /\ writer.answered = 0 /\ OnlyRan(log, o.turn, o.step)
      /\ o.pending = <<>>
      /\ \A i \in 1..n : log[i].type \in Called => ~Of(log[i], o.turn, o.step)
  BY <1>1, <1>2 DEF Wrote
<1>4. writer.turn \in Nat /\ writer.step \in Nat /\ MaxCalls \in Nat
  BY <1>2, WriterFields
<1>5. Asks(log, o, e)
  BY <1>3 DEF Asks
<1>6. e \in Events /\ e.type = "assistant/message" /\ e.asked = asked
  BY <1>4, EventTypes DEF Assistant
<1>7. p.turn = o.turn /\ p.step = o.step /\ p.pending = Registered(o.step, asked)
  BY <1>2, <1>5, <1>6, AsksIs
<1>8. Fits(log, o, trace, e)
  BY <1>5 DEF Fits
<1>9. log' = Append(log, e)
  BY <1>1 DEF Write
<1>. HIDE DEF o, e, p, u
<1>10. /\ writer'.at = "tools" /\ writer'.turn = writer.turn /\ writer'.step = writer.step
       /\ writer'.called = 0 /\ writer'.answered = 0 /\ writer'.asked = asked
       /\ writer' \in Writers
  BY <1>1, <1>2, <1>3 DEF Writers, Places
<1>11. OnlyRan(log', p.turn, p.step)
  BY <1>2, <1>3, <1>6, <1>7, <1>9, StillOnlyRan
<1>12. /\ Len(p.pending) = asked - 0
       /\ \A i \in 1..asked - 0 : /\ p.pending[i].call = 0 + i
                                  /\ p.pending[i].recorded <=> 0 + i <= 0
  <2>1. o.step \in Nat /\ asked \in Nat
    BY <1>3, <1>4
  <2>. DEFINE q == Registered(o.step, asked)
  <2>2. /\ q \in Seq(Pendings) /\ DOMAIN q = 1..asked
        /\ \A i \in 1..asked : q[i] = [call |-> i, step |-> o.step, recorded |-> FALSE]
    BY <2>1, RegisteredList
  <2>. HIDE DEF q
  <2>3. Len(q) = asked
    BY <2>1, <2>2, LenProperties
  <2>4. asked - 0 = asked /\ \A i \in 1..asked : 0 + i = i /\ ~(0 + i <= 0)
    BY <2>1
  <2>5. ASSUME NEW i \in 1..asked
        PROVE  q[i].call = 0 + i /\ (q[i].recorded <=> 0 + i <= 0)
    <3>1. q[i] = [call |-> i, step |-> o.step, recorded |-> FALSE]
      BY <2>2
    <3>2. q[i].call = i /\ ~q[i].recorded
      BY <3>1
    <3>. QED
      BY <2>4, <3>2
  <2>6. p.pending = q
    BY <1>7 DEF q
  <2>. QED
    BY <2>3, <2>4, <2>5, <2>6
<1>13. Wrote(writer', log', p, u)
  BY <1>3, <1>4, <1>7, <1>10, <1>11, <1>12 DEF Wrote
<1>. QED
  BY <1>1, <1>6, <1>8, <1>10, <1>13, LiveStep DEF o, p, u

LEMMA RecordCallKeeps == ASSUME IInv, RecordCall PROVE IInv'
<1>. DEFINE n == Len(log)
            o == Open(log, n)
            c == writer.called + 1
            e == Log!ToolCall(writer.turn, writer.step, c)
            p == Scan(o, e)
            u == Log!After(trace, e)
            m == writer.asked - writer.answered
<1>1. /\ mode = "live" /\ writer.at = "tools" /\ writer.called < writer.asked /\ Write(e)
      /\ writer' = [writer EXCEPT !.called = c]
  BY DEF RecordCall
<1>2. /\ o \in Opens /\ trace \in Log!TraceType /\ Matched(o, trace) /\ writer \in Writers
      /\ n \in Nat /\ log \in Seq(Events) /\ Wrote(writer, log, o, trace)
  BY <1>1, LogFacts
<1>3. /\ o.turn = writer.turn /\ o.turn # None /\ o.step = writer.step /\ o.step # None
      /\ writer.answered <= writer.called /\ writer.called <= writer.asked
      /\ OnlyRan(log, o.turn, o.step)
      /\ Len(o.pending) = m
      /\ \A i \in 1..m : /\ o.pending[i].call = writer.answered + i
                         /\ o.pending[i].recorded <=> writer.answered + i <= writer.called
  BY <1>1, <1>2 DEF Wrote
<1>4. /\ writer.turn \in Nat /\ writer.step \in Nat /\ MaxCalls \in Nat
      /\ writer.asked \in 0..MaxCalls /\ writer.called \in 0..MaxCalls
      /\ writer.answered \in 0..MaxCalls /\ writer.failed \in BOOLEAN
  BY <1>2, WriterFields
<1>5. c \in 1..MaxCalls /\ c \in 0..MaxCalls /\ c - writer.answered \in 1..m
  BY <1>1, <1>3, <1>4
<1>6. DOMAIN o.pending = 1..m /\ o.pending \in Seq(Pendings)
  BY <1>2, <1>3, Fields
<1>7. e \in Events /\ e.type = "tool/call" /\ e.call = c
  BY <1>4, <1>5, EventTypes DEF Log!ToolCall
<1>8. Records(o, e)
  <2>. DEFINE i == c - writer.answered
  <2>1. i \in DOMAIN o.pending
    BY <1>5, <1>6
  <2>2. o.pending[i].call = writer.answered + i
    BY <1>3, <1>5
  <2>3. writer.answered + i = c
    BY <1>4
  <2>4. e = Log!ToolCall(o.turn, o.step, o.pending[i].call)
    BY <1>3, <2>2, <2>3
  <2>. HIDE DEF i, e
  <2>. QED
    BY <2>1, <2>4 DEF Records
<1>9. p.turn = o.turn /\ p.step = o.step /\ p.pending = Recorded(o.pending, c)
  BY <1>2, <1>7, <1>8, RecordsIs
<1>10. Fits(log, o, trace, e)
  BY <1>8 DEF Fits
<1>11. log' = Append(log, e)
  BY <1>1 DEF Write
<1>. HIDE DEF o, e, p, u
<1>12. /\ writer'.at = "tools" /\ writer'.turn = writer.turn /\ writer'.step = writer.step
       /\ writer'.called = c /\ writer'.answered = writer.answered
       /\ writer'.asked = writer.asked /\ writer' \in Writers
  <2>1. writer' = [at |-> writer.at, turn |-> writer.turn, step |-> writer.step,
                   asked |-> writer.asked, called |-> c,
                   answered |-> writer.answered, failed |-> writer.failed]
    BY <1>1, <1>2 DEF Writers
  <2>2. writer.at \in Places
    BY <1>2, WriterFields
  <2>3. writer' \in Writers
    BY <1>4, <1>5, <2>1, <2>2, WriterMade
  <2>. QED
    BY <1>1, <2>1, <2>3
<1>13. OnlyRan(log', p.turn, p.step)
  BY <1>2, <1>3, <1>7, <1>9, <1>11, StillOnlyRan
<1>14. /\ Len(p.pending) = m
       /\ \A i \in 1..m : /\ p.pending[i].call = writer.answered + i
                          /\ p.pending[i].recorded <=> writer.answered + i <= c
  <2>. DEFINE q == Recorded(o.pending, c)
  <2>1. /\ q \in Seq(Pendings) /\ DOMAIN q = 1..m
        /\ \A i \in 1..m :
              /\ q[i].call = o.pending[i].call
              /\ q[i].recorded <=> o.pending[i].recorded \/ o.pending[i].call = c
    <3>1. /\ q \in Seq(Pendings) /\ DOMAIN q = DOMAIN o.pending
          /\ \A i \in DOMAIN o.pending :
                /\ q[i].call = o.pending[i].call /\ q[i].step = o.pending[i].step
                /\ q[i].recorded <=> o.pending[i].recorded \/ o.pending[i].call = c
      BY <1>6, RecordedList
    <3>. HIDE DEF q, c, m
    <3>. QED
      BY <1>6, <3>1
  <2>. HIDE DEF q
  <2>2. m \in Nat
    BY <1>3, <1>4
  <2>3. Len(q) = m
    BY <2>1, <2>2, LenProperties
  <2>4. ASSUME NEW i \in 1..m
        PROVE  /\ q[i].call = writer.answered + i
               /\ q[i].recorded <=> writer.answered + i <= c
    <3>1. writer.answered + i <= c <=>
             writer.answered + i <= writer.called \/ writer.answered + i = c
      BY <1>4
    <3>2. /\ o.pending[i].call = writer.answered + i
          /\ o.pending[i].recorded <=> writer.answered + i <= writer.called
      BY <1>3
    <3>. QED
      BY <2>1, <3>1, <3>2
  <2>5. p.pending = q
    BY <1>9 DEF q
  <2>. QED
    BY <2>3, <2>4, <2>5
<1>15. writer.answered <= c /\ c <= writer.asked
  BY <1>1, <1>3, <1>4
<1>. HIDE DEF c
<1>16. Wrote(writer', log', p, u)
  BY <1>3, <1>9, <1>12, <1>13, <1>14, <1>15 DEF Wrote
<1>. QED
  BY <1>1, <1>7, <1>10, <1>12, <1>16, LiveStep DEF o, p, u

LEMMA RecordResultKeeps == ASSUME IInv, RecordResult PROVE IInv'
<1>. DEFINE n == Len(log)
            o == Open(log, n)
            c == writer.answered + 1
            e == Result(writer.turn, writer.step, c, "ran")
            p == Scan(o, e)
            u == Log!After(trace, e)
            m == writer.asked - writer.answered
<1>1. /\ mode = "live" /\ writer.at = "tools" /\ writer.answered < writer.called /\ Write(e)
      /\ writer' = [writer EXCEPT !.answered = c]
  BY DEF RecordResult
<1>2. /\ o \in Opens /\ trace \in Log!TraceType /\ Matched(o, trace) /\ writer \in Writers
      /\ n \in Nat /\ log \in Seq(Events) /\ Wrote(writer, log, o, trace)
  BY <1>1, LogFacts
<1>3. /\ o.turn = writer.turn /\ o.turn # None /\ o.step = writer.step /\ o.step # None
      /\ writer.answered <= writer.called /\ writer.called <= writer.asked
      /\ OnlyRan(log, o.turn, o.step)
      /\ Len(o.pending) = m
      /\ \A i \in 1..m : /\ o.pending[i].call = writer.answered + i
                         /\ o.pending[i].recorded <=> writer.answered + i <= writer.called
  BY <1>1, <1>2 DEF Wrote
<1>4. /\ writer.turn \in Nat /\ writer.step \in Nat /\ MaxCalls \in Nat
      /\ writer.asked \in 0..MaxCalls /\ writer.called \in 0..MaxCalls
      /\ writer.answered \in 0..MaxCalls /\ writer.failed \in BOOLEAN
  BY <1>2, WriterFields
<1>5. c \in 1..MaxCalls /\ c \in 0..MaxCalls /\ 1 \in 1..m /\ m \in Nat
  BY <1>1, <1>3, <1>4
<1>6. DOMAIN o.pending = 1..m
  BY <1>2, <1>3, Fields
<1>7. e \in Events /\ e.type = "tool/result" /\ e.call = c /\ e.outcome = "ran"
  BY <1>4, <1>5, EventTypes DEF Result
<1>8. o.pending[1].call = c /\ o.pending[1].recorded
  <2>1. writer.answered + 1 <= writer.called
    BY <1>1, <1>4
  <2>. QED
    BY <1>3, <1>5, <2>1
<1>9. Answers(o, e)
  <2>1. /\ 1 \in DOMAIN o.pending /\ "ran" \in {"ran", "unknown", "not-started"}
        /\ e = Result(o.turn, o.step, o.pending[1].call, "ran")
    BY <1>3, <1>5, <1>6, <1>8
  <2>. HIDE DEF e
  <2>. QED
    BY <1>8, <2>1 DEF Answers
<1>10. Distinct(o.pending) /\ o.pending \in Seq(Pendings) /\ Len(o.pending) = m
  <2>1. Distinct(o.pending) /\ o.pending \in Seq(Pendings)
    BY <1>2, Fields DEF Matched
  <2>. QED
    BY <1>3, <2>1
<1>11. o.pending # <<>>
  BY <1>5, <1>10, EmptySeq
<1>12. p.turn = o.turn /\ p.step = o.step /\ p.pending = Tail(o.pending)
  <2>1. p.turn = o.turn /\ p.step = o.step /\ p.pending = Answered(o.pending, c)
    BY <1>2, <1>7, <1>9, AnswersIs
  <2>. QED
    BY <1>8, <1>10, <1>11, <2>1, AnsweredFirst
<1>13. Fits(log, o, trace, e)
  BY <1>9 DEF Fits
<1>14. log' = Append(log, e)
  BY <1>1 DEF Write
<1>. HIDE DEF o, e, p, u
<1>15. /\ writer'.at = "tools" /\ writer'.turn = writer.turn /\ writer'.step = writer.step
       /\ writer'.called = writer.called /\ writer'.answered = c
       /\ writer'.asked = writer.asked /\ writer' \in Writers
  <2>1. writer' = [at |-> writer.at, turn |-> writer.turn, step |-> writer.step,
                   asked |-> writer.asked, called |-> writer.called,
                   answered |-> c, failed |-> writer.failed]
    BY <1>1, <1>2 DEF Writers
  <2>2. writer.at \in Places
    BY <1>2, WriterFields
  <2>3. writer' \in Writers
    BY <1>4, <1>5, <2>1, <2>2, WriterMade
  <2>. QED
    BY <1>1, <2>1, <2>3
<1>16. OnlyRan(log', p.turn, p.step)
  BY <1>2, <1>3, <1>7, <1>12, <1>14, StillOnlyRan
<1>17. /\ Len(p.pending) = writer.asked - c
       /\ \A i \in 1..writer.asked - c :
             /\ p.pending[i].call = c + i
             /\ p.pending[i].recorded <=> c + i <= writer.called
  <2>1. /\ Tail(o.pending) \in Seq(Pendings) /\ Len(Tail(o.pending)) = m - 1
        /\ \A i \in 1..m - 1 : Tail(o.pending)[i] = o.pending[i + 1]
    BY <1>10, <1>11, HeadTailProperties
  <2>2. m - 1 = writer.asked - c
    BY <1>4
  <2>3. ASSUME NEW i \in 1..m - 1
        PROVE  /\ o.pending[i + 1].call = c + i
               /\ o.pending[i + 1].recorded <=> c + i <= writer.called
    <3>1. i + 1 \in 1..m /\ writer.answered + (i + 1) = c + i
      BY <1>4, <1>5
    <3>. QED
      BY <1>3, <3>1
  <2>. HIDE DEF c, m
  <2>4. ASSUME NEW i \in 1..writer.asked - c
        PROVE  /\ p.pending[i].call = c + i
               /\ p.pending[i].recorded <=> c + i <= writer.called
    <3>1. i \in 1..m - 1
      BY <2>2
    <3>2. p.pending[i] = o.pending[i + 1]
      BY <1>12, <2>1, <3>1
    <3>. QED
      BY <2>3, <3>1, <3>2
  <2>5. Len(p.pending) = writer.asked - c
    BY <1>12, <2>1, <2>2
  <2>. QED
    BY <2>4, <2>5
<1>18. c <= writer.called
  BY <1>1, <1>4
<1>. HIDE DEF c
<1>19. Wrote(writer', log', p, u)
  BY <1>3, <1>12, <1>15, <1>16, <1>17, <1>18 DEF Wrote
<1>. QED
  BY <1>1, <1>7, <1>13, <1>15, <1>19, LiveStep DEF o, p, u

LEMMA EndStepKeeps == ASSUME IInv, NEW failed \in BOOLEAN, EndStep(failed) PROVE IInv'
<1>. DEFINE n == Len(log)
            o == Open(log, n)
            e == Log!Boundary("step/end", writer.turn, writer.step)
            p == Scan(o, e)
            u == Log!After(trace, e)
<1>1. /\ mode = "live" /\ writer.at \in {"step", "tools"} /\ Write(e)
      /\ writer' = [Idle(writer.turn) EXCEPT !.at = "turn", !.step = writer.step,
                                             !.failed = failed]
  BY DEF EndStep
<1>2. /\ o \in Opens /\ trace \in Log!TraceType /\ Matched(o, trace) /\ writer \in Writers
      /\ Wrote(writer, log, o, trace)
  BY <1>1, LogFacts
<1>3. /\ o.turn = writer.turn /\ o.turn # None /\ o.step = writer.step /\ o.step # None
      /\ OnlyRan(log, o.turn, o.step)
  BY <1>1, <1>2 DEF Wrote
<1>4. writer.turn \in Nat /\ writer.step \in Nat /\ None = 0 /\ 0 \in 0..MaxCalls
  BY <1>2, WriterFields DEF None, Log!None
<1>5. StepEnds(log, o, e)
  BY <1>3 DEF StepEnds
<1>6. e \in Events /\ e.type = "step/end"
  BY <1>4, EventTypes DEF Boundaries, Log!Boundary
<1>7. /\ p.turn = o.turn /\ p.step = None /\ u.nextStep = trace.nextStep + 1
      /\ o.step = trace.nextStep
  BY <1>2, <1>5, StepEndsIs
<1>8. Fits(log, o, trace, e)
  BY <1>5 DEF Fits
<1>. HIDE DEF o, e, p, u
<1>9. /\ writer'.at = "turn" /\ writer'.turn = writer.turn /\ writer'.step = writer.step
      /\ writer'.called = 0 /\ writer'.answered = 0 /\ writer' \in Writers
  <2>1. writer' = [at |-> "turn", turn |-> writer.turn, step |-> writer.step, asked |-> 0,
                   called |-> 0, answered |-> 0, failed |-> failed]
    BY <1>1 DEF Idle
  <2>2. "turn" \in Places
    BY DEF Places
  <2>. QED
    BY <1>4, <2>1, <2>2, WriterMade
<1>10. Wrote(writer', log', p, u)
  <2>1. p.turn = writer'.turn /\ p.turn # None /\ u.nextStep = writer'.step + 1
    BY <1>3, <1>7, <1>9
  <2>. QED
    BY <1>7, <1>9, <2>1 DEF Wrote
<1>. QED
  BY <1>1, <1>6, <1>8, <1>9, <1>10, LiveStep DEF o, p, u

LEMMA EndTurnKeeps == ASSUME IInv, EndTurn PROVE IInv'
<1>. DEFINE n == Len(log)
            o == Open(log, n)
            e == Log!Boundary("turn/end", writer.turn, None)
            p == Scan(o, e)
            u == Log!After(trace, e)
<1>1. mode = "live" /\ writer.at = "turn" /\ Write(e) /\ writer' = Idle(writer.turn)
  BY DEF EndTurn
<1>2. /\ o \in Opens /\ trace \in Log!TraceType /\ Matched(o, trace) /\ writer \in Writers
      /\ Wrote(writer, log, o, trace)
  BY <1>1, LogFacts
<1>3. o.turn = writer.turn /\ o.turn # None /\ o.step = None
  BY <1>1, <1>2 DEF Wrote
<1>4. writer.turn \in Nat /\ None \in Nat /\ 0 \in 0..MaxCalls
  BY <1>2, WriterFields DEF None, Log!None
<1>5. TurnEnds(o, e)
  BY <1>3 DEF TurnEnds
<1>6. e \in Events /\ e.type = "turn/end"
  BY <1>4, EventTypes DEF Boundaries, Log!Boundary
<1>7. p.turn = None /\ u.nextTurn = trace.nextTurn + 1 /\ o.turn = trace.nextTurn
  BY <1>2, <1>5, TurnEndsIs
<1>8. Fits(log, o, trace, e)
  BY <1>5 DEF Fits
<1>. HIDE DEF o, e, p, u
<1>9. /\ writer'.at = "idle" /\ writer'.turn = writer.turn
      /\ writer'.called = 0 /\ writer'.answered = 0 /\ writer' \in Writers
  <2>1. writer' = [at |-> "idle", turn |-> writer.turn, step |-> 0, asked |-> 0,
                   called |-> 0, answered |-> 0, failed |-> FALSE]
    BY <1>1 DEF Idle
  <2>2. "idle" \in Places
    BY DEF Places
  <2>. QED
    BY <1>4, <2>1, <2>2, WriterMade
<1>10. Wrote(writer', log', p, u)
  <2>1. writer'.turn = u.nextTurn - 1
    <3>1. u.nextTurn = writer.turn + 1
      BY <1>3, <1>7
    <3>2. writer.turn + 1 - 1 = writer.turn
      BY <1>4
    <3>3. writer'.turn = writer.turn
      BY <1>9
    <3>. QED
      BY <1>4, <3>1, <3>3
  <2>. QED
    BY <1>7, <1>9, <2>1 DEF Wrote
<1>. QED
  BY <1>1, <1>6, <1>8, <1>9, <1>10, LiveStep DEF o, p, u

------------------------------------------------------------------------------
(* Flushes and tool bodies; crash, load and repair.                        *)

LEMMA FlushKeeps == ASSUME IInv, Flush PROVE IInv'
<1>1. /\ durable' = Len(log) /\ UNCHANGED <<log, trace, mode, writer, effects>>
  BY DEF Flush
<1>2. Len(log) \in Nat /\ durable \in 0..Len(log)
  BY LogFacts
<1>3. TypeOK'
  <2>1. durable' \in 0..Len(log')
    BY <1>1, <1>2
  <2>. QED
    BY <1>1, <2>1 DEF IInv, TypeOK
<1>4. Sound(log') /\ Followed' /\ RunIsNeverNotStarted'
  BY <1>1 DEF IInv, Followed, AlwaysAccepted, RunIsNeverNotStarted
<1>5. Behind'
  <2>1. \A i \in 1..durable : i \in 1..durable'
    BY <1>1, <1>2
  <2>. QED
    BY <1>1, <2>1 DEF IInv, Behind
<1>. QED
  BY <1>3, <1>4, <1>5 DEF IInv

LEMMA RunBodyKeeps == ASSUME IInv, NEW call \in 1..MaxCalls, RunBody(call) PROVE IInv'
<1>. DEFINE body == [turn |-> writer.turn, step |-> writer.step, call |-> call]
            o == Open(log, Len(log))
<1>1. /\ mode = "live" /\ writer.at = "tools" /\ Checkpointed(writer.turn, writer.step, call)
      /\ effects' = effects \union {body}
      /\ UNCHANGED <<log, durable, trace, mode, writer>>
  BY DEF RunBody
<1>2. /\ writer \in Writers /\ Wrote(writer, log, o, trace) /\ DOMAIN log = 1..Len(log)
      /\ effects \subseteq Bodies
  BY <1>1, LogFacts
<1>3. OnlyRan(log, writer.turn, writer.step)
  BY <1>1, <1>2 DEF Wrote
<1>4. TypeOK'
  <2>1. body \in Bodies
    BY <1>2, WriterFields DEF Bodies
  <2>. QED
    BY <1>1, <1>2, <2>1 DEF IInv, TypeOK
<1>5. Sound(log') /\ Followed'
  BY <1>1 DEF IInv, Followed, AlwaysAccepted
<1>6. Behind'
  <2>1. \E i \in 1..durable : log[i] = Log!ToolCall(body.turn, body.step, body.call)
    BY <1>1 DEF Checkpointed
  <2>. QED
    BY <1>1, <2>1 DEF IInv, Behind
<1>7. RunIsNeverNotStarted'
  <2>. SUFFICES ASSUME NEW i \in 1..Len(log), log[i].type = "tool/result",
                       log[i].outcome = "not-started"
                PROVE  [turn |-> log[i].turn, step |-> log[i].step,
                        call |-> log[i].call] \notin effects \union {body}
    BY <1>1, <1>2 DEF RunIsNeverNotStarted
  <2>1. [turn |-> log[i].turn, step |-> log[i].step, call |-> log[i].call] \notin effects
    BY <1>2 DEF IInv, RunIsNeverNotStarted
  <2>2. ~Of(log[i], writer.turn, writer.step)
    BY <1>3 DEF OnlyRan
  <2>. QED
    BY <2>1, <2>2 DEF Of
<1>. QED
  BY <1>4, <1>5, <1>6, <1>7 DEF IInv

LEMMA IdleTyped == \A turn \in Nat : Idle(turn) \in Writers
<1>1. "idle" \in Places /\ 0 \in 0..MaxCalls /\ 0 \in Nat
  BY SessionRecoveryAssumption DEF Places
<1>. QED
  BY <1>1, WriterMade DEF Idle

LEMMA CrashKeeps == ASSUME IInv, NEW kept \in 0..Len(log), Crash(kept) PROVE IInv'
<1>1. /\ kept \in durable..Len(log) /\ log' = SubSeq(log, 1, kept) /\ durable' = kept
      /\ mode' = "cold" /\ trace' = Log!FreshTrace /\ writer' = Idle(None)
      /\ effects' = effects
  BY DEF Crash
<1>2. /\ log \in Seq(Events) /\ Len(log) \in Nat /\ durable \in 0..Len(log) /\ Sound(log)
      /\ effects \subseteq Bodies /\ DOMAIN log = 1..Len(log)
      /\ \A i \in 1..Len(log) : log[i] \in Events
  BY LogFacts
<1>3. log' \in Seq(Events) /\ Sound(log')
  BY <1>1, <1>2, SoundCut
<1>4. Len(log') = kept /\ DOMAIN log' = 1..kept /\ \A i \in 1..kept : log'[i] = log[i]
  <2>1. 1 \in Int /\ kept \in Int /\ \A i \in 1..kept : log[i] \in Events
    BY <1>2
  <2>2. Len(log') = kept /\ \A i \in 1..kept : log'[i] = log[i]
    BY <1>1, <1>2, <2>1, SubSeqProperties
  <2>. QED
    BY <1>3, <2>2, LenProperties
<1>5. TypeOK'
  <2>1. Log!FreshTrace \in Log!TraceType /\ Idle(None) \in Writers
    <3>1. None \in Nat
      BY DEF None, Log!None
    <3>. QED
      BY <3>1, IdleTyped DEF Log!FreshTrace, Log!TraceType, Log!None
  <2>2. durable' \in 0..Len(log')
    BY <1>1, <1>4
  <2>. QED
    BY <1>1, <1>2, <1>3, <2>1, <2>2 DEF TypeOK, Writers
<1>6. Followed'
  <2>1. trace'.openTurn # Log!Refused
    BY <1>1 DEF Log!FreshTrace, Log!None, Log!Refused
  <2>. QED
    BY <1>1, <2>1 DEF Followed, AlwaysAccepted
<1>7. Behind'
  <2>1. \A i \in 1..durable : i \in 1..kept /\ log'[i] = log[i]
    BY <1>1, <1>2, <1>4
  <2>. QED
    BY <1>1, <2>1 DEF IInv, Behind
<1>8. RunIsNeverNotStarted'
  <2>1. \A i \in 1..kept : i \in DOMAIN log
    BY <1>2
  <2>. QED
    BY <1>1, <1>4, <2>1 DEF IInv, RunIsNeverNotStarted
<1>. QED
  BY <1>3, <1>5, <1>6, <1>7, <1>8 DEF IInv

(* The whole repair: what the log is after all closers.                    *)
LEMMA Repaired ==
    ASSUME NEW s \in Seq(Events), Sound(s)
    PROVE  LET w == s \o Closers(s) IN
           /\ w \in Seq(Events) /\ Sound(w)
           /\ Open(w, Len(w)).turn = None /\ Seen(w, Len(w)) \in Log!TraceType
           /\ Seen(w, Len(w)).openTurn = None /\ Seen(w, Len(w)).openStep = None
<1>. DEFINE c == Closers(s)
            l == Len(c)
            w == s \o c
            o == Open(w, Len(w))
            t == Seen(w, Len(w))
<1>1. c \in Seq(Events) /\ l \in Nat
  BY ClosersAre, LenProperties
<1>2. SubSeq(c, 1, l) = c
  <2>. HIDE DEF c
  <2>1. \A i \in 1..l : c[i] \in Events
    BY <1>1, ElementOfSeq
  <2>2. /\ SubSeq(c, 1, l) \in Seq(Events) /\ Len(SubSeq(c, 1, l)) = l
        /\ \A i \in 1..l : SubSeq(c, 1, l)[i] = c[i]
    BY <1>1, <2>1, SubSeqProperties
  <2>. QED
    BY <1>1, <2>2, SeqEqual
<1>3. SubSeq(c, l + 1, l) = <<>>
  <2>. HIDE DEF c
  <2>1. SubSeq(c, l + 1, l) \in Seq(Events) /\ Len(SubSeq(c, l + 1, l)) = 0
    <3>1. l + 1 \in Int /\ l \in Int /\ ~(l + 1 <= l) /\ \A i \in l + 1..l : c[i] \in Events
      BY <1>1
    <3>. QED
      BY <1>1, <3>1, SubSeqProperties
  <2>. QED
    BY <2>1, EmptySeq
<1>4. w \in Seq(Events) /\ Sound(w) /\ Closers(w) = <<>>
  <2>1. l \in 0..l
    BY <1>1
  <2>. QED
    BY <1>2, <1>3, <2>1, Repairs
<1>. HIDE DEF w
<1>5. o.turn = None
  BY <1>4, ClosersAre
<1>6. Len(w) \in Nat /\ o \in Opens /\ t \in Log!TraceType
  BY <1>4, LenProperties, PrefixTyped
<1>7. Matched(o, t)
  BY <1>4, <1>6 DEF Sound, SoundAt
<1>8. t.openTurn = None /\ t.openStep = None
  BY <1>5, <1>7 DEF Matched
<1>. QED
  BY <1>4, <1>5, <1>6, <1>8 DEF w

LEMMA PrepareKeeps == ASSUME IInv, Prepare PROVE IInv'
<1>1. /\ trace' = Replayed(log \o Closers(log)) /\ mode' = "prepared"
      /\ UNCHANGED <<log, durable, writer, effects>>
  BY DEF Prepare
<1>2. trace' \in Log!TraceType /\ trace'.openTurn = None
  <2>1. trace' = Seen(log \o Closers(log), Len(log \o Closers(log)))
    BY <1>1 DEF Replayed, Seen
  <2>. QED
    BY <2>1, LogFacts, Repaired
<1>3. TypeOK'
  BY <1>1, <1>2 DEF IInv, TypeOK
<1>4. Followed'
  BY <1>1, <1>2 DEF Followed, AlwaysAccepted, None, Log!None, Log!Refused
<1>5. Sound(log') /\ Behind' /\ RunIsNeverNotStarted'
  BY <1>1 DEF IInv, Behind, RunIsNeverNotStarted
<1>. QED
  BY <1>3, <1>4, <1>5 DEF IInv

(* A call that the repair reports as not started ran no body.              *)
LEMMA NotStartedIsTrue ==
    ASSUME IInv, NEW i \in 1..Len(Closers(log)), Closers(log)[i].type = "tool/result",
           Closers(log)[i].outcome = "not-started"
    PROVE  [turn |-> Closers(log)[i].turn, step |-> Closers(log)[i].step,
            call |-> Closers(log)[i].call] \notin effects
<1>. DEFINE n == Len(log)
            o == Open(log, n)
            x == Closers(log)[i]
<1>1. /\ log \in Seq(Events) /\ n \in Nat /\ Sound(log) /\ durable \in 0..n
      /\ SoundAt(log, n, o, Seen(log, n)) /\ Matched(o, Seen(log, n))
      /\ o \in Opens /\ Seen(log, n) \in Log!TraceType
  BY LogFacts
<1>2. PICK j \in DOMAIN o.pending :
         x = Result(o.turn, o.step, o.pending[j].call, OutcomeOf(o.pending[j]))
  BY <1>1, CloserKinds
<1>. HIDE DEF x
<1>3. /\ x.turn = o.turn /\ x.step = o.step /\ x.call = o.pending[j].call
      /\ x.outcome = OutcomeOf(o.pending[j])
  BY <1>2 DEF Result
<1>4. ~o.pending[j].recorded
  BY <1>3 DEF OutcomeOf, x
<1>5. x.call \in Calling(o)
  BY <1>3 DEF Calling
<1>6. x.call \notin RecordedOf(o)
  <2>1. Distinct(o.pending)
    BY <1>1 DEF Matched
  <2>. QED
    BY <1>3, <1>4, <2>1 DEF RecordedOf, Distinct
<1>7. ASSUME NEW body \in effects,
             body = [turn |-> x.turn, step |-> x.step, call |-> x.call]
      PROVE  FALSE
  <2>1. PICK k \in 1..durable : log[k] = Log!ToolCall(body.turn, body.step, body.call)
    BY DEF IInv, Behind
  <2>2. /\ k \in 1..n /\ log[k].type = "tool/call" /\ log[k].call = x.call
        /\ Of(log[k], o.turn, o.step)
    BY <1>1, <1>3, <1>7, <2>1 DEF Log!ToolCall, Of
  <2>3. Unrecorded(log, n, o)
    BY <1>1 DEF SoundAt
  <2>. QED
    BY <1>5, <1>6, <2>2, <2>3 DEF Unrecorded
<1>. QED
  BY <1>7 DEF x

LEMMA CommitRepairKeeps ==
    ASSUME IInv, NEW kept \in 0..MaxClosers, CommitRepair(kept)
    PROVE  IInv'
<1>. DEFINE c == Closers(log)
            n == Len(log)
            f == SubSeq(c, 1, kept)
<1>1. /\ kept <= Len(c) /\ log' = log \o f /\ durable' = Len(log') /\ mode' = "cold"
      /\ UNCHANGED <<trace, writer, effects>>
  BY DEF CommitRepair
<1>2. /\ log \in Seq(Events) /\ n \in Nat /\ Sound(log) /\ durable \in 0..n
      /\ DOMAIN log = 1..n /\ MaxClosers \in Nat
  BY LogFacts, SessionRecoveryAssumption DEF MaxClosers
<1>3. c \in Seq(Events) /\ Len(c) \in Nat /\ kept \in 0..Len(c) /\ kept \in Nat
  <2>1. c \in Seq(Events) /\ Len(c) \in Nat
    BY <1>2, ClosersAre, LenProperties
  <2>. HIDE DEF c
  <2>. QED
    BY <1>1, <1>2, <2>1
<1>4. log' \in Seq(Events) /\ Sound(log')
  BY <1>1, <1>2, <1>3, Repairs
<1>. HIDE DEF c
<1>5. f \in Seq(Events) /\ Len(f) = kept /\ \A i \in 1..kept : f[i] = c[i]
  <2>1. 1 \in Int /\ kept \in Int /\ \A i \in 1..kept : c[i] \in Events
    BY <1>3, ElementOfSeq
  <2>. QED
    BY <1>3, <2>1, SubSeqProperties
<1>. HIDE DEF f
<1>6. /\ Len(log') = n + kept /\ DOMAIN log' = 1..n + kept
      /\ (\A i \in 1..n : log'[i] = log[i]) /\ \A i \in 1..kept : log'[n + i] = c[i]
  <2>1. /\ Len(log \o f) = Len(log) + Len(f)
        /\ \A i \in 1..Len(log) + Len(f) :
              (log \o f)[i] = IF i <= Len(log) THEN log[i] ELSE f[i - Len(log)]
    BY <1>2, <1>5, ConcatProperties
  <2>2. \A i \in 1..kept : n + i \in 1..n + kept /\ ~(n + i <= n) /\ n + i - n = i
    BY <1>2, <1>3
  <2>3. \A i \in 1..n : i \in 1..n + kept /\ i <= n
    BY <1>2, <1>3
  <2>4. /\ Len(log') = n + kept
        /\ \A i \in 1..n + kept : log'[i] = IF i <= n THEN log[i] ELSE f[i - n]
    BY <1>1, <1>5, <2>1
  <2>5. DOMAIN log' = 1..n + kept
    BY <1>4, <2>4, LenProperties
  <2>. QED
    BY <1>5, <2>2, <2>3, <2>4, <2>5
<1>7. TypeOK'
  <2>1. durable' \in 0..Len(log')
    BY <1>1, <1>2, <1>3, <1>6
  <2>. QED
    BY <1>1, <1>4, <2>1 DEF IInv, TypeOK
<1>8. Followed'
  BY <1>1 DEF IInv, Followed, AlwaysAccepted
<1>9. Behind'
  <2>1. \A i \in 1..durable : i \in 1..durable' /\ log'[i] = log[i]
    BY <1>1, <1>2, <1>3, <1>6
  <2>. QED
    BY <1>1, <2>1 DEF IInv, Behind
<1>10. RunIsNeverNotStarted'
  <2>. SUFFICES ASSUME NEW i \in 1..n + kept, log'[i].type = "tool/result",
                       log'[i].outcome = "not-started"
                PROVE  [turn |-> log'[i].turn, step |-> log'[i].step,
                        call |-> log'[i].call] \notin effects
    BY <1>1, <1>6 DEF RunIsNeverNotStarted
  <2>1. CASE i \in 1..n
    BY <1>2, <1>6, <2>1 DEF IInv, RunIsNeverNotStarted
  <2>2. CASE i \notin 1..n
    <3>1. i - n \in 1..kept /\ n + (i - n) = i /\ i - n \in 1..Len(c)
      BY <1>2, <1>3, <2>2
    <3>2. log'[i] = c[i - n]
      BY <1>6, <3>1
    <3>. QED
      BY <3>1, <3>2, NotStartedIsTrue DEF c
  <2>. QED
    BY <2>1, <2>2
<1>. QED
  BY <1>4, <1>7, <1>8, <1>9, <1>10 DEF IInv

LEMMA PublishKeeps == ASSUME IInv, Publish PROVE IInv'
<1>. DEFINE n == Len(log)
            o == Open(log, n)
            t == Seen(log, n)
            at == Starts(log, "turn/start")
<1>1. /\ mode = "prepared" /\ Closers(log) = <<>> /\ mode' = "live"
      /\ writer' = Idle(LastTurn(log)) /\ UNCHANGED <<log, durable, trace, effects>>
  BY DEF Publish
<1>2. /\ log \in Seq(Events) /\ n \in Nat /\ DOMAIN log = 1..n
      /\ (\A i \in 1..n : log[i] \in Events) /\ o \in Opens /\ t \in Log!TraceType
      /\ SoundAt(log, n, o, t) /\ Matched(o, t)
  BY LogFacts
<1>3. o.turn = None
  BY <1>1, <1>2, ClosersAre
<1>4. trace = t /\ trace = Replayed(log)
  <2>1. log \o Closers(log) = log
    BY <1>1, <1>2, ConcatEmptySeq
  <2>. QED
    BY <1>1, <2>1 DEF IInv, Followed, Replayed, Seen
<1>5. LastTurn(log) = t.nextTurn - 1 /\ LastTurn(log) \in Nat
  <2>1. Numbered(log, n, o, t) /\ LatestTurn(o, t) = t.nextTurn - 1 /\ None \in Nat
    BY <1>2, <1>3 DEF SoundAt, LatestTurn, None, Log!None
  <2>. HIDE DEF o, t
  <2>2. CASE LatestTurn(o, t) = None /\ \A i \in 1..n : log[i].type # "turn/start"
    <3>1. at = {}
      BY <1>2, <2>2 DEF Starts
    <3>. QED
      BY <2>1, <2>2, <3>1 DEF LastTurn
  <2>3. CASE \E j \in 1..n :
                /\ log[j].type = "turn/start" /\ log[j].turn = LatestTurn(o, t)
                /\ \A i \in j + 1..n : log[i].type # "turn/start"
    <3>1. PICK j \in 1..n :
             /\ log[j].type = "turn/start" /\ log[j].turn = LatestTurn(o, t)
             /\ \A i \in j + 1..n : log[i].type # "turn/start"
      BY <2>3
    <3>2. j \in at /\ at \subseteq 1..n /\ \A i \in at : j >= i
      BY <1>2, <3>1 DEF Starts
    <3>3. Max(at) = j
      <4>1. \A k \in at : (\A i \in at : k >= i) => k = j
        BY <3>2
      <4>. HIDE DEF at
      <4>. QED
        BY <3>2, <4>1 DEF Max
    <3>4. log[j].turn \in Nat
      BY <1>2, EventsTyped
    <3>. QED
      BY <2>1, <3>1, <3>2, <3>3, <3>4 DEF LastTurn
  <2>. QED
    BY <2>1, <2>2, <2>3 DEF Numbered
<1>6. /\ writer'.at = "idle" /\ writer'.turn = t.nextTurn - 1 /\ writer'.called = 0
      /\ writer'.answered = 0 /\ writer' \in Writers
  BY <1>1, <1>5, IdleTyped DEF Idle
<1>7. TypeOK'
  BY <1>1, <1>6 DEF IInv, TypeOK, Writers
<1>8. Followed'
  <2>1. Wrote(writer', log', o, t)
    BY <1>3, <1>6 DEF Wrote
  <2>. HIDE DEF t
  <2>2. log' = log /\ trace' = trace /\ Open(log', Len(log')) = o
    BY <1>1
  <2>3. Wrote(writer', log', Open(log', Len(log')), trace')
    BY <1>4, <2>1, <2>2
  <2>. QED
    BY <1>1, <1>4, <2>2, <2>3 DEF IInv, Followed, AlwaysAccepted
<1>9. Sound(log') /\ Behind' /\ RunIsNeverNotStarted'
  BY <1>1 DEF IInv, Behind, RunIsNeverNotStarted
<1>. QED
  BY <1>7, <1>8, <1>9 DEF IInv

------------------------------------------------------------------------------
(* The theorems.                                                           *)

LEMMA InitIInv == Init => IInv
<1>. SUFFICES ASSUME Init PROVE IInv
  OBVIOUS
<1>1. /\ log = <<>> /\ durable = 0 /\ trace = Log!FreshTrace /\ mode = "live"
      /\ writer = Idle(None) /\ effects = {}
  BY DEF Init
<1>2. /\ log \in Seq(Events) /\ Len(log) = 0 /\ DOMAIN log = {} /\ 0..Len(log) = {0}
  BY <1>1, EmptySeq
<1>3. Open(log, 0) = NothingOpen /\ Seen(log, 0) = Log!FreshTrace
  BY <1>2, ScanUnfolds, TraceUnfolds
<1>4. NothingOpen.turn = 0 /\ NothingOpen.step = 0 /\ NothingOpen.pending = <<>> /\ None = 0
  BY DEF NothingOpen, None, Log!None
<1>5. Matched(NothingOpen, Log!FreshTrace)
  BY <1>4, NoCalls DEF Matched, Log!FreshTrace, None, Log!None
<1>6. SoundAt(log, 0, NothingOpen, Log!FreshTrace)
  <2>1. Numbered(log, 0, NothingOpen, Log!FreshTrace)
    BY <1>4 DEF Numbered, LatestTurn, Log!FreshTrace
  <2>. QED
    BY <1>5, <2>1 DEF SoundAt, Past, Unanswered, Unrecorded, Accounted
<1>7. Sound(log)
  BY <1>2, <1>3, <1>6 DEF Sound, Once
<1>8. Idle(None) \in Writers /\ Log!FreshTrace \in Log!TraceType
  <2>1. None \in Nat
    BY <1>4
  <2>. QED
    BY <2>1, IdleTyped DEF Log!FreshTrace, Log!TraceType, Log!None
<1>9. TypeOK
  BY <1>1, <1>2, <1>8 DEF TypeOK, Writers
<1>10. Followed
  <2>1. Wrote(writer, log, NothingOpen, Log!FreshTrace)
    BY <1>1, <1>4 DEF Wrote, Idle, Log!FreshTrace
  <2>2. trace = Replayed(log)
    BY <1>1, <1>2, <1>3 DEF Replayed, Seen
  <2>3. trace.openTurn # Log!Refused
    BY <1>1 DEF Log!FreshTrace, Log!None, Log!Refused
  <2>. QED
    BY <1>1, <1>2, <1>3, <2>1, <2>2, <2>3 DEF Followed, AlwaysAccepted
<1>11. Behind /\ RunIsNeverNotStarted
  BY <1>1, <1>2 DEF Behind, RunIsNeverNotStarted
<1>. QED
  BY <1>7, <1>9, <1>10, <1>11 DEF IInv

LEMMA NextIInv == IInv /\ [Next]_vars => IInv'
<1>. SUFFICES ASSUME IInv, [Next]_vars PROVE IInv'
  OBVIOUS
<1>1. CASE StartTurn
  BY <1>1, StartTurnKeeps
<1>2. CASE StartStep
  BY <1>2, StartStepKeeps
<1>3. CASE \E asked \in 0..MaxCalls : Answer(asked)
  BY <1>3, AnswerKeeps
<1>4. CASE RecordCall
  BY <1>4, RecordCallKeeps
<1>5. CASE RecordResult
  BY <1>5, RecordResultKeeps
<1>6. CASE \E failed \in BOOLEAN : EndStep(failed)
  BY <1>6, EndStepKeeps
<1>7. CASE EndTurn
  BY <1>7, EndTurnKeeps
<1>8. CASE Flush
  BY <1>8, FlushKeeps
<1>9. CASE \E call \in 1..MaxCalls : RunBody(call)
  BY <1>9, RunBodyKeeps
<1>10. CASE \E kept \in 0..Len(log) : Crash(kept)
  BY <1>10, CrashKeeps
<1>11. CASE Prepare
  BY <1>11, PrepareKeeps
<1>12. CASE \E kept \in 0..MaxClosers : CommitRepair(kept)
  BY <1>12, CommitRepairKeeps
<1>13. CASE Publish
  BY <1>13, PublishKeeps
<1>14. CASE UNCHANGED vars
  BY <1>14 DEF vars, IInv, TypeOK, Followed, AlwaysAccepted, Behind, RunIsNeverNotStarted, Wrote
<1>. QED
  BY <1>1, <1>2, <1>3, <1>4, <1>5, <1>6, <1>7, <1>8, <1>9, <1>10, <1>11, <1>12, <1>13, <1>14
     DEF Next

(* The inductive invariant: whatever is cut off the log and appended to    *)
(* it again, every prefix of it is one that the repair and the invariant   *)
(* companion read alike.                                                   *)
THEOREM Recovers == Spec => []IInv
<1>. QED
  BY InitIInv, NextIInv, PTL DEF Spec

(* Types, balance of the repaired log, and convergence of a repair that    *)
(* was itself interrupted after any number of its closers.                 *)
THEOREM RepairsAreSound == Spec => []RecoveryOK
<1>1. IInv => RecoveryOK
  <2>. SUFFICES ASSUME IInv PROVE RecoveryOK
    OBVIOUS
  <2>1. log \in Seq(Events) /\ Sound(log)
    BY LogFacts
  <2>2. RepairBalances
    <3>1. ASSUME mode = "prepared"
          PROVE  trace.openTurn = None /\ trace.openStep = None
      <4>. DEFINE w == log \o Closers(log)
      <4>1. trace = Seen(w, Len(w))
        BY <3>1 DEF IInv, Followed, Replayed, Seen
      <4>. QED
        BY <2>1, <4>1, Repaired
    <3>2. ASSUME mode = "live"
          PROVE  Closers(log) # <<>> <=> trace.openTurn # None
      <4>1. Matched(Open(log, Len(log)), trace)
        BY <3>2, LogFacts
      <4>2. trace.openTurn = Open(log, Len(log)).turn
        BY <4>1 DEF Matched
      <4>. QED
        BY <2>1, <4>2, ClosersAre
    <3>. QED
      BY <3>1, <3>2 DEF RepairBalances
  <2>3. RepairConverges
    <3>1. DOMAIN Closers(log) = 1..Len(Closers(log)) /\ Len(Closers(log)) \in Nat
      BY <2>1, ClosersAre, LenProperties
    <3>. QED
      BY <2>1, <3>1, Repairs DEF RepairConverges
  <2>. QED
    BY <2>2, <2>3 DEF RecoveryOK, IInv
<1>. QED
  BY <1>1, Recovers, PTL

(* Every event appended, live or by a repair, is accepted.                 *)
THEOREM EveryAppendAccepted == Spec => []AlwaysAccepted
<1>1. IInv => AlwaysAccepted
  BY DEF IInv, Followed
<1>. QED
  BY <1>1, Recovers, PTL

(* A tool whose body was entered is never reported as not started.         *)
THEOREM NoRunIsDenied == Spec => []RunIsNeverNotStarted
<1>1. IInv => RunIsNeverNotStarted
  BY DEF IInv
<1>. QED
  BY <1>1, Recovers, PTL

(* Every call of every message has one result in the repaired log, but for *)
(* a step that the loop itself closed without it; no call has two.         *)
THEOREM OneResultEach == Spec => []CallsAnsweredOnce
<1>1. IInv => CallsAnsweredOnce
  <2>. SUFFICES ASSUME IInv, mode = "prepared" PROVE CallsAnsweredOnce
    BY DEF CallsAnsweredOnce
  <2>. DEFINE n == Len(log)
              o == Open(log, n)
              c == Closers(log)
              w == log \o c
  <2>1. /\ log \in Seq(Events) /\ Sound(log) /\ n \in Nat /\ DOMAIN log = 1..n
        /\ o \in Opens /\ Seen(log, n) \in Log!TraceType /\ Matched(o, Seen(log, n))
        /\ Accounted(log, n, o)
    BY LogFacts DEF SoundAt
  <2>2. w \in Seq(Events) /\ Once(w)
    BY <2>1, Repaired DEF Sound
  <2>3. c \in Seq(Events) /\ Len(c) \in Nat
    BY <2>1, ClosersAre, LenProperties
  <2>. HIDE DEF c, o
  <2>4. /\ Len(w) = n + Len(c) /\ DOMAIN w = 1..n + Len(c)
        /\ (\A i \in 1..n : w[i] = log[i]) /\ \A i \in 1..Len(c) : w[n + i] = c[i]
    <3>1. /\ Len(log \o c) = Len(log) + Len(c)
          /\ \A i \in 1..Len(log) + Len(c) :
                (log \o c)[i] = IF i <= Len(log) THEN log[i] ELSE c[i - Len(log)]
      BY <2>1, <2>3, ConcatProperties
    <3>2. /\ \A i \in 1..Len(c) : n + i \in 1..n + Len(c) /\ ~(n + i <= n) /\ n + i - n = i
          /\ \A i \in 1..n : i \in 1..n + Len(c) /\ i <= n
      BY <2>1, <2>3
    <3>3. DOMAIN w = 1..n + Len(c)
      BY <2>2, <3>1, LenProperties
    <3>. QED
      BY <3>1, <3>2, <3>3
  <2>. HIDE DEF w
  <2>5. ASSUME NEW i \in DOMAIN w, w[i].type = "assistant/message", NEW call \in 1..w[i].asked
        PROVE  LET found == ResultsOf(w, w[i], call) IN
               \/ \E j \in found : found = {j}
               \/ found = {} /\ Failed(log, w[i])
    <3>. DEFINE found == ResultsOf(w, w[i], call)
    <3>1. i \in 1..n /\ w[i] = log[i]
      <4>1. CASE i \in 1..n
        BY <2>4, <4>1
      <4>2. CASE i \notin 1..n
        <5>1. i - n \in 1..Len(c) /\ n + (i - n) = i
          BY <2>1, <2>3, <2>4, <4>2
        <5>2. w[i] = c[i - n]
          BY <2>4, <5>1
        <5>3. c[i - n].type \in Closing
          BY <2>1, <5>1, CloserKinds DEF c
        <5>. QED
          BY <2>5, <5>2, <5>3 DEF Closing
      <4>. QED
        BY <4>1, <4>2
    <3>2. ASSUME NEW j \in found, NEW k \in found
          PROVE  j = k
      BY <2>2 DEF ResultsOf, Once, Of
    <3>3. CASE HasResult(log, n, log[i], call)
      <4>1. PICK j \in 1..n : /\ log[j].type = "tool/result" /\ log[j].call = call
                              /\ Of(log[j], log[i].turn, log[i].step)
        BY <3>3 DEF HasResult
      <4>2. j \in DOMAIN w /\ w[j] = log[j]
        BY <2>1, <2>3, <2>4
      <4>3. j \in found
        BY <3>1, <4>1, <4>2 DEF ResultsOf, Of
      <4>. HIDE DEF found
      <4>4. found = {j}
        BY <3>2, <4>3
      <4>. QED
        BY <4>3, <4>4 DEF found
    <3>4. CASE Of(log[i], o.turn, o.step) /\ call \in Calling(o)
      <4>1. PICK k \in DOMAIN o.pending : o.pending[k].call = call
        BY <3>4 DEF Calling
      <4>2. /\ k \in 1..Len(o.pending) /\ Len(o.pending) \in Nat /\ o.step # None
            /\ o.turn # None /\ o.pending[k].step = o.step
        <5>1. o.step # None
          <6>1. o.pending # <<>>
            BY <4>1, EmptySeq
          <6>. QED
            BY <2>1, <6>1 DEF Matched
        <5>. QED
          BY <2>1, <4>1, <5>1, Fields DEF Matched
      <4>3. /\ k \in 1..Len(c)
            /\ c[k] = Result(o.turn, o.step, call, OutcomeOf(o.pending[k]))
        <5>1. c = EndOf(o)
          BY <2>1, <4>2, ClosersAre DEF c, o
        <5>2. /\ Len(EndOf(o)) = Len(o.pending) + 2
              /\ EndOf(o)[k] = Result(o.turn, o.pending[k].step, o.pending[k].call,
                                      OutcomeOf(o.pending[k]))
          BY <2>1, <4>2, EndOfIs
        <5>. QED
          BY <4>1, <4>2, <5>1, <5>2
      <4>4. n + k \in DOMAIN w /\ w[n + k] = c[k]
        BY <2>1, <2>3, <2>4, <4>3
      <4>5. /\ w[n + k].type = "tool/result" /\ w[n + k].call = call
            /\ w[n + k].turn = o.turn /\ w[n + k].step = o.step
        BY <4>3, <4>4 DEF Result
      <4>6. n + k \in found
        BY <3>1, <3>4, <4>4, <4>5 DEF ResultsOf, Of
      <4>. HIDE DEF found
      <4>7. found = {n + k}
        BY <3>2, <4>6
      <4>. QED
        BY <4>6, <4>7 DEF found
    <3>5. CASE GaveUp(log, n, log[i])
      <4>1. Failed(log, w[i])
        <5>1. PICK h \in 1..n :
                 /\ log[h] = Log!Boundary("step/end", log[i].turn, log[i].step)
                 /\ \A j \in 1..h : log[j].type = "tool/result" =>
                       log[j].outcome = "ran" \/ ~Of(log[j], log[i].turn, log[i].step)
          BY <3>5 DEF GaveUp
        <5>2. \A j \in 1..h : log[j].type = "tool/result" =>
                 \/ log[j].outcome = "ran"
                 \/ <<log[j].turn, log[j].step>> # <<log[i].turn, log[i].step>>
          BY <5>1 DEF Of
        <5>. QED
          BY <2>1, <3>1, <5>1, <5>2 DEF Failed
      <4>. HIDE DEF found
      <4>2. found = {} \/ \E j \in found : found = {j}
        BY <3>2
      <4>. QED
        BY <4>1, <4>2 DEF found
    <3>6. \/ HasResult(log, n, log[i], call)
          \/ Of(log[i], o.turn, o.step) /\ call \in Calling(o)
          \/ GaveUp(log, n, log[i])
      BY <2>1, <2>5, <3>1 DEF Accounted
    <3>. QED
      BY <3>3, <3>4, <3>5, <3>6
  <2>. QED
    BY <2>5 DEF CallsAnsweredOnce, w, c
<1>. QED
  BY <1>1, Recovers, PTL
==============================================================================
