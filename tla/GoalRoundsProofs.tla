--------------------------- MODULE GoalRoundsProofs ---------------------------
(***************************************************************************)
(* Proofs about automatic goal rounds, for every cap, every number of      *)
(* inputs and with or without a hook around the driver's: rounds replay,   *)
(* steering messages are kept, a halt stops the goal, and an armed goal is *)
(* attended to.                                                            *)
(***************************************************************************)
EXTENDS GoalRounds, SequenceTheorems, TLAPS

(* A batch ends with what was claimed from the next turn, if anything was, *)
(* and holds messages only while a step is being decided.                  *)
Batched ==
    /\ \A i \in DOMAIN agent.batch : i < Len(agent.batch) => agent.batch[i].kind = "steer"
    /\ agent.batch # <<>> => agent.phase \in {"assemble", "downstream", "enter"}

(* RoundsReplay: a round is never newer than the goal, and one that is     *)
(* about to enter is the goal's next, for the driver has just looked and   *)
(* nothing but another hook comes between.                                 *)
Current(m) ==
    /\ m.id <= goal.id
    /\ m.id = goal.id /\ goal.phase # "none" => m.rev <= goal.rev
    /\ m.id = goal.id /\ goal.phase # "none" /\ m.rev = goal.rev => m.round <= goal.max

IsNext(m) ==
    /\ goal.phase = "active" /\ m.id = goal.id /\ m.rev = goal.rev
    /\ m.round = goal.started + 1

Replaying ==
    /\ \A m \in GoalRound(agent.nextTurn) \union GoalRound(agent.batch) : Current(m)
    /\ agent.phase = "enter" /\ ~agent.outer =>
          /\ driver.at = "none"
          /\ ~agent.aborted => \A m \in GoalRound(agent.batch) : IsNext(m)
    /\ ~agent.outer => ~goal.corrupt

(* At the end of a turn the reason tells whether it was aborted, and an    *)
(* error has taken the goal's authority.                                   *)
EndTold ==
    agent.phase = "end" =>
        /\ agent.aborted <=> agent.reason = "aborted"
        /\ agent.reason = "error" => ~goal.armed

(* HaltStops: a halted goal that is still armed has its fate sealed by the *)
(* turn that runs: it was aborted, its round is cancelled, and the idle    *)
(* status will pause the goal.                                             *)
Sealed(d) == d.attempt # None /\ d.attempt.cancelled

Halting ==
    /\ goal.armed => goal.phase = "active"
    /\ history.halted /\ goal.armed =>
          ~Idle /\ agent.aborted /\ Sealed(driver)
    /\ agent.phase = "enter" /\ GoalRound(agent.batch) # {} /\ history.halted => agent.aborted
    /\ EndTold

(* ArmedIsDriven: a run that is not between two steps waits for a flush; a *)
(* checkpoint that is due was requested; and a goal nobody flushes for     *)
(* waits for its round, which is still queued or was cancelled.            *)
Awaited ==
    /\ driver.attempt # None
    /\ \/ driver.attempt.cancelled
       \/ agent.wake /\ \E m \in ToSet(agent.nextTurn) : SameQueued(m, driver.attempt)

Attending ==
    driver.at = "none" =>
        /\ driver.run => driver.flushes > 0
        /\ driver.needsCheckpoint /\ ReadyToDrive => driver.requested
        /\ driver.flushes = 0 /\ ReadyToDrive /\ Active(goal) => Awaited

(* SteersKept: what entered, what is being decided and what waits are in   *)
(* the order the messages were sent.                                       *)
Before(earlier, later) ==
    \A m \in ToSet(earlier), k \in ToSet(later) :
        m.kind = "steer" /\ k.kind = "steer" => m.n < k.n

InLine(entered, batch, waiting, dropped, steers) ==
    /\ Increasing(entered) /\ Increasing(batch) /\ Increasing(waiting)
    /\ Before(entered, batch) /\ Before(entered, waiting) /\ Before(batch, waiting)
    /\ 1..steers = dropped \union Steers(entered) \union Steers(waiting) \union Steers(batch)

Ordered ==
    InLine(history.entered, agent.batch, agent.nextStep, history.dropped, history.steers)

IInv == TypeOK /\ Batched /\ Replaying /\ Halting /\ Attending /\ Ordered

------------------------------------------------------------------------------
(* The values of the four records.                                         *)

LEMMA GoalsTyped ==
    ASSUME NEW g \in Goals
    PROVE  /\ Disarmed(g) \in Goals /\ Disarmed(g) = [g EXCEPT !.armed = FALSE]
           /\ \A p \in {"active", "paused", "blocked", "complete"}, b \in BOOLEAN :
                 Moved(g, p, b) \in Goals
           /\ NoGoal(g.id) \in Goals
<1>1. Disarmed(g) \in Goals
  BY DEF Disarmed, Goals
<1>2. ASSUME NEW p \in {"active", "paused", "blocked", "complete"}, NEW b \in BOOLEAN
      PROVE  Moved(g, p, b) \in Goals
  <2>1. g.rev + 1 \in Nat
    BY DEF Goals
  <2>. QED
    BY <2>1 DEF Moved, Goals
<1>3. NoGoal(g.id) \in Goals
  BY DEF NoGoal, Goals
<1>. QED
  BY <1>1, <1>2, <1>3 DEF Disarmed

LEMMA AdmittedTyped ==
    ASSUME NEW g \in Goals, NEW m \in Rounds
    PROVE  Admitted(g, m) \in Goals
  BY DEF Admitted, Goals, Rounds

LEMMA DriversTyped ==
    ASSUME NEW d \in Drivers
    PROVE  /\ RequestDrive(d) \in Drivers /\ GoalChanged(d) \in Drivers
           /\ Returned(d) \in Drivers /\ Flushing(d) \in Drivers
           /\ Competing(d) \in Drivers
           /\ [d EXCEPT !.attempt = None] \in Drivers
           /\ d.attempt # None => d.attempt \in Attempts
<1>1. \A e \in Drivers : RequestDrive(e) \in Drivers
  BY DEF RequestDrive, Drivers
<1>2. GoalChanged(d) \in Drivers
  <2>1. [d EXCEPT !.needsCheckpoint = TRUE] \in Drivers
    BY DEF Drivers
  <2>. QED
    BY <1>1, <2>1 DEF GoalChanged
<1>3. Returned(d) \in Drivers
  BY DEF Returned, Drivers
<1>4. Flushing(d) \in Drivers
  <2>. DEFINE running == d.run \/ d.at = "first"
  <2>1. d.flushes + 1 \in Nat /\ running \in BOOLEAN
    BY DEF Drivers
  <2>2. Flushing(d) = [d EXCEPT !.needsCheckpoint = FALSE, !.flushes = d.flushes + 1,
                                !.at = "none", !.run = running]
    BY DEF Flushing
  <2>. HIDE DEF running
  <2>. QED
    BY <2>1, <2>2 DEF Drivers
<1>5. Competing(d) \in Drivers
  <2>1. CASE d.attempt = None
    BY <2>1 DEF Competing, Drivers, None
  <2>2. CASE d.attempt \in Attempts
    <3>1. [d.attempt EXCEPT !.stale = TRUE] \in Attempts
      BY <2>2 DEF Attempts
    <3>. QED
      BY <3>1 DEF Competing, Drivers
  <2>. QED
    BY <2>1, <2>2 DEF Drivers
<1>6. [d EXCEPT !.attempt = None] \in Drivers
  BY DEF Drivers
<1>. QED
  BY <1>1, <1>2, <1>3, <1>4, <1>5, <1>6 DEF Drivers

LEMMA AttemptsTyped ==
    ASSUME NEW d \in Drivers, d.attempt # None
    PROVE  /\ [d EXCEPT !.attempt.cancelled = TRUE] \in Drivers
           /\ [d EXCEPT !.attempt.phase = "claimed"] \in Drivers
           /\ [d EXCEPT !.attempt.phase = "admitted"] \in Drivers
<1>1. d.attempt \in Attempts
  BY DriversTyped
<1>2. /\ [d.attempt EXCEPT !.cancelled = TRUE] \in Attempts
      /\ [d.attempt EXCEPT !.phase = "claimed"] \in Attempts
      /\ [d.attempt EXCEPT !.phase = "admitted"] \in Attempts
  BY <1>1 DEF Attempts
<1>. QED
  BY <1>2 DEF Drivers

LEMMA ListenersTyped ==
    ASSUME NEW d \in Drivers, NEW messages
    PROVE  Discarded(d, messages) \in Drivers /\ ClaimedBy(d, messages) \in Drivers
  BY AttemptsTyped DEF Discarded, ClaimedBy, SameQueued

------------------------------------------------------------------------------
(* Sequences and what they hold.                                           *)

LEMMA NothingHeld == ToSet(<<>>) = {} /\ GoalRound(<<>>) = {} /\ Steers(<<>>) = {}
<1>1. ToSet(<<>>) = {}
  BY DEF ToSet
<1>. QED
  BY <1>1 DEF GoalRound, Steers

LEMMA HeldTyped ==
    ASSUME NEW S, NEW s \in Seq(S)
    PROVE  /\ ToSet(s) \subseteq S
           /\ s # <<>> => Head(s) \in ToSet(s) /\ ToSet(s) = {Head(s)} \union ToSet(Tail(s))
<1>1. ToSet(s) \subseteq S
  BY ElementOfSeq, LenProperties DEF ToSet
<1>2. ASSUME s # <<>>
      PROVE  Head(s) \in ToSet(s) /\ ToSet(s) = {Head(s)} \union ToSet(Tail(s))
  <2>1. /\ Tail(s) \in Seq(S) /\ Len(Tail(s)) = Len(s) - 1
        /\ \A i \in 1..Len(Tail(s)) : Tail(s)[i] = s[i + 1]
    BY <1>2, HeadTailProperties
  <2>2. /\ DOMAIN s = 1..Len(s) /\ DOMAIN Tail(s) = 1..Len(Tail(s)) /\ Len(s) \in Nat
        /\ Len(s) # 0
    BY <1>2, <2>1, LenProperties, EmptySeq
  <2>3. Head(s) = s[1] /\ 1 \in DOMAIN s
    BY <1>2, <2>2
  <2>4. ASSUME NEW i \in DOMAIN s
        PROVE  s[i] \in {Head(s)} \union ToSet(Tail(s))
    <3>1. CASE i = 1
      BY <3>1, <2>3
    <3>2. CASE i # 1
      <4>1. i - 1 \in DOMAIN Tail(s) /\ Tail(s)[i - 1] = s[i]
        BY <3>2, <2>1, <2>2
      <4>. QED
        BY <4>1 DEF ToSet
    <3>. QED
      BY <3>1, <3>2
  <2>5. ASSUME NEW i \in DOMAIN Tail(s)
        PROVE  Tail(s)[i] \in ToSet(s)
    <3>1. i + 1 \in DOMAIN s /\ Tail(s)[i] = s[i + 1]
      BY <2>1, <2>2
    <3>. QED
      BY <3>1 DEF ToSet
  <2>6. Head(s) \in ToSet(s)
    BY <2>3 DEF ToSet
  <2>7. ToSet(s) \subseteq {Head(s)} \union ToSet(Tail(s))
    BY <2>4 DEF ToSet
  <2>8. ToSet(Tail(s)) \subseteq ToSet(s)
    BY <2>5 DEF ToSet
  <2>. QED
    BY <2>6, <2>7, <2>8
<1>. QED
  BY <1>1, <1>2

LEMMA HeldByBoth ==
    ASSUME NEW S, NEW s \in Seq(S), NEW t \in Seq(S)
    PROVE  /\ s \o t \in Seq(S)
           /\ ToSet(s \o t) = ToSet(s) \union ToSet(t)
           /\ GoalRound(s \o t) = GoalRound(s) \union GoalRound(t)
           /\ Steers(s \o t) = Steers(s) \union Steers(t)
<1>1. /\ s \o t \in Seq(S) /\ Len(s \o t) = Len(s) + Len(t)
      /\ \A i \in 1 .. Len(s) + Len(t) :
            (s \o t)[i] = IF i <= Len(s) THEN s[i] ELSE t[i - Len(s)]
  BY ConcatProperties
<1>2. /\ DOMAIN s = 1..Len(s) /\ DOMAIN t = 1..Len(t) /\ DOMAIN (s \o t) = 1..Len(s) + Len(t)
      /\ Len(s) \in Nat /\ Len(t) \in Nat
  BY <1>1, LenProperties
<1>3. ASSUME NEW i \in DOMAIN (s \o t)
      PROVE  (s \o t)[i] \in ToSet(s) \union ToSet(t)
  <2>1. CASE i <= Len(s)
    BY <2>1, <1>1, <1>2 DEF ToSet
  <2>2. CASE i > Len(s)
    <3>1. i - Len(s) \in DOMAIN t /\ (s \o t)[i] = t[i - Len(s)]
      BY <2>2, <1>1, <1>2
    <3>. QED
      BY <3>1 DEF ToSet
  <2>. QED
    BY <2>1, <2>2, <1>2
<1>4. ASSUME NEW i \in DOMAIN s
      PROVE  s[i] \in ToSet(s \o t)
  <2>1. i \in DOMAIN (s \o t) /\ (s \o t)[i] = s[i]
    BY <1>1, <1>2
  <2>. QED
    BY <2>1 DEF ToSet
<1>5. ASSUME NEW i \in DOMAIN t
      PROVE  t[i] \in ToSet(s \o t)
  <2>1. i + Len(s) \in DOMAIN (s \o t) /\ (s \o t)[i + Len(s)] = t[i]
    BY <1>1, <1>2
  <2>. QED
    BY <2>1 DEF ToSet
<1>6. ToSet(s \o t) \subseteq ToSet(s) \union ToSet(t)
  BY <1>3 DEF ToSet
<1>7. ToSet(s) \subseteq ToSet(s \o t) /\ ToSet(t) \subseteq ToSet(s \o t)
  BY <1>4, <1>5 DEF ToSet
<1>8. ToSet(s \o t) = ToSet(s) \union ToSet(t)
  BY <1>6, <1>7
<1>. QED
  BY <1>1, <1>8 DEF GoalRound, Steers

LEMMA HeldOne ==
    ASSUME NEW S, NEW x \in S
    PROVE  <<x>> \in Seq(S) /\ ToSet(<<x>>) = {x}
<1>1. <<x>> \in Seq(S)
  OBVIOUS
<1>2. DOMAIN <<x>> = {1} /\ <<x>>[1] = x
  OBVIOUS
<1>3. ToSet(<<x>>) = {x}
  BY <1>2 DEF ToSet
<1>. QED
  BY <1>1, <1>3

LEMMA HeldAppended ==
    ASSUME NEW S, NEW s \in Seq(S), NEW x \in S
    PROVE  /\ Append(s, x) \in Seq(S)
           /\ ToSet(Append(s, x)) = ToSet(s) \union {x}
<1>. DEFINE last == <<x>>
<1>1. Append(s, x) = s \o last
  OBVIOUS
<1>2. last \in Seq(S) /\ ToSet(last) = {x}
  BY HeldOne
<1>. HIDE DEF last
<1>3. s \o last \in Seq(S) /\ ToSet(s \o last) = ToSet(s) \union ToSet(last)
  BY <1>2, HeldByBoth
<1>. QED
  BY <1>1, <1>2, <1>3

LEMMA HeldRemoved ==
    ASSUME NEW S, NEW s \in Seq(S), NEW i \in DOMAIN s
    PROVE  /\ RemoveAt(s, i) \in Seq(S)
           /\ ToSet(RemoveAt(s, i)) \subseteq ToSet(s)
           /\ ToSet(s) \subseteq ToSet(RemoveAt(s, i)) \union {s[i]}
<1>. DEFINE front == SubSeq(s, 1, i - 1)
            back == SubSeq(s, i + 1, Len(s))
<1>1. Len(s) \in Nat /\ DOMAIN s = 1..Len(s) /\ i \in 1..Len(s) /\ \A j \in 1..Len(s) : s[j] \in S
  BY LenProperties, ElementOfSeq
<1>2. /\ front \in Seq(S) /\ Len(front) = i - 1
      /\ \A j \in 1..i - 1 : front[j] = s[j]
  <2>1. \A j \in 1..i - 1 : s[j] \in S
    BY <1>1
  <2>. QED
    BY <1>1, <2>1, SubSeqProperties
<1>3. /\ back \in Seq(S) /\ Len(back) = Len(s) - i
      /\ \A j \in 1..Len(s) - i : back[j] = s[i + j]
  <2>1. \A j \in i + 1..Len(s) : s[j] \in S
    BY <1>1
  <2>. QED
    BY <1>1, <2>1, SubSeqProperties
<1>4. DOMAIN front = 1..i - 1 /\ DOMAIN back = 1..Len(s) - i
  BY <1>2, <1>3, LenProperties
<1>5. RemoveAt(s, i) \in Seq(S) /\ ToSet(RemoveAt(s, i)) = ToSet(front) \union ToSet(back)
  <2>1. RemoveAt(s, i) = front \o back
    BY DEF RemoveAt
  <2>. HIDE DEF front, back
  <2>2. front \o back \in Seq(S) /\ ToSet(front \o back) = ToSet(front) \union ToSet(back)
    BY <1>2, <1>3, HeldByBoth
  <2>. QED
    BY <2>1, <2>2
<1>6. ToSet(front) \subseteq ToSet(s)
  <2>1. \A j \in DOMAIN front : j \in DOMAIN s /\ front[j] = s[j]
    BY <1>1, <1>2, <1>4
  <2>. QED
    BY <2>1 DEF ToSet
<1>7. ToSet(back) \subseteq ToSet(s)
  <2>1. \A j \in DOMAIN back : i + j \in DOMAIN s /\ back[j] = s[i + j]
    BY <1>1, <1>3, <1>4
  <2>. QED
    BY <2>1 DEF ToSet
<1>8. ASSUME NEW j \in DOMAIN s
      PROVE  s[j] \in ToSet(front) \union ToSet(back) \union {s[i]}
  <2>1. CASE j < i
    <3>1. j \in DOMAIN front /\ front[j] = s[j]
      BY <2>1, <1>1, <1>2, <1>4
    <3>. QED
      BY <3>1 DEF ToSet
  <2>2. CASE j > i
    <3>a. j - i \in 1..Len(s) - i /\ i + (j - i) = j
      BY <2>2, <1>1
    <3>1. j - i \in DOMAIN back /\ back[j - i] = s[j]
      BY <3>a, <1>3, <1>4
    <3>. QED
      BY <3>1 DEF ToSet
  <2>. QED
    BY <2>1, <2>2, <1>1
<1>9. ToSet(s) \subseteq ToSet(front) \union ToSet(back) \union {s[i]}
  BY <1>8 DEF ToSet
<1>. QED
  BY <1>5, <1>6, <1>7, <1>9

------------------------------------------------------------------------------
(* The messages of a batch.                                                *)

LEMMA KindsApart ==
    /\ \A m \in Messages : m.kind = "goal" <=> m \in Rounds
    /\ \A m \in Messages : m.kind = "steer" <=> m \in Steerings
    /\ \A m \in {Prompt} \union Rounds : m.kind = "goal" <=> m \in Rounds
    /\ \A m \in {Prompt} \union Rounds : m.kind # "steer"
    /\ \A m \in Steerings : m.kind = "steer" /\ m.kind # "goal"
  BY DEF Messages, Prompt, Steerings, Rounds

LEMMA GoalRoundsTyped ==
    ASSUME NEW s, s \in Seq(Messages) \/ s \in Seq({Prompt} \union Rounds)
    PROVE  GoalRound(s) \subseteq Rounds
<1>1. ToSet(s) \subseteq Messages \/ ToSet(s) \subseteq {Prompt} \union Rounds
  BY HeldTyped
<1>. QED
  BY <1>1, KindsApart DEF GoalRound

LEMMA SteeringsHaveNoRound ==
    ASSUME NEW s \in Seq(Steerings)
    PROVE  GoalRound(s) = {} /\ s \in Seq(Messages)
<1>1. ToSet(s) \subseteq Steerings
  BY HeldTyped
<1>2. Steerings \subseteq Messages
  BY DEF Messages
<1>3. s \in Seq(Messages)
  BY <1>2, SeqMonotonic
<1>. QED
  BY <1>1, <1>3, KindsApart DEF GoalRound

LEMMA SteersTyped ==
    ASSUME NEW s \in Seq(Messages)
    PROVE  Steers(s) \subseteq Nat
<1>1. ToSet(s) \subseteq Messages
  BY HeldTyped
<1>2. \A m \in Steerings : m.n \in Nat
  BY DEF Steerings
<1>. QED
  BY <1>1, <1>2, KindsApart DEF Steers

(* The round of a batch is its last message; the others are steering       *)
(* messages, in their order.                                               *)
LEMMA OthersAreSteerings ==
    ASSUME NEW batch \in Seq(Messages), GoalRound(batch) # {},
           \A i \in DOMAIN batch : i < Len(batch) => batch[i].kind = "steer"
    PROVE  /\ Others(batch) \in Seq(Steerings)
           /\ Len(batch) \in Nat \ {0} /\ Len(Others(batch)) = Len(batch) - 1
           /\ \A i \in 1..Len(batch) - 1 : Others(batch)[i] = batch[i]
           /\ batch[Len(batch)] \in Rounds
           /\ GoalRound(batch) = {batch[Len(batch)]}
<1>1. /\ Len(batch) \in Nat /\ DOMAIN batch = 1..Len(batch)
      /\ \A i \in DOMAIN batch : batch[i] \in Messages
  BY LenProperties, ElementOfSeq
<1>2. PICK i \in DOMAIN batch : batch[i].kind = "goal"
  BY DEF GoalRound, ToSet
<1>3. \A j \in DOMAIN batch : batch[j].kind = "goal" => j = Len(batch)
  BY <1>1
<1>4. /\ i = Len(batch) /\ batch[Len(batch)].kind = "goal"
      /\ (CHOOSE j \in DOMAIN batch : batch[j].kind = "goal") = Len(batch)
      /\ Len(batch) \in Nat \ {0}
  BY <1>1, <1>2, <1>3
<1>5. GoalRound(batch) = {batch[Len(batch)]}
  BY <1>1, <1>2, <1>3, <1>4 DEF GoalRound, ToSet
<1>6. batch[Len(batch)] \in Rounds
  BY <1>1, <1>2, <1>4, KindsApart
<1>. DEFINE front == SubSeq(batch, 1, Len(batch) - 1)
<1>7. \A j \in 1..Len(batch) - 1 : batch[j] \in Steerings
  BY <1>1, KindsApart
<1>8. /\ front \in Seq(Steerings) /\ Len(front) = Len(batch) - 1
      /\ \A j \in 1..Len(batch) - 1 : front[j] = batch[j]
  BY <1>4, <1>7, SubSeqProperties
<1>9. Others(batch) = front
  <2>1. SubSeq(batch, Len(batch) + 1, Len(batch)) = <<>>
    BY <1>1, SubSeqEmpty
  <2>2. Others(batch) = front \o <<>>
    BY <1>4, <2>1 DEF Others, RemoveAt
  <2>. HIDE DEF front
  <2>3. front \o <<>> = front
    BY <1>8, ConcatEmptySeq
  <2>. QED
    BY <2>2, <2>3
<1>. HIDE DEF front
<1>. QED
  BY <1>4, <1>5, <1>6, <1>8, <1>9

LEMMA AgentsTyped ==
    ASSUME NEW a \in Agents
    PROVE  /\ \A r \in {"empty", "completed", "max-tokens", "blocked", "aborted", "error"} :
                 Ends(a, r) \in Agents
           /\ \A s \in Seq(Steerings) : [a EXCEPT !.nextStep = s] \in Agents
           /\ \A s \in Seq({Prompt} \union Rounds) : [a EXCEPT !.nextTurn = s] \in Agents
<1>1. ASSUME NEW r \in {"empty", "completed", "max-tokens", "blocked", "aborted", "error"}
      PROVE  Ends(a, r) \in Agents
  <2>1. <<>> \in Seq(Messages)
    BY EmptySeq
  <2>. QED
    BY <2>1 DEF Ends, Agents
<1>2. ASSUME NEW s \in Seq(Steerings)
      PROVE  [a EXCEPT !.nextStep = s] \in Agents
  BY DEF Agents
<1>3. ASSUME NEW s \in Seq({Prompt} \union Rounds)
      PROVE  [a EXCEPT !.nextTurn = s] \in Agents
  BY DEF Agents
<1>. QED
  BY <1>1, <1>2, <1>3

LEMMA WokenTyped ==
    ASSUME TypeOK, NEW a \in Agents
    PROVE  Woken(a) \in Agents
<1>. DEFINE woken == a.wake \/ agent.phase = "maintenance" \/ AfterAbort
<1>1. woken \in BOOLEAN
  BY DEF TypeOK, AfterAbort, Agents
<1>2. Woken(a) = [a EXCEPT !.phase = IF a.phase = "idle" THEN "claim" ELSE a.phase,
                           !.wake = woken]
  BY DEF Woken
<1>. HIDE DEF woken
<1>. QED
  BY <1>1, <1>2 DEF Agents

LEMMA RestoredTyped ==
    ASSUME TypeOK, Batched, GoalRound(agent.batch) # {}
    PROVE  Restored(agent, agent.batch) \in Agents
<1>1. agent.batch \in Seq(Messages) /\ agent.nextStep \in Seq(Steerings) /\ agent \in Agents
  BY DEF TypeOK, Agents
<1>2. Others(agent.batch) \in Seq(Steerings)
  BY <1>1, OthersAreSteerings DEF Batched
<1>3. Others(agent.batch) \o agent.nextStep \in Seq(Steerings)
  BY <1>1, <1>2, HeldByBoth
<1>. QED
  BY <1>1, <1>3, AgentsTyped DEF Restored

------------------------------------------------------------------------------
(* Type correctness.                                                       *)

LEMMA TypeInit == Init => TypeOK /\ Batched
<1>. SUFFICES ASSUME Init PROVE TypeOK /\ Batched
  OBVIOUS
<1>1. goal \in Goals /\ driver \in Drivers /\ spent \in 0..MaxInputs
  BY GoalRoundsAssumption DEF Init, NoGoal, Goals, Drivers
<1>2. /\ <<>> \in Seq(Messages) /\ <<>> \in Seq(Steerings)
      /\ <<>> \in Seq({Prompt} \union Rounds)
  BY EmptySeq
<1>3. history \in Histories
  BY <1>2 DEF Init, Histories
<1>4. agent \in Agents
  BY <1>2, GoalRoundsAssumption DEF Init, Agents
<1>5. Batched
  BY DEF Init, Batched
<1>. QED
  BY <1>1, <1>3, <1>4, <1>5 DEF TypeOK

LEMMA DroppedTyped ==
    ASSUME TypeOK, NEW s \in Seq(Messages)
    PROVE  [history EXCEPT !.dropped = @ \union Steers(s)] \in Histories
  BY SteersTyped DEF TypeOK, Histories

LEMMA RoundTyped ==
    ASSUME TypeOK, NEW n \in Nat
    PROVE  Round(goal, n) \in Rounds
  BY DEF TypeOK, Goals, Round, Rounds

LEMMA DriveTyped ==
    ASSUME TypeOK,
           DriveLeaves \/ DriveFlushes \/ DriveSettles \/ DriveBlocks \/ DriveReserves
               \/ FlushResolves \/ FlushFails
    PROVE  TypeOK'
<1>t. /\ goal \in Goals /\ driver \in Drivers /\ agent \in Agents
      /\ history \in Histories /\ spent \in 0..MaxInputs
  BY DEF TypeOK
<1>. DEFINE taken == [driver EXCEPT !.requested = @ /\ driver.at = "checked"]
<1>k. taken \in Drivers /\ Taken = taken
  BY <1>t DEF Taken, Drivers
<1>. HIDE DEF taken
<1>1. CASE DriveLeaves
  BY <1>1, <1>t, <1>k, DriversTyped DEF DriveLeaves, TypeOK
<1>2. CASE DriveFlushes
  BY <1>2, <1>t, <1>k, DriversTyped DEF DriveFlushes, TypeOK
<1>3. CASE DriveSettles
  <2>1. [driver EXCEPT !.attempt = None, !.needsCheckpoint = TRUE, !.requested = TRUE]
           \in Drivers
    BY <1>t DEF Drivers
  <2>. QED
    BY <1>3, <2>1, <1>t, DriversTyped DEF DriveSettles, TypeOK
<1>4. CASE DriveBlocks
  <2>1. Moved(goal, "blocked", FALSE) \in Goals
    BY <1>t, GoalsTyped
  <2>2. Flushing(Taken) \in Drivers
    BY <1>k, DriversTyped
  <2>3. [Flushing(Taken) EXCEPT !.run = FALSE] \in Drivers
    BY <2>2 DEF Drivers
  <2>4. [Taken EXCEPT !.needsCheckpoint = TRUE, !.requested = TRUE] \in Drivers
    BY <1>k DEF Drivers
  <2>5. Returned([Taken EXCEPT !.needsCheckpoint = TRUE, !.requested = TRUE]) \in Drivers
    BY <2>4, DriversTyped
  <2>. QED
    BY <1>4, <1>t, <2>1, <2>3, <2>5 DEF DriveBlocks, TypeOK
<1>5. CASE DriveReserves
  <2>. DEFINE n == driver.sent + 1
              attempt == [id |-> goal.id, rev |-> goal.rev, round |-> goal.started + 1,
                          n |-> n, phase |-> "queued", cancelled |-> FALSE, stale |-> FALSE]
              d == [taken EXCEPT !.sent = n, !.attempt = attempt]
              queued == Append(agent.nextTurn, Round(goal, n))
              phase == IF agent.phase = "idle" THEN "claim" ELSE agent.phase
              wake == agent.wake \/ agent.phase = "maintenance"
  <2>1. n \in Nat /\ attempt \in Attempts
    BY <1>t DEF Drivers, Goals, Attempts
  <2>2. d \in Drivers
    <3>. HIDE DEF n, attempt
    <3>. QED
      BY <2>1, <1>k DEF Drivers
  <2>3. queued \in Seq({Prompt} \union Rounds)
    BY <2>1, <1>t, RoundTyped, HeldAppended DEF Agents
  <2>4. [agent EXCEPT !.nextTurn = queued, !.phase = phase, !.wake = wake] \in Agents
    <3>1. wake \in BOOLEAN
      BY <1>t DEF Agents
    <3>. HIDE DEF queued, wake
    <3>. QED
      BY <1>t, <2>3, <3>1 DEF Agents
  <2>5. /\ agent' = [agent EXCEPT !.nextTurn = queued, !.phase = phase, !.wake = wake]
        /\ driver' = Returned(d)
        /\ UNCHANGED <<goal, history, spent>>
    BY <1>5, <1>k DEF DriveReserves
  <2>. HIDE DEF d, queued, phase, wake
  <2>6. Returned(d) \in Drivers
    BY <2>2, DriversTyped
  <2>. QED
    BY <1>t, <2>4, <2>5, <2>6 DEF TypeOK
<1>6. CASE FlushResolves
  <2>. DEFINE d == [driver EXCEPT !.flushes = @ - 1]
  <2>1. d \in Drivers
    BY <1>6, <1>t DEF FlushResolves, Drivers
  <2>2. [d EXCEPT !.at = "checked"] \in Drivers
    BY <2>1 DEF Drivers
  <2>3. driver' = [d EXCEPT !.at = "checked"] \/ driver' = Returned(d)
    BY <1>6 DEF FlushResolves
  <2>. HIDE DEF d
  <2>4. driver' \in Drivers
    BY <2>1, <2>2, <2>3, DriversTyped
  <2>. QED
    BY <1>6, <1>t, <2>4 DEF FlushResolves, TypeOK
<1>7. CASE FlushFails
  <2>. DEFINE d == [driver EXCEPT !.flushes = @ - 1]
  <2>1. d \in Drivers
    BY <1>7, <1>t DEF FlushFails, Drivers
  <2>2. driver' = Returned(d)
    BY <1>7 DEF FlushFails
  <2>. HIDE DEF d
  <2>4. driver' \in Drivers
    BY <2>1, <2>2, DriversTyped
  <2>5. spent' \in 0..MaxInputs
    BY <1>7, <1>t, GoalRoundsAssumption DEF FlushFails, Spend
  <2>. QED
    BY <1>7, <1>t, <2>4, <2>5, GoalsTyped DEF FlushFails, TypeOK
<1>. QED
  BY <1>1, <1>2, <1>3, <1>4, <1>5, <1>6, <1>7

LEMMA SpendTyped ==
    ASSUME TypeOK, Spend
    PROVE  spent' \in 0..MaxInputs
  BY GoalRoundsAssumption DEF TypeOK, Spend

LEMMA OperationTyped ==
    ASSUME TypeOK,
           \/ \E max \in Caps : create(max) \/ edit(max)
           \/ pause \/ resume \/ complete \/ clear
    PROVE  TypeOK'
<1>t. /\ goal \in Goals /\ driver \in Drivers /\ agent \in Agents
      /\ history \in Histories /\ spent \in 0..MaxInputs
  BY DEF TypeOK
<1>k. ASSUME Operation, NEW g \in Goals, Change(g), Trusted \/ UNCHANGED history
      PROVE  TypeOK'
  <2>1. driver' \in Drivers
    BY <1>k, <1>t, DriversTyped DEF Change
  <2>2. history' \in Histories
    BY <1>k, <1>t DEF Trusted, Histories
  <2>. QED
    BY <1>k, <1>t, <2>1, <2>2, SpendTyped DEF Operation, Change, TypeOK
<1>1. ASSUME NEW max \in Caps, create(max)
      PROVE  TypeOK'
  <2>. DEFINE g == [NoGoal(goal.id + 1) EXCEPT !.rev = 1, !.phase = "active", !.max = max,
                                               !.armed = TRUE]
  <2>1. goal.id + 1 \in Nat /\ max \in Nat
    BY <1>t, GoalRoundsAssumption DEF Goals
  <2>2. g \in Goals
    BY <2>1 DEF NoGoal, Goals
  <2>3. Operation /\ Change(g) /\ Trusted
    BY <1>1 DEF create
  <2>. HIDE DEF g
  <2>. QED
    BY <2>2, <2>3, <1>k
<1>2. ASSUME NEW max \in Caps, edit(max)
      PROVE  TypeOK'
  <2>. DEFINE g == [goal EXCEPT !.rev = @ + 1, !.max = max]
  <2>1. goal.rev + 1 \in Nat /\ max \in Nat
    BY <1>t, GoalRoundsAssumption DEF Goals
  <2>2. g \in Goals
    BY <1>t, <2>1 DEF Goals
  <2>3. Operation /\ Change(g) /\ UNCHANGED history
    BY <1>2 DEF edit
  <2>. HIDE DEF g
  <2>. QED
    BY <2>2, <2>3, <1>k
<1>3. CASE pause
  BY <1>3, <1>t, <1>k, GoalsTyped DEF pause
<1>4. CASE resume
  BY <1>4, <1>t, <1>k, GoalsTyped DEF resume
<1>5. CASE complete
  BY <1>5, <1>t, <1>k, GoalsTyped DEF complete
<1>6. CASE clear
  BY <1>6, <1>t, <1>k, GoalsTyped DEF clear
<1>. QED
  BY <1>1, <1>2, <1>3, <1>4, <1>5, <1>6

LEMMA ClientTyped ==
    ASSUME TypeOK, Batched,
           \/ followup \/ steer \/ \E keepInbox \in BOOLEAN : cancel(keepInbox)
           \/ \E i \in DOMAIN agent.nextTurn : remove(i)
           \/ MaintenanceBegins \/ MaintenanceEnds
    PROVE  TypeOK'
<1>t. /\ goal \in Goals /\ driver \in Drivers /\ agent \in Agents
      /\ history \in Histories /\ spent \in 0..MaxInputs
      /\ agent.nextTurn \in Seq({Prompt} \union Rounds)
      /\ agent.nextStep \in Seq(Steerings) /\ agent.nextStep \in Seq(Messages)
      /\ agent.batch \in Seq(Messages)
  BY SteeringsHaveNoRound DEF TypeOK, Agents
<1>1. CASE followup
  <2>. DEFINE queued == Append(agent.nextTurn, Prompt)
              a == [agent EXCEPT !.nextTurn = queued]
  <2>1. queued \in Seq({Prompt} \union Rounds)
    BY <1>t, HeldAppended
  <2>2. a \in Agents
    BY <2>1, <1>t, AgentsTyped
  <2>3. agent' = Woken(a)
    BY <1>1 DEF followup
  <2>. HIDE DEF a
  <2>4. agent' \in Agents
    BY <2>2, <2>3, WokenTyped
  <2>. QED
    BY <1>1, <1>t, <2>4, SpendTyped, DriversTyped DEF followup, TypeOK
<1>2. CASE steer
  <2>. DEFINE waiting == Append(agent.nextStep, Steering(history.steers + 1))
              a == [agent EXCEPT !.nextStep = waiting]
  <2>1. Steering(history.steers + 1) \in Steerings
    BY <1>t DEF Histories, Steering, Steerings
  <2>2. waiting \in Seq(Steerings)
    BY <2>1, <1>t, HeldAppended
  <2>3. a \in Agents
    BY <2>2, <1>t, AgentsTyped
  <2>4. agent' = Woken(a)
    BY <1>2 DEF steer
  <2>. HIDE DEF a
  <2>5. agent' \in Agents
    BY <2>3, <2>4, WokenTyped
  <2>6. history' \in Histories
    <3>1. history.steers + 1 \in Nat
      BY <1>t DEF Histories
    <3>. QED
      BY <1>2, <1>t, <3>1 DEF steer, Histories
  <2>. QED
    BY <1>2, <1>t, <2>5, <2>6, SpendTyped DEF steer, TypeOK
<1>3. ASSUME NEW keepInbox \in BOOLEAN, cancel(keepInbox)
      PROVE  TypeOK'
  <2>1. CASE keepInbox
    <3>1. agent' \in Agents
      BY <1>3, <2>1, <1>t DEF cancel, Agents
    <3>. QED
      BY <1>3, <2>1, <1>t, <3>1, SpendTyped DEF cancel, TypeOK
  <2>2. CASE ~keepInbox
    <3>. DEFINE dropped == history.dropped \union Steers(agent.nextStep)
                halted == history.halted \/ (driver' # driver /\ ~Idle)
                aborted == agent.phase # "idle"
    <3>1. dropped \subseteq Nat /\ halted \in BOOLEAN
      BY <1>t, SteersTyped DEF Histories
    <3>2. history' = [history EXCEPT !.dropped = dropped, !.halted = halted]
      BY <1>3, <2>2 DEF cancel
    <3>3. agent' = [agent EXCEPT !.nextTurn = <<>>, !.nextStep = <<>>, !.wake = FALSE,
                                 !.aborted = aborted]
      BY <1>3, <2>2 DEF cancel
    <3>4. <<>> \in Seq(Steerings) /\ <<>> \in Seq({Prompt} \union Rounds) /\ aborted \in BOOLEAN
      BY EmptySeq
    <3>5. driver' \in Drivers /\ UNCHANGED goal
      BY <1>3, <2>2, <1>t, ListenersTyped DEF cancel
    <3>. HIDE DEF dropped, halted, aborted
    <3>6. history' \in Histories
      BY <3>1, <3>2, <1>t DEF Histories
    <3>7. agent' \in Agents
      BY <3>3, <3>4, <1>t DEF Agents
    <3>8. spent' \in 0..MaxInputs
      BY <1>3, SpendTyped DEF cancel
    <3>. QED
      BY <1>t, <3>5, <3>6, <3>7, <3>8 DEF TypeOK
  <2>. QED
    BY <2>1, <2>2
<1>4. ASSUME NEW i \in DOMAIN agent.nextTurn, remove(i)
      PROVE  TypeOK'
  <2>. DEFINE left == RemoveAt(agent.nextTurn, i)
  <2>1. left \in Seq({Prompt} \union Rounds)
    BY <1>t, HeldRemoved
  <2>2. agent' = [agent EXCEPT !.nextTurn = left]
    BY <1>4 DEF remove
  <2>. HIDE DEF left
  <2>3. agent' \in Agents
    BY <1>t, <2>1, <2>2, AgentsTyped
  <2>4. driver' \in Drivers
    BY <1>4, <1>t, ListenersTyped DEF remove
  <2>. QED
    BY <1>4, <1>t, <2>3, <2>4, SpendTyped DEF remove, TypeOK
<1>5. CASE MaintenanceBegins
  <2>1. agent' \in Agents
    BY <1>5, <1>t DEF MaintenanceBegins, Agents
  <2>. QED
    BY <1>5, <1>t, <2>1, SpendTyped DEF MaintenanceBegins, TypeOK
<1>6. CASE MaintenanceEnds
  <2>1. agent' \in Agents
    BY <1>6, <1>t DEF MaintenanceEnds, Agents
  <2>. QED
    BY <1>6, <1>t, <2>1 DEF MaintenanceEnds, TypeOK
<1>. QED
  BY <1>1, <1>2, <1>3, <1>4, <1>5, <1>6

(* What a claim takes: all that waits for the next step, one turn message. *)
Takes(first, left) ==
    /\ agent.nextTurn = <<>> => first = <<>> /\ left = <<>>
    /\ agent.nextTurn # <<>> =>
          first = <<Head(agent.nextTurn)>> /\ left = Tail(agent.nextTurn)
    /\ ToSet(agent.nextTurn) = ToSet(first) \union ToSet(left)
    /\ Len(first) <= 1
    /\ agent.nextStep \o first \in Seq(Messages)
    /\ agent' = [agent EXCEPT !.phase = "assemble", !.batch = agent.nextStep \o first,
                              !.nextStep = <<>>, !.nextTurn = left]
    /\ driver' = ClaimedBy(driver, agent.nextStep \o first)

LEMMA ClaimTakes ==
    ASSUME TypeOK, Claim
    PROVE  \E first \in Seq({Prompt} \union Rounds), left \in Seq({Prompt} \union Rounds) :
              Takes(first, left)
<1>t. /\ agent.nextTurn \in Seq({Prompt} \union Rounds) /\ agent.nextStep \in Seq(Messages)
  BY SteeringsHaveNoRound DEF TypeOK, Agents
<1>m. {Prompt} \union Rounds \subseteq Messages
  BY DEF Messages
<1>1. CASE agent.nextTurn = <<>>
  <2>1. <<>> \in Seq({Prompt} \union Rounds) /\ <<>> \in Seq(Messages) /\ Len(<<>>) = 0
    BY EmptySeq
  <2>2. agent.nextStep \o <<>> \in Seq(Messages)
    BY <2>1, <1>t, HeldByBoth
  <2>3. /\ agent' = [agent EXCEPT !.phase = "assemble", !.batch = agent.nextStep \o <<>>,
                                  !.nextStep = <<>>, !.nextTurn = <<>>]
        /\ driver' = ClaimedBy(driver, agent.nextStep \o <<>>)
    BY <1>1 DEF Claim
  <2>4. Takes(<<>>, <<>>)
    BY <1>1, <2>1, <2>2, <2>3, NothingHeld DEF Takes
  <2>. QED
    BY <2>1, <2>4
<1>2. CASE agent.nextTurn # <<>>
  <2>. DEFINE first == <<Head(agent.nextTurn)>>
              left == Tail(agent.nextTurn)
  <2>1. Head(agent.nextTurn) \in {Prompt} \union Rounds /\ left \in Seq({Prompt} \union Rounds)
    BY <1>2, <1>t, HeadTailProperties
  <2>2. /\ first \in Seq({Prompt} \union Rounds) /\ Len(first) = 1
        /\ ToSet(first) = {Head(agent.nextTurn)}
    BY <2>1, HeldOne
  <2>3. ToSet(agent.nextTurn) = {Head(agent.nextTurn)} \union ToSet(left)
    BY <1>2, <1>t, HeldTyped
  <2>4. /\ agent' = [agent EXCEPT !.phase = "assemble", !.batch = agent.nextStep \o first,
                                  !.nextStep = <<>>, !.nextTurn = left]
        /\ driver' = ClaimedBy(driver, agent.nextStep \o first)
    BY <1>2 DEF Claim
  <2>5. first = <<Head(agent.nextTurn)>> /\ left = Tail(agent.nextTurn)
    OBVIOUS
  <2>. HIDE DEF first, left
  <2>6. first \in Seq(Messages)
    BY <2>2, <1>m, SeqMonotonic
  <2>7. agent.nextStep \o first \in Seq(Messages)
    BY <2>6, <1>t, HeldByBoth
  <2>8. Takes(first, left)
    BY <1>2, <2>2, <2>3, <2>4, <2>5, <2>7 DEF Takes
  <2>. QED
    BY <2>1, <2>2, <2>8
<1>. QED
  BY <1>1, <1>2

LEMMA PhaseTyped ==
    ASSUME NEW a \in Agents,
           NEW p \in {"idle", "maintenance", "claim", "assemble", "downstream", "rejected",
                     "enter", "step", "end", "gap", "retire"}
    PROVE  /\ [a EXCEPT !.phase = p] \in Agents
           /\ [a EXCEPT !.phase = p, !.batch = <<>>] \in Agents
<1>1. <<>> \in Seq(Messages)
  BY EmptySeq
<1>. QED
  BY <1>1 DEF Agents

LEMMA DecisionTyped ==
    ASSUME TypeOK, Batched,
           \/ Claim \/ AssembleThrows \/ PassesBy
           \/ \E m \in GoalRound(agent.batch) :
                 Passes(m) \/ IsStale(m) \/ DownstreamRejects(m) \/ DownstreamEnters(m)
           \/ OthersReject \/ DownstreamThrows \/ Rejected \/ OuterHookThrows
    PROVE  TypeOK'
<1>t. /\ goal \in Goals /\ driver \in Drivers /\ agent \in Agents
      /\ history \in Histories /\ spent \in 0..MaxInputs
      /\ agent.nextStep \in Seq(Messages) /\ agent.batch \in Seq(Messages)
  BY SteeringsHaveNoRound DEF TypeOK, Agents
<1>a. ASSUME Aborts
      PROVE  agent' \in Agents /\ history' \in Histories
  BY <1>a, <1>t, AgentsTyped, DroppedTyped DEF Aborts, Lost
<1>f. ASSUME Fails
      PROVE  agent' \in Agents /\ history' \in Histories /\ goal' \in Goals
  BY <1>f, <1>t, AgentsTyped, DroppedTyped, GoalsTyped DEF Fails, Lost
<1>d. ASSUME NEW d \in Drivers, Drops(d), GoalRound(agent.batch) # {}
      PROVE  agent' \in Agents /\ driver' \in Drivers
  <2>1. Restored(agent, agent.batch) \in Agents
    BY <1>d, RestoredTyped
  <2>. QED
    BY <1>d, <2>1, PhaseTyped, DriversTyped DEF Drops
<1>1. CASE Claim
  <2>1. PICK first \in Seq({Prompt} \union Rounds), left \in Seq({Prompt} \union Rounds) :
             Takes(first, left)
    BY <1>1, ClaimTakes
  <2>2. <<>> \in Seq(Steerings)
    BY EmptySeq
  <2>3. agent' \in Agents
    BY <1>t, <2>1, <2>2 DEF Takes, Agents
  <2>4. driver' \in Drivers
    BY <1>t, <2>1, ListenersTyped DEF Takes
  <2>. QED
    BY <1>1, <1>t, <2>3, <2>4 DEF Claim, TypeOK
<1>2. CASE AssembleThrows
  BY <1>2, <1>t, <1>a, <1>f, SpendTyped DEF AssembleThrows, TypeOK
<1>3. CASE PassesBy
  BY <1>3, <1>t, PhaseTyped DEF PassesBy, TypeOK
<1>4. ASSUME NEW m \in GoalRound(agent.batch), Passes(m)
      PROVE  TypeOK'
  BY <1>4, <1>t, PhaseTyped DEF Passes, TypeOK
<1>5. ASSUME NEW m \in GoalRound(agent.batch), IsStale(m)
      PROVE  TypeOK'
  <2>. DEFINE d == IF SameQueued(m, driver.attempt) THEN [driver EXCEPT !.attempt = None]
                   ELSE driver
  <2>1. d \in Drivers
    BY <1>t, DriversTyped
  <2>2. Drops(d)
    BY <1>5 DEF IsStale
  <2>. HIDE DEF d
  <2>. QED
    BY <1>5, <1>t, <1>d, <2>1, <2>2 DEF IsStale, TypeOK
<1>6. ASSUME NEW m \in GoalRound(agent.batch), DownstreamRejects(m)
      PROVE  TypeOK'
  <2>1. agent' \in Agents /\ history' \in Histories
    BY <1>6, <1>t, PhaseTyped, DroppedTyped DEF DownstreamRejects, Lost
  <2>. DEFINE d == [driver EXCEPT !.attempt = None]
  <2>2. d \in Drivers
    BY <1>t, DriversTyped
  <2>3. \/ UNCHANGED <<goal, driver>>
        \/ goal' = Moved(goal, "blocked", FALSE) /\ driver' = GoalChanged(d)
        \/ driver' = d /\ UNCHANGED goal
    BY <1>6 DEF DownstreamRejects
  <2>. HIDE DEF d
  <2>4. goal' \in Goals /\ driver' \in Drivers
    BY <1>t, <2>2, <2>3, GoalsTyped, DriversTyped
  <2>. QED
    BY <1>6, <2>1, <2>4, SpendTyped DEF DownstreamRejects, TypeOK
<1>7. ASSUME NEW m \in GoalRound(agent.batch), DownstreamEnters(m)
      PROVE  TypeOK'
  <2>1. CASE agent.aborted
    <3>1. Restored(agent, agent.batch) \in Agents
      BY RestoredTyped
    <3>. QED
      BY <1>7, <2>1, <3>1, <1>t, AgentsTyped DEF DownstreamEnters, TypeOK
  <2>2. CASE ~agent.aborted /\ ValidReservation(m)
    BY <1>7, <2>2, <1>t, PhaseTyped DEF DownstreamEnters, TypeOK
  <2>3. CASE ~agent.aborted /\ ~ValidReservation(m)
    BY <1>7, <2>3, <1>t, <1>d, DriversTyped DEF DownstreamEnters, TypeOK
  <2>. QED
    BY <2>1, <2>2, <2>3
<1>8. CASE DownstreamThrows
  <2>1. CASE Aborts /\ UNCHANGED <<goal, driver, spent>>
    BY <2>1, <1>t, <1>a DEF TypeOK
  <2>2. CASE Fails /\ Spend /\ driver' = RequestDrive([driver EXCEPT !.attempt = None])
    BY <2>2, <1>t, <1>f, SpendTyped, DriversTyped DEF TypeOK
  <2>. QED
    BY <1>8, <2>1, <2>2 DEF DownstreamThrows
<1>9. CASE Rejected
  <2>1. agent' = Ends(agent, "aborted") \/ agent' = Ends(agent, "blocked")
    BY <1>9 DEF Rejected
  <2>. QED
    BY <1>9, <1>t, <2>1, AgentsTyped DEF Rejected, TypeOK
<1>10. CASE OuterHookThrows
  BY <1>10, <1>t, <1>f, SpendTyped DEF OuterHookThrows, TypeOK
<1>11. CASE OthersReject
  <2>1. agent' \in Agents /\ history' \in Histories
    BY <1>11, <1>t, PhaseTyped, DroppedTyped DEF OthersReject, Lost
  <2>. QED
    BY <1>11, <1>t, <2>1, SpendTyped DEF OthersReject, TypeOK
<1>. QED
  BY <1>1, <1>2, <1>3, <1>4, <1>5, <1>6, <1>7, <1>8, <1>9, <1>10, <1>11

LEMMA TurnTyped ==
    ASSUME TypeOK, Batched,
           Enter \/ StepClaims \/ StepEnds \/ TurnEnd \/ NextTurn \/ Retire \/ Rewake
    PROVE  TypeOK'
<1>t. /\ goal \in Goals /\ driver \in Drivers /\ agent \in Agents
      /\ history \in Histories /\ spent \in 0..MaxInputs
      /\ agent.nextStep \in Seq(Messages) /\ agent.batch \in Seq(Messages)
      /\ <<>> \in Seq(Steerings) /\ <<>> \in Seq(Messages)
  BY SteeringsHaveNoRound, EmptySeq DEF TypeOK, Agents
<1>a. ASSUME Aborts
      PROVE  agent' \in Agents /\ history' \in Histories
  BY <1>a, <1>t, AgentsTyped, DroppedTyped DEF Aborts, Lost
<1>f. ASSUME Fails
      PROVE  agent' \in Agents /\ history' \in Histories /\ goal' \in Goals
  BY <1>f, <1>t, AgentsTyped, DroppedTyped, GoalsTyped DEF Fails, Lost
<1>1. CASE Enter
  <2>1. CASE agent.aborted
    BY <1>1, <2>1, <1>t, <1>a DEF Enter, TypeOK
  <2>2. CASE ~agent.aborted /\ agent.batch = <<>>
    BY <1>1, <2>2, <1>t, AgentsTyped DEF Enter, TypeOK
  <2>3. CASE ~agent.aborted /\ agent.batch # <<>>
    <3>1. agent' \in Agents
      BY <1>1, <2>3, <1>t, PhaseTyped DEF Enter
    <3>2. history' \in Histories
      <4>1. history.entered \o agent.batch \in Seq(Messages)
        BY <1>t, HeldByBoth DEF Histories
      <4>2. history' = [history EXCEPT !.entered = history.entered \o agent.batch]
        BY <1>1, <2>3 DEF Enter
      <4>. QED
        BY <1>t, <4>1, <4>2 DEF Histories
    <3>3. goal' \in Goals
      <4>1. GoalRound(agent.batch) \subseteq Rounds
        BY <1>t, GoalRoundsTyped
      <4>2. goal' = goal \/ \E m \in GoalRound(agent.batch) : goal' = Admitted(goal, m)
        BY <1>1, <2>3 DEF Enter
      <4>. QED
        BY <1>t, <4>1, <4>2, AdmittedTyped
    <3>4. driver' \in Drivers
      BY <1>1, <2>3, <1>t, AttemptsTyped DEF Enter
    <3>. QED
      BY <1>1, <1>t, <3>1, <3>2, <3>3, <3>4 DEF Enter, TypeOK
  <2>. QED
    BY <2>1, <2>2, <2>3
<1>2. CASE StepClaims
  <2>1. agent' \in Agents
    BY <1>2, <1>t DEF StepClaims, Agents
  <2>. QED
    BY <1>2, <2>1, <1>t DEF StepClaims, TypeOK
<1>3. CASE StepEnds
  <2>1. CASE agent.aborted
    BY <1>3, <2>1, <1>t, <1>a DEF StepEnds, TypeOK
  <2>2. CASE ~agent.aborted /\ Fails /\ Spend
    BY <1>3, <2>2, <1>t, <1>f, SpendTyped DEF StepEnds, TypeOK
  <2>3. CASE /\ agent' = Ends(agent, "completed") /\ UNCHANGED spent
             /\ UNCHANGED <<goal, history, driver>>
    BY <2>3, <1>t, AgentsTyped DEF TypeOK
  <2>4. CASE /\ agent' = Ends(agent, "max-tokens") /\ Spend
             /\ UNCHANGED <<goal, history, driver>>
    BY <2>4, <1>t, AgentsTyped, SpendTyped DEF TypeOK
  <2>. QED
    BY <1>3, <2>1, <2>2, <2>3, <2>4 DEF StepEnds
<1>4. CASE TurnEnd
  <2>1. agent' \in Agents
    <3>1. [agent EXCEPT !.phase = "gap", !.wake = FALSE, !.aborted = FALSE] \in Agents
      BY <1>t DEF Agents
    <3>. QED
      BY <1>4, <1>t, <3>1, PhaseTyped DEF TurnEnd
  <2>2. driver' \in Drivers
    <3>1. \/ driver' = driver
          \/ /\ driver.attempt.phase \in {"claimed", "admitted"}
             /\ driver' = [driver EXCEPT !.attempt.cancelled = TRUE]
      BY <1>4 DEF TurnEnd
    <3>2. driver.attempt.phase \in {"claimed", "admitted"} => driver.attempt # None
      BY DEF None
    <3>. QED
      BY <1>t, <3>1, <3>2, AttemptsTyped
  <2>3. history' \in Histories
    BY <1>4, <1>t DEF TurnEnd, Histories
  <2>. QED
    BY <1>4, <1>t, <2>1, <2>2, <2>3, GoalsTyped DEF TurnEnd, TypeOK
<1>5. CASE Retire
  <2>. DEFINE d == [driver EXCEPT !.competingQueued = FALSE]
              e == [d EXCEPT !.attempt = None]
  <2>1. d \in Drivers
    BY <1>t DEF Drivers
  <2>2. \/ driver' = GoalChanged(e) /\ goal' = Moved(goal, "paused", FALSE)
        \/ /\ driver' = [Flushing(e) EXCEPT !.run = TRUE, !.requested = TRUE]
           /\ goal' = Moved(goal, "paused", FALSE)
        \/ driver' = RequestDrive(d) /\ UNCHANGED goal
    BY <1>5 DEF Retire
  <2>3. e \in Drivers
    <3>. HIDE DEF d
    <3>. QED
      BY <2>1, DriversTyped
  <2>. HIDE DEF d, e
  <2>4. [Flushing(e) EXCEPT !.run = TRUE, !.requested = TRUE] \in Drivers
    <3>1. Flushing(e) \in Drivers
      BY <2>3, DriversTyped
    <3>. QED
      BY <3>1 DEF Drivers
  <2>5. driver' \in Drivers /\ goal' \in Goals
    BY <1>t, <2>1, <2>2, <2>3, <2>4, DriversTyped, GoalsTyped
  <2>6. agent' \in Agents
    BY <1>5, <1>t DEF Retire, Agents
  <2>. QED
    BY <1>5, <1>t, <2>5, <2>6 DEF Retire, TypeOK
<1>6. CASE Rewake
  <2>1. agent' \in Agents
    BY <1>6, <1>t DEF Rewake, Agents
  <2>. QED
    BY <1>6, <1>t, <2>1 DEF Rewake, TypeOK
<1>7. CASE NextTurn
  <2>1. agent' \in Agents
    BY <1>7, <1>t, PhaseTyped DEF NextTurn
  <2>. QED
    BY <1>7, <2>1, <1>t DEF NextTurn, TypeOK
<1>. QED
  BY <1>1, <1>2, <1>3, <1>4, <1>5, <1>6, <1>7

LEMMA TypeStep ==
    ASSUME TypeOK, Batched, [Next]_vars
    PROVE  TypeOK'
<1>1. CASE UNCHANGED vars
  BY <1>1 DEF vars, TypeOK
<1>2. CASE Next
  BY <1>2, DriveTyped, OperationTyped, ClientTyped, DecisionTyped, TurnTyped DEF Next
<1>. QED
  BY <1>1, <1>2

------------------------------------------------------------------------------
(* The batch.                                                              *)

LEMMA BatchedStep ==
    ASSUME TypeOK, Batched, [Next]_vars
    PROVE  Batched'
<1>t. /\ agent \in Agents
      /\ agent.nextStep \in Seq(Steerings) /\ agent.batch \in Seq(Messages)
  BY DEF TypeOK, Agents
<1>e. ASSUME agent'.batch = <<>>
      PROVE  Batched'
  BY <1>e DEF Batched
<1>k. ASSUME agent'.batch = agent.batch,
             \/ agent'.phase = agent.phase
             \/ agent.phase \notin {"assemble", "downstream", "enter"}
             \/ agent'.phase \in {"assemble", "downstream", "enter"}
      PROVE  Batched'
  BY <1>k DEF Batched
<1>u. ASSUME UNCHANGED agent
      PROVE  Batched'
  BY <1>u DEF Batched
<1>n. /\ \A r : Ends(agent, r).batch = <<>>
      /\ \A r : Ends(Restored(agent, agent.batch), r).batch = <<>>
      /\ \A d : Drops(d) => agent'.batch = <<>>
  BY <1>t DEF Ends, Restored, Drops, Agents
<1>p. ASSUME NEW p, agent' = [agent EXCEPT !.phase = p]
      PROVE  agent'.batch = agent.batch /\ agent'.phase = p
  BY <1>p, <1>t DEF Agents
<1>w. ASSUME NEW a \in Agents, agent' = Woken(a), a.batch = agent.batch, a.phase = agent.phase
      PROVE  Batched'
  <2>1. /\ agent'.batch = agent.batch
        /\ agent'.phase = agent.phase \/ agent.phase = "idle"
    BY <1>w DEF Woken, Agents
  <2>. QED
    BY <2>1, <1>k
<1>1. CASE UNCHANGED vars
  BY <1>1, <1>u DEF vars
<1>2. CASE DriveLeaves \/ DriveFlushes \/ DriveSettles \/ DriveBlocks \/ FlushResolves \/ FlushFails
  BY <1>2, <1>u DEF DriveLeaves, DriveFlushes, DriveSettles, DriveBlocks, FlushResolves, FlushFails
<1>3. CASE DriveReserves
  <2>1. /\ agent'.batch = agent.batch
        /\ agent'.phase = agent.phase \/ agent.phase = "idle"
    BY <1>3, <1>t DEF DriveReserves, Agents
  <2>. QED
    BY <2>1, <1>k
<1>4. CASE \/ \E max \in Caps : create(max) \/ edit(max)
           \/ pause \/ resume \/ complete \/ clear
  BY <1>4, <1>u DEF create, edit, pause, resume, complete, clear, Operation
<1>5. CASE followup
  <2>. DEFINE queued == Append(agent.nextTurn, Prompt)
              a == [agent EXCEPT !.nextTurn = queued]
  <2>1. queued \in Seq({Prompt} \union Rounds)
    BY <1>t, HeldAppended DEF Agents
  <2>2. agent' = Woken(a)
    BY <1>5 DEF followup
  <2>. HIDE DEF queued
  <2>a. a \in Agents
    BY <1>t, <2>1, AgentsTyped
  <2>3. a \in Agents /\ a.batch = agent.batch /\ a.phase = agent.phase
    BY <1>t, <2>a DEF Agents
  <2>. QED
    BY <2>2, <2>3, <1>w
<1>6. CASE steer
  <2>. DEFINE waiting == Append(agent.nextStep, Steering(history.steers + 1))
              a == [agent EXCEPT !.nextStep = waiting]
  <2>1. waiting \in Seq(Steerings)
    <3>1. Steering(history.steers + 1) \in Steerings
      BY DEF Steering, Steerings, TypeOK, Histories
    <3>. QED
      BY <1>t, <3>1, HeldAppended
  <2>2. agent' = Woken(a)
    BY <1>6 DEF steer
  <2>. HIDE DEF waiting
  <2>3. a \in Agents /\ a.batch = agent.batch /\ a.phase = agent.phase
    BY <1>t, <2>1, AgentsTyped DEF Agents
  <2>. QED
    BY <2>2, <2>3, <1>w
<1>7. ASSUME NEW keepInbox \in BOOLEAN, cancel(keepInbox)
      PROVE  Batched'
  <2>1. agent'.batch = agent.batch /\ agent'.phase = agent.phase
    BY <1>7, <1>t DEF cancel, Agents
  <2>. QED
    BY <2>1, <1>k
<1>8. ASSUME NEW i \in DOMAIN agent.nextTurn, remove(i)
      PROVE  Batched'
  <2>1. agent'.batch = agent.batch /\ agent'.phase = agent.phase
    BY <1>8, <1>t DEF remove, Agents
  <2>. QED
    BY <2>1, <1>k
<1>9. CASE MaintenanceBegins \/ MaintenanceEnds
  <2>1. /\ agent'.batch = agent.batch
        /\ agent.phase \notin {"assemble", "downstream", "enter"}
    BY <1>9, <1>t DEF MaintenanceBegins, MaintenanceEnds, Agents
  <2>. QED
    BY <2>1, <1>k
<1>10. CASE Claim
  <2>1. PICK first \in Seq({Prompt} \union Rounds), left \in Seq({Prompt} \union Rounds) :
             Takes(first, left)
    BY <1>10, ClaimTakes
  <2>2. agent'.batch = agent.nextStep \o first /\ agent'.phase = "assemble"
    BY <1>t, <2>1 DEF Takes, Agents
  <2>3. /\ Len(first) \in Nat /\ Len(first) <= 1 /\ Len(agent.nextStep) \in Nat
        /\ first \in Seq(Messages) /\ agent.nextStep \in Seq(Messages)
    <3>1. {Prompt} \union Rounds \subseteq Messages
      BY DEF Messages
    <3>. QED
      BY <1>t, <2>1, <3>1, SeqMonotonic, LenProperties, SteeringsHaveNoRound DEF Takes
  <2>4. /\ Len(agent.nextStep \o first) = Len(agent.nextStep) + Len(first)
        /\ DOMAIN (agent.nextStep \o first) = 1..Len(agent.nextStep) + Len(first)
        /\ \A i \in 1..Len(agent.nextStep) : (agent.nextStep \o first)[i] = agent.nextStep[i]
    BY <2>3, ConcatProperties, LenProperties
  <2>5. \A i \in 1..Len(agent.nextStep) : agent.nextStep[i].kind = "steer"
    BY <1>t, ElementOfSeq, KindsApart
  <2>6. \A i \in DOMAIN (agent.nextStep \o first) :
           i < Len(agent.nextStep \o first) => (agent.nextStep \o first)[i].kind = "steer"
    BY <2>3, <2>4, <2>5
  <2>. QED
    BY <2>2, <2>6 DEF Batched
<1>11. CASE AssembleThrows \/ OthersReject \/ DownstreamThrows \/ Rejected \/ OuterHookThrows
  <2>1. agent'.batch = <<>>
    BY <1>11, <1>n, <1>t DEF AssembleThrows, OthersReject, DownstreamThrows, Rejected,
       OuterHookThrows, Aborts, Fails, Agents
  <2>. QED
    BY <2>1, <1>e
<1>12. CASE PassesBy \/ \E m \in GoalRound(agent.batch) : Passes(m)
  <2>1. agent' = [agent EXCEPT !.phase = "enter"] \/ agent' = [agent EXCEPT !.phase = "downstream"]
    BY <1>12 DEF PassesBy, Passes
  <2>. QED
    BY <2>1, <1>p, <1>k
<1>13. ASSUME NEW m \in GoalRound(agent.batch),
              IsStale(m) \/ DownstreamRejects(m) \/ DownstreamEnters(m)
       PROVE  Batched'
  <2>1. \/ agent'.batch = <<>>
        \/ agent' = [agent EXCEPT !.phase = "enter"]
    BY <1>13, <1>n, <1>t DEF IsStale, DownstreamRejects, DownstreamEnters, Agents
  <2>. QED
    BY <2>1, <1>e, <1>p, <1>k
<1>14. CASE Enter
  <2>1. agent'.batch = <<>>
    BY <1>14, <1>n, <1>t DEF Enter, Aborts, Agents
  <2>. QED
    BY <2>1, <1>e
<1>15. CASE StepClaims
  <2>1. agent'.batch = agent.nextStep /\ agent'.phase = "assemble"
    BY <1>15, <1>t DEF StepClaims, Agents
  <2>2. \A i \in DOMAIN agent.nextStep : agent.nextStep[i].kind = "steer"
    BY <1>t, ElementOfSeq, LenProperties, KindsApart
  <2>. QED
    BY <2>1, <2>2 DEF Batched
<1>16. CASE StepEnds
  <2>1. agent'.batch = <<>>
    BY <1>16, <1>n DEF StepEnds, Aborts, Fails
  <2>. QED
    BY <2>1, <1>e
<1>17. CASE TurnEnd \/ NextTurn \/ Retire \/ Rewake
  <2>1. /\ agent'.batch = agent.batch
        /\ agent.phase \notin {"assemble", "downstream", "enter"}
    BY <1>17, <1>t DEF TurnEnd, NextTurn, Retire, Rewake, Agents
  <2>. QED
    BY <2>1, <1>k
<1>. QED
  BY <1>1, <1>2, <1>3, <1>4, <1>5, <1>6, <1>7, <1>8, <1>9, <1>10, <1>11, <1>12, <1>13,
     <1>14, <1>15, <1>16, <1>17 DEF Next

------------------------------------------------------------------------------
(* Rounds replay.                                                          *)

(* How one step moves the goal: cleared, created anew, moved to its next   *)
(* revision, or left with its revision, its cap and its phase's kind.      *)
GoalMoves ==
    \/ goal'.id = goal.id /\ goal'.phase = "none"
    \/ goal'.id > goal.id
    \/ goal'.id = goal.id /\ goal.phase # "none" /\ goal'.rev > goal.rev
    \/ /\ goal'.id = goal.id /\ goal'.rev = goal.rev /\ goal'.max = goal.max
       /\ goal'.phase = goal.phase

LEMMA CurrentKept ==
    ASSUME TypeOK, TypeOK', GoalMoves, NEW m \in Rounds, Current(m)
    PROVE  Current(m)'
  BY DEF TypeOK, Goals, GoalMoves, Rounds, Current

LEMMA GoalStep ==
    ASSUME TypeOK, Batched, [Next]_vars
    PROVE  /\ GoalMoves
           /\ Enter \/ goal'.corrupt = goal.corrupt \/ ~goal'.corrupt
           /\ Enter \/ goal'.started <= goal.started
           /\ goal'.armed => goal.armed \/ ~history'.halted
           /\ (goal.armed => goal.phase = "active") => (goal'.armed => goal'.phase = "active")
<1>t. goal \in Goals /\ Batched /\ agent \in Agents
  BY DEF TypeOK
<1>. DEFINE Goal ==
              /\ GoalMoves
              /\ goal'.corrupt = goal.corrupt \/ ~goal'.corrupt
              /\ goal'.started <= goal.started
              /\ goal'.armed => goal.armed \/ ~history'.halted
              /\ (goal.armed => goal.phase = "active") => (goal'.armed => goal'.phase = "active")
<1>u. ASSUME UNCHANGED goal
      PROVE  Goal
  BY <1>u, <1>t DEF GoalMoves, Goals
<1>d. ASSUME goal' = Disarmed(goal)
      PROVE  Goal
  BY <1>d, <1>t DEF GoalMoves, Disarmed, Goals
<1>m. ASSUME NEW p, NEW b \in BOOLEAN, goal' = Moved(goal, p, b), goal.phase # "none",
             b => p = "active" /\ Trusted
      PROVE  Goal
  <2>1. b => ~history'.halted
    BY <1>m DEF Trusted, TypeOK, Histories
  <2>. QED
    BY <1>m, <2>1, <1>t DEF GoalMoves, Moved, Goals
<1>1. CASE UNCHANGED vars
  BY <1>1, <1>u DEF vars
<1>2. CASE \/ DriveLeaves \/ DriveFlushes \/ DriveSettles \/ DriveReserves \/ FlushResolves
           \/ followup \/ steer \/ \E keepInbox \in BOOLEAN : cancel(keepInbox)
           \/ \E i \in DOMAIN agent.nextTurn : remove(i)
           \/ MaintenanceBegins \/ MaintenanceEnds \/ Claim \/ PassesBy
           \/ OthersReject \/ NextTurn
  BY <1>2, <1>u DEF DriveLeaves, DriveFlushes, DriveSettles, DriveReserves, FlushResolves,
     followup, steer, cancel, remove, MaintenanceBegins, MaintenanceEnds, Claim, PassesBy,
     OthersReject, NextTurn
<1>3. CASE DriveBlocks
  BY <1>3, <1>m DEF DriveBlocks, Reserving, Active
<1>4. CASE FlushFails
  BY <1>4, <1>d DEF FlushFails
<1>5. ASSUME NEW max \in Caps, create(max)
      PROVE  Goal
  BY <1>5, <1>t DEF create, Change, NoGoal, GoalMoves, Goals, Trusted, TypeOK, Histories
<1>6. ASSUME NEW max \in Caps, edit(max)
      PROVE  Goal
  BY <1>6, <1>t DEF edit, Change, GoalMoves, Goals
<1>7. CASE pause \/ resume \/ complete
  BY <1>7, <1>m DEF pause, resume, complete, Change
<1>8. CASE clear
  BY <1>8, <1>t DEF clear, Change, NoGoal, GoalMoves, Goals
<1>9. CASE AssembleThrows \/ DownstreamThrows \/ OuterHookThrows \/ StepEnds
  BY <1>9, <1>u, <1>d
     DEF AssembleThrows, DownstreamThrows, OuterHookThrows, StepEnds, Fails
<1>10. ASSUME NEW m \in GoalRound(agent.batch),
              Passes(m) \/ IsStale(m) \/ DownstreamRejects(m) \/ DownstreamEnters(m)
       PROVE  Goal
  <2>1. UNCHANGED goal \/ (goal' = Moved(goal, "blocked", FALSE) /\ goal.phase # "none")
    BY <1>10 DEF Passes, IsStale, DownstreamRejects, DownstreamEnters, Active
  <2>. QED
    BY <2>1, <1>u, <1>m
<1>11. CASE Rejected \/ StepClaims \/ Rewake
  BY <1>11, <1>u DEF Rejected, StepClaims, Rewake
<1>12. CASE Enter
  <2>1. UNCHANGED goal \/ \E m \in GoalRound(agent.batch) : goal' = Admitted(goal, m)
    BY <1>12 DEF Enter
  <2>. QED
    BY <1>12, <2>1, <1>u, <1>t DEF Admitted, GoalMoves, Goals
<1>13. CASE TurnEnd
  BY <1>13, <1>u, <1>d DEF TurnEnd
<1>14. CASE Retire
  BY <1>14, <1>u, <1>m DEF Retire, Active
<1>. QED
  BY <1>1, <1>2, <1>3, <1>4, <1>5, <1>6, <1>7, <1>8, <1>9, <1>10, <1>11, <1>12, <1>13,
     <1>14 DEF Next

(* Rounds come from a reservation; they wait, and are claimed.             *)
AllRounds == GoalRound(agent.nextTurn) \union GoalRound(agent.batch)

LEMMA RoundsMove ==
    ASSUME TypeOK, Batched, [Next]_vars
    PROVE  /\ agent'.outer = agent.outer
           /\ \/ AllRounds' \subseteq AllRounds
              \/ /\ DriveReserves
                 /\ AllRounds' \subseteq AllRounds \union {Round(goal, driver.sent + 1)}
<1>t. /\ agent \in Agents
      /\ agent.nextTurn \in Seq({Prompt} \union Rounds)
      /\ agent.nextStep \in Seq(Steerings) /\ agent.batch \in Seq(Messages)
  BY DEF TypeOK, Agents
<1>k. ASSUME \/ agent'.nextTurn = agent.nextTurn
             \/ agent'.nextTurn = <<>>
             \/ agent'.nextTurn = Append(agent.nextTurn, Prompt),
             \/ agent'.batch = agent.batch
             \/ agent'.batch = <<>>
             \/ agent'.batch = agent.nextStep
      PROVE  AllRounds' \subseteq AllRounds
  <2>1. GoalRound(Append(agent.nextTurn, Prompt)) \subseteq GoalRound(agent.nextTurn)
    <3>1. ToSet(Append(agent.nextTurn, Prompt)) = ToSet(agent.nextTurn) \union {Prompt}
      <4>1. Prompt \in {Prompt} \union Rounds
        OBVIOUS
      <4>. QED
        BY <1>t, <4>1, HeldAppended
    <3>2. Prompt.kind # "goal"
      BY DEF Prompt
    <3>. QED
      BY <3>1, <3>2 DEF GoalRound
  <2>2. GoalRound(agent.nextStep) = {} /\ GoalRound(<<>>) = {}
    BY <1>t, SteeringsHaveNoRound, NothingHeld
  <2>3. GoalRound(agent'.nextTurn) \subseteq GoalRound(agent.nextTurn)
    BY <1>k, <2>1, <2>2
  <2>4. GoalRound(agent'.batch) \subseteq GoalRound(agent.batch)
    BY <1>k, <2>2
  <2>. QED
    BY <2>3, <2>4 DEF AllRounds
<1>1. CASE UNCHANGED agent
  BY <1>1 DEF AllRounds
<1>2. CASE DriveReserves
  <2>. DEFINE r == Round(goal, driver.sent + 1)
  <2>1. agent'.nextTurn = Append(agent.nextTurn, r) /\ agent'.batch = agent.batch
        /\ agent'.outer = agent.outer
    BY <1>2, <1>t DEF DriveReserves, Agents
  <2>2. r \in {Prompt} \union Rounds
    BY RoundTyped DEF TypeOK, Drivers
  <2>. HIDE DEF r
  <2>3. ToSet(Append(agent.nextTurn, r)) = ToSet(agent.nextTurn) \union {r}
    BY <1>t, <2>2, HeldAppended
  <2>4. GoalRound(agent'.nextTurn) \subseteq GoalRound(agent.nextTurn) \union {r}
    BY <2>1, <2>3 DEF GoalRound
  <2>5. AllRounds' \subseteq AllRounds \union {r}
    BY <2>1, <2>4 DEF AllRounds
  <2>. QED
    BY <1>2, <2>1, <2>5 DEF r
<1>3. CASE followup \/ steer
  <2>1. /\ agent'.outer = agent.outer /\ agent'.batch = agent.batch
        /\ \/ agent'.nextTurn = agent.nextTurn
           \/ agent'.nextTurn = Append(agent.nextTurn, Prompt)
    BY <1>3, <1>t DEF followup, steer, Woken, Agents
  <2>. QED
    BY <2>1, <1>k
<1>4. ASSUME NEW keepInbox \in BOOLEAN, cancel(keepInbox)
      PROVE  agent'.outer = agent.outer /\ AllRounds' \subseteq AllRounds
  <2>1. /\ agent'.outer = agent.outer /\ agent'.batch = agent.batch
        /\ agent'.nextTurn = agent.nextTurn \/ agent'.nextTurn = <<>>
    BY <1>4, <1>t DEF cancel, Agents
  <2>. QED
    BY <2>1, <1>k
<1>5. ASSUME NEW i \in DOMAIN agent.nextTurn, remove(i)
      PROVE  agent'.outer = agent.outer /\ AllRounds' \subseteq AllRounds
  <2>1. /\ agent'.outer = agent.outer /\ agent'.batch = agent.batch
        /\ agent'.nextTurn = RemoveAt(agent.nextTurn, i)
    BY <1>5, <1>t DEF remove, Agents
  <2>2. ToSet(agent'.nextTurn) \subseteq ToSet(agent.nextTurn)
    BY <1>t, <2>1, HeldRemoved
  <2>. QED
    BY <2>1, <2>2 DEF AllRounds, GoalRound
<1>6. CASE MaintenanceBegins \/ MaintenanceEnds \/ PassesBy \/ TurnEnd \/ NextTurn
           \/ Retire \/ Rewake
           \/ StepClaims \/ \E m \in GoalRound(agent.batch) : Passes(m)
  <2>1. /\ agent'.outer = agent.outer
        /\ agent'.batch = agent.batch \/ agent'.batch = agent.nextStep
        /\ agent'.nextTurn = agent.nextTurn
    BY <1>6, <1>t DEF MaintenanceBegins, MaintenanceEnds, PassesBy, TurnEnd, NextTurn,
       Retire, Rewake,
       StepClaims, Passes, Agents
  <2>. QED
    BY <2>1, <1>k
<1>7. CASE Claim
  <2>1. PICK first \in Seq({Prompt} \union Rounds), left \in Seq({Prompt} \union Rounds) :
             Takes(first, left)
    BY <1>7, ClaimTakes
  <2>2. /\ agent'.batch = agent.nextStep \o first /\ agent'.nextTurn = left
        /\ agent'.outer = agent.outer
    BY <1>t, <2>1 DEF Takes, Agents
  <2>3. first \in Seq(Messages) /\ agent.nextStep \in Seq(Messages)
    <3>1. {Prompt} \union Rounds \subseteq Messages
      BY DEF Messages
    <3>. QED
      BY <1>t, <3>1, SeqMonotonic, SteeringsHaveNoRound
  <2>4. GoalRound(agent.nextStep \o first) = GoalRound(agent.nextStep) \union GoalRound(first)
    BY <2>3, HeldByBoth
  <2>5. GoalRound(agent.nextStep) = {}
    BY <1>t, SteeringsHaveNoRound
  <2>6. GoalRound(agent.nextTurn) = GoalRound(first) \union GoalRound(left)
    BY <2>1 DEF Takes, GoalRound
  <2>. QED
    BY <2>2, <2>4, <2>5, <2>6 DEF AllRounds
<1>8. CASE \/ AssembleThrows \/ DownstreamThrows \/ Rejected \/ OuterHookThrows \/ Enter
           \/ StepEnds \/ OthersReject
  <2>1. /\ agent'.outer = agent.outer /\ agent'.batch = <<>> /\ agent'.nextTurn = agent.nextTurn
    BY <1>8, <1>t DEF AssembleThrows, DownstreamThrows, Rejected, OuterHookThrows, Enter,
       StepEnds, OthersReject, Aborts, Fails, Ends, Agents
  <2>. QED
    BY <2>1, <1>k
<1>9. ASSUME NEW m \in GoalRound(agent.batch),
             IsStale(m) \/ DownstreamRejects(m) \/ DownstreamEnters(m)
      PROVE  agent'.outer = agent.outer /\ AllRounds' \subseteq AllRounds
  <2>1. /\ agent'.outer = agent.outer /\ agent'.nextTurn = agent.nextTurn
        /\ agent'.batch = <<>> \/ agent'.batch = agent.batch
    BY <1>9, <1>t DEF IsStale, DownstreamRejects, DownstreamEnters, Drops, Restored, Ends, Agents
  <2>. QED
    BY <2>1, <1>k
<1>10. CASE UNCHANGED vars
  BY <1>10, <1>1 DEF vars
<1>11. CASE \/ DriveLeaves \/ DriveFlushes \/ DriveSettles \/ DriveBlocks \/ FlushResolves
            \/ FlushFails \/ (\E max \in Caps : create(max) \/ edit(max))
            \/ pause \/ resume \/ complete \/ clear
  BY <1>11, <1>1 DEF DriveLeaves, DriveFlushes, DriveSettles, DriveBlocks, FlushResolves,
     FlushFails, create, edit, pause, resume, complete, clear, Operation
<1>. QED
  BY <1>2, <1>3, <1>4, <1>5, <1>6, <1>7, <1>8, <1>9, <1>10, <1>11 DEF Next

(* How a step comes to enter: the driver's hook let it pass, or it waits   *)
(* there for another hook.                                                 *)
EntersNow ==
    \/ PassesBy
    \/ \E m \in GoalRound(agent.batch) :
          DownstreamEnters(m) /\ ~agent.aborted /\ ValidReservation(m)

LEMMA EnterReached ==
    ASSUME TypeOK, Batched, [Next]_vars, agent'.phase = "enter"
    PROVE  \/ UNCHANGED vars
           \/ EntersNow
           \/ /\ agent.phase = "enter" /\ agent'.batch = agent.batch /\ (Quiet \/ Driving)
              /\ agent.aborted => agent'.aborted
              /\ history'.halted => history.halted \/ agent'.aborted
<1>t. agent \in Agents /\ history \in Histories
  BY DEF TypeOK
<1>1. CASE DriveLeaves \/ DriveFlushes \/ DriveSettles \/ DriveBlocks
  BY <1>1 DEF DriveLeaves, DriveFlushes, DriveSettles, DriveBlocks, Reserving
<1>2. CASE DriveReserves
  BY <1>2, <1>t DEF DriveReserves, Reserving, Agents
<1>3. CASE FlushResolves \/ FlushFails
  BY <1>3 DEF FlushResolves, FlushFails
<1>4. CASE \/ \E max \in Caps : create(max) \/ edit(max)
           \/ pause \/ resume \/ complete \/ clear
  <2>1. UNCHANGED agent /\ Quiet
    BY <1>4 DEF create, edit, pause, resume, complete, clear, Operation
  <2>2. Trusted \/ UNCHANGED history
    BY <1>4 DEF create, edit, pause, resume, complete, clear
  <2>3. history'.halted => history.halted
    BY <2>2, <1>t DEF Trusted, Histories
  <2>. QED
    BY <2>1, <2>3
<1>5. CASE followup \/ steer
  BY <1>5, <1>t DEF followup, steer, Woken, Agents, Histories
<1>6. CASE \/ \E keepInbox \in BOOLEAN : cancel(keepInbox)
           \/ \E i \in DOMAIN agent.nextTurn : remove(i)
  BY <1>6, <1>t DEF cancel, remove, Agents, Histories
<1>7. CASE \/ MaintenanceBegins \/ MaintenanceEnds \/ Claim \/ Rejected \/ Enter
           \/ StepClaims \/ TurnEnd \/ NextTurn \/ OthersReject \/ Retire \/ Rewake
           \/ \E m \in GoalRound(agent.batch) : Passes(m)
  BY <1>7, <1>t DEF MaintenanceBegins, MaintenanceEnds, Claim, Rejected, Enter, StepClaims,
     TurnEnd, NextTurn, OthersReject, Retire, Rewake, Passes, Ends, Aborts, Agents
<1>8. CASE AssembleThrows \/ DownstreamThrows \/ OuterHookThrows \/ StepEnds
  BY <1>8, <1>t DEF AssembleThrows, DownstreamThrows, OuterHookThrows, StepEnds, Aborts, Fails,
     Ends, Agents
<1>9. ASSUME NEW m \in GoalRound(agent.batch), IsStale(m) \/ DownstreamRejects(m)
      PROVE  FALSE
  BY <1>9, <1>t DEF IsStale, DownstreamRejects, Drops, Restored, Agents
<1>10. ASSUME NEW m \in GoalRound(agent.batch), DownstreamEnters(m)
       PROVE  EntersNow
  BY <1>10, <1>t DEF EntersNow, DownstreamEnters, Drops, Restored, Ends, Agents
<1>11. CASE PassesBy
  BY <1>11 DEF EntersNow
<1>. QED
  BY <1>1, <1>2, <1>3, <1>4, <1>5, <1>6, <1>7, <1>8, <1>9, <1>10, <1>11 DEF Next

(* A batch has one round at most, and the driver's hook looked at it.      *)
LEMMA EntersCurrent ==
    ASSUME TypeOK, Batched, EntersNow
    PROVE  /\ driver.at = "none" /\ UNCHANGED <<driver, goal, history>>
           /\ agent'.batch = agent.batch /\ ~agent'.aborted /\ agent'.aborted = agent.aborted
           /\ \A m \in GoalRound(agent.batch) : ValidReservation(m)
<1>t. agent \in Agents /\ agent.batch \in Seq(Messages)
  BY DEF TypeOK, Agents
<1>1. CASE PassesBy
  BY <1>1, <1>t DEF PassesBy, Quiet, Agents
<1>2. ASSUME NEW m \in GoalRound(agent.batch),
             DownstreamEnters(m), ~agent.aborted, ValidReservation(m)
      PROVE  /\ driver.at = "none" /\ UNCHANGED <<driver, goal, history>>
             /\ agent'.batch = agent.batch /\ ~agent'.aborted /\ agent'.aborted = agent.aborted
             /\ \A k \in GoalRound(agent.batch) : ValidReservation(k)
  <2>1. \A k \in GoalRound(agent.batch) : k = m
    BY <1>2, <1>t, OthersAreSteerings DEF Batched
  <2>2. /\ driver.at = "none" /\ UNCHANGED <<driver, goal, history>>
        /\ agent'.batch = agent.batch /\ ~agent'.aborted /\ agent'.aborted = agent.aborted
    BY <1>2, <1>t DEF DownstreamEnters, Quiet, Agents
  <2>. QED
    BY <1>2, <2>1, <2>2
<1>. QED
  BY <1>1, <1>2 DEF EntersNow

LEMMA ReplayingStep ==
    ASSUME TypeOK, TypeOK', Batched, Replaying, [Next]_vars
    PROVE  Replaying'
<1>t. /\ goal \in Goals /\ agent \in Agents /\ agent.batch \in Seq(Messages)
      /\ agent.nextTurn \in Seq({Prompt} \union Rounds)
  BY DEF TypeOK, Agents
<1>g. AllRounds \subseteq Rounds
  BY <1>t, GoalRoundsTyped DEF AllRounds
<1>o. agent'.outer = agent.outer
  BY RoundsMove
<1>1. \A m \in AllRounds' : Current(m)'
  <2>1. \A m \in AllRounds : Current(m)'
    BY <1>g, GoalStep, CurrentKept DEF Replaying, AllRounds
  <2>2. ASSUME DriveReserves, NEW m, m = Round(goal, driver.sent + 1)
        PROVE  Current(m)'
    BY <2>2, <1>t DEF DriveReserves, Reserving, Active, Round, Current, Goals
  <2>. QED
    BY <2>1, <2>2, RoundsMove
<1>2. ASSUME agent'.phase = "enter", ~agent'.outer
      PROVE  /\ driver'.at = "none"
             /\ ~agent'.aborted => \A m \in GoalRound(agent'.batch) : IsNext(m)'
  <2>1. CASE UNCHANGED vars
    BY <1>2, <2>1 DEF vars, Replaying, IsNext
  <2>2. CASE EntersNow
    BY <2>2, EntersCurrent DEF ValidReservation, Active, IsNext
  <2>3. ~(agent.phase = "enter" /\ (Quiet \/ Driving))
    BY <1>2, <1>o DEF Replaying, Quiet, Driving, Immediate, AgentMoves
  <2>. QED
    BY <1>2, <2>1, <2>2, <2>3, EnterReached
<1>3. ~agent'.outer => ~goal'.corrupt
  <2>1. CASE Enter /\ ~agent.outer
    <3>1. UNCHANGED goal \/ \E m \in GoalRound(agent.batch) :
             goal' = Admitted(goal, m) /\ IsNext(m) /\ Current(m)
      BY <2>1 DEF Enter, Replaying
    <3>. QED
      BY <3>1, <2>1, <1>t DEF Replaying, Admitted, IsNext, Current, Goals
  <2>. QED
    BY <2>1, <1>o, GoalStep DEF Replaying
<1>. QED
  BY <1>1, <1>2, <1>3 DEF Replaying, AllRounds

------------------------------------------------------------------------------
(* A halt stops the goal.                                                  *)

LEMMA SealKept ==
    ASSUME NEW d \in Drivers
    PROVE  /\ RequestDrive(d).attempt = d.attempt
           /\ GoalChanged(d).attempt = d.attempt
           /\ Returned(d).attempt = d.attempt
           /\ Flushing(d).attempt = d.attempt
           /\ Sealed(d) => Sealed(Competing(d))
           /\ \A s : Sealed(d) => Sealed(Discarded(d, s)) /\ Sealed(ClaimedBy(d, s))
           /\ \A s : Discarded(d, s) # d => Sealed(Discarded(d, s))
<1>1. /\ RequestDrive(d).attempt = d.attempt /\ GoalChanged(d).attempt = d.attempt
      /\ Returned(d).attempt = d.attempt /\ Flushing(d).attempt = d.attempt
  BY DEF RequestDrive, GoalChanged, Returned, Flushing, Drivers
<1>2. d.attempt # None => d.attempt \in Attempts
  BY DriversTyped
<1>n. \A a \in Attempts : a # None
  BY DEF Attempts, None
<1>3. Sealed(d) => Sealed(Competing(d))
  <2>1. d.attempt \in Attempts => [d.attempt EXCEPT !.stale = TRUE] \in Attempts
    BY DEF Attempts
  <2>. QED
    BY <1>2, <1>n, <2>1 DEF Sealed, Competing, Drivers, Attempts
<1>4. ASSUME d.attempt # None
      PROVE  /\ Sealed([d EXCEPT !.attempt.cancelled = TRUE])
             /\ d.attempt.cancelled => Sealed([d EXCEPT !.attempt.phase = "claimed"])
  <2>1. /\ [d.attempt EXCEPT !.cancelled = TRUE] \in Attempts
        /\ [d.attempt EXCEPT !.phase = "claimed"] \in Attempts
    BY <1>2, <1>4 DEF Attempts
  <2>. QED
    BY <1>2, <1>4, <1>n, <2>1 DEF Sealed, Drivers, Attempts
<1>5. ASSUME NEW s
      PROVE  /\ Sealed(d) => Sealed(Discarded(d, s)) /\ Sealed(ClaimedBy(d, s))
             /\ Discarded(d, s) # d => Sealed(Discarded(d, s))
  <2>1. Discarded(d, s) = d \/ (d.attempt # None /\ Discarded(d, s) = [d EXCEPT !.attempt.cancelled = TRUE])
    BY DEF Discarded, SameQueued
  <2>2. ClaimedBy(d, s) = d \/ (d.attempt # None /\ ClaimedBy(d, s) = [d EXCEPT !.attempt.phase = "claimed"])
    BY DEF ClaimedBy, SameQueued
  <2>. QED
    BY <1>4, <2>1, <2>2 DEF Sealed
<1>. QED
  BY <1>1, <1>3, <1>5

LEMMA EndStep ==
    ASSUME TypeOK, Batched, EndTold, [Next]_vars
    PROVE  EndTold'
<1>t. agent \in Agents /\ goal \in Goals
  BY DEF TypeOK
<1>u. ASSUME UNCHANGED agent, goal'.armed => goal.armed
      PROVE  EndTold'
  BY <1>u DEF EndTold
<1>n. ASSUME agent'.phase # "end"
      PROVE  EndTold'
  BY <1>n DEF EndTold
<1>e. ASSUME NEW a \in Agents, NEW r, agent' = Ends(a, r), a.aborted <=> r = "aborted",
             r = "error" => ~goal'.armed
      PROVE  EndTold'
  BY <1>e DEF EndTold, Ends, Agents
<1>f. ASSUME Fails, ~agent.aborted
      PROVE  EndTold'
  <2>1. ~goal'.armed
    BY <1>f, <1>t DEF Fails, Disarmed, Goals
  <2>. QED
    BY <1>f, <1>t, <2>1, <1>e DEF Fails
<1>a. ASSUME Aborts, agent.aborted
      PROVE  EndTold'
  BY <1>a, <1>t, <1>e DEF Aborts
<1>1. CASE UNCHANGED vars
  BY <1>1, <1>u DEF vars
<1>2. CASE DriveLeaves \/ DriveFlushes \/ DriveSettles \/ FlushResolves
  BY <1>2, <1>u DEF DriveLeaves, DriveFlushes, DriveSettles, FlushResolves
<1>3. CASE DriveBlocks \/ FlushFails
  BY <1>3, <1>t, <1>u DEF DriveBlocks, FlushFails, Disarmed, Moved, Goals
<1>4. CASE DriveReserves
  <2>1. agent'.phase # "end"
    BY <1>4, <1>t DEF DriveReserves, Reserving, ReadyToDrive, Idle, Agents
  <2>. QED
    BY <2>1, <1>n
<1>5. CASE \/ \E max \in Caps : create(max) \/ edit(max)
           \/ pause \/ resume \/ complete \/ clear
  <2>1. UNCHANGED agent /\ agent.phase # "end"
    BY <1>5 DEF create, edit, pause, resume, complete, clear, Operation, Quiet, AgentMoves
  <2>. QED
    BY <2>1, <1>n
<1>6. CASE followup \/ steer
  <2>1. agent'.phase # "end"
    BY <1>6, <1>t DEF followup, steer, Woken, Quiet, AgentMoves, Agents
  <2>. QED
    BY <2>1, <1>n
<1>7. CASE \/ \E keepInbox \in BOOLEAN : cancel(keepInbox)
           \/ \E i \in DOMAIN agent.nextTurn : remove(i)
           \/ MaintenanceBegins \/ MaintenanceEnds
  <2>1. agent'.phase # "end"
    BY <1>7, <1>t DEF cancel, remove, MaintenanceBegins, MaintenanceEnds, Quiet, AgentMoves, Agents
  <2>. QED
    BY <2>1, <1>n
<1>8. CASE \/ Claim \/ PassesBy \/ OthersReject \/ StepClaims \/ TurnEnd \/ NextTurn \/ Retire \/ Rewake
           \/ \E m \in GoalRound(agent.batch) : Passes(m) \/ IsStale(m) \/ DownstreamRejects(m)
  <2>1. agent'.phase # "end"
    BY <1>8, <1>t DEF Claim, PassesBy, OthersReject, StepClaims, TurnEnd, NextTurn, Retire,
       Rewake, Passes, IsStale,
       DownstreamRejects, Drops, Restored, Agents
  <2>. QED
    BY <2>1, <1>n
<1>9. CASE AssembleThrows \/ DownstreamThrows \/ OuterHookThrows
  BY <1>9, <1>a, <1>f DEF AssembleThrows, DownstreamThrows, OuterHookThrows
<1>10. ASSUME NEW m \in GoalRound(agent.batch), DownstreamEnters(m)
       PROVE  EndTold'
  <2>1. CASE agent.aborted
    <3>. DEFINE a == Restored(agent, agent.batch)
    <3>1. a \in Agents /\ a.aborted = agent.aborted
      BY <1>10, <1>t, RestoredTyped DEF Restored, Agents
    <3>2. agent' = Ends(a, "aborted")
      BY <1>10, <2>1 DEF DownstreamEnters
    <3>. HIDE DEF a
    <3>3. a.aborted = TRUE
      BY <2>1, <3>1
    <3>. QED
      BY <3>1, <3>2, <3>3, <1>e
  <2>2. CASE ~agent.aborted
    <3>1. agent'.phase # "end"
      BY <1>10, <2>2, <1>t DEF DownstreamEnters, Drops, Restored, Agents
    <3>. QED
      BY <3>1, <1>n
  <2>. QED
    BY <2>1, <2>2
<1>11. CASE Rejected
  <2>1. agent' = Ends(agent, IF agent.aborted THEN "aborted" ELSE "blocked")
    BY <1>11 DEF Rejected
  <2>. QED
    BY <1>t, <2>1, <1>e
<1>12. CASE Enter
  <2>1. CASE agent.aborted
    BY <1>12, <2>1, <1>a DEF Enter
  <2>2. CASE ~agent.aborted /\ agent.batch = <<>>
    BY <1>12, <2>2, <1>t, <1>e DEF Enter
  <2>3. CASE ~agent.aborted /\ agent.batch # <<>>
    <3>1. agent'.phase # "end"
      BY <1>12, <2>3, <1>t DEF Enter, Agents
    <3>. QED
      BY <3>1, <1>n
  <2>. QED
    BY <2>1, <2>2, <2>3
<1>13. CASE StepEnds
  BY <1>13, <1>t, <1>a, <1>f, <1>e DEF StepEnds
<1>. QED
  BY <1>1, <1>2, <1>3, <1>4, <1>5, <1>6, <1>7, <1>8, <1>9, <1>10, <1>11, <1>12, <1>13 DEF Next

LEMMA HaltingStep ==
    ASSUME TypeOK, TypeOK', Batched, Halting, [Next]_vars
    PROVE  Halting'
<1>t. /\ goal \in Goals /\ agent \in Agents /\ driver \in Drivers /\ history \in Histories
      /\ driver' \in Drivers /\ agent' \in Agents /\ history' \in Histories
  BY DEF TypeOK
<1>. DEFINE H == history'.halted /\ goal'.armed => ~Idle' /\ agent'.aborted /\ Sealed(driver')
<1>g. goal'.armed => goal.armed \/ ~history'.halted
  BY GoalStep
(* Steps that neither halt, nor end the turn, nor unseal the round.        *)
<1>k. ASSUME history'.halted => history.halted,
             Sealed(driver) => Sealed(driver'),
             ~Idle /\ agent.aborted => ~Idle' /\ agent'.aborted
      PROVE  H
  BY <1>k, <1>g DEF Halting
<1>s. ASSUME history.halted, goal.armed
      PROVE  ~Idle /\ agent.aborted /\ Sealed(driver)
  BY <1>s DEF Halting
<1>n. ASSUME ~agent.aborted \/ Idle, history'.halted => history.halted
      PROVE  H
  BY <1>n, <1>g, <1>s
<1>d. ASSUME NEW d \in Drivers
      PROVE  /\ Sealed(RequestDrive(d)) <=> Sealed(d)
             /\ Sealed(GoalChanged(d)) <=> Sealed(d)
             /\ Sealed(Returned(d)) <=> Sealed(d)
             /\ Sealed(Flushing(d)) <=> Sealed(d)
  BY SealKept DEF Sealed
<1>1. ASSUME UNCHANGED vars
      PROVE  H
  BY <1>1, <1>k DEF vars, Idle
<1>2. ASSUME DriveFlushes \/ DriveSettles \/ DriveBlocks \/ DriveReserves
      PROVE  H
  BY <1>2, <1>n DEF DriveFlushes, DriveSettles, DriveBlocks, DriveReserves, Reserving, ReadyToDrive
<1>3. ASSUME DriveLeaves
      PROVE  H
  <2>1. Taken \in Drivers /\ Taken.attempt = driver.attempt
    BY <1>t DEF Taken, Drivers
  <2>2. Sealed(driver) => Sealed(driver')
    BY <1>3, <2>1, <1>d DEF DriveLeaves, Sealed
  <2>. QED
    BY <1>3, <2>2, <1>k DEF DriveLeaves, Idle
<1>4. ASSUME FlushResolves
      PROVE  H
  <2>. DEFINE d == [driver EXCEPT !.flushes = @ - 1]
  <2>1. d \in Drivers /\ d.attempt = driver.attempt
    BY <1>4, <1>t DEF FlushResolves, Drivers
  <2>2. driver' = [d EXCEPT !.at = "checked"] \/ driver' = Returned(d)
    BY <1>4 DEF FlushResolves
  <2>. HIDE DEF d
  <2>3. Sealed(driver) => Sealed(driver')
    BY <2>1, <2>2, <1>d DEF Sealed, Drivers
  <2>. QED
    BY <1>4, <2>3, <1>k DEF FlushResolves, Idle
<1>5. ASSUME FlushFails
      PROVE  H
  BY <1>5, <1>t DEF FlushFails, Disarmed, Goals
<1>6. ASSUME \/ \E max \in Caps : create(max) \/ edit(max)
           \/ pause \/ resume \/ complete \/ clear
      PROVE  H
  <2>1. /\ driver' = GoalChanged(driver) /\ UNCHANGED agent
        /\ history'.halted => history.halted
    BY <1>6, <1>t DEF create, edit, pause, resume, complete, clear, Change, Operation, Trusted, Histories
  <2>. QED
    BY <2>1, <1>t, <1>d, <1>k DEF Idle
<1>7. ASSUME followup \/ steer
      PROVE  H
  <2>1. /\ agent'.aborted = agent.aborted
        /\ ~Idle => agent'.phase = agent.phase
        /\ history'.halted = history.halted
    <3>1. CASE followup
      <4>1. /\ agent' = Woken([agent EXCEPT !.nextTurn = Append(@, Prompt)])
            /\ history' = history
        BY <3>1 DEF followup
      <4>. QED
        BY <4>1, <1>t DEF Woken, Idle, Agents
    <3>2. CASE steer
      <4>1. history'.halted = history.halted
        BY <3>2, <1>t DEF steer, Histories
      <4>2. agent'.aborted = agent.aborted /\ (~Idle => agent'.phase = agent.phase)
        BY <3>2, <1>t DEF steer, Woken, Idle, Agents
      <4>. QED
        BY <4>1, <4>2
    <3>. QED
      BY <1>7, <3>1, <3>2
  <2>2. Sealed(driver) => Sealed(driver')
    BY <1>7, <1>t, SealKept DEF followup, steer, Sealed
  <2>. QED
    BY <2>1, <2>2, <1>k DEF Idle
<1>8. ASSUME NEW keepInbox \in BOOLEAN, cancel(keepInbox)
      PROVE  H
  <2>1. CASE keepInbox
    <3>1. agent'.aborted /\ agent'.phase = agent.phase
      BY <1>8, <2>1, <1>t DEF cancel, Agents
    <3>. QED
      BY <1>8, <2>1, <3>1, <1>k DEF cancel, Idle
  <2>2. CASE ~keepInbox
    <3>1. /\ agent'.aborted <=> agent.phase # "idle"
          /\ agent'.phase = agent.phase
      BY <1>8, <2>2, <1>t DEF cancel, Agents
    <3>2. driver' = Discarded(driver, agent.nextTurn)
      BY <1>8, <2>2 DEF cancel
    <3>3. CASE driver' # driver /\ ~Idle
      <4>1. Sealed(driver')
        BY <3>2, <3>3, <1>t, SealKept
      <4>. QED
        BY <3>1, <3>3, <4>1 DEF Idle
    <3>4. CASE ~(driver' # driver /\ ~Idle)
      <4>0. history'.halted = (history.halted \/ (driver' # driver /\ ~Idle))
        BY <1>8, <2>2, <1>t DEF cancel, Histories
      <4>1. history'.halted => history.halted
        BY <3>4, <4>0
      <4>2. Sealed(driver) => Sealed(driver')
        BY <3>2, <1>t, SealKept
      <4>. QED
        BY <3>1, <4>1, <4>2, <1>k DEF Idle
    <3>. QED
      BY <3>3, <3>4
  <2>. QED
    BY <2>1, <2>2
<1>9. ASSUME NEW i \in DOMAIN agent.nextTurn, remove(i)
      PROVE  H
  <2>1. Sealed(driver) => Sealed(driver')
    BY <1>9, <1>t, SealKept DEF remove
  <2>2. agent'.aborted = agent.aborted /\ agent'.phase = agent.phase /\ UNCHANGED history
    BY <1>9, <1>t DEF remove, Agents
  <2>. QED
    BY <2>1, <2>2, <1>k DEF Idle
<1>10. ASSUME MaintenanceBegins \/ MaintenanceEnds \/ Rewake
       PROVE  H
  BY <1>10, <1>n DEF MaintenanceBegins, MaintenanceEnds, Rewake, Idle
<1>11. ASSUME Claim
       PROVE  H
  <2>1. PICK first \in Seq({Prompt} \union Rounds), left \in Seq({Prompt} \union Rounds) :
             Takes(first, left)
    BY <1>11, ClaimTakes
  <2>2. /\ agent'.phase = "assemble" /\ agent'.aborted = agent.aborted
    BY <1>t, <2>1 DEF Takes, Agents
  <2>3. Sealed(driver) => Sealed(driver')
    BY <1>t, <2>1, SealKept DEF Takes
  <2>. QED
    BY <1>11, <2>2, <2>3, <1>k DEF Claim, Idle
<1>12. ASSUME \/ PassesBy \/ OuterHookThrows \/ StepClaims \/ NextTurn
            \/ \E m \in GoalRound(agent.batch) : Passes(m)
       PROVE  H
  <2>1. /\ UNCHANGED driver /\ history'.halted = history.halted
        /\ agent'.aborted = agent.aborted /\ ~Idle'
    BY <1>12, <1>t DEF PassesBy, OuterHookThrows, StepClaims, NextTurn, Passes, Fails, Ends, Lost, Idle,
       Agents, Histories
  <2>. QED
    BY <2>1, <1>k
<1>13. ASSUME AssembleThrows \/ StepEnds
       PROVE  H
  <2>1. /\ UNCHANGED driver /\ history'.halted = history.halted
        /\ agent'.aborted = agent.aborted /\ ~Idle'
    <3>1. /\ UNCHANGED driver
          /\ history' = history \/ Lost(agent.batch)
          /\ \E r : agent' = Ends(agent, r)
      BY <1>13 DEF AssembleThrows, StepEnds, Aborts, Fails
    <3>. QED
      BY <3>1, <1>t DEF Ends, Lost, Idle, Agents, Histories
  <2>. QED
    BY <2>1, <1>k
<1>14. ASSUME NEW m \in GoalRound(agent.batch), IsStale(m)
       PROVE  H
  BY <1>14, <1>n DEF IsStale
<1>0. ASSUME OthersReject
      PROVE  H
  <2>1. ~agent.aborted /\ history'.halted = history.halted
    BY <1>0, <1>t DEF OthersReject, Lost, Histories
  <2>. QED
    BY <2>1, <1>n
<1>15. ASSUME NEW m \in GoalRound(agent.batch), DownstreamRejects(m) \/ DownstreamEnters(m)
       PROVE  H
  <2>1. history'.halted = history.halted
    BY <1>15, <1>t DEF DownstreamRejects, DownstreamEnters, Lost, Histories
  <2>2. CASE ~agent.aborted
    BY <2>1, <2>2, <1>n
  <2>3. CASE agent.aborted
    <3>1. UNCHANGED driver /\ agent'.aborted = agent.aborted /\ ~Idle'
      <4>1. UNCHANGED driver
        BY <1>15, <2>3 DEF DownstreamRejects, DownstreamEnters
      <4>2. \/ agent' = [agent EXCEPT !.phase = "rejected", !.batch = <<>>]
            \/ agent' = Ends(Restored(agent, agent.batch), "aborted")
        BY <1>15, <2>3 DEF DownstreamRejects, DownstreamEnters
      <4>. QED
        BY <4>1, <4>2, <1>t DEF Restored, Ends, Idle, Agents
    <3>. QED
      BY <2>1, <3>1, <1>k
  <2>. QED
    BY <2>2, <2>3
<1>16. ASSUME DownstreamThrows
       PROVE  H
  <2>1. history'.halted = history.halted
    BY <1>16, <1>t DEF DownstreamThrows, Aborts, Fails, Lost, Histories
  <2>2. CASE ~agent.aborted
    BY <2>1, <2>2, <1>n
  <2>3. CASE agent.aborted
    <3>1. UNCHANGED driver /\ agent'.aborted = agent.aborted /\ ~Idle'
      BY <1>16, <2>3, <1>t DEF DownstreamThrows, Aborts, Ends, Idle, Agents
    <3>. QED
      BY <2>1, <3>1, <1>k
  <2>. QED
    BY <2>2, <2>3
<1>17. ASSUME Rejected
       PROVE  H
  <2>1. /\ UNCHANGED <<driver, history>> /\ agent'.aborted = agent.aborted /\ ~Idle'
    BY <1>17, <1>t DEF Rejected, Ends, Idle, Agents
  <2>. QED
    BY <2>1, <1>k
<1>18. ASSUME Enter
       PROVE  H
  <2>1. history'.halted = history.halted
    BY <1>18, <1>t DEF Enter, Aborts, Lost, Histories
  <2>2. CASE ~agent.aborted
    BY <2>1, <2>2, <1>n
  <2>3. CASE agent.aborted
    <3>1. UNCHANGED driver /\ agent'.aborted = agent.aborted /\ ~Idle'
      BY <1>18, <2>3, <1>t DEF Enter, Aborts, Ends, Idle, Agents
    <3>. QED
      BY <2>1, <3>1, <1>k
  <2>. QED
    BY <2>2, <2>3
<1>19. ASSUME TurnEnd
       PROVE  H
  <2>1. CASE agent.reason = "aborted"
    <3>1. agent.aborted /\ agent'.aborted /\ ~Idle'
      BY <1>19, <2>1, <1>t DEF TurnEnd, Halting, EndTold, Idle, Agents
    <3>2. CASE driver.attempt.phase \in {"claimed", "admitted"}
      <4>1. driver' = [driver EXCEPT !.attempt.cancelled = TRUE] /\ driver.attempt # None
        BY <1>19, <2>1, <3>2 DEF TurnEnd, None
      <4>2. driver.attempt \in Attempts
        BY <4>1, <1>t, DriversTyped
      <4>3. [driver.attempt EXCEPT !.cancelled = TRUE] \in Attempts
        BY <4>2 DEF Attempts
      <4>4. Sealed(driver')
        BY <4>1, <4>2, <4>3, <1>t DEF Sealed, Drivers, Attempts, None
      <4>. QED
        BY <3>1, <4>4
    <3>3. CASE driver.attempt.phase \notin {"claimed", "admitted"}
      <4>1. ~goal'.armed
        BY <1>19, <2>1, <3>3, <1>t DEF TurnEnd, Disarms, Disarmed, Goals
      <4>. QED
        BY <4>1
    <3>. QED
      BY <3>2, <3>3
  <2>2. CASE agent.reason # "aborted"
    <3>1. ~agent.aborted
      BY <1>19, <2>2 DEF TurnEnd, Halting, EndTold
    <3>2. ~(history.halted /\ goal.armed)
      BY <3>1, <1>s
    <3>3. CASE agent.reason \in {"error", "max-tokens"}
      <4>1. ~goal'.armed
        BY <1>19, <3>3, <1>t DEF TurnEnd, Halting, EndTold, Disarms, Disarmed, Goals
      <4>. QED
        BY <4>1
    <3>4. CASE agent.reason \notin {"aborted", "error", "max-tokens"}
      <4>1. history'.halted = history.halted
        BY <1>19, <3>4, <1>t DEF TurnEnd, Histories
      <4>. QED
        BY <3>1, <4>1, <1>n
    <3>. QED
      BY <2>2, <3>3, <3>4
  <2>. QED
    BY <2>1, <2>2
<1>20. ASSUME Retire
       PROVE  H
  <2>1. history' = history
    BY <1>20 DEF Retire
  <2>2. CASE history.halted /\ goal.armed
    <3>1. Sealed(driver) /\ Active(goal)
      BY <2>2, <1>s DEF Halting, Active
    <3>2. ~goal'.armed
      BY <1>20, <3>1, <1>t DEF Retire, Sealed, Moved, Goals
    <3>. QED
      BY <3>2
  <2>. QED
    BY <2>1, <2>2, <1>g
<1>21. H
  <2>. HIDE DEF H
  <2>. QED
    BY <1>0, <1>1, <1>2, <1>3, <1>4, <1>5, <1>6, <1>7, <1>8, <1>9, <1>10, <1>11, <1>12, <1>13, <1>14,
       <1>15, <1>16, <1>17, <1>18, <1>19, <1>20 DEF Next
<1>22. ASSUME agent'.phase = "enter", GoalRound(agent'.batch) # {}, history'.halted
       PROVE  agent'.aborted
  <2>1. CASE UNCHANGED vars
    BY <1>22, <2>1 DEF vars, Halting
  <2>2. CASE EntersNow
    <3>1. ~history.halted
      BY <2>2, <1>22, <1>s, EntersCurrent DEF ValidReservation, Active
    <3>. QED
      BY <2>2, <3>1, <1>22, EntersCurrent
  <2>3. CASE /\ agent.phase = "enter" /\ agent'.batch = agent.batch
             /\ agent.aborted => agent'.aborted
             /\ history'.halted => history.halted \/ agent'.aborted
    BY <1>22, <2>3 DEF Halting
  <2>. QED
    BY <1>22, <2>1, <2>2, <2>3, EnterReached
<1>23. EndTold'
  BY EndStep DEF Halting
<1>24. goal'.armed => goal'.phase = "active"
  BY GoalStep DEF Halting
<1>. QED
  BY <1>21, <1>22, <1>23, <1>24 DEF Halting

------------------------------------------------------------------------------
(* An armed goal is attended to.                                           *)

LEMMA RunsReturn ==
    ASSUME NEW d \in Drivers
    PROVE  /\ Returned(d).at = "none" => ~d.requested /\ ~Returned(d).run
           /\ Returned(d).flushes = d.flushes /\ Returned(d).attempt = d.attempt
           /\ Returned(d).needsCheckpoint = d.needsCheckpoint
           /\ Returned(d).competingQueued = d.competingQueued
           /\ Flushing(d).flushes > 0 /\ ~Flushing(d).needsCheckpoint
  BY DEF Returned, Flushing, Drivers

(* Whoever asks for a drive gets one, unless a flush is awaited anyway.    *)
LEMMA RequestAttends ==
    ASSUME TypeOK, Attending, NEW d \in Drivers,
           d.at = driver.at, d.run = driver.run, d.flushes = driver.flushes,
           driver' = RequestDrive(d) \/ driver' = GoalChanged(d)
    PROVE  Attending'
<1>. DEFINE e == [d EXCEPT !.needsCheckpoint = TRUE]
<1>1. e \in Drivers /\ e.at = d.at /\ e.run = d.run /\ e.flushes = d.flushes
  BY DEF Drivers
<1>2. driver' = RequestDrive(d) \/ driver' = RequestDrive(e)
  BY DEF GoalChanged
<1>. HIDE DEF e
<1>3. /\ driver'.requested /\ driver'.flushes = driver.flushes
      /\ driver'.at = "none" => driver.run /\ driver.at = "none"
  BY <1>1, <1>2 DEF RequestDrive, Drivers
<1>. QED
  BY <1>3 DEF Attending, TypeOK, Drivers

(* While a turn runs there is nothing to attend to.                        *)
LEMMA BusyAttends ==
    ASSUME Attending, ~Idle', driver'.at = driver.at, driver'.run = driver.run,
           driver'.flushes = driver.flushes
    PROVE  Attending'
  BY DEF Attending, ReadyToDrive, Idle

LEMMA DriveAttends ==
    ASSUME TypeOK, Attending,
           DriveLeaves \/ DriveFlushes \/ DriveSettles \/ DriveBlocks \/ DriveReserves
               \/ FlushResolves \/ FlushFails
    PROVE  Attending'
<1>t. /\ goal \in Goals /\ driver \in Drivers /\ agent \in Agents
      /\ agent.nextTurn \in Seq({Prompt} \union Rounds)
  BY DEF TypeOK, Agents
<1>. DEFINE taken == [driver EXCEPT !.requested = @ /\ driver.at = "checked"]
<1>k. /\ taken \in Drivers /\ Taken = taken /\ taken.flushes = driver.flushes
      /\ taken.needsCheckpoint = driver.needsCheckpoint /\ taken.attempt = driver.attempt
      /\ taken.competingQueued = driver.competingQueued
  BY <1>t DEF Taken, Drivers
<1>. HIDE DEF taken
<1>1. CASE DriveLeaves
  <2>1. /\ driver' = Returned(taken) /\ UNCHANGED <<goal, agent>>
        /\ ~ReadyToDrive \/ (~driver.needsCheckpoint /\ ~Active(goal))
    BY <1>1, <1>k DEF DriveLeaves
  <2>2. ReadyToDrive' <=> ReadyToDrive
    BY <2>1, <1>k, RunsReturn DEF ReadyToDrive, Idle
  <2>. QED
    BY <2>1, <2>2, <1>k, RunsReturn DEF Attending, Active
<1>2. CASE DriveFlushes
  BY <1>2, <1>k, RunsReturn DEF DriveFlushes, Attending
<1>3. CASE DriveSettles
  <2>1. [driver EXCEPT !.attempt = None, !.needsCheckpoint = TRUE, !.requested = TRUE]
           \in Drivers
    BY <1>t DEF Drivers
  <2>2. driver'.at # "none"
    BY <1>3, <1>t, <2>1 DEF DriveSettles, Returned, Drivers
  <2>. QED
    BY <2>2 DEF Attending
<1>4. CASE DriveBlocks
  <2>1. CASE driver.at = "first"
    <3>1. driver' = [Flushing(taken) EXCEPT !.run = FALSE]
      BY <1>4, <1>k, <2>1 DEF DriveBlocks
    <3>2. Flushing(taken) \in Drivers
      BY <1>k, DriversTyped
    <3>3. driver'.flushes > 0 /\ ~driver'.needsCheckpoint
      BY <3>1, <3>2, <1>k, RunsReturn DEF Drivers
    <3>. QED
      BY <3>3 DEF Attending
  <2>2. CASE driver.at # "first"
    <3>. DEFINE d == [taken EXCEPT !.needsCheckpoint = TRUE, !.requested = TRUE]
    <3>1. d \in Drivers /\ d.requested
      BY <1>k DEF Drivers
    <3>2. driver' = Returned(d)
      BY <1>4, <1>k, <2>2 DEF DriveBlocks
    <3>. HIDE DEF d
    <3>3. driver'.at # "none"
      BY <3>1, <3>2, RunsReturn
    <3>. QED
      BY <3>3 DEF Attending
  <2>. QED
    BY <2>1, <2>2
<1>5. CASE DriveReserves
  <2>. DEFINE n == driver.sent + 1
              r == Round(goal, n)
              attempt == [id |-> goal.id, rev |-> goal.rev, round |-> goal.started + 1,
                          n |-> n, phase |-> "queued", cancelled |-> FALSE, stale |-> FALSE]
              d == [taken EXCEPT !.sent = n, !.attempt = attempt]
  <2>1. n \in Nat /\ attempt \in Attempts
    BY <1>t DEF Drivers, Goals, Attempts
  <2>2. r.kind = "goal" /\ SameQueued(r, attempt) /\ attempt # None
    BY DEF Round, SameQueued, SameRound, None
  <2>3. /\ driver' = Returned(d)
        /\ agent' = [agent EXCEPT !.nextTurn = Append(@, r),
                                  !.phase = IF @ = "idle" THEN "claim" ELSE @,
                                  !.wake = @ \/ agent.phase = "maintenance"]
        /\ Reserving
    BY <1>5, <1>k DEF DriveReserves
  <2>4. r \in {Prompt} \union Rounds
    BY <2>1, RoundTyped
  <2>. HIDE DEF n, r, attempt
  <2>5. d \in Drivers /\ d.attempt = attempt /\ d.needsCheckpoint = taken.needsCheckpoint
    BY <2>1, <1>k DEF Drivers
  <2>6. agent'.nextTurn = Append(agent.nextTurn, r)
        /\ (Idle' => agent'.wake)
    BY <2>3, <1>t DEF Agents, Idle
  <2>7. r \in ToSet(agent'.nextTurn)
    BY <2>4, <2>6, <1>t, HeldAppended
  <2>. HIDE DEF d
  <2>8. driver'.attempt = attempt /\ ~driver'.needsCheckpoint /\ (driver'.at = "none" => ~driver'.run)
    BY <2>3, <2>5, <1>k, RunsReturn DEF Reserving
  <2>9. Idle' => Awaited'
    BY <2>2, <2>6, <2>7, <2>8 DEF Awaited
  <2>. QED
    BY <2>8, <2>9 DEF Attending, ReadyToDrive
<1>6. CASE FlushResolves
  <2>. DEFINE d == [driver EXCEPT !.flushes = @ - 1]
  <2>1. /\ d \in Drivers /\ d.requested = driver.requested /\ d.competingQueued = driver.competingQueued
        /\ d.needsCheckpoint = driver.needsCheckpoint
    BY <1>6, <1>t DEF FlushResolves, Drivers
  <2>2. /\ driver' = IF ReadyToDrive /\ ~driver.needsCheckpoint
                     THEN [d EXCEPT !.at = "checked"] ELSE Returned(d)
        /\ driver.at = "none" /\ UNCHANGED <<goal, agent>>
    BY <1>6 DEF FlushResolves, Quiet
  <2>. HIDE DEF d
  <2>3. CASE ReadyToDrive /\ ~driver.needsCheckpoint
    <3>1. driver'.at = "checked"
      BY <2>1, <2>2, <2>3 DEF Drivers
    <3>. QED
      BY <3>1 DEF Attending
  <2>4. CASE ~(ReadyToDrive /\ ~driver.needsCheckpoint)
    <3>1. driver' = Returned(d)
      BY <2>2, <2>4
    <3>2. ReadyToDrive' <=> ReadyToDrive
      BY <3>1, <2>1, <2>2, RunsReturn DEF ReadyToDrive, Idle
    <3>3. driver.needsCheckpoint /\ ReadyToDrive => driver.requested
      BY <2>2 DEF Attending
    <3>. QED
      BY <3>1, <3>2, <3>3, <2>1, <2>4, RunsReturn DEF Attending
  <2>. QED
    BY <2>3, <2>4
<1>7. CASE FlushFails
  <2>. DEFINE d == [driver EXCEPT !.flushes = @ - 1]
  <2>1. /\ d \in Drivers /\ d.requested = driver.requested /\ d.competingQueued = driver.competingQueued
        /\ d.needsCheckpoint = driver.needsCheckpoint
    BY <1>7, <1>t DEF FlushFails, Drivers
  <2>2. driver' = Returned(d) /\ driver.at = "none" /\ UNCHANGED agent /\ ~goal'.armed
    BY <1>7, <1>t DEF FlushFails, Quiet, Disarmed, Goals
  <2>. HIDE DEF d
  <2>3. ReadyToDrive' <=> ReadyToDrive
    BY <2>1, <2>2, RunsReturn DEF ReadyToDrive, Idle
  <2>4. driver.needsCheckpoint /\ ReadyToDrive => driver.requested
    BY <2>2 DEF Attending
  <2>. QED
    BY <2>1, <2>2, <2>3, <2>4, RunsReturn DEF Attending, Active
<1>. QED
  BY <1>1, <1>2, <1>3, <1>4, <1>5, <1>6, <1>7

LEMMA ClientAttends ==
    ASSUME TypeOK, Batched, Attending,
           \/ followup \/ steer \/ \E keepInbox \in BOOLEAN : cancel(keepInbox)
           \/ \E i \in DOMAIN agent.nextTurn : remove(i)
           \/ MaintenanceBegins \/ MaintenanceEnds
    PROVE  Attending'
<1>t. /\ goal \in Goals /\ driver \in Drivers /\ agent \in Agents
      /\ agent.nextTurn \in Seq({Prompt} \union Rounds)
  BY DEF TypeOK, Agents
(* Only what is awaited can change, and only by sealing the round.         *)
<1>k. ASSUME UNCHANGED goal, Idle' => Idle,
             driver'.at = driver.at, driver'.run = driver.run, driver'.flushes = driver.flushes,
             driver'.requested = driver.requested,
             driver'.needsCheckpoint = driver.needsCheckpoint,
             driver'.competingQueued = driver.competingQueued,
             Idle' /\ Awaited => Awaited'
      PROVE  Attending'
  BY <1>k DEF Attending, ReadyToDrive, Active
<1>l. \A s : LET d == Discarded(driver, s) IN
           /\ d.at = driver.at /\ d.run = driver.run /\ d.flushes = driver.flushes
           /\ d.requested = driver.requested
           /\ d.needsCheckpoint = driver.needsCheckpoint
           /\ d.competingQueued = driver.competingQueued
  BY <1>t DEF Discarded, Drivers
<1>s. \A d : Sealed(d) <=> d.attempt # None /\ d.attempt.cancelled
  BY DEF Sealed
<1>1. CASE followup
  <2>1. /\ driver'.competingQueued /\ driver'.at = driver.at /\ driver'.run = driver.run
        /\ driver'.flushes = driver.flushes
    BY <1>1, <1>t DEF followup, Competing, Drivers
  <2>. QED
    BY <2>1 DEF Attending, ReadyToDrive
<1>2. CASE steer
  <2>1. /\ UNCHANGED <<goal, driver>> /\ agent'.nextTurn = agent.nextTurn
        /\ agent.wake => agent'.wake
        /\ Idle' => Idle
    BY <1>2, <1>t DEF steer, Woken, Agents, Idle
  <2>. QED
    BY <2>1, <1>k DEF Awaited
<1>3. ASSUME NEW keepInbox \in BOOLEAN, cancel(keepInbox)
      PROVE  Attending'
  <2>1. CASE keepInbox
    <3>1. /\ UNCHANGED <<goal, driver>> /\ agent'.nextTurn = agent.nextTurn
          /\ agent'.wake = agent.wake /\ (Idle' => Idle)
      BY <1>3, <2>1, <1>t DEF cancel, Agents, Idle
    <3>. QED
      BY <3>1, <1>k DEF Awaited
  <2>2. CASE ~keepInbox
    <3>1. /\ UNCHANGED goal /\ driver' = Discarded(driver, agent.nextTurn)
          /\ Idle' => Idle
      BY <1>3, <2>2, <1>t DEF cancel, Agents, Idle
    <3>2. Awaited => Awaited'
      <4>1. CASE Sealed(driver)
        BY <4>1, <3>1, <1>t, <1>s, SealKept DEF Awaited
      <4>2. CASE driver.attempt # None /\ \E m \in ToSet(agent.nextTurn) : SameQueued(m, driver.attempt)
        <5>1. driver' = [driver EXCEPT !.attempt.cancelled = TRUE]
          BY <4>2, <3>1 DEF Discarded
        <5>2. driver.attempt \in Attempts
          BY <4>2, <1>t, DriversTyped
        <5>3. driver'.attempt = [driver.attempt EXCEPT !.cancelled = TRUE]
          BY <5>1, <1>t DEF Drivers
        <5>4. driver'.attempt # None /\ driver'.attempt.cancelled
          BY <5>2, <5>3 DEF Attempts, None
        <5>. QED
          BY <5>4 DEF Awaited
      <4>. QED
        BY <4>1, <4>2, <1>s DEF Awaited
    <3>. QED
      BY <3>1, <3>2, <1>k, <1>l
  <2>. QED
    BY <2>1, <2>2
<1>4. ASSUME NEW i \in DOMAIN agent.nextTurn, remove(i)
      PROVE  Attending'
  <2>. DEFINE taken == agent.nextTurn[i]
              discarded == <<taken>>
  <2>1. /\ UNCHANGED goal /\ driver' = Discarded(driver, discarded)
        /\ agent'.nextTurn = RemoveAt(agent.nextTurn, i)
        /\ agent'.wake = agent.wake /\ (Idle' => Idle)
    BY <1>4, <1>t DEF remove, Agents, Idle
  <2>2. ToSet(agent.nextTurn) \subseteq ToSet(agent'.nextTurn) \union {taken}
    BY <2>1, <1>t, HeldRemoved
  <2>3. ToSet(discarded) = {taken}
    <3>1. taken \in {Prompt} \union Rounds
      BY <1>t, ElementOfSeq, LenProperties
    <3>. QED
      BY <3>1, HeldOne
  <2>. HIDE DEF taken, discarded
  <2>4. Awaited => Awaited'
    <3>1. CASE Sealed(driver)
      BY <3>1, <2>1, <1>t, <1>s, SealKept DEF Awaited
    <3>2. CASE driver.attempt # None /\ SameQueued(taken, driver.attempt)
      <4>1. driver' = [driver EXCEPT !.attempt.cancelled = TRUE]
        BY <3>2, <2>1, <2>3 DEF Discarded
      <4>2. driver.attempt \in Attempts
        BY <3>2, <1>t, DriversTyped
      <4>3. driver'.attempt = [driver.attempt EXCEPT !.cancelled = TRUE]
        BY <4>1, <1>t DEF Drivers
      <4>4. driver'.attempt # None /\ driver'.attempt.cancelled
        BY <4>2, <4>3 DEF Attempts, None
      <4>. QED
        BY <4>4 DEF Awaited
    <3>3. CASE ~SameQueued(taken, driver.attempt)
      <4>1. driver' = driver
        BY <3>3, <2>1, <2>3 DEF Discarded
      <4>. QED
        BY <3>3, <4>1, <2>1, <2>2 DEF Awaited
    <3>. QED
      BY <3>1, <3>2, <3>3, <1>s DEF Awaited
  <2>. QED
    BY <2>1, <2>4, <1>k, <1>l
<1>5. CASE MaintenanceBegins
  <2>1. /\ UNCHANGED <<goal, driver>> /\ agent'.nextTurn = agent.nextTurn
        /\ agent'.wake = agent.wake /\ Idle
    BY <1>5, <1>t DEF MaintenanceBegins, Agents, Idle
  <2>. QED
    BY <2>1, <1>k DEF Awaited
<1>6. CASE MaintenanceEnds
  <2>1. /\ UNCHANGED <<goal, driver>> /\ agent'.nextTurn = agent.nextTurn
        /\ agent'.wake = agent.wake /\ Idle
    BY <1>6, <1>t DEF MaintenanceEnds, Agents, Idle
  <2>. QED
    BY <2>1, <1>k DEF Awaited
<1>. QED
  BY <1>1, <1>2, <1>3, <1>4, <1>5, <1>6

LEMMA AttendingStep ==
    ASSUME TypeOK, Batched, Attending, [Next]_vars
    PROVE  Attending'
<1>t. /\ goal \in Goals /\ driver \in Drivers /\ agent \in Agents
      /\ agent.nextTurn \in Seq({Prompt} \union Rounds)
  BY DEF TypeOK, Agents
<1>d. [driver EXCEPT !.attempt = None] \in Drivers
  BY <1>t, DriversTyped
<1>1. CASE UNCHANGED vars
  BY <1>1 DEF vars, Attending, ReadyToDrive, Idle, Active, Awaited
<1>2. CASE DriveLeaves \/ DriveFlushes \/ DriveSettles \/ DriveBlocks \/ DriveReserves
               \/ FlushResolves \/ FlushFails
  BY <1>2, DriveAttends
<1>3. CASE \/ \E max \in Caps : create(max) \/ edit(max)
           \/ pause \/ resume \/ complete \/ clear
  <2>1. driver' = GoalChanged(driver)
    BY <1>3 DEF create, edit, pause, resume, complete, clear, Change
  <2>. QED
    BY <2>1, <1>t, RequestAttends
<1>4. CASE \/ followup \/ steer \/ \E keepInbox \in BOOLEAN : cancel(keepInbox)
           \/ \E i \in DOMAIN agent.nextTurn : remove(i)
           \/ MaintenanceBegins \/ MaintenanceEnds
  BY <1>4, ClientAttends
<1>5. CASE Claim
  <2>1. PICK first \in Seq({Prompt} \union Rounds), left \in Seq({Prompt} \union Rounds) :
             Takes(first, left)
    BY <1>5, ClaimTakes
  <2>2. /\ agent'.phase = "assemble" /\ driver'.at = driver.at /\ driver'.run = driver.run
        /\ driver'.flushes = driver.flushes
    BY <1>t, <2>1 DEF Takes, ClaimedBy, Agents, Drivers
  <2>. QED
    BY <2>2, BusyAttends DEF Idle
<1>6. CASE AssembleThrows \/ OuterHookThrows \/ StepEnds
  <2>1. UNCHANGED driver /\ \E r : agent' = Ends(agent, r)
    BY <1>6 DEF AssembleThrows, OuterHookThrows, StepEnds, Aborts, Fails
  <2>. QED
    BY <2>1, <1>t, BusyAttends DEF Ends, Idle, Agents
<1>7. CASE PassesBy \/ OthersReject \/ StepClaims \/ NextTurn \/ \E m \in GoalRound(agent.batch) : Passes(m)
  <2>1. UNCHANGED driver /\ agent'.phase \in {"enter", "assemble", "downstream",
                                              "rejected", "retire", "claim"}
    BY <1>7, <1>t DEF PassesBy, OthersReject, StepClaims, NextTurn, Passes, Agents
  <2>. QED
    BY <2>1, BusyAttends DEF Idle
<1>8. ASSUME NEW m \in GoalRound(agent.batch), IsStale(m)
      PROVE  Attending'
  <2>. DEFINE d == IF SameQueued(m, driver.attempt) THEN [driver EXCEPT !.attempt = None]
                   ELSE driver
  <2>1. /\ d \in Drivers /\ d.at = driver.at /\ d.run = driver.run /\ d.flushes = driver.flushes
    BY <1>t, <1>d DEF Drivers
  <2>2. driver' = RequestDrive(d)
    BY <1>8 DEF IsStale, Drops
  <2>. HIDE DEF d
  <2>. QED
    BY <2>1, <2>2, RequestAttends
<1>9. ASSUME NEW m \in GoalRound(agent.batch),
             DownstreamRejects(m) \/ DownstreamEnters(m)
      PROVE  Attending'
  <2>. DEFINE d == [driver EXCEPT !.attempt = None]
  <2>1. /\ d \in Drivers /\ d.at = driver.at /\ d.run = driver.run /\ d.flushes = driver.flushes
    BY <1>t, <1>d DEF Drivers
  <2>2. \/ driver' = RequestDrive(d) \/ driver' = GoalChanged(d)
        \/ driver' = d \/ driver' = driver
    BY <1>9 DEF DownstreamRejects, DownstreamEnters, Drops
  <2>3. ~Idle'
    <3>1. agent'.phase \in {"rejected", "end", "enter"}
      BY <1>9, <1>t DEF DownstreamRejects, DownstreamEnters, Drops, Restored, Ends, Agents
    <3>. QED
      BY <3>1 DEF Idle
  <2>. HIDE DEF d
  <2>. QED
    BY <2>1, <2>2, <2>3, RequestAttends, BusyAttends
<1>10. CASE DownstreamThrows
  <2>1. /\ agent'.phase = "end"
        /\ driver' = driver \/ driver' = RequestDrive([driver EXCEPT !.attempt = None])
    BY <1>10, <1>t DEF DownstreamThrows, Aborts, Fails, Ends, Agents
  <2>. DEFINE d == [driver EXCEPT !.attempt = None]
  <2>2. /\ d \in Drivers /\ d.at = driver.at /\ d.run = driver.run /\ d.flushes = driver.flushes
    BY <1>t, <1>d DEF Drivers
  <2>3. driver' = driver \/ driver' = RequestDrive(d)
    BY <2>1
  <2>. HIDE DEF d
  <2>. QED
    BY <2>1, <2>2, <2>3, RequestAttends, BusyAttends DEF Idle
<1>11. CASE Rejected
  <2>1. UNCHANGED driver /\ agent'.phase = "end"
    BY <1>11, <1>t DEF Rejected, Ends, Agents
  <2>. QED
    BY <2>1, BusyAttends DEF Idle
<1>12. CASE Enter
  <2>1. /\ agent'.phase \in {"end", "step"} /\ driver'.at = driver.at
        /\ driver'.run = driver.run /\ driver'.flushes = driver.flushes
    BY <1>12, <1>t DEF Enter, Aborts, Ends, Agents, Drivers
  <2>. QED
    BY <2>1, BusyAttends DEF Idle
<1>13. CASE TurnEnd
  <2>1. /\ agent'.phase \in {"gap", "retire"} /\ driver'.at = driver.at
        /\ driver'.run = driver.run /\ driver'.flushes = driver.flushes
    BY <1>13, <1>t DEF TurnEnd, Agents, Drivers
  <2>. QED
    BY <2>1, BusyAttends DEF Idle
<1>14. CASE Retire
  <2>. DEFINE d == [driver EXCEPT !.competingQueued = FALSE]
              e == [d EXCEPT !.attempt = None]
  <2>1. /\ d \in Drivers /\ d.at = driver.at /\ d.run = driver.run /\ d.flushes = driver.flushes
        /\ e \in Drivers /\ e.at = driver.at /\ e.run = driver.run /\ e.flushes = driver.flushes
    BY <1>t DEF Drivers
  <2>2. \/ driver' = GoalChanged(e)
        \/ driver' = [Flushing(e) EXCEPT !.run = TRUE, !.requested = TRUE]
        \/ driver' = RequestDrive(d)
    BY <1>14 DEF Retire
  <2>. HIDE DEF d, e
  <2>3. CASE driver' = [Flushing(e) EXCEPT !.run = TRUE, !.requested = TRUE]
    <3>1. Flushing(e) \in Drivers
      BY <2>1, DriversTyped
    <3>2. driver'.flushes > 0 /\ ~driver'.needsCheckpoint
      BY <2>1, <2>3, <3>1, RunsReturn DEF Drivers
    <3>. QED
      BY <3>2 DEF Attending
  <2>. QED
    BY <2>1, <2>2, <2>3, RequestAttends
<1>15. CASE Rewake
  <2>1. UNCHANGED <<goal, driver>>
    BY <1>15 DEF Rewake
  <2>2. CASE HasPending(agent)
    <3>1. agent'.phase = "claim"
      BY <1>15, <2>2, <1>t DEF Rewake, Agents
    <3>. QED
      BY <2>1, <3>1, BusyAttends DEF Idle
  <2>3. CASE ~HasPending(agent)
    <3>1. ToSet(agent.nextTurn) = {}
      BY <2>3, NothingHeld DEF HasPending
    <3>2. Awaited => Awaited'
      BY <2>1, <3>1 DEF Awaited
    <3>3. Idle' => Idle
      BY <1>15 DEF Rewake, Idle
    <3>. QED
      BY <2>1, <3>2, <3>3 DEF Attending, ReadyToDrive, Active
  <2>. QED
    BY <2>2, <2>3
<1>. QED
  BY <1>1, <1>2, <1>3, <1>4, <1>5, <1>6, <1>7, <1>8, <1>9, <1>10, <1>11, <1>12, <1>13, <1>14,
     <1>15 DEF Next

------------------------------------------------------------------------------
(* Steering messages are kept, in their order.                             *)

LEMMA NothingInLine ==
    /\ Increasing(<<>>) /\ Steers(<<>>) = {}
    /\ \A s : Before(<<>>, s) /\ Before(s, <<>>)
  BY NothingHeld DEF Increasing, Before

LEMMA BothIncrease ==
    ASSUME NEW s \in Seq(Messages), NEW t \in Seq(Messages),
           Increasing(s), Increasing(t), Before(s, t)
    PROVE  Increasing(s \o t)
<1>1. /\ Len(s) \in Nat /\ DOMAIN s = 1..Len(s) /\ Len(t) \in Nat /\ DOMAIN t = 1..Len(t)
  BY LenProperties
<1>2. /\ DOMAIN (s \o t) = 1..Len(s) + Len(t)
      /\ \A i \in 1..Len(s) + Len(t) :
            (s \o t)[i] = IF i <= Len(s) THEN s[i] ELSE t[i - Len(s)]
  BY ConcatProperties, LenProperties
<1>3. ASSUME NEW i \in DOMAIN (s \o t), NEW j \in DOMAIN (s \o t), i < j,
             (s \o t)[i].kind = "steer", (s \o t)[j].kind = "steer"
      PROVE  (s \o t)[i].n < (s \o t)[j].n
  <2>1. CASE j <= Len(s)
    <3>1. i \in DOMAIN s /\ j \in DOMAIN s /\ (s \o t)[i] = s[i] /\ (s \o t)[j] = s[j]
      BY <1>1, <1>2, <1>3, <2>1
    <3>. QED
      BY <1>3, <3>1 DEF Increasing
  <2>2. CASE i > Len(s)
    <3>1. /\ i - Len(s) \in DOMAIN t /\ j - Len(s) \in DOMAIN t /\ i - Len(s) < j - Len(s)
          /\ (s \o t)[i] = t[i - Len(s)] /\ (s \o t)[j] = t[j - Len(s)]
      BY <1>1, <1>2, <1>3, <2>2
    <3>. QED
      BY <1>3, <3>1 DEF Increasing
  <2>3. CASE i <= Len(s) /\ j > Len(s)
    <3>1. /\ i \in DOMAIN s /\ j - Len(s) \in DOMAIN t
          /\ (s \o t)[i] = s[i] /\ (s \o t)[j] = t[j - Len(s)]
      BY <1>1, <1>2, <1>3, <2>3
    <3>2. s[i] \in ToSet(s) /\ t[j - Len(s)] \in ToSet(t)
      BY <3>1 DEF ToSet
    <3>. QED
      BY <1>3, <3>1, <3>2 DEF Before
  <2>. QED
    BY <1>1, <1>2, <1>3, <2>1, <2>2, <2>3
<1>. QED
  BY <1>3 DEF Increasing

LEMMA DropBatch ==
    ASSUME NEW e, NEW b, NEW w, NEW d, NEW n, InLine(e, b, w, d, n)
    PROVE  InLine(e, <<>>, w, d \union Steers(b), n)
  BY NothingInLine DEF InLine

LEMMA DropWaiting ==
    ASSUME NEW e, NEW b, NEW w, NEW d, NEW n, InLine(e, b, w, d, n)
    PROVE  InLine(e, b, <<>>, d \union Steers(w), n)
  BY NothingInLine DEF InLine

LEMMA ClaimInLine ==
    ASSUME NEW e, NEW w \in Seq(Messages), NEW d, NEW n, InLine(e, <<>>, w, d, n),
           NEW f \in Seq(Messages), \A m \in ToSet(f) : m.kind # "steer"
    PROVE  InLine(e, w \o f, <<>>, d, n)
<1>1. /\ ToSet(w \o f) = ToSet(w) \union ToSet(f)
      /\ Steers(w \o f) = Steers(w)
  BY HeldByBoth DEF Steers
<1>2. Increasing(f)
  BY DEF Increasing, ToSet
<1>3. Before(w, f)
  BY DEF Before
<1>4. Increasing(w \o f)
  BY <1>2, <1>3, BothIncrease DEF InLine
<1>5. Before(e, w \o f)
  BY <1>1 DEF InLine, Before
<1>. QED
  BY <1>1, <1>4, <1>5, NothingInLine DEF InLine

LEMMA RestoreInLine ==
    ASSUME NEW e, NEW b \in Seq(Messages), NEW w \in Seq(Messages), NEW d, NEW n,
           InLine(e, b, w, d, n), GoalRound(b) # {},
           \A i \in DOMAIN b : i < Len(b) => b[i].kind = "steer"
    PROVE  InLine(e, <<>>, Others(b) \o w, d, n)
<1>1. /\ Others(b) \in Seq(Steerings)
      /\ Len(b) \in Nat \ {0} /\ Len(Others(b)) = Len(b) - 1
      /\ \A i \in 1..Len(b) - 1 : Others(b)[i] = b[i]
      /\ b[Len(b)] \in Rounds
  BY OthersAreSteerings
<1>2. DOMAIN b = 1..Len(b) /\ DOMAIN Others(b) = 1..Len(b) - 1 /\ Others(b) \in Seq(Messages)
  BY <1>1, LenProperties, SteeringsHaveNoRound
<1>3. Increasing(Others(b))
  BY <1>1, <1>2 DEF InLine, Increasing
<1>4. ToSet(Others(b)) \subseteq ToSet(b)
  BY <1>1, <1>2 DEF ToSet
<1>5. \A m \in ToSet(b) : m \in ToSet(Others(b)) \/ m \in Rounds
  <2>1. ASSUME NEW i \in DOMAIN b
        PROVE  b[i] \in ToSet(Others(b)) \/ b[i] \in Rounds
    <3>1. CASE i = Len(b)
      BY <1>1, <3>1
    <3>2. CASE i # Len(b)
      <4>1. i \in DOMAIN Others(b) /\ Others(b)[i] = b[i]
        BY <1>1, <1>2, <3>2
      <4>. QED
        BY <4>1 DEF ToSet
    <3>. QED
      BY <3>1, <3>2
  <2>. QED
    BY <2>1 DEF ToSet
<1>6. Steers(Others(b)) = Steers(b)
  <2>1. \A m \in Rounds : m.kind # "steer"
    BY DEF Rounds
  <2>. QED
    BY <1>4, <1>5, <2>1 DEF Steers
<1>7. Before(Others(b), w) /\ Before(e, Others(b))
  BY <1>4 DEF InLine, Before
<1>8. Increasing(Others(b) \o w)
  BY <1>2, <1>3, <1>7, BothIncrease DEF InLine
<1>9. /\ ToSet(Others(b) \o w) = ToSet(Others(b)) \union ToSet(w)
      /\ Steers(Others(b) \o w) = Steers(b) \union Steers(w)
  BY <1>2, <1>6, HeldByBoth
<1>10. Before(e, Others(b) \o w)
  BY <1>7, <1>9 DEF InLine, Before
<1>. QED
  BY <1>8, <1>9, <1>10, NothingInLine DEF InLine

LEMMA EnterInLine ==
    ASSUME NEW e \in Seq(Messages), NEW b \in Seq(Messages), NEW w, NEW d, NEW n,
           InLine(e, b, w, d, n)
    PROVE  InLine(e \o b, <<>>, w, d, n)
<1>1. /\ ToSet(e \o b) = ToSet(e) \union ToSet(b)
      /\ Steers(e \o b) = Steers(e) \union Steers(b)
  BY HeldByBoth
<1>2. Increasing(e \o b)
  BY BothIncrease DEF InLine
<1>3. Before(e \o b, w)
  BY <1>1 DEF InLine, Before
<1>. QED
  BY <1>1, <1>2, <1>3, NothingInLine DEF InLine

LEMMA SteerInLine ==
    ASSUME NEW e \in Seq(Messages), NEW b \in Seq(Messages), NEW w \in Seq(Messages), NEW d,
           NEW n \in Nat, InLine(e, b, w, d, n)
    PROVE  InLine(e, b, Append(w, Steering(n + 1)), d, n + 1)
<1>. DEFINE s == Steering(n + 1)
            last == <<s>>
<1>1. s \in Messages /\ s.kind = "steer" /\ s.n = n + 1
  BY DEF Steering, Steerings, Messages
<1>2. last \in Seq(Messages) /\ ToSet(last) = {s} /\ Append(w, s) = w \o last
      /\ DOMAIN last = {1}
  <2>. HIDE DEF s
  <2>. QED
    BY <1>1, HeldOne
<1>. HIDE DEF s, last
<1>3. Increasing(last)
  BY <1>2 DEF Increasing
<1>4. \A q \in {e, b, w} : \A m \in ToSet(q) : m.kind = "steer" => m.n \in 1..n
  BY DEF InLine, Steers
<1>5. Before(e, last) /\ Before(b, last) /\ Before(w, last)
  BY <1>1, <1>2, <1>4 DEF Before
<1>6. /\ ToSet(w \o last) = ToSet(w) \union {s}
      /\ Steers(w \o last) = Steers(w) \union {n + 1}
  <2>1. Steers(last) = {n + 1}
    BY <1>1, <1>2 DEF Steers
  <2>. QED
    BY <1>2, <2>1, HeldByBoth
<1>7. Increasing(w \o last)
  BY <1>2, <1>3, <1>5, BothIncrease DEF InLine
<1>8. Before(e, w \o last) /\ Before(b, w \o last)
  BY <1>2, <1>5, <1>6 DEF InLine, Before
<1>9. 1..n + 1 = 1..n \union {n + 1}
  OBVIOUS
<1>10. InLine(e, b, w \o last, d, n + 1)
  BY <1>6, <1>7, <1>8, <1>9 DEF InLine
<1>. QED
  BY <1>2, <1>10 DEF s

LEMMA OrderedStep ==
    ASSUME TypeOK, Batched, Ordered, [Next]_vars
    PROVE  Ordered'
<1>t. /\ agent \in Agents /\ history \in Histories
      /\ agent.batch \in Seq(Messages) /\ agent.nextTurn \in Seq({Prompt} \union Rounds)
      /\ agent.nextStep \in Seq(Messages) /\ agent.nextStep \in Seq(Steerings)
      /\ history.entered \in Seq(Messages) /\ history.steers \in Nat
  BY SteeringsHaveNoRound DEF TypeOK, Agents, Histories
<1>. DEFINE Same(a) == a.batch = agent.batch /\ a.nextStep = agent.nextStep
            Told == /\ history'.entered = history.entered /\ history'.dropped = history.dropped
                    /\ history'.steers = history.steers
<1>k. ASSUME Same(agent'), Told
      PROVE  Ordered'
  BY <1>k DEF Ordered
<1>l. ASSUME Lost(agent.batch), agent'.batch = <<>>, agent'.nextStep = agent.nextStep
      PROVE  Ordered'
  <2>1. /\ history'.entered = history.entered /\ history'.steers = history.steers
        /\ history'.dropped = history.dropped \union Steers(agent.batch)
    BY <1>l, <1>t DEF Lost, Histories
  <2>. QED
    BY <1>l, <2>1, DropBatch DEF Ordered
<1>f. ASSUME Aborts \/ Fails
      PROVE  Ordered'
  BY <1>f, <1>l, <1>t DEF Aborts, Fails, Ends, Agents
<1>r. ASSUME agent'.nextStep = Others(agent.batch) \o agent.nextStep, agent'.batch = <<>>, Told,
             GoalRound(agent.batch) # {}
      PROVE  Ordered'
  BY <1>r, <1>t, RestoreInLine DEF Ordered, Batched
<1>p. ASSUME NEW d, Drops(d), UNCHANGED history, GoalRound(agent.batch) # {}
      PROVE  Ordered'
  <2>1. agent'.nextStep = Others(agent.batch) \o agent.nextStep /\ agent'.batch = <<>>
    BY <1>p, <1>t DEF Drops, Restored, Agents
  <2>. QED
    BY <1>p, <2>1, <1>r
<1>1. CASE UNCHANGED vars
  BY <1>1, <1>k DEF vars
<1>2. CASE \/ DriveLeaves \/ DriveFlushes \/ DriveSettles \/ DriveBlocks \/ FlushResolves
           \/ FlushFails
  BY <1>2, <1>k DEF DriveLeaves, DriveFlushes, DriveSettles, DriveBlocks, FlushResolves, FlushFails
<1>3. CASE \/ DriveReserves \/ followup \/ MaintenanceBegins \/ MaintenanceEnds \/ PassesBy
           \/ NextTurn \/ Retire \/ Rewake
           \/ \E m \in GoalRound(agent.batch) : Passes(m)
           \/ \E i \in DOMAIN agent.nextTurn : remove(i)
  <2>1. Same(agent') /\ UNCHANGED history
    BY <1>3, <1>t DEF DriveReserves, followup, Woken, MaintenanceBegins, MaintenanceEnds, PassesBy,
       NextTurn, Retire, Rewake, Passes, remove, Agents
  <2>. QED
    BY <2>1, <1>k
<1>4. CASE \/ \E max \in Caps : create(max) \/ edit(max)
           \/ pause \/ resume \/ complete \/ clear
  <2>1. UNCHANGED agent
    BY <1>4 DEF create, edit, pause, resume, complete, clear, Operation
  <2>2. Trusted \/ UNCHANGED history
    BY <1>4 DEF create, edit, pause, resume, complete, clear
  <2>3. Told
    BY <2>2, <1>t DEF Trusted, Histories
  <2>. QED
    BY <2>1, <2>3, <1>k
<1>5. CASE steer
  <2>1. /\ agent'.batch = agent.batch
        /\ agent'.nextStep = Append(agent.nextStep, Steering(history.steers + 1))
    BY <1>5, <1>t DEF steer, Woken, Agents
  <2>2. /\ history'.entered = history.entered /\ history'.dropped = history.dropped
        /\ history'.steers = history.steers + 1
    BY <1>5, <1>t DEF steer, Histories
  <2>. QED
    BY <2>1, <2>2, <1>t, SteerInLine DEF Ordered
<1>6. ASSUME NEW keepInbox \in BOOLEAN, cancel(keepInbox)
      PROVE  Ordered'
  <2>1. CASE keepInbox
    <3>1. Same(agent') /\ UNCHANGED history
      BY <1>6, <2>1, <1>t DEF cancel, Agents
    <3>. QED
      BY <3>1, <1>k
  <2>2. CASE ~keepInbox
    <3>1. agent'.batch = agent.batch /\ agent'.nextStep = <<>>
      BY <1>6, <2>2, <1>t DEF cancel, Agents
    <3>2. /\ history'.entered = history.entered /\ history'.steers = history.steers
          /\ history'.dropped = history.dropped \union Steers(agent.nextStep)
      BY <1>6, <2>2, <1>t DEF cancel, Histories
    <3>. QED
      BY <3>1, <3>2, DropWaiting DEF Ordered
  <2>. QED
    BY <2>1, <2>2
<1>7. CASE Claim
  <2>1. PICK first \in Seq({Prompt} \union Rounds), left \in Seq({Prompt} \union Rounds) :
             Takes(first, left)
    BY <1>7, ClaimTakes
  <2>2. /\ agent'.batch = agent.nextStep \o first /\ agent'.nextStep = <<>>
        /\ UNCHANGED history /\ agent.batch = <<>>
    BY <1>7, <1>t, <2>1 DEF Takes, Claim, Batched, Agents
  <2>3. first \in Seq(Messages) /\ \A m \in ToSet(first) : m.kind # "steer"
    <3>1. {Prompt} \union Rounds \subseteq Messages
      BY DEF Messages
    <3>. QED
      BY <3>1, SeqMonotonic, HeldTyped, KindsApart
  <2>. QED
    BY <2>2, <2>3, <1>t, ClaimInLine DEF Ordered
<1>8. CASE AssembleThrows \/ DownstreamThrows \/ OuterHookThrows
  BY <1>8, <1>f DEF AssembleThrows, DownstreamThrows, OuterHookThrows
<1>9. ASSUME NEW m \in GoalRound(agent.batch), IsStale(m)
      PROVE  Ordered'
  BY <1>9, <1>p DEF IsStale
<1>10. ASSUME NEW m \in GoalRound(agent.batch), DownstreamRejects(m)
       PROVE  Ordered'
  BY <1>10, <1>l, <1>t DEF DownstreamRejects, Agents
<1>0. CASE OthersReject
  BY <1>0, <1>l, <1>t DEF OthersReject, Agents
<1>11. ASSUME NEW m \in GoalRound(agent.batch), DownstreamEnters(m)
       PROVE  Ordered'
  <2>1. CASE agent.aborted
    <3>1. /\ agent'.nextStep = Others(agent.batch) \o agent.nextStep /\ agent'.batch = <<>>
          /\ UNCHANGED history
      BY <1>11, <2>1, <1>t DEF DownstreamEnters, Restored, Ends, Agents
    <3>. QED
      BY <3>1, <1>r
  <2>2. CASE ~agent.aborted /\ ValidReservation(m)
    <3>1. Same(agent') /\ UNCHANGED history
      BY <1>11, <2>2, <1>t DEF DownstreamEnters, Agents
    <3>. QED
      BY <3>1, <1>k
  <2>3. CASE ~agent.aborted /\ ~ValidReservation(m)
    BY <1>11, <2>3, <1>p DEF DownstreamEnters
  <2>. QED
    BY <2>1, <2>2, <2>3
<1>12. CASE Rejected
  <2>1. Same(agent') /\ UNCHANGED history
    BY <1>12, <1>t DEF Rejected, Ends, Batched, Agents
  <2>. QED
    BY <2>1, <1>k
<1>13. CASE Enter
  <2>1. CASE agent.aborted
    BY <1>13, <2>1, <1>f DEF Enter
  <2>2. CASE ~agent.aborted /\ agent.batch = <<>>
    <3>1. Same(agent') /\ UNCHANGED history
      BY <1>13, <2>2, <1>t DEF Enter, Ends, Agents
    <3>. QED
      BY <3>1, <1>k
  <2>3. CASE ~agent.aborted /\ agent.batch # <<>>
    <3>1. agent'.batch = <<>> /\ agent'.nextStep = agent.nextStep
      BY <1>13, <2>3, <1>t DEF Enter, Agents
    <3>2. /\ history'.entered = history.entered \o agent.batch
          /\ history'.dropped = history.dropped /\ history'.steers = history.steers
      BY <1>13, <2>3, <1>t DEF Enter, Histories
    <3>. QED
      BY <3>1, <3>2, <1>t, EnterInLine DEF Ordered
  <2>. QED
    BY <2>1, <2>2, <2>3
<1>14. CASE StepClaims
  <2>1. /\ agent'.batch = agent.nextStep /\ agent'.nextStep = <<>> /\ UNCHANGED history
        /\ agent.batch = <<>>
    BY <1>14, <1>t DEF StepClaims, Batched, Agents
  <2>2. <<>> \in Seq(Messages) /\ agent.nextStep \o <<>> = agent.nextStep /\ ToSet(<<>>) = {}
    BY <1>t, EmptySeq, ConcatEmptySeq, NothingHeld
  <2>. QED
    BY <2>1, <2>2, <1>t, ClaimInLine DEF Ordered
<1>15. CASE StepEnds
  <2>1. CASE Aborts \/ Fails
    BY <2>1, <1>f
  <2>2. CASE UNCHANGED history /\ \E r : agent' = Ends(agent, r)
    <3>1. Same(agent')
      BY <1>15, <2>2, <1>t DEF StepEnds, Ends, Batched, Agents
    <3>. QED
      BY <2>2, <3>1, <1>k
  <2>. QED
    BY <1>15, <2>1, <2>2 DEF StepEnds
<1>16. CASE TurnEnd
  <2>1. Same(agent') /\ Told
    BY <1>16, <1>t DEF TurnEnd, Agents, Histories
  <2>. QED
    BY <2>1, <1>k
<1>. QED
  BY <1>0, <1>1, <1>2, <1>3, <1>4, <1>5, <1>6, <1>7, <1>8, <1>9, <1>10, <1>11, <1>12, <1>13, <1>14,
     <1>15, <1>16 DEF Next

------------------------------------------------------------------------------
(* The theorems.                                                           *)

LEMMA IInvInit == Init => IInv
<1>. SUFFICES ASSUME Init PROVE IInv
  OBVIOUS
<1>1. TypeOK /\ Batched
  BY TypeInit
<1>2. Replaying
  BY NothingHeld DEF Init, Replaying, NoGoal
<1>3. Halting /\ Attending
  BY DEF Init, Halting, EndTold, Attending, NoGoal, Active
<1>4. Ordered
  <2>1. 1..0 = {}
    OBVIOUS
  <2>. QED
    BY <2>1, NothingInLine DEF Init, Ordered, InLine
<1>. QED
  BY <1>1, <1>2, <1>3, <1>4 DEF IInv

LEMMA IInvStep == IInv /\ [Next]_vars => IInv'
<1>. SUFFICES ASSUME IInv, [Next]_vars PROVE IInv'
  OBVIOUS
<1>1. TypeOK' /\ Batched'
  BY TypeStep, BatchedStep DEF IInv
<1>2. Replaying' /\ Halting' /\ Attending' /\ Ordered'
  BY <1>1, ReplayingStep, HaltingStep, AttendingStep, OrderedStep DEF IInv
<1>. QED
  BY <1>1, <1>2 DEF IInv

(* The inductive invariant holds: the values of the records, the shape of  *)
(* a batch, and what each of the four properties rests on.                 *)
THEOREM IInvHolds == Spec => []IInv
  BY IInvInit, IInvStep, PTL DEF Spec

(* validReservation: unless another hook awaits behind the driver's second *)
(* check, every round that enters is the goal's next, and the log folds.   *)
THEOREM RoundsAlwaysReplay == Spec => []RoundsReplay
<1>1. IInv => RoundsReplay
  BY DEF IInv, Replaying, RoundsReplay
<1>. QED
  BY <1>1, IInvHolds, PTL

(* restoreOtherClaimed: steering messages enter in order, none twice, and  *)
(* none is lost but by a cancellation, a failed turn or another hook.      *)
THEOREM SteersAreKept == Spec => []SteersKept
<1>1. IInv => SteersKept
  BY DEF IInv, Ordered, InLine, SteersKept
<1>. QED
  BY <1>1, IInvHolds, PTL

(* turn/end, agent/error, the idle status: after a halt no round enters    *)
(* until a human creates or resumes the goal.                              *)
THEOREM HaltedGoalsStop == Spec => HaltStops
<1>1. ASSUME IInv, [Next]_vars
      PROVE  [goal'.started > goal.started => ~history.halted]_vars
  <2>1. goal \in Goals /\ goal' \in Goals
    BY <1>1, IInvStep DEF IInv, TypeOK
  <2>2. CASE Enter
    <3>1. goal' = goal \/ (GoalRound(agent.batch) # {} /\ ~agent.aborted /\ agent.phase = "enter")
      BY <2>2 DEF Enter
    <3>. QED
      BY <1>1, <2>1, <3>1 DEF IInv, Halting, Goals
  <2>3. CASE goal'.started <= goal.started
    BY <2>1, <2>3 DEF Goals
  <2>. QED
    BY <1>1, <2>2, <2>3, GoalStep DEF IInv
<1>. QED
  BY <1>1, IInvHolds, PTL DEF Spec, HaltStops

(* requestDrive, retire, the idle status: an idle agent does not forget an *)
(* armed goal.                                                             *)
THEOREM ArmedGoalsAreDriven == Spec => []ArmedIsDriven
<1>1. ASSUME IInv
      PROVE  ArmedIsDriven
  <2>1. goal.armed => goal.phase = "active"
    BY <1>1 DEF IInv, Halting
  <2>2. ASSUME Quiet, agent.phase = "idle", Active(goal), ~(driver.flushes > 0),
               ~driver.competingQueued
        PROVE  driver.attempt # None /\ driver.attempt.cancelled
    <3>1. driver.at = "none" /\ ~agent.wake
      BY <2>2, <1>1 DEF Quiet, AgentMoves
    <3>2. driver.flushes = 0 /\ ReadyToDrive
      BY <2>2, <1>1 DEF IInv, TypeOK, Drivers, ReadyToDrive, Idle
    <3>. QED
      BY <1>1, <2>2, <3>1, <3>2 DEF IInv, Attending, Awaited
  <2>. QED
    BY <1>1, <2>1, <2>2 DEF IInv, ArmedIsDriven
<1>. QED
  BY <1>1, IInvHolds, PTL
===============================================================================
