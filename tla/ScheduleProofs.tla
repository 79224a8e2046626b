---------------------------- MODULE ScheduleProofs ----------------------------
(***************************************************************************)
(* Proofs about the reminders of one session, for logs of every length and *)
(* any delays, interval and inputs: the log always folds, what a tool      *)
(* confirmed survives, no occurrence is delivered twice, and an active     *)
(* reminder is looked at again.                                            *)
(***************************************************************************)
EXTENDS Schedule, SequenceTheorems, FiniteSetTheorems, WellFoundedInduction, TLAPS

------------------------------------------------------------------------------
(* The inductive invariant.                                                *)

(* At most one drive and one tool are in the queue, and only its head is   *)
(* under way.                                                              *)
Queueing ==
    \/ queue = <<>> /\ run.is = "none" /\ tool.is = "none"
    \/ queue = <<"drive">> /\ run.is # "none" /\ tool.is = "none"
    \/ queue = <<"tool">> /\ run.is = "none" /\ tool.is # "none"
    \/ queue = <<"drive", "tool">> /\ run.is # "none" /\ tool.is = "queued"
    \/ queue = <<"tool", "drive">> /\ run.is = "queued" /\ tool.is # "none"

(* Maintenance is that of the drive, and a tool runs in a turn.            *)
Phased ==
    /\ phase = "maintenance" <=> run.is = "maintenance"
    /\ tool.is # "none" => phase = "turn"

(* What a flush will make durable is in the log.                           *)
Marked ==
    /\ run.is \in {"preflight", "barrier"} => run.mark <= Len(log)
    /\ tool.is \in {"preflight", "barrier"} => tool.mark <= Len(log)

(* The change a tool has made is in what its second flush covers; what it  *)
(* confirmed is durable.                                                   *)
Logged(change, n) == \E i \in 1..n : log[i] = change
Kept ==
    /\ \A change \in confirmed : Logged(change, durable)
    /\ tool.is = "barrier" => Logged(tool.change, tool.mark) /\ tool.change.is \in Changing

(* Nothing was claimed from an empty inbox.                                *)
Reminders == [id : Nat, at : Nat]
Posted(s) == \A n \in 0..Len(s) : Inboxes(s)[n] \in Seq(SUBSET Reminders)

Structure == TypeOK /\ Queueing /\ Phased /\ Marked /\ Kept /\ Posted(log)

(* A drive that leaves its maintenance without a barrier has set the timer *)
(* for what is active, or was asked for again, or gave up.                 *)
Attended ==
    /\ ActiveIsAttended
    /\ run.is = "maintenance" /\ ~run.sent /\ Fold(log).active # {} =>
          timer \/ requested \/ gaveUp \/ faulted \/ stopping

(* What reminders the first n events have put before the user, or will.    *)
Told(s, n, r) == \E i \in 1..n : s[i].is = "message" /\ r \in s[i].reminders
Waiting(box, r) == \E k \in DOMAIN box : r \in box[k]

(* After n events, between a dispatch and the follow-up before it: nothing *)
(* was told twice or waits to be, and an active record is past all that    *)
(* was told of it or waits.                                                *)
Disjoint(s, n) ==
    \A i, j \in 1..n : s[i].is = "message" /\ s[j].is = "message" /\ i # j =>
        s[i].reminders \intersect s[j].reminders = {}
Apart(box) == \A k, l \in DOMAIN box : k # l => box[k] \intersect box[l] = {}
Ahead(f, r) == r.id <= f.seen /\ \A record \in f.active : record.id = r.id => r.at < record.at

FreshAt(s, n, f, box) ==
    /\ Disjoint(s, n) /\ Apart(box)
    /\ \A r : Waiting(box, r) => ~Told(s, n, r) /\ Ahead(f, r)
    /\ \A r : Told(s, n, r) => Ahead(f, r)

Whole(s, n) == n = Len(s) \/ s[n + 1].is # "dispatch"
Fresh(s) == \A n \in 0..Len(s) : Whole(s, n) => FreshAt(s, n, Folds(s)[n], Inboxes(s)[n])

IInv ==
    /\ Structure
    /\ Fold(log).ok /\ Attended
    /\ ~unrecorded => Fresh(log)

------------------------------------------------------------------------------
(* Induction, from the least element of a set of counterexamples.          *)

LEMMA Induction ==
    ASSUME NEW T, 0 \in T, \A n \in Nat : n \in T => n + 1 \in T
    PROVE  Nat \subseteq T
<1>. DEFINE R == OpToRel(<, Nat)
            U == Nat \ T
<1>. SUFFICES ASSUME U # {} PROVE FALSE
  OBVIOUS
<1>1. IsWellFoundedOn(R, Nat)
  BY NatLessThanWellFounded
<1>2. \A x, y \in Nat : x < y => <<x, y>> \in R
  BY DEF OpToRel
<1>3. U \subseteq Nat
  OBVIOUS
<1>. HIDE DEF R
<1>4. PICK x \in U : \A y \in U : ~(<<y, x>> \in R)
  <2>. HIDE DEF U
  <2>. QED
    BY <1>1, <1>3, WFMin
<1>5. x # 0 /\ x \in Nat
  BY <1>4
<1>6. x - 1 \in Nat /\ x - 1 < x
  BY <1>5
<1>7. x - 1 \notin U
  BY <1>2, <1>4, <1>5, <1>6
<1>8. x - 1 \in T
  BY <1>6, <1>7
<1>9. x - 1 + 1 = x
  BY <1>5
<1>. QED
  BY <1>4, <1>6, <1>8, <1>9

(* The folds are what their recursive definitions say.                     *)
LEMMA FoldsUnfold ==
    ASSUME NEW s, Len(s) \in Nat
    PROVE  /\ Folds(s)[0] = Empty
           /\ \A k \in 1..Len(s) : Folds(s)[k] = Folded(Folds(s)[k - 1], s[k])
<1>. DEFINE Sofar(g, n) ==
               g = [k \in 0..n |-> IF k = 0 THEN Empty ELSE Folded(g[k - 1], s[k])]
            T == {n \in Nat : \E g : Sofar(g, n)}
<1>1. 0 \in T
  <2>1. Sofar([k \in 0..0 |-> Empty], 0)
    OBVIOUS
  <2>. QED
    BY <2>1
<1>2. ASSUME NEW n \in Nat, n \in T
      PROVE  n + 1 \in T
  <2>1. PICK g : Sofar(g, n)
    BY <1>2
  <2>. DEFINE h == [k \in 0..n + 1 |-> IF k = n + 1 THEN Folded(g[n], s[n + 1]) ELSE g[k]]
  <2>2. \A k \in 0..n : h[k] = g[k]
    OBVIOUS
  <2>3. \A k \in 0..n + 1 : h[k] = IF k = 0 THEN Empty ELSE Folded(h[k - 1], s[k])
    <3>1. h[n + 1] = Folded(h[n], s[n + 1])
      BY <2>2
    <3>2. ASSUME NEW k \in 0..n
          PROVE  h[k] = IF k = 0 THEN Empty ELSE Folded(h[k - 1], s[k])
      <4>1. g[k] = IF k = 0 THEN Empty ELSE Folded(g[k - 1], s[k])
        BY <2>1
      <4>2. k = 0 \/ h[k - 1] = g[k - 1]
        BY <2>2
      <4>. QED
        BY <2>2, <4>1, <4>2
    <3>3. n + 1 # 0 /\ n + 1 - 1 = n
      OBVIOUS
    <3>4. \A k \in 0..n + 1 : k \in 0..n \/ k = n + 1
      OBVIOUS
    <3>. HIDE DEF h
    <3>5. ASSUME NEW k \in 0..n + 1
          PROVE  h[k] = IF k = 0 THEN Empty ELSE Folded(h[k - 1], s[k])
      <4>1. CASE k = n + 1
        BY <3>1, <3>3, <4>1
      <4>2. CASE k \in 0..n
        BY <3>2, <4>2
      <4>. QED
        BY <3>4, <4>1, <4>2
    <3>. QED
      BY <3>5
  <2>. HIDE DEF h
  <2>4. Sofar(h, n + 1)
    <3>1. h = [k \in 0..n + 1 |-> h[k]]
      BY DEF h
    <3>. QED
      BY <2>3, <3>1
  <2>. QED
    BY <2>4
<1>3. Len(s) \in T
  <2>. HIDE DEF T
  <2>. QED
    BY <1>1, <1>2, Induction
<1>4. PICK g : Sofar(g, Len(s))
  BY <1>3
<1>5. Sofar(Folds(s), Len(s))
  BY <1>4 DEF Folds
<1>. QED
  BY <1>5

LEMMA InboxesUnfold ==
    ASSUME NEW s, Len(s) \in Nat
    PROVE  /\ Inboxes(s)[0] = <<>>
           /\ \A k \in 1..Len(s) : Inboxes(s)[k] = Spliced(Inboxes(s)[k - 1], s[k])
<1>. DEFINE Sofar(g, n) ==
               g = [k \in 0..n |-> IF k = 0 THEN <<>> ELSE Spliced(g[k - 1], s[k])]
            T == {n \in Nat : \E g : Sofar(g, n)}
<1>1. 0 \in T
  <2>1. Sofar([k \in 0..0 |-> <<>>], 0)
    OBVIOUS
  <2>. QED
    BY <2>1
<1>2. ASSUME NEW n \in Nat, n \in T
      PROVE  n + 1 \in T
  <2>1. PICK g : Sofar(g, n)
    BY <1>2
  <2>. DEFINE h == [k \in 0..n + 1 |-> IF k = n + 1 THEN Spliced(g[n], s[n + 1]) ELSE g[k]]
  <2>2. \A k \in 0..n : h[k] = g[k]
    OBVIOUS
  <2>3. \A k \in 0..n + 1 : h[k] = IF k = 0 THEN <<>> ELSE Spliced(h[k - 1], s[k])
    <3>1. h[n + 1] = Spliced(h[n], s[n + 1])
      BY <2>2
    <3>2. ASSUME NEW k \in 0..n
          PROVE  h[k] = IF k = 0 THEN <<>> ELSE Spliced(h[k - 1], s[k])
      <4>1. g[k] = IF k = 0 THEN <<>> ELSE Spliced(g[k - 1], s[k])
        BY <2>1
      <4>2. k = 0 \/ h[k - 1] = g[k - 1]
        BY <2>2
      <4>. QED
        BY <2>2, <4>1, <4>2
    <3>3. n + 1 # 0 /\ n + 1 - 1 = n
      OBVIOUS
    <3>4. \A k \in 0..n + 1 : k \in 0..n \/ k = n + 1
      OBVIOUS
    <3>. HIDE DEF h
    <3>5. ASSUME NEW k \in 0..n + 1
          PROVE  h[k] = IF k = 0 THEN <<>> ELSE Spliced(h[k - 1], s[k])
      <4>1. CASE k = n + 1
        BY <3>1, <3>3, <4>1
      <4>2. CASE k \in 0..n
        BY <3>2, <4>2
      <4>. QED
        BY <3>4, <4>1, <4>2
    <3>. QED
      BY <3>5
  <2>. HIDE DEF h
  <2>4. Sofar(h, n + 1)
    <3>1. h = [k \in 0..n + 1 |-> h[k]]
      BY DEF h
    <3>. QED
      BY <2>3, <3>1
  <2>. QED
    BY <2>4
<1>3. Len(s) \in T
  <2>. HIDE DEF T
  <2>. QED
    BY <1>1, <1>2, Induction
<1>4. PICK g : Sofar(g, Len(s))
  BY <1>3
<1>5. Sofar(Inboxes(s), Len(s))
  BY <1>4 DEF Inboxes
<1>. QED
  BY <1>5

(* The folds of what the first k events hold depend on nothing behind them. *)
LEMMA PrefixDecides ==
    ASSUME NEW s, NEW u, Len(s) \in Nat, Len(u) \in Nat,
           NEW k \in Nat, k <= Len(s), k <= Len(u), \A i \in 1..k : s[i] = u[i]
    PROVE  Folds(s)[k] = Folds(u)[k] /\ Inboxes(s)[k] = Inboxes(u)[k]
<1>. DEFINE T == {n \in Nat : n <= k =>
                    Folds(s)[n] = Folds(u)[n] /\ Inboxes(s)[n] = Inboxes(u)[n]}
<1>1. 0 \in T
  BY FoldsUnfold, InboxesUnfold
<1>2. ASSUME NEW n \in Nat, n \in T
      PROVE  n + 1 \in T
  <2>. SUFFICES ASSUME n + 1 <= k
                PROVE  /\ Folds(s)[n + 1] = Folds(u)[n + 1]
                       /\ Inboxes(s)[n + 1] = Inboxes(u)[n + 1]
    OBVIOUS
  <2>1. Folds(s)[n] = Folds(u)[n] /\ Inboxes(s)[n] = Inboxes(u)[n] /\ s[n + 1] = u[n + 1]
    BY <1>2
  <2>2. n + 1 \in 1..Len(s) /\ n + 1 \in 1..Len(u) /\ n + 1 - 1 = n
    OBVIOUS
  <2>3. /\ Folds(s)[n + 1] = Folded(Folds(s)[n], s[n + 1])
        /\ Folds(u)[n + 1] = Folded(Folds(u)[n], u[n + 1])
    BY <2>2, FoldsUnfold
  <2>4. /\ Inboxes(s)[n + 1] = Spliced(Inboxes(s)[n], s[n + 1])
        /\ Inboxes(u)[n + 1] = Spliced(Inboxes(u)[n], u[n + 1])
    BY <2>2, InboxesUnfold
  <2>. QED
    BY <2>1, <2>3, <2>4
<1>3. k \in T
  <2>. HIDE DEF T
  <2>. QED
    BY <1>1, <1>2, Induction
<1>. QED
  BY <1>3

------------------------------------------------------------------------------
(* What one event makes of a fold.                                         *)

LEMMA EventFields ==
    ASSUME NEW e \in Events
    PROVE  /\ e.is \in {"create", "delete", "dispatch", "queued", "message", "claimed", "cleared"}
           /\ e.is = "create" => e.record \in Records
           /\ e.is \in {"delete", "dispatch"} => e.id \in Nat
           /\ e.is = "dispatch" => e.accepted \in Nat
           /\ e.is \in {"queued", "message"} => e.reminders \in SUBSET Reminders
  BY DEF Events, Reminders

(* The active records are finitely many, their ids distinct and used.      *)
Sane(f) ==
    /\ f \in [active : SUBSET Records, seen : Nat, ok : BOOLEAN]
    /\ IsFiniteSet(f.active)
    /\ \A record \in f.active : record.id <= f.seen
    /\ \A one, other \in f.active : one.id = other.id => one = other

LEMMA OccurrenceIs ==
    ASSUME NEW record \in Records, record.interval # 0,
           NEW time \in Nat, record.at <= time
    PROVE  Occurrence(record, time) \in Nat /\ record.at <= Occurrence(record, time)
<1>. DEFINE d == record.interval
            n == (time - record.at) \div d
<1>1. d \in Nat /\ d > 0 /\ record.at \in Nat /\ time - record.at \in Nat
  BY DEF Records
<1>2. n \in Nat
  <2>. HIDE DEF d
  <2>. QED
    BY <1>1
<1>. HIDE DEF n, d
<1>3. n * d \in Nat
  BY <1>1, <1>2
<1>. DEFINE m == n * d
<1>. HIDE DEF m
<1>4. record.at + m \in Nat /\ record.at <= record.at + m
  BY <1>1, <1>3 DEF m
<1>. QED
  BY <1>4 DEF m, n, d, Occurrence

(* What a dispatch leaves of a record.                                     *)
Advanced(record, time) == [record EXCEPT !.at = Occurrence(record, time) + record.interval]
Rest(record, time) == IF record.interval = 0 THEN {} ELSE {Advanced(record, time)}

LEMMA AdvancedIs ==
    ASSUME NEW record \in Records, record.interval # 0,
           NEW time \in Nat, record.at <= time
    PROVE  /\ Advanced(record, time) \in Records
           /\ Advanced(record, time).id = record.id
           /\ Advanced(record, time).at = Occurrence(record, time) + record.interval
           /\ Occurrence(record, time) < Advanced(record, time).at
<1>1. Occurrence(record, time) \in Nat /\ record.interval \in Nat \ {0}
  BY OccurrenceIs DEF Records
<1>. DEFINE at == Occurrence(record, time) + record.interval
<1>2. at \in Nat \ {0} /\ Occurrence(record, time) < at
  BY <1>1
<1>. HIDE DEF at
<1>3. [record EXCEPT !.at = at] \in Records /\ [record EXCEPT !.at = at].id = record.id
      /\ [record EXCEPT !.at = at].at = at
  BY <1>2 DEF Records
<1>. QED
  BY <1>2, <1>3 DEF Advanced, at

LEMMA CreatedIs ==
    ASSUME NEW f, Sane(f), f.ok, NEW record \in Records, f.seen < record.id
    PROVE  /\ Folded(f, Create(record)).active = f.active \union {record}
           /\ Folded(f, Create(record)).seen = record.id
           /\ Folded(f, Create(record)).ok
           /\ Sane(Folded(f, Create(record)))
<1>. DEFINE g == Folded(f, Create(record))
<1>1. ~(record.id <= f.seen) /\ record.id \in Nat
  BY DEF Records, Sane
<1>2. g = [f EXCEPT !.seen = record.id, !.active = @ \union {record}]
  BY <1>1 DEF Folded, Create, Changing
<1>. HIDE DEF g
<1>3. g.active = f.active \union {record} /\ g.seen = record.id /\ g.ok = f.ok
      /\ g \in [active : SUBSET Records, seen : Nat, ok : BOOLEAN]
  BY <1>1, <1>2 DEF Sane
<1>4. IsFiniteSet(g.active)
  BY <1>3, FS_AddElement DEF Sane
<1>5. \A r \in g.active : r.id <= g.seen
  BY <1>1, <1>3 DEF Sane, Records
<1>6. \A one, other \in g.active : one.id = other.id => one = other
  BY <1>1, <1>3 DEF Sane, Records
<1>7. Sane(g)
  BY <1>3, <1>4, <1>5, <1>6 DEF Sane
<1>. QED
  BY <1>3, <1>7 DEF g

LEMMA FoundIs ==
    ASSUME NEW f, Sane(f), NEW id
    PROVE  \A record \in Found(f, id) : Found(f, id) = {record} /\ record \in f.active
  BY DEF Found, Sane

LEMMA DeletedIs ==
    ASSUME NEW f, Sane(f), f.ok, NEW id \in Nat, Found(f, id) # {}
    PROVE  /\ Folded(f, Delete(id)).active = {record \in f.active : record.id # id}
           /\ Folded(f, Delete(id)).seen = f.seen
           /\ Folded(f, Delete(id)).ok
           /\ Sane(Folded(f, Delete(id)))
<1>. DEFINE g == Folded(f, Delete(id))
<1>1. g = [f EXCEPT !.active = @ \ Found(f, id)]
  BY DEF Folded, Delete, Changing
<1>. HIDE DEF g
<1>2. g.active = f.active \ Found(f, id) /\ g.seen = f.seen /\ g.ok = f.ok
      /\ g \in [active : SUBSET Records, seen : Nat, ok : BOOLEAN]
  BY <1>1 DEF Sane
<1>3. IsFiniteSet(g.active)
  BY <1>2, FS_Subset DEF Sane
<1>4. Sane(g)
  BY <1>2, <1>3 DEF Sane
<1>5. g.active = {record \in f.active : record.id # id}
  BY <1>2 DEF Found
<1>. QED
  BY <1>2, <1>4, <1>5 DEF g

Accepted(record, time) == IF record.interval = 0 THEN Never ELSE time

LEMMA DispatchedIs ==
    ASSUME NEW f, Sane(f), f.ok, NEW record \in f.active, NEW time \in Nat, record.at <= time
    PROVE  LET g == Folded(f, Dispatch(record.id, Accepted(record, time)))
           IN  /\ g.active = (f.active \ {record}) \union Rest(record, time)
               /\ g.seen = f.seen /\ g.ok /\ Sane(g)
<1>. DEFINE e == Dispatch(record.id, Accepted(record, time))
            g == Folded(f, e)
<1>1. e.is = "dispatch" /\ e.id = record.id /\ e.accepted = Accepted(record, time)
  BY DEF Dispatch
<1>2. g = Dispatched(f, e)
  BY <1>1 DEF Folded, Changing
<1>3. Found(f, record.id) = {record} /\ record \in Records
  BY DEF Found, Sane
<1>4. (CHOOSE r \in Found(f, record.id) : TRUE) = record
  BY <1>3
<1>5. CASE record.interval = 0
  <2>1. e.accepted = Never
    BY <1>1, <1>5 DEF Accepted
  <2>2. g = [f EXCEPT !.active = @ \ {record}]
    BY <1>1, <1>2, <1>3, <1>4, <1>5, <2>1 DEF Dispatched
  <2>. HIDE DEF g
  <2>3. g.active = f.active \ {record} /\ g.seen = f.seen /\ g.ok = f.ok
        /\ g \in [active : SUBSET Records, seen : Nat, ok : BOOLEAN]
    BY <2>2 DEF Sane
  <2>4. IsFiniteSet(g.active)
    BY <2>3, FS_Subset DEF Sane
  <2>5. Sane(g)
    BY <2>3, <2>4 DEF Sane
  <2>. QED
    BY <1>5, <2>3, <2>5 DEF g, Rest
<1>6. CASE record.interval # 0
  <2>. DEFINE a == Advanced(record, time)
  <2>1. a \in Records /\ a.id = record.id
    BY <1>3, <1>6, AdvancedIs
  <2>2. e.accepted = time /\ ~(time < record.at)
    BY <1>1, <1>3, <1>6 DEF Accepted, Records
  <2>3. g = [f EXCEPT !.active = (@ \ {record}) \union {a}]
    BY <1>1, <1>2, <1>3, <1>4, <1>6, <2>2 DEF Dispatched, Advanced
  <2>. HIDE DEF g, a
  <2>4. g.active = (f.active \ {record}) \union {a} /\ g.seen = f.seen /\ g.ok = f.ok
        /\ g \in [active : SUBSET Records, seen : Nat, ok : BOOLEAN]
    BY <2>1, <2>3 DEF Sane
  <2>5. IsFiniteSet(f.active \ {record})
    BY FS_Subset DEF Sane
  <2>6. IsFiniteSet(g.active)
    BY <2>4, <2>5, FS_AddElement
  <2>7. Sane(g)
    BY <2>1, <2>4, <2>6 DEF Sane
  <2>. QED
    BY <1>6, <2>4, <2>7 DEF g, Rest, a
<1>. QED
  BY <1>5, <1>6

(* An event of another kind changes nothing.                               *)
LEMMA OtherIs ==
    ASSUME NEW f, NEW e, e.is \notin Changing
    PROVE  Folded(f, e) = f
  BY DEF Folded, Changing

LEMMA EmptySane == Sane(Empty) /\ Sane(Corrupt)
<1>1. Empty \in [active : SUBSET Records, seen : Nat, ok : BOOLEAN]
      /\ Corrupt \in [active : SUBSET Records, seen : Nat, ok : BOOLEAN]
  BY DEF Empty, Corrupt
<1>2. Empty.active = {} /\ Corrupt.active = {}
  BY DEF Empty, Corrupt
<1>. QED
  BY <1>1, <1>2, FS_EmptySet DEF Sane

LEMMA FoldedSane ==
    ASSUME NEW f, Sane(f), NEW e \in Events
    PROVE  Sane(Folded(f, e))
<1>1. CASE ~f.ok \/ e.is \notin Changing
  BY <1>1 DEF Folded, Changing
<1>2. CASE f.ok /\ e.is = "create"
  <2>1. e = Create(e.record) /\ e.record \in Records
    BY <1>2 DEF Events, Create
  <2>2. CASE e.record.id <= f.seen
    <3>1. Folded(f, e) = Corrupt
      BY <1>2, <2>2 DEF Folded, Changing
    <3>. QED
      BY <3>1, EmptySane
  <2>3. CASE ~(e.record.id <= f.seen)
    <3>1. f.seen < e.record.id
      BY <2>1, <2>3 DEF Records, Sane
    <3>. QED
      BY <1>2, <2>1, <3>1, CreatedIs
  <2>. QED
    BY <2>2, <2>3
<1>3. CASE f.ok /\ e.is = "delete"
  <2>1. e = Delete(e.id) /\ e.id \in Nat
    BY <1>3 DEF Events, Delete
  <2>2. CASE Found(f, e.id) = {}
    <3>1. Folded(f, e) = Corrupt
      BY <1>3, <2>2 DEF Folded, Changing
    <3>. QED
      BY <3>1, EmptySane
  <2>. QED
    BY <1>3, <2>1, <2>2, DeletedIs
<1>4. CASE f.ok /\ e.is = "dispatch"
  <2>1. e = Dispatch(e.id, e.accepted) /\ e.id \in Nat /\ e.accepted \in Nat
    BY <1>4 DEF Events, Dispatch
  <2>2. Folded(f, e) = Dispatched(f, e)
    BY <1>4 DEF Folded, Changing
  <2>3. CASE Found(f, e.id) = {}
    BY <2>2, <2>3, EmptySane DEF Dispatched
  <2>4. CASE Found(f, e.id) # {}
    <3>1. PICK record \in Found(f, e.id) : TRUE
      BY <2>4
    <3>2. Found(f, e.id) = {record} /\ record \in f.active /\ record.id = e.id
          /\ record \in Records
      BY <3>1, FoundIs DEF Found, Sane
    <3>3. (CHOOSE r \in Found(f, e.id) : TRUE) = record
      BY <3>2
    <3>4. CASE record.interval = 0 /\ e.accepted # Never
      <4>1. Dispatched(f, e) = Corrupt
        BY <2>4, <3>3, <3>4 DEF Dispatched
      <4>. QED
        BY <2>2, <4>1, EmptySane
    <3>5. CASE record.interval # 0 /\ e.accepted < record.at
      <4>1. Dispatched(f, e) = Corrupt
        BY <2>4, <3>3, <3>5 DEF Dispatched
      <4>. QED
        BY <2>2, <4>1, EmptySane
    <3>6. CASE record.interval = 0 /\ e.accepted = Never
      <4>1. e = Dispatch(record.id, Accepted(record, record.at))
        BY <2>1, <3>2, <3>6 DEF Accepted
      <4>2. record.at \in Nat /\ record.at <= record.at
        BY <3>2 DEF Records
      <4>. QED
        BY <1>4, <3>2, <4>1, <4>2, DispatchedIs
    <3>7. CASE record.interval # 0 /\ ~(e.accepted < record.at)
      <4>1. e = Dispatch(record.id, Accepted(record, e.accepted))
        BY <2>1, <3>2, <3>7 DEF Accepted
      <4>2. record.at <= e.accepted
        BY <2>1, <3>2, <3>7 DEF Records
      <4>. QED
        BY <1>4, <2>1, <3>2, <4>1, <4>2, DispatchedIs
    <3>. QED
      BY <3>4, <3>5, <3>6, <3>7
  <2>. QED
    BY <2>3, <2>4
<1>. QED
  BY <1>1, <1>2, <1>3, <1>4 DEF Changing

LEMMA FoldsSane ==
    ASSUME NEW s \in Seq(Events)
    PROVE  /\ \A k \in 0..Len(s) : Sane(Folds(s)[k])
           /\ Sane(Fold(s))
<1>. DEFINE T == {n \in Nat : n <= Len(s) => Sane(Folds(s)[n])}
<1>0. Len(s) \in Nat
  BY LenProperties
<1>1. 0 \in T
  BY <1>0, FoldsUnfold, EmptySane
<1>2. ASSUME NEW n \in Nat, n \in T
      PROVE  n + 1 \in T
  <2>. SUFFICES ASSUME n + 1 <= Len(s) PROVE Sane(Folds(s)[n + 1])
    OBVIOUS
  <2>1. n + 1 \in 1..Len(s) /\ n + 1 - 1 = n /\ Sane(Folds(s)[n])
    BY <1>0, <1>2
  <2>2. Folds(s)[n + 1] = Folded(Folds(s)[n], s[n + 1]) /\ s[n + 1] \in Events
    BY <1>0, <2>1, FoldsUnfold, ElementOfSeq
  <2>. QED
    BY <2>1, <2>2, FoldedSane
<1>3. Nat \subseteq T
  <2>. HIDE DEF T
  <2>. QED
    BY <1>1, <1>2, Induction
<1>4. \A k \in 0..Len(s) : Sane(Folds(s)[k])
  BY <1>0, <1>3
<1>. QED
  BY <1>0, <1>4 DEF Fold

(* A log without changes has no active reminder.                           *)
LEMMA NoneActive ==
    ASSUME NEW s \in Seq(Events), \A i \in DOMAIN s : s[i].is \notin Changing
    PROVE  Fold(s).active = {}
<1>. DEFINE T == {n \in Nat : n <= Len(s) => Folds(s)[n] = Empty}
<1>0. Len(s) \in Nat /\ DOMAIN s = 1..Len(s)
  BY LenProperties
<1>1. 0 \in T
  BY <1>0, FoldsUnfold
<1>2. ASSUME NEW n \in Nat, n \in T
      PROVE  n + 1 \in T
  <2>. SUFFICES ASSUME n + 1 <= Len(s) PROVE Folds(s)[n + 1] = Empty
    OBVIOUS
  <2>1. n + 1 \in 1..Len(s) /\ n + 1 - 1 = n /\ Folds(s)[n] = Empty
    BY <1>0, <1>2
  <2>2. Folds(s)[n + 1] = Folded(Folds(s)[n], s[n + 1]) /\ s[n + 1].is \notin Changing
    BY <1>0, <2>1, FoldsUnfold
  <2>. QED
    BY <2>1, <2>2, OtherIs
<1>3. Nat \subseteq T
  <2>. HIDE DEF T
  <2>. QED
    BY <1>1, <1>2, Induction
<1>. QED
  BY <1>0, <1>3 DEF Fold, Empty

------------------------------------------------------------------------------
(* The order of what is due: a record comes after those before it.         *)

LEMMA SortedIs ==
    ASSUME NEW R \in SUBSET Records, IsFiniteSet(R), R # {},
           \A one, other \in R : one.id = other.id => one = other
    PROVE  /\ Cardinality(R) \in Nat \ {0}
           /\ Sorted(R) \in [1..Cardinality(R) -> R]
           /\ \A i, j \in 1..Cardinality(R) : i # j => Sorted(R)[i] # Sorted(R)[j]
<1>. DEFINE n == Cardinality(R)
            Upto(r) == {q \in R : q = r \/ Before(q, r)}
            rank == [r \in R |-> Cardinality(Upto(r))]
<1>1. n \in Nat \ {0}
  BY FS_CardinalityType, FS_EmptySet
<1>2. \A r \in R : r.at \in Nat /\ r.id \in Nat
  BY DEF Records
<1>3. ASSUME NEW r \in R
      PROVE  IsFiniteSet(Upto(r)) /\ Cardinality(Upto(r)) \in 1..n
  <2>1. Upto(r) \in SUBSET R /\ r \in Upto(r)
    OBVIOUS
  <2>2. IsFiniteSet(Upto(r)) /\ Cardinality(Upto(r)) <= n
    BY <2>1, FS_Subset
  <2>3. Cardinality(Upto(r)) \in Nat /\ Cardinality(Upto(r)) # 0
    BY <2>1, <2>2, FS_CardinalityType, FS_EmptySet
  <2>. QED
    BY <1>1, <2>2, <2>3
<1>4. ASSUME NEW q \in R, NEW r \in R, Before(q, r)
      PROVE  Cardinality(Upto(q)) < Cardinality(Upto(r))
  <2>1. Upto(q) \in SUBSET Upto(r) /\ r \notin Upto(q) /\ r \in Upto(r)
    BY <1>2, <1>4 DEF Before
  <2>2. /\ Cardinality(Upto(q)) <= Cardinality(Upto(r))
        /\ Cardinality(Upto(q)) # Cardinality(Upto(r))
    <3>. HIDE DEF Upto
    <3>. QED
      BY <1>3, <2>1, FS_Subset
  <2>. HIDE DEF Upto
  <2>3. Cardinality(Upto(q)) \in 1..n /\ Cardinality(Upto(r)) \in 1..n
    BY <1>3
  <2>. HIDE DEF n
  <2>4. Cardinality(Upto(q)) \in Nat /\ Cardinality(Upto(r)) \in Nat
    BY <1>1, <2>3
  <2>. QED
    BY <2>2, <2>4
<1>5. \A q, r \in R : q # r => Before(q, r) \/ Before(r, q)
  BY <1>2 DEF Before
<1>6. rank \in Injection(R, 1..n)
  <2>1. \A q, r \in R : q # r => Cardinality(Upto(q)) # Cardinality(Upto(r))
    <3>. HIDE DEF Upto
    <3>. QED
      BY <1>1, <1>3, <1>4, <1>5
  <2>2. rank \in [R -> 1..n]
    BY <1>3
  <2>3. IsInjective(rank)
    BY <2>1 DEF IsInjective
  <2>. QED
    BY <2>2, <2>3 DEF Injection
<1>7. \A k \in 1..n : \E r \in R : rank[r] = k
  <2>1. IsFiniteSet(1..n) /\ Cardinality(1..n) = n
    BY <1>1, FS_Interval
  <2>2. rank \in Surjection(R, 1..n)
    BY <1>6, <2>1, FS_Injection
  <2>. QED
    BY <2>2 DEF Surjection
<1>. DEFINE s == [k \in 1..n |-> CHOOSE r \in R : rank[r] = k]
<1>8. \A k \in 1..n : s[k] \in R /\ rank[s[k]] = k
  <2>. HIDE DEF rank
  <2>. QED
    BY <1>7
<1>9. s \in [1..n -> R] /\ \A i, j \in 1..n : i # j => s[i] # s[j]
  <2>. HIDE DEF rank
  <2>1. \A i, j \in 1..n : i # j => s[i] # s[j]
    <3>. HIDE DEF s
    <3>. QED
      BY <1>8
  <2>2. s \in [1..n -> R]
    BY <1>7
  <2>. QED
    BY <2>1, <2>2
<1>10. ASSUME NEW i \in 1..n, NEW j \in 1..n, i < j
       PROVE  Before(s[i], s[j])
  <2>. DEFINE q == s[i]
              r == s[j]
  <2>1. q \in R /\ r \in R /\ Cardinality(Upto(q)) = i /\ Cardinality(Upto(r)) = j
    <3>1. rank[q] = Cardinality(Upto(q)) /\ rank[r] = Cardinality(Upto(r))
      <4>. HIDE DEF q, r, Upto
      <4>. QED
        BY <1>8 DEF q, r
    <3>. HIDE DEF s, rank, Upto
    <3>. QED
      BY <1>8, <3>1
  <2>2. ~Before(r, q) /\ q # r
    <3>. HIDE DEF q, r, Upto
    <3>. QED
      BY <1>1, <1>4, <1>10, <2>1
  <2>. HIDE DEF q, r
  <2>3. Before(q, r)
    BY <1>5, <2>1, <2>2
  <2>. QED
    BY <2>3 DEF q, r
<1>. DEFINE Good(t) == t \in SetToSeqs(R) /\ \A i, j \in DOMAIN t : i < j => Before(t[i], t[j])
<1>11. Good(s)
  <2>1. DOMAIN s = 1..n
    OBVIOUS
  <2>. HIDE DEF s
  <2>2. s \in SetToSeqs(R)
    BY <1>9 DEF SetToSeqs
  <2>. QED
    BY <1>10, <2>1, <2>2
<1>12. Good(Sorted(R))
  <2>. HIDE DEF s
  <2>. QED
    BY <1>11 DEF Sorted
<1>13. Sorted(R) \in SetToSeqs(R)
  BY <1>12
<1>. HIDE DEF n
<1>. QED
  BY <1>1, <1>13 DEF SetToSeqs, n

(* A decision to send names distinct active records that are due.          *)
Batch(f, records, time) ==
    /\ Len(records) \in Nat \ {0} /\ records \in [1..Len(records) -> f.active]
    /\ \A i \in 1..Len(records) : records[i].at <= time
    /\ \A i, j \in 1..Len(records) : i # j => records[i] # records[j]

LEMMA DecisionIs ==
    ASSUME NEW f, Sane(f), NEW time \in Nat
    PROVE  /\ Decision(f, time).is = "send" => Batch(f, Decision(f, time).records, time)
           /\ Decision(f, time).is # "send" =>
                 /\ Decision(f, time).is = "wait"
                 /\ f.active # {} => Decision(f, time).target # Never
<1>. DEFINE due == Due(f, time)
            once == {record \in due : record.interval = 0}
            d == Decision(f, time)
<1>1. \A R \in SUBSET due : R # {} =>
          /\ Cardinality(R) \in Nat \ {0} /\ Sorted(R) \in [1..Cardinality(R) -> R]
          /\ \A i, j \in 1..Cardinality(R) : i # j => Sorted(R)[i] # Sorted(R)[j]
  <2>1. ASSUME NEW R \in SUBSET due PROVE R \in SUBSET Records /\ IsFiniteSet(R)
             /\ \A one, other \in R : one.id = other.id => one = other
    <3>1. R \in SUBSET f.active
      BY DEF Due
    <3>. QED
      BY <3>1, FS_Subset DEF Sane
  <2>. QED
    BY <2>1, SortedIs
<1>2. \A record \in due : record \in f.active /\ record.at <= time
  BY DEF Due
<1>. HIDE DEF due
<1>3. CASE once # {}
  <2>1. d = [is |-> "send", records |-> <<Sorted(once)[1]>>]
    BY <1>3 DEF Decision, due
  <2>2. Sorted(once)[1] \in once
    BY <1>1, <1>3
  <2>3. Sorted(once)[1] \in f.active /\ Sorted(once)[1].at <= time
    BY <1>2, <2>2
  <2>. DEFINE first == Sorted(once)[1]
  <2>. HIDE DEF first
  <2>4. Batch(f, <<first>>, time)
    <3>1. Len(<<first>>) = 1 /\ <<first>>[1] = first /\ <<first>> = [i \in 1..1 |-> first]
      OBVIOUS
    <3>2. first \in f.active /\ first.at <= time
      BY <2>3 DEF first
    <3>3. 1..1 = {1}
      OBVIOUS
    <3>. DEFINE s == <<first>>
    <3>. HIDE DEF s
    <3>4. Len(s) = 1 /\ s \in [1..1 -> f.active] /\ \A i \in 1..1 : s[i] = first /\ i = 1
      BY <3>1, <3>2, <3>3 DEF s
    <3>5. Batch(f, s, time)
      BY <3>2, <3>4 DEF Batch
    <3>. QED
      BY <3>5 DEF s
  <2>. QED
    BY <2>1, <2>4 DEF first
<1>4. CASE once = {} /\ due # {}
  <2>1. d = [is |-> "send", records |-> Sorted(due)]
    BY <1>4 DEF Decision, due
  <2>. DEFINE s == Sorted(due)
  <2>2. /\ Cardinality(due) \in Nat \ {0} /\ s \in [1..Cardinality(due) -> due]
        /\ \A i, j \in 1..Cardinality(due) : i # j => s[i] # s[j]
    BY <1>1, <1>4
  <2>. HIDE DEF s
  <2>3. Len(s) = Cardinality(due)
    BY <2>2
  <2>4. Batch(f, s, time)
    BY <1>2, <2>2, <2>3 DEF Batch
  <2>. QED
    BY <2>1, <2>4 DEF s
<1>5. CASE due = {}
  <2>. DEFINE waits == {record.at : record \in f.active \ due}
              target == IF waits = {} THEN Never
                        ELSE CHOOSE t \in waits : \A u \in waits : t <= u
  <2>1. d = [is |-> "wait", target |-> target]
    BY <1>5 DEF Decision, due
  <2>2. ASSUME f.active # {} PROVE target # Never
    <3>1. waits # {} /\ waits \subseteq Nat \ {0}
      BY <1>5, <2>2 DEF Sane, Records
    <3>2. PICK t \in waits : \A u \in waits : t <= u
      <4>. DEFINE R == OpToRel(<, Nat)
      <4>1. IsWellFoundedOn(R, Nat)
        BY NatLessThanWellFounded
      <4>2. \A x, y \in Nat : x < y => <<x, y>> \in R
        BY DEF OpToRel
      <4>. HIDE DEF R, waits
      <4>3. PICK t \in waits : \A u \in waits : ~(<<u, t>> \in R)
        <5>1. waits \subseteq Nat
          BY <3>1
        <5>. QED
          BY <3>1, <4>1, <5>1, WFMin
      <4>4. ASSUME NEW u \in waits PROVE t <= u
        <5>1. t \in Nat /\ u \in Nat /\ ~(u < t)
          BY <3>1, <4>2, <4>3
        <5>. QED
          BY <5>1
      <4>. QED
        BY <4>4
    <3>. HIDE DEF waits
    <3>3. (CHOOSE v \in waits : \A u \in waits : v <= u) \in waits
      BY <3>2
    <3>. QED
      BY <3>1, <3>3 DEF Never
  <2>. HIDE DEF target, waits
  <2>. QED
    BY <2>1, <2>2
<1>. QED
  BY <1>3, <1>4, <1>5

------------------------------------------------------------------------------
(* Logs that grow by an event, by a batch, or are cut by a crash.          *)

LEMMA Extended ==
    ASSUME NEW s \in Seq(Events), NEW e \in Events
    PROVE  LET u == Append(s, e) IN
           /\ u \in Seq(Events) /\ Len(u) = Len(s) + 1 /\ Len(s) \in Nat
           /\ \A i \in 1..Len(s) : u[i] = s[i]
           /\ u[Len(s) + 1] = e
           /\ \A k \in 0..Len(s) : Folds(u)[k] = Folds(s)[k] /\ Inboxes(u)[k] = Inboxes(s)[k]
           /\ Fold(u) = Folded(Fold(s), e) /\ Fold(u) = Folds(u)[Len(s) + 1]
           /\ Inbox(u) = Spliced(Inbox(s), e) /\ Inbox(u) = Inboxes(u)[Len(s) + 1]
<1>. DEFINE u == Append(s, e)
<1>1. /\ u \in Seq(Events) /\ Len(u) = Len(s) + 1 /\ Len(s) \in Nat
      /\ \A i \in 1..Len(s) : u[i] = s[i]
      /\ u[Len(s) + 1] = e
  BY AppendProperties, LenProperties
<1>. HIDE DEF u
<1>2. \A k \in 0..Len(s) : Folds(u)[k] = Folds(s)[k] /\ Inboxes(u)[k] = Inboxes(s)[k]
  <2>. SUFFICES ASSUME NEW k \in 0..Len(s)
                PROVE  Folds(u)[k] = Folds(s)[k] /\ Inboxes(u)[k] = Inboxes(s)[k]
    OBVIOUS
  <2>1. /\ k \in Nat /\ Len(u) \in Nat /\ k <= Len(s) /\ k <= Len(u)
        /\ \A i \in 1..k : u[i] = s[i]
    BY <1>1
  <2>. QED
    BY <1>1, <2>1, PrefixDecides
<1>3. /\ Len(u) \in Nat /\ Len(s) + 1 \in 1..Len(u) /\ Len(s) + 1 - 1 = Len(s)
      /\ Len(s) \in 0..Len(s)
  BY <1>1
<1>4. /\ Folds(u)[Len(s) + 1] = Folded(Folds(u)[Len(s)], u[Len(s) + 1])
      /\ Inboxes(u)[Len(s) + 1] = Spliced(Inboxes(u)[Len(s)], u[Len(s) + 1])
  BY <1>3, FoldsUnfold, InboxesUnfold
<1>5. /\ Folds(u)[Len(s) + 1] = Folded(Fold(s), e)
      /\ Inboxes(u)[Len(s) + 1] = Spliced(Inbox(s), e)
  BY <1>1, <1>2, <1>3, <1>4 DEF Fold, Inbox
<1>6. Fold(u) = Folds(u)[Len(s) + 1] /\ Inbox(u) = Inboxes(u)[Len(s) + 1]
  BY <1>1 DEF Fold, Inbox
<1>. QED
  BY <1>1, <1>2, <1>5, <1>6 DEF u

LEMMA CutIs ==
    ASSUME NEW s \in Seq(Events), NEW n \in 0..Len(s)
    PROVE  LET u == SubSeq(s, 1, n) IN
           /\ u \in Seq(Events) /\ Len(u) = n /\ Len(s) \in Nat
           /\ \A i \in 1..n : u[i] = s[i]
           /\ \A k \in 0..n : Folds(u)[k] = Folds(s)[k] /\ Inboxes(u)[k] = Inboxes(s)[k]
           /\ Fold(u) = Folds(s)[n]
<1>. DEFINE u == SubSeq(s, 1, n)
<1>1. Len(s) \in Nat /\ \A i \in 1..Len(s) : s[i] \in Events
  BY LenProperties, ElementOfSeq
<1>2. u \in Seq(Events) /\ Len(u) = n /\ \A i \in 1..n : u[i] = s[i]
  <2>1. \A i \in 1..n : s[i] \in Events
    BY <1>1
  <2>2. n \in Nat /\ n - 1 + 1 = n
    BY <1>1
  <2>. QED
    BY <1>1, <2>1, <2>2, SubSeqProperties
<1>. HIDE DEF u
<1>3. \A k \in 0..n : Folds(u)[k] = Folds(s)[k] /\ Inboxes(u)[k] = Inboxes(s)[k]
  <2>. SUFFICES ASSUME NEW k \in 0..n
                PROVE  Folds(u)[k] = Folds(s)[k] /\ Inboxes(u)[k] = Inboxes(s)[k]
    OBVIOUS
  <2>1. /\ k \in Nat /\ Len(u) \in Nat /\ k <= Len(s) /\ k <= Len(u)
        /\ \A i \in 1..k : u[i] = s[i]
    BY <1>1, <1>2
  <2>. QED
    BY <1>1, <2>1, PrefixDecides
<1>4. Fold(u) = Folds(s)[n]
  BY <1>1, <1>2, <1>3 DEF Fold
<1>. QED
  BY <1>1, <1>2, <1>3, <1>4 DEF u

(* A log that folds folds up to each of its events.                        *)
LEMMA OkSoFar ==
    ASSUME NEW s \in Seq(Events), Fold(s).ok
    PROVE  \A k \in 0..Len(s) : Folds(s)[k].ok
<1>. DEFINE T == {n \in Nat : n <= Len(s) => Folds(s)[Len(s) - n].ok}
<1>0. Len(s) \in Nat
  BY LenProperties
<1>1. 0 \in T
  BY <1>0 DEF Fold
<1>2. ASSUME NEW n \in Nat, n \in T
      PROVE  n + 1 \in T
  <2>. DEFINE k == Len(s) - n
  <2>. SUFFICES ASSUME n + 1 <= Len(s) PROVE Folds(s)[k - 1].ok
    BY <1>0
  <2>1. k \in 1..Len(s) /\ Folds(s)[k].ok
    BY <1>0, <1>2
  <2>2. Folds(s)[k] = Folded(Folds(s)[k - 1], s[k])
    BY <1>0, <2>1, FoldsUnfold
  <2>. HIDE DEF k
  <2>. SUFFICES ASSUME ~Folds(s)[k - 1].ok PROVE FALSE
    OBVIOUS
  <2>3. Folded(Folds(s)[k - 1], s[k]) = Folds(s)[k - 1]
    BY DEF Folded, Changing
  <2>. QED
    BY <2>1, <2>2, <2>3
<1>3. Nat \subseteq T
  <2>. HIDE DEF T
  <2>. QED
    BY <1>1, <1>2, Induction
<1>4. ASSUME NEW k \in 0..Len(s) PROVE Folds(s)[k].ok
  <2>1. Len(s) - k \in T /\ Len(s) - k <= Len(s) /\ Len(s) - (Len(s) - k) = k
    BY <1>0, <1>3
  <2>. QED
    BY <2>1
<1>. QED
  BY <1>4

(* A follow-up and the first m dispatches of its batch.                    *)
Sent(s, followup, records, time, m) ==
    s \o <<followup>> \o SubSeq(Dispatches(records, time), 1, m)

(* u is s with the follow-up and m dispatches laid on it.                  *)
Laid(s, followup, records, time, m, u) ==
    /\ u \in Seq(Events) /\ Len(u) = Len(s) + 1 + m /\ Len(s) \in Nat
    /\ \A i \in 1..Len(s) : u[i] = s[i]
    /\ u[Len(s) + 1] = followup
    /\ \A k \in 1..m : u[Len(s) + 1 + k] = Dispatch(records[k].id, Accepted(records[k], time))

LEMMA SentIs ==
    ASSUME NEW s \in Seq(Events), Sane(Fold(s)), NEW time \in Nat,
           NEW records, Batch(Fold(s), records, time),
           NEW followup \in Events, NEW m \in 0..Len(records)
    PROVE  Laid(s, followup, records, time, m, Sent(s, followup, records, time, m))
<1>. DEFINE d == Dispatches(records, time)
            front == Append(s, followup)
            back == SubSeq(d, 1, m)
            u == Sent(s, followup, records, time, m)
<1>1. /\ Len(records) \in Nat /\ DOMAIN records = 1..Len(records) /\ m \in Nat
      /\ \A k \in 1..Len(records) : records[k] \in Records
  BY DEF Batch, Sane
<1>2. d \in Seq(Events) /\ Len(d) = Len(records)
      /\ \A k \in 1..Len(records) : d[k] = Dispatch(records[k].id, Accepted(records[k], time))
  <2>1. d = [k \in 1..Len(records) |-> Dispatch(records[k].id, Accepted(records[k], time))]
    BY <1>1 DEF Dispatches, Accepted
  <2>2. \A k \in 1..Len(records) :
           Dispatch(records[k].id, Accepted(records[k], time)) \in Events
    BY <1>1 DEF Dispatch, Accepted, Events, Records, Never
  <2>. HIDE DEF d
  <2>. QED
    BY <1>1, <2>1, <2>2, SeqDef
<1>. HIDE DEF d
<1>3. back \in Seq(Events) /\ Len(back) = m /\ \A k \in 1..m : back[k] = d[k]
  <2>1. \A k \in 1..m : d[k] \in Events
    BY <1>1, <1>2, ElementOfSeq
  <2>. QED
    BY <1>1, <1>2, <2>1, SubSeqProperties
<1>4. /\ front \in Seq(Events) /\ Len(front) = Len(s) + 1 /\ Len(s) \in Nat
      /\ \A i \in 1..Len(s) : front[i] = s[i]
      /\ front[Len(s) + 1] = followup
  BY AppendProperties, LenProperties
<1>5. u = front \o back
  BY AppendIsConcat DEF Sent, d
<1>. HIDE DEF front, back, u
<1>6. /\ u \in Seq(Events) /\ Len(u) = Len(s) + 1 + m
      /\ \A i \in 1..Len(s) + 1 + m :
            u[i] = IF i <= Len(s) + 1 THEN front[i] ELSE back[i - (Len(s) + 1)]
  <2>1. /\ front \o back \in Seq(Events) /\ Len(front \o back) = Len(front) + Len(back)
        /\ \A i \in 1..Len(front) + Len(back) :
              (front \o back)[i] = IF i <= Len(front) THEN front[i] ELSE back[i - Len(front)]
    BY <1>3, <1>4, ConcatProperties
  <2>. QED
    BY <1>3, <1>4, <1>5, <2>1
<1>7. \A i \in 1..Len(s) + 1 : u[i] = front[i]
  BY <1>1, <1>4, <1>6
<1>8. ASSUME NEW k \in 1..m
      PROVE  u[Len(s) + 1 + k] = Dispatch(records[k].id, Accepted(records[k], time))
  <2>1. Len(s) + 1 + k \in 1..Len(s) + 1 + m /\ ~(Len(s) + 1 + k <= Len(s) + 1)
        /\ Len(s) + 1 + k - (Len(s) + 1) = k /\ k \in 1..Len(records)
    BY <1>1, <1>4
  <2>. QED
    BY <1>2, <1>3, <1>6, <2>1
<1>. QED
  <2>1. u[Len(s) + 1] = followup /\ \A i \in 1..Len(s) : u[i] = s[i]
    BY <1>4, <1>7
  <2>2. Laid(s, followup, records, time, m, u)
    BY <1>4, <1>6, <1>8, <2>1 DEF Laid
  <2>. QED
    BY <2>2 DEF u

(* The records of a batch give way, one by one, to what is left of them.   *)
Unsent(f, records, k) == {a \in f.active : \A j \in 1..k : a # records[j]}
Left(records, time, k) == UNION {Rest(records[j], time) : j \in 1..k}

(* What the batch makes of the fold and of the inboxes.                    *)
Recorded(s, followup, records, time, m) ==
    LET u == Sent(s, followup, records, time, m)
        f == Fold(s)
    IN  /\ Fold(u).ok /\ Fold(u).seen = f.seen
        /\ Fold(u).active = Unsent(f, records, m) \union Left(records, time, m)
        /\ Inbox(u) = Append(Inbox(s), followup.reminders)
        /\ \A k \in 0..Len(s) : Folds(u)[k] = Folds(s)[k] /\ Inboxes(u)[k] = Inboxes(s)[k]
        /\ \A k \in 0..m : Inboxes(u)[Len(s) + 1 + k] = Append(Inbox(s), followup.reminders)

LEMMA SentFolds ==
    ASSUME NEW s \in Seq(Events), Fold(s).ok, NEW time \in Nat,
           NEW records, Batch(Fold(s), records, time),
           NEW followup \in Events, followup.is = "queued", NEW m \in 0..Len(records)
    PROVE  Recorded(s, followup, records, time, m)
<1>. DEFINE u == Sent(s, followup, records, time, m)
            f == Fold(s)
            At(k) == Folds(u)[Len(s) + 1 + k]
            P(k) == /\ At(k).ok /\ At(k).seen = f.seen /\ Sane(At(k))
                    /\ At(k).active = Unsent(f, records, k) \union Left(records, time, k)
                    /\ Inboxes(u)[Len(s) + 1 + k] = Append(Inbox(s), followup.reminders)
            T == {k \in Nat : k <= m => P(k)}
<1>0. Sane(f)
  BY FoldsSane
<1>1. /\ u \in Seq(Events) /\ Len(u) = Len(s) + 1 + m /\ Len(s) \in Nat
      /\ \A i \in 1..Len(s) : u[i] = s[i]
      /\ u[Len(s) + 1] = followup
      /\ \A k \in 1..m : u[Len(s) + 1 + k]
                            = Dispatch(records[k].id, Accepted(records[k], time))
  <2>1. Sane(Fold(s))
    BY <1>0
  <2>2. Laid(s, followup, records, time, m, u)
    BY <2>1, SentIs
  <2>. HIDE DEF u
  <2>. QED
    BY <2>2 DEF Laid
<1>2. /\ Len(records) \in Nat /\ m \in Nat /\ m <= Len(records)
      /\ \A k \in 1..Len(records) : records[k] \in f.active /\ records[k].at <= time
      /\ \A i, j \in 1..Len(records) : i # j => records[i] # records[j]
  BY DEF Batch
<1>. HIDE DEF u, f
<1>31. \A k \in 0..Len(s) : Folds(u)[k] = Folds(s)[k] /\ Inboxes(u)[k] = Inboxes(s)[k]
  <2>. SUFFICES ASSUME NEW k \in 0..Len(s)
                PROVE  Folds(u)[k] = Folds(s)[k] /\ Inboxes(u)[k] = Inboxes(s)[k]
    OBVIOUS
  <2>1. k \in Nat /\ Len(u) \in Nat /\ k <= Len(u) /\ k <= Len(s) /\ \A i \in 1..k : u[i] = s[i]
    BY <1>1, <1>2
  <2>. QED
    BY <1>1, <2>1, PrefixDecides
<1>3. /\ Folds(u)[Len(s)] = f /\ Inboxes(u)[Len(s)] = Inbox(s)
  <2>1. Len(s) \in 0..Len(s)
    BY <1>1
  <2>. QED
    BY <1>31, <2>1 DEF f, Fold, Inbox
<1>4. \A k \in 0..m :
         /\ At(k) = Folded(Folds(u)[Len(s) + k], u[Len(s) + 1 + k])
         /\ Inboxes(u)[Len(s) + 1 + k] = Spliced(Inboxes(u)[Len(s) + k], u[Len(s) + 1 + k])
  <2>. SUFFICES ASSUME NEW k \in 0..m
                PROVE  /\ At(k) = Folded(Folds(u)[Len(s) + k], u[Len(s) + 1 + k])
                       /\ Inboxes(u)[Len(s) + 1 + k]
                             = Spliced(Inboxes(u)[Len(s) + k], u[Len(s) + 1 + k])
    OBVIOUS
  <2>1. Len(u) \in Nat /\ Len(s) + 1 + k \in 1..Len(u) /\ Len(s) + 1 + k - 1 = Len(s) + k
    BY <1>1, <1>2
  <2>. QED
    BY <2>1, FoldsUnfold, InboxesUnfold
<1>5. 0 \in T
  <2>1. 0 \in 0..m /\ Len(s) + 0 = Len(s) /\ Len(s) + 1 + 0 = Len(s) + 1
    BY <1>1, <1>2
  <2>2. At(0) = Folded(f, followup) /\ At(0) = f
    BY <1>1, <1>3, <1>4, <2>1, OtherIs DEF Changing
  <2>3. Inboxes(u)[Len(s) + 1 + 0] = Append(Inbox(s), followup.reminders)
    BY <1>1, <1>3, <1>4, <2>1 DEF Spliced
  <2>4. Unsent(f, records, 0) = f.active /\ Left(records, time, 0) = {}
    BY DEF Unsent, Left
  <2>. QED
    BY <1>0, <2>2, <2>3, <2>4 DEF f
<1>6. ASSUME NEW k \in Nat, k \in T
      PROVE  k + 1 \in T
  <2>. SUFFICES ASSUME k + 1 <= m PROVE P(k + 1)
    OBVIOUS
  <2>. DEFINE r == records[k + 1]
              g == At(k)
              h == At(k + 1)
  <2>1. P(k)
    BY <1>2, <1>6
  <2>2. /\ k + 1 \in 0..m /\ k + 1 \in 1..m /\ k + 1 \in 1..Len(records)
        /\ Len(s) + (k + 1) = Len(s) + 1 + k
    BY <1>1, <1>2
  <2>3. h = Folded(g, Dispatch(r.id, Accepted(r, time)))
    BY <1>1, <1>4, <2>2
  <2>4. Inboxes(u)[Len(s) + 1 + (k + 1)] = Inboxes(u)[Len(s) + 1 + k]
    <3>1. \A box, id, accepted : Spliced(box, Dispatch(id, accepted)) = box
      BY DEF Spliced, Dispatch
    <3>2. u[Len(s) + 1 + (k + 1)] = Dispatch(r.id, Accepted(r, time))
      BY <1>1, <2>2
    <3>3. Inboxes(u)[Len(s) + 1 + (k + 1)]
             = Spliced(Inboxes(u)[Len(s) + (k + 1)], u[Len(s) + 1 + (k + 1)])
      BY <1>4, <2>2
    <3>. QED
      BY <2>2, <3>1, <3>2, <3>3
  <2>5. r \in f.active /\ r.at <= time
    BY <1>2, <2>2
  <2>6. r \in Unsent(f, records, k)
    BY <1>2, <2>2, <2>5 DEF Unsent
  <2>7. r \in g.active
    BY <2>1, <2>6
  <2>. HIDE DEF r, g, h
  <2>8. h.active = (g.active \ {r}) \union Rest(r, time) /\ h.seen = g.seen /\ h.ok /\ Sane(h)
    <3>1. g.ok /\ Sane(g)
      BY <2>1 DEF g
    <3>. QED
      BY <2>3, <2>5, <2>7, <3>1, DispatchedIs
  <2>9. Unsent(f, records, k + 1) = Unsent(f, records, k) \ {r}
    <3>1. \A a : (\A j \in 1..k + 1 : a # records[j]) <=> (\A j \in 1..k : a # records[j]) /\ a # r
      <4>1. 1..k + 1 = 1..k \union {k + 1}
        OBVIOUS
      <4>. QED
        BY <4>1 DEF r
    <3>. QED
      BY <3>1 DEF Unsent
  <2>10. Left(records, time, k + 1) = Left(records, time, k) \union Rest(r, time)
    <3>1. 1..k + 1 = 1..k \union {k + 1}
      OBVIOUS
    <3>. QED
      BY <3>1 DEF Left, r
  <2>11. r \notin Left(records, time, k)
    <3>. SUFFICES ASSUME NEW j \in 1..k, r \in Rest(records[j], time) PROVE FALSE
      BY DEF Left
    <3>1. j \in 1..Len(records) /\ j # k + 1
      BY <1>2, <2>2
    <3>2. records[j] \in f.active /\ records[j].at <= time /\ records[j] # r
      BY <1>2, <2>2, <3>1 DEF r
    <3>3. records[j] \in Records /\ records[j].interval # 0 /\ r = Advanced(records[j], time)
      BY <1>0, <3>2 DEF Rest, Sane
    <3>4. r.id = records[j].id
      BY <3>2, <3>3, AdvancedIs
    <3>. QED
      BY <1>0, <2>5, <3>2, <3>4 DEF Sane
  <2>12. h.active = Unsent(f, records, k + 1) \union Left(records, time, k + 1)
    <3>1. g.active = Unsent(f, records, k) \union Left(records, time, k)
      BY <2>1 DEF g
    <3>. QED
      BY <2>8, <2>9, <2>10, <2>11, <3>1
  <2>13. g.seen = f.seen /\ Inboxes(u)[Len(s) + 1 + k] = Append(Inbox(s), followup.reminders)
    BY <2>1 DEF g
  <2>. QED
    BY <2>4, <2>8, <2>12, <2>13 DEF h
<1>7. Nat \subseteq T
  <2>. HIDE DEF T
  <2>. QED
    BY <1>5, <1>6, Induction
<1>8. ASSUME NEW k \in 0..m PROVE P(k)
  <2>1. k \in Nat /\ k <= m
    BY <1>2
  <2>2. k \in T
    BY <1>7, <2>1
  <2>. HIDE DEF P
  <2>. QED
    BY <2>1, <2>2
<1>9. Fold(u) = At(m) /\ Inbox(u) = Inboxes(u)[Len(s) + 1 + m] /\ m \in 0..m
  BY <1>1, <1>2 DEF Fold, Inbox
<1>10. \A k \in 0..m : Inboxes(u)[Len(s) + 1 + k] = Append(Inbox(s), followup.reminders)
  BY <1>8
<1>11. P(m)
  BY <1>8, <1>9
<1>. QED
  BY <1>9, <1>10, <1>11, <1>31 DEF u, f, Recorded

------------------------------------------------------------------------------
(* Types, the queue, and what is durable.                                  *)

Flags ==
    /\ requested \in BOOLEAN /\ timer \in BOOLEAN /\ idleWait \in BOOLEAN /\ faulted \in BOOLEAN
    /\ stopping \in BOOLEAN /\ gaveUp \in BOOLEAN /\ unrecorded \in BOOLEAN

LEMMA TypeParts ==
    ASSUME TypeOK
    PROVE  /\ log \in Seq(Events) /\ Len(log) \in Nat /\ durable \in Nat /\ durable <= Len(log)
           /\ DOMAIN log = 1..Len(log)
           /\ now \in 1..MaxTime /\ now \in Nat /\ spent \in Nat /\ spent <= MaxInputs
           /\ MaxTime \in Nat /\ MaxInputs \in Nat
           /\ phase \in {"idle", "turn", "maintenance"}
           /\ run \in Runs /\ tool \in Tools /\ queue \in Seq({"drive", "tool"})
           /\ confirmed \subseteq {change \in Events : change.is \in Changing}
           /\ Flags
<1>1. log \in Seq(Events) /\ Len(log) \in Nat /\ DOMAIN log = 1..Len(log)
  BY LenProperties DEF TypeOK
<1>. QED
  BY <1>1, ScheduleAssumption DEF TypeOK, Flags

LEMMA RunFields ==
    ASSUME NEW r \in Runs
    PROVE  /\ r.is \in {"none", "queued", "preflight", "barrier", "maintenance"}
           /\ r.is = "none" <=> r = None
           /\ r.is \in {"preflight", "barrier"} => r.mark \in Nat
           /\ r.is = "maintenance" => r.wakes \in BOOLEAN /\ r.sent \in BOOLEAN
  BY DEF Runs, None

LEMMA RunMade ==
    /\ None \in Runs /\ None.is = "none"
    /\ [is |-> "queued"] \in Runs
    /\ \A n \in Nat, stage \in {"preflight", "barrier"} : [is |-> stage, mark |-> n] \in Runs
    /\ \A wakes, sent \in BOOLEAN : [is |-> "maintenance", wakes |-> wakes, sent |-> sent] \in Runs
  BY DEF Runs, None

LEMMA ToolFields ==
    ASSUME NEW t \in Tools
    PROVE  /\ t.is \in {"none", "queued", "preflight", "barrier"}
           /\ t.is = "none" <=> t = None
           /\ t.is \in {"queued", "preflight"} => t.call \in Calls
           /\ t.is \in {"preflight", "barrier"} => t.mark \in Nat
           /\ t.is = "barrier" => t.change \in Events
  BY DEF Tools, None

LEMMA ToolMade ==
    /\ None \in Tools
    /\ \A call \in Calls : [is |-> "queued", call |-> call] \in Tools
    /\ \A call \in Calls, n \in Nat : [is |-> "preflight", call |-> call, mark |-> n] \in Tools
    /\ \A change \in Events, n \in Nat : [is |-> "barrier", change |-> change, mark |-> n] \in Tools
  BY DEF Tools, None

(* What becomes of the run and the queue: nothing, a drive is asked for,   *)
(* or the drive at the head goes on or leaves.                             *)
Asked(q) ==
    \/ run' = run /\ queue' = q
    \/ run.is = "none" /\ run' = [is |-> "queued"] /\ queue' = Append(q, "drive")

LEMMA RequestsAsk ==
    ASSUME TypeOK, NEW q, Requests(q)
    PROVE  /\ Asked(q) /\ requested' \in BOOLEAN /\ timer' \in BOOLEAN
           /\ ~stopping /\ ~faulted =>
                 ~timer' /\ run' # None /\ (run # None => requested' /\ run' = run)
           /\ stopping \/ faulted => timer' = timer /\ run' = run /\ requested' = requested
<1>1. /\ requested \in BOOLEAN /\ timer \in BOOLEAN /\ stopping \in BOOLEAN
      /\ faulted \in BOOLEAN /\ run \in Runs
  BY TypeParts DEF Flags
<1>2. run.is = "none" <=> run = None
  BY <1>1, RunFields
<1>3. [is |-> "queued"] # None
  BY DEF None
<1>4. CASE stopping \/ faulted
  BY <1>1, <1>4 DEF Requests, Asked
<1>5. CASE ~(stopping \/ faulted) /\ run = None
  BY <1>1, <1>2, <1>3, <1>5 DEF Requests, Asked
<1>6. CASE ~(stopping \/ faulted) /\ run # None
  BY <1>1, <1>6 DEF Requests, Asked
<1>. QED
  BY <1>4, <1>5, <1>6

Leaves ==
    \/ run' = None /\ queue' = Tail(queue)
    \/ run' = [is |-> "queued"] /\ queue' = Append(Tail(queue), "drive")

LEMMA OverLeaves ==
    ASSUME TypeOK, NEW again \in BOOLEAN, Over(again)
    PROVE  /\ Leaves /\ requested' \in BOOLEAN
           /\ again /\ ~stopping /\ ~faulted' => run' # None
<1>1. requested \in BOOLEAN
  BY TypeParts DEF Flags
<1>2. [is |-> "queued"] # None
  BY DEF None
<1>3. CASE again /\ ~stopping /\ ~faulted'
  BY <1>2, <1>3 DEF Over, Leaves
<1>4. CASE ~(again /\ ~stopping /\ ~faulted')
  BY <1>1, <1>4 DEF Over, Leaves
<1>. QED
  BY <1>3, <1>4

LEMMA PairIs ==
    ASSUME NEW a, NEW b
    PROVE  Append(<<a>>, b) = <<a, b>>
<1>. DEFINE S == {a, b}
<1>1. <<a>> \in Seq(S) /\ Len(<<a>>) = 1 /\ <<a>>[1] = a
  OBVIOUS
<1>2. /\ Append(<<a>>, b) \in Seq(S) /\ Len(Append(<<a>>, b)) = 2
      /\ Append(<<a>>, b)[1] = a /\ Append(<<a>>, b)[2] = b
  BY <1>1, AppendProperties
<1>3. <<a, b>> \in Seq(S) /\ Len(<<a, b>>) = 2 /\ <<a, b>>[1] = a /\ <<a, b>>[2] = b
  OBVIOUS
<1>4. \A i \in 1..2 : Append(<<a>>, b)[i] = <<a, b>>[i]
  <2>1. \A i \in 1..2 : i = 1 \/ i = 2
    OBVIOUS
  <2>. QED
    BY <1>2, <1>3, <2>1
<1>. HIDE DEF S
<1>. QED
  BY <1>2, <1>3, <1>4, SeqEqual

(* The five queues there can be, and what a step makes of them.            *)
LEMMA Tails ==
    /\ Tail(<<"drive">>) = <<>> /\ Tail(<<"tool">>) = <<>>
    /\ Tail(<<"drive", "tool">>) = <<"tool">> /\ Tail(<<"tool", "drive">>) = <<"drive">>
    /\ Append(<<>>, "drive") = <<"drive">> /\ Append(<<>>, "tool") = <<"tool">>
    /\ Append(<<"tool">>, "drive") = <<"tool", "drive">>
    /\ Append(<<"drive">>, "tool") = <<"drive", "tool">>
    /\ Head(<<"drive">>) = "drive" /\ Head(<<"drive", "tool">>) = "drive"
    /\ Head(<<"tool">>) = "tool" /\ Head(<<"tool", "drive">>) = "tool"
    /\ <<>> # <<"drive">> /\ <<>> # <<"tool">>
    /\ <<>> # <<"drive", "tool">> /\ <<>> # <<"tool", "drive">>
<1>1. Tail(<<"drive">>) = <<>> /\ Tail(<<"tool">>) = <<>>
  OBVIOUS
<1>2. Tail(<<"drive", "tool">>) = <<"tool">> /\ Tail(<<"tool", "drive">>) = <<"drive">>
  OBVIOUS
<1>3. Append(<<>>, "drive") = <<"drive">> /\ Append(<<>>, "tool") = <<"tool">>
  OBVIOUS
<1>4. Append(<<"tool">>, "drive") = <<"tool", "drive">>
  BY PairIs
<1>5. Append(<<"drive">>, "tool") = <<"drive", "tool">>
  BY PairIs
<1>6. /\ Head(<<"drive">>) = "drive" /\ Head(<<"drive", "tool">>) = "drive"
      /\ Head(<<"tool">>) = "tool" /\ Head(<<"tool", "drive">>) = "tool"
  OBVIOUS
<1>7. /\ <<>> # <<"drive">> /\ <<>> # <<"tool">>
      /\ <<>> # <<"drive", "tool">> /\ <<>> # <<"tool", "drive">>
  OBVIOUS
<1>. QED
  BY <1>1, <1>2, <1>3, <1>4, <1>5, <1>6, <1>7

LEMMA QueuesTyped ==
    /\ <<>> \in Seq({"drive", "tool"})
    /\ <<"drive">> \in Seq({"drive", "tool"}) /\ <<"tool">> \in Seq({"drive", "tool"})
    /\ <<"drive", "tool">> \in Seq({"drive", "tool"})
    /\ <<"tool", "drive">> \in Seq({"drive", "tool"})
  OBVIOUS

LEMMA QueueingTyped == Queueing => queue \in Seq({"drive", "tool"})
  BY QueuesTyped DEF Queueing

------------------------------------------------------------------------------
(* The inboxes of a log that grows or is cut.                              *)

LEMMA PostedExtended ==
    ASSUME NEW s \in Seq(Events), Posted(s),
           NEW e \in Events, e.is = "claimed" => Inbox(s) # <<>>
    PROVE  Posted(Append(s, e))
<1>. DEFINE u == Append(s, e)
<1>1. /\ Len(u) = Len(s) + 1 /\ Len(s) \in Nat
      /\ \A k \in 0..Len(s) : Inboxes(u)[k] = Inboxes(s)[k]
      /\ Inboxes(u)[Len(s) + 1] = Spliced(Inbox(s), e)
  BY Extended
<1>2. Inbox(s) \in Seq(SUBSET Reminders)
  BY <1>1 DEF Posted, Inbox
<1>3. Spliced(Inbox(s), e) \in Seq(SUBSET Reminders)
  <2>1. CASE e.is = "queued"
    <3>1. e.reminders \in SUBSET Reminders
      BY <2>1, EventFields
    <3>. QED
      BY <1>2, <2>1, <3>1, AppendProperties DEF Spliced
  <2>2. CASE e.is = "claimed"
    BY <1>2, <2>2, HeadTailProperties DEF Spliced
  <2>3. CASE e.is = "cleared"
    BY <2>3 DEF Spliced
  <2>4. CASE e.is \notin {"queued", "claimed", "cleared"}
    BY <1>2, <2>4 DEF Spliced
  <2>. QED
    BY <2>1, <2>2, <2>3, <2>4
<1>. HIDE DEF u
<1>4. \A k \in 0..Len(s) + 1 : k \in 0..Len(s) \/ k = Len(s) + 1
  BY <1>1
<1>5. Posted(u)
  BY <1>1, <1>3, <1>4 DEF Posted
<1>. QED
  BY <1>5 DEF u

LEMMA PostedCut ==
    ASSUME NEW s \in Seq(Events), Posted(s), NEW n \in 0..Len(s)
    PROVE  Posted(SubSeq(s, 1, n))
<1>1. /\ Len(SubSeq(s, 1, n)) = n /\ Len(s) \in Nat
      /\ \A k \in 0..n : Inboxes(SubSeq(s, 1, n))[k] = Inboxes(s)[k]
  BY CutIs
<1>. QED
  BY <1>1 DEF Posted

LEMMA PostedSent ==
    ASSUME NEW s \in Seq(Events), Posted(s), Fold(s).ok, NEW time \in Nat,
           NEW records, Batch(Fold(s), records, time),
           NEW followup \in Events, followup.is = "queued", NEW m \in 0..Len(records)
    PROVE  Posted(Sent(s, followup, records, time, m))
<1>. DEFINE u == Sent(s, followup, records, time, m)
<1>1. Sane(Fold(s))
  BY FoldsSane
<1>2. Len(u) = Len(s) + 1 + m /\ Len(s) \in Nat
  <2>1. Laid(s, followup, records, time, m, u)
    BY <1>1, SentIs
  <2>. HIDE DEF u
  <2>. QED
    BY <2>1 DEF Laid
<1>3. /\ \A k \in 0..Len(s) : Inboxes(u)[k] = Inboxes(s)[k]
      /\ \A k \in 0..m :
            Inboxes(u)[Len(s) + 1 + k] = Append(Inbox(s), followup.reminders)
  <2>1. Recorded(s, followup, records, time, m)
    BY SentFolds
  <2>. QED
    BY <2>1 DEF Recorded
<1>. HIDE DEF u
<1>4. Inbox(s) \in Seq(SUBSET Reminders)
  BY <1>2 DEF Posted, Inbox
<1>5. Append(Inbox(s), followup.reminders) \in Seq(SUBSET Reminders)
  BY <1>4, EventFields, AppendProperties
<1>6. ASSUME NEW k \in 0..Len(u)
      PROVE  Inboxes(u)[k] \in Seq(SUBSET Reminders)
  <2>1. CASE k \in 0..Len(s)
    BY <1>3, <2>1 DEF Posted
  <2>2. CASE k \notin 0..Len(s)
    <3>1. k - (Len(s) + 1) \in 0..m /\ Len(s) + 1 + (k - (Len(s) + 1)) = k
      BY <1>2, <2>2
    <3>. QED
      BY <1>3, <1>5, <3>1
  <2>. QED
    BY <2>1, <2>2
<1>. QED
  BY <1>6 DEF Posted, u

------------------------------------------------------------------------------
(* The structure is kept by every step that has these parts.               *)

Grown ==
    /\ log' \in Seq(Events) /\ Len(log) <= Len(log')
    /\ \A i \in 1..Len(log) : log'[i] = log[i]

Moved ==
    /\ durable' \in Nat /\ durable <= durable' /\ durable' <= Len(log')
    /\ now' \in 1..MaxTime /\ spent' \in 0..MaxInputs
    /\ phase' \in {"idle", "turn", "maintenance"}
    /\ run' \in Runs /\ tool' \in Tools
    /\ Flags'

Driven ==
    /\ run'.is \in {"preflight", "barrier"} => run' = run \/ run'.mark = Len(log')

Worked ==
    /\ tool'.is = "preflight" => tool' = tool \/ tool'.mark = Len(log')
    /\ tool'.is = "barrier" =>
          \/ tool' = tool
          \/ /\ tool'.mark = Len(log') /\ Len(log) < Len(log') /\ tool'.change.is \in Changing
             /\ log'[tool'.mark] = tool'.change
    /\ \/ confirmed' = confirmed
       \/ tool.is = "barrier" /\ tool.mark <= durable' /\ confirmed' = confirmed \union {tool.change}

LEMMA Same ==
    ASSUME TypeOK, log' = log
    PROVE  Grown
  BY TypeParts DEF Grown

LEMMA StructureStep ==
    ASSUME Structure, Grown, Moved, Driven, Worked, Queueing', Phased', Posted(log')
    PROVE  Structure'
<1>1. /\ log \in Seq(Events) /\ Len(log) \in Nat /\ durable \in Nat /\ durable <= Len(log)
      /\ run \in Runs /\ tool \in Tools
      /\ confirmed \subseteq {change \in Events : change.is \in Changing}
  BY TypeParts DEF Structure
<1>2. Len(log') \in Nat
  BY LenProperties DEF Grown
<1>3. TypeOK'
  <2>1. queue' \in Seq({"drive", "tool"})
    BY QueuesTyped DEF Queueing
  <2>2. confirmed' \subseteq {change \in Events : change.is \in Changing}
    <3>1. tool.is = "barrier" => tool.change \in Events /\ tool.change.is \in Changing
      BY <1>1, ToolFields DEF Structure, Kept
    <3>. QED
      BY <1>1, <3>1 DEF Worked
  <2>. QED
    BY <1>2, <2>1, <2>2 DEF TypeOK, Grown, Moved, Flags
<1>4. Marked'
  <2>1. run'.is \in {"preflight", "barrier"} => run'.mark <= Len(log')
    <3>1. run.is \in {"preflight", "barrier"} => run.mark \in Nat /\ run.mark <= Len(log)
      BY <1>1, RunFields DEF Structure, Marked
    <3>. QED
      BY <1>1, <1>2, <3>1 DEF Driven, Grown
  <2>2. tool'.is \in {"preflight", "barrier"} => tool'.mark <= Len(log')
    <3>1. tool.is \in {"preflight", "barrier"} => tool.mark \in Nat /\ tool.mark <= Len(log)
      BY <1>1, ToolFields DEF Structure, Marked
    <3>. QED
      BY <1>1, <1>2, <3>1 DEF Worked, Grown
  <2>. QED
    BY <2>1, <2>2 DEF Marked
<1>5. Kept'
  <2>0. \A change, n : n \in Nat /\ n <= Len(log) /\ Logged(change, n) =>
           \A m \in Nat : n <= m => \E i \in 1..m : log'[i] = change
    BY <1>1 DEF Logged, Grown
  <2>1. ASSUME NEW change \in confirmed'
        PROVE  \E i \in 1..durable' : log'[i] = change
    <3>1. CASE change \in confirmed
      <4>1. Logged(change, durable)
        BY <3>1 DEF Structure, Kept
      <4>. QED
        BY <1>1, <2>0, <4>1 DEF Moved
    <3>2. CASE change \notin confirmed
      <4>1. tool.is = "barrier" /\ tool.mark <= durable' /\ change = tool.change
        BY <2>1, <3>2 DEF Worked
      <4>2. tool.mark \in Nat /\ tool.mark <= Len(log) /\ Logged(tool.change, tool.mark)
        BY <1>1, <4>1, ToolFields DEF Structure, Kept, Marked
      <4>. QED
        BY <2>0, <4>1, <4>2 DEF Moved
    <3>. QED
      BY <3>1, <3>2
  <2>2. ASSUME tool'.is = "barrier"
        PROVE  /\ \E i \in 1..tool'.mark : log'[i] = tool'.change
               /\ tool'.change.is \in Changing
    <3>1. CASE tool' = tool
      <4>1. /\ tool.mark \in Nat /\ tool.mark <= Len(log) /\ Logged(tool.change, tool.mark)
            /\ tool.change.is \in Changing
        BY <1>1, <2>2, <3>1, ToolFields DEF Structure, Kept, Marked
      <4>. QED
        BY <2>0, <3>1, <4>1
    <3>2. CASE tool' # tool
      <4>1. /\ tool'.mark = Len(log') /\ Len(log) < Len(log') /\ tool'.change.is \in Changing
            /\ log'[tool'.mark] = tool'.change
        BY <2>2, <3>2 DEF Worked
      <4>. QED
        BY <1>1, <1>2, <4>1
    <3>. QED
      BY <3>1, <3>2
  <2>. QED
    BY <2>1, <2>2 DEF Kept, Logged
<1>. QED
  BY <1>3, <1>4, <1>5 DEF Structure
------------------------------------------------------------------------------
(* What the pieces of a step do to the queue and to what is durable.       *)

LEMMA AskedRun ==
    ASSUME run \in Runs, NEW q, Asked(q)
    PROVE  /\ run' \in Runs /\ (run'.is = "maintenance" <=> run.is = "maintenance")
           /\ run'.is \in {"preflight", "barrier"} => run' = run
<1>1. CASE run' = run
  BY <1>1
<1>2. CASE run.is = "none" /\ run' = [is |-> "queued"]
  <2>1. run' \in Runs /\ run'.is = "queued"
    BY <1>2, RunMade
  <2>. QED
    BY <1>2, <2>1
<1>. QED
  BY <1>1, <1>2 DEF Asked

LEMMA AskedQueue ==
    ASSUME Queueing, run \in Runs, Asked(queue), tool' = tool
    PROVE  Queueing'
<1>1. CASE run' = run /\ queue' = queue
  BY <1>1 DEF Queueing
<1>2. CASE run.is = "none" /\ run' = [is |-> "queued"] /\ queue' = Append(queue, "drive")
  <2>1. run'.is = "queued"
    BY <1>2
  <2>2. CASE queue = <<>> /\ tool.is = "none"
    BY <1>2, <2>1, <2>2, Tails DEF Queueing
  <2>3. CASE queue = <<"tool">> /\ tool.is # "none"
    BY <1>2, <2>1, <2>3, Tails DEF Queueing
  <2>. QED
    BY <1>2, <2>2, <2>3 DEF Queueing
<1>. QED
  BY <1>1, <1>2 DEF Asked

LEMMA DriveServed ==
    ASSUME Queueing, run.is \notin {"none", "queued"} \/ Serialized("drive")
    PROVE  /\ run.is # "none"
           /\ \/ queue = <<"drive">> /\ tool.is = "none"
              \/ queue = <<"drive", "tool">> /\ tool.is = "queued"
  BY Tails DEF Queueing, Serialized

LEMMA ToolServed ==
    ASSUME Queueing,
           tool.is \in {"preflight", "barrier"} \/ (tool.is # "none" /\ Serialized("tool"))
    PROVE  \/ queue = <<"tool">> /\ run.is = "none"
           \/ queue = <<"tool", "drive">> /\ run.is = "queued"
  BY Tails DEF Queueing, Serialized

LEMMA DriveLeaves ==
    ASSUME Queueing, run.is \notin {"none", "queued"} \/ Serialized("drive"),
           Leaves, tool' = tool
    PROVE  Queueing' /\ run' \in Runs /\ run'.is \in {"none", "queued"}
<1>1. CASE run' = None /\ queue' = Tail(queue)
  <2>1. run' \in Runs /\ run'.is = "none"
    BY <1>1, RunMade
  <2>. QED
    BY <1>1, <2>1, DriveServed, Tails DEF Queueing
<1>2. CASE run' = [is |-> "queued"] /\ queue' = Append(Tail(queue), "drive")
  <2>1. run' \in Runs /\ run'.is = "queued"
    BY <1>2, RunMade
  <2>. QED
    BY <1>2, <2>1, DriveServed, Tails DEF Queueing
<1>. QED
  BY <1>1, <1>2 DEF Leaves

LEMMA ToolLeaves ==
    ASSUME Queueing, run \in Runs, tool' = None,
           tool.is \in {"preflight", "barrier"} \/ (tool.is # "none" /\ Serialized("tool")),
           Asked(Tail(queue))
    PROVE  Queueing'
<1>1. tool'.is = "none"
  BY RunMade
<1>2. CASE run' = run /\ queue' = Tail(queue)
  BY <1>1, <1>2, ToolServed, Tails DEF Queueing
<1>3. CASE run.is = "none" /\ run' = [is |-> "queued"] /\ queue' = Append(Tail(queue), "drive")
  <2>1. run'.is = "queued"
    BY <1>3
  <2>2. queue = <<"tool">>
    BY <1>3, ToolServed
  <2>. QED
    BY <1>1, <1>3, <2>1, <2>2, Tails DEF Queueing
<1>. QED
  BY <1>2, <1>3 DEF Asked

LEMMA FlushedIs ==
    ASSUME TypeOK, NEW flush, flush.mark \in Nat, flush.mark <= Len(log), Flushed(flush)
    PROVE  /\ durable' \in Nat /\ durable <= durable' /\ durable' <= Len(log)
           /\ flush.mark <= durable'
  BY TypeParts DEF Flushed

LEMMA SpendIs ==
    ASSUME TypeOK, Spend
    PROVE  spent' \in 0..MaxInputs
  BY TypeParts DEF Spend

(* A step that leaves the log, the run, the queue and the tool alone.      *)
LEMMA Elsewhere ==
    ASSUME Structure, UNCHANGED <<log, durable, run, queue, tool, confirmed>>,
           now' \in 1..MaxTime, spent' \in 0..MaxInputs,
           phase' \in {"idle", "turn", "maintenance"}, Flags', Phased'
    PROVE  Structure'
<1>1. TypeOK
  BY DEF Structure
<1>2. Grown
  BY <1>1, Same
<1>3. Moved
  BY <1>1, TypeParts DEF Moved
<1>4. Driven /\ Worked
  BY DEF Driven, Worked
<1>5. Queueing' /\ Posted(log')
  BY DEF Structure, Queueing
<1>. QED
  BY <1>2, <1>3, <1>4, <1>5, StructureStep

(* A step that asks for a drive.                                           *)
LEMMA Asking ==
    ASSUME Structure, UNCHANGED <<log, durable, now, spent, tool, confirmed>>,
           Asked(queue), phase' \in {"idle", "turn", "maintenance"},
           phase' = "maintenance" <=> phase = "maintenance",
           tool.is # "none" => phase' = "turn", Flags'
    PROVE  Structure'
<1>1. TypeOK /\ Queueing /\ Phased
  BY DEF Structure
<1>2. Grown
  BY <1>1, Same
<1>3. run \in Runs
  BY <1>1, TypeParts
<1>4. Moved /\ Driven /\ Worked
  BY <1>1, <1>3, AskedRun, TypeParts DEF Moved, Driven, Worked
<1>5. Queueing'
  BY <1>1, <1>3, AskedQueue
<1>6. Phased'
  BY <1>1, <1>3, AskedRun DEF Phased
<1>7. Posted(log')
  BY DEF Structure
<1>. QED
  BY <1>2, <1>4, <1>5, <1>6, <1>7, StructureStep

(* A step by which the drive leaves the queue.                             *)
LEMMA Leaving ==
    ASSUME Structure, UNCHANGED <<log, tool, confirmed>>,
           run.is \notin {"none", "queued"} \/ Serialized("drive"), Leaves,
           durable' \in Nat, durable <= durable', durable' <= Len(log),
           now' \in 1..MaxTime, spent' \in 0..MaxInputs,
           phase' \in {"idle", "turn"}, tool.is # "none" => phase' = "turn", Flags'
    PROVE  Structure'
<1>1. TypeOK /\ Queueing /\ Phased
  BY DEF Structure
<1>2. Grown
  BY <1>1, Same
<1>3. Queueing' /\ run' \in Runs /\ run'.is \in {"none", "queued"}
  BY <1>1, DriveLeaves
<1>4. Moved /\ Driven /\ Worked
  BY <1>1, <1>3, TypeParts DEF Moved, Driven, Worked
<1>5. Phased'
  BY <1>3 DEF Phased
<1>6. Posted(log')
  BY DEF Structure
<1>. QED
  BY <1>2, <1>3, <1>4, <1>5, <1>6, StructureStep

------------------------------------------------------------------------------
(* The environment keeps the structure.                                    *)

LEMMA TickKeeps ==
    ASSUME Structure, Tick PROVE Structure'
<1>1. TypeOK /\ Phased
  BY DEF Structure
<1>2. now' \in 1..MaxTime
  BY <1>1, TypeParts DEF Tick
<1>3. Flags' /\ Phased'
  BY <1>1, TypeParts DEF Tick, runtime, Flags, Phased
<1>. QED
  BY <1>1, <1>2, <1>3, Elsewhere, TypeParts DEF Tick, runtime

LEMMA RollbackKeeps ==
    ASSUME Structure, Rollback PROVE Structure'
<1>1. TypeOK /\ Phased
  BY DEF Structure
<1>2. now' \in 1..MaxTime
  BY <1>1, TypeParts DEF Rollback
<1>3. Flags' /\ Phased' /\ spent' \in 0..MaxInputs
  BY <1>1, SpendIs, TypeParts DEF Rollback, runtime, Flags, Phased
<1>. QED
  BY <1>1, <1>2, <1>3, Elsewhere, TypeParts DEF Rollback, runtime

LEMMA StartTurnKeeps ==
    ASSUME Structure, StartTurn PROVE Structure'
<1>1. TypeOK /\ Phased
  BY DEF Structure
<1>2. Flags' /\ spent' \in 0..MaxInputs
  BY <1>1, SpendIs, TypeParts DEF StartTurn, runtime, Flags
<1>3. Phased'
  BY <1>1 DEF StartTurn, runtime, Phased
<1>. QED
  BY <1>1, <1>2, <1>3, Elsewhere, TypeParts DEF StartTurn, runtime

LEMMA DisposeKeeps ==
    ASSUME Structure, Dispose PROVE Structure'
<1>1. TypeOK /\ Phased
  BY DEF Structure
<1>2. Flags' /\ spent' \in 0..MaxInputs
  BY <1>1, SpendIs, TypeParts DEF Dispose, Flags
<1>3. Phased'
  BY <1>1 DEF Dispose, Phased
<1>. QED
  BY <1>1, <1>2, <1>3, Elsewhere, TypeParts DEF Dispose

LEMMA TurnEndsKeeps ==
    ASSUME Structure, TurnEnds PROVE Structure'
<1>1. TypeOK /\ Queueing /\ Phased
  BY DEF Structure
<1>2. tool.is = "none"
  BY RunMade DEF TurnEnds
<1>3. /\ Asked(queue) /\ requested' \in BOOLEAN /\ timer' \in BOOLEAN
  <2>1. CASE Requests(queue)
    BY <1>1, <2>1, RequestsAsk
  <2>2. CASE UNCHANGED <<run, requested, timer, queue>>
    BY <1>1, <2>2, TypeParts DEF Asked, Flags
  <2>. QED
    BY <2>1, <2>2 DEF TurnEnds
<1>4. Flags'
  BY <1>1, <1>3, TypeParts DEF TurnEnds, Flags
<1>. QED
  BY <1>1, <1>2, <1>3, <1>4, Asking DEF TurnEnds

LEMMA TimerFiresKeeps ==
    ASSUME Structure, TimerFires PROVE Structure'
<1>1. TypeOK /\ Queueing /\ Phased
  BY DEF Structure
<1>2. Asked(queue) /\ requested' \in BOOLEAN /\ timer' \in BOOLEAN
  BY <1>1, RequestsAsk DEF TimerFires
<1>3. Flags'
  BY <1>1, <1>2, TypeParts DEF TimerFires, Flags
<1>. QED
  BY <1>1, <1>2, <1>3, Asking, TypeParts DEF TimerFires, Phased

LEMMA IdleWaitEndsKeeps ==
    ASSUME Structure, IdleWaitEnds PROVE Structure'
<1>1. TypeOK /\ Queueing /\ Phased
  BY DEF Structure
<1>2. Asked(queue) /\ requested' \in BOOLEAN /\ timer' \in BOOLEAN
  BY <1>1, RequestsAsk DEF IdleWaitEnds
<1>3. Flags'
  BY <1>1, <1>2, TypeParts DEF IdleWaitEnds, Flags
<1>. QED
  BY <1>1, <1>2, <1>3, Asking, TypeParts DEF IdleWaitEnds, Phased

------------------------------------------------------------------------------
(* The steps that splice the inbox.                                        *)

LEMMA TwoAppended ==
    ASSUME NEW s \in Seq(Events), NEW d \in Events, NEW e \in Events
    PROVE  s \o <<d, e>> = Append(Append(s, d), e)
<1>1. <<d>> \in Seq(Events) /\ <<e>> \in Seq(Events)
  OBVIOUS
<1>2. <<d>> \o <<e>> = Append(<<d>>, e)
  BY <1>1, AppendIsConcat
<1>3. <<d>> \o <<e>> = <<d, e>>
  BY <1>2, PairIs
<1>4. s \o (<<d>> \o <<e>>) = (s \o <<d>>) \o <<e>>
  BY <1>1, ConcatAssociative
<1>5. s \o <<d>> = Append(s, d) /\ Append(s, d) \in Seq(Events)
  BY AppendIsConcat, AppendProperties
<1>6. Append(s, d) \o <<e>> = Append(Append(s, d), e)
  BY <1>5, AppendIsConcat
<1>. QED
  BY <1>3, <1>4, <1>5, <1>6

LEMMA Appended ==
    ASSUME TypeOK, NEW e \in Events, log' = Append(log, e)
    PROVE  Grown /\ Len(log') = Len(log) + 1 /\ log'[Len(log')] = e
<1>1. log \in Seq(Events) /\ Len(log) \in Nat
  BY TypeParts
<1>. QED
  BY <1>1, Extended DEF Grown

LEMMA InboxTyped ==
    ASSUME Structure
    PROVE  Inbox(log) \in Seq(SUBSET Reminders)
<1>1. Len(log) \in 0..Len(log)
  BY TypeParts DEF Structure
<1>. QED
  BY <1>1 DEF Structure, Posted, Inbox

LEMMA SplicesMade ==
    /\ Claimed \in Events /\ Claimed.is = "claimed"
    /\ Cleared \in Events /\ Cleared.is = "cleared"
    /\ \A R \in SUBSET Reminders :
          /\ Message(R) \in Events /\ Message(R).is = "message" /\ Message(R).reminders = R
          /\ Queued(R) \in Events /\ Queued(R).is = "queued" /\ Queued(R).reminders = R
  BY DEF Claimed, Cleared, Message, Queued, Events, Reminders

(* A step that logs and leaves the run, the queue and the tool alone.      *)
LEMMA Logging ==
    ASSUME Structure, Grown, Posted(log'),
           UNCHANGED <<durable, now, phase, run, queue, tool, confirmed>>,
           spent' \in 0..MaxInputs, Flags'
    PROVE  Structure'
<1>1. TypeOK
  BY DEF Structure
<1>2. Len(log') \in Nat
  BY LenProperties DEF Grown
<1>3. Moved
  BY <1>1, <1>2, TypeParts DEF Moved, Grown
<1>4. Driven /\ Worked
  BY DEF Driven, Worked
<1>5. Queueing' /\ Phased'
  BY DEF Structure, Queueing, Phased
<1>. QED
  BY <1>3, <1>4, <1>5, StructureStep

(* What a claim puts into the log.                                         *)
LEMMA ClaimIs ==
    ASSUME Structure, Claim
    PROVE  LET head == Head(Inbox(log))
               s == Append(log, Claimed)
           IN  /\ head \in SUBSET Reminders
               /\ log' = Append(s, Message(head))
               /\ s \in Seq(Events) /\ Posted(s)
               /\ Message(head) \in Events /\ Message(head).is = "message"
               /\ Message(head).reminders = head
<1>. DEFINE head == Head(Inbox(log))
            s == Append(log, Claimed)
<1>1. log \in Seq(Events) /\ Inbox(log) \in Seq(SUBSET Reminders) /\ Inbox(log) # <<>>
  BY TypeParts, InboxTyped DEF Structure, Claim
<1>2. head \in SUBSET Reminders
  BY <1>1, HeadTailProperties
<1>. HIDE DEF head
<1>3. /\ Message(head) \in Events /\ Message(head).is = "message"
      /\ Message(head).reminders = head
  BY <1>2, SplicesMade
<1>4. s \in Seq(Events) /\ Posted(s)
  BY <1>1, SplicesMade, AppendProperties, PostedExtended DEF Structure
<1>5. log' = log \o <<Claimed, Message(head)>>
  BY DEF Claim, head
<1>6. log' = Append(s, Message(head))
  BY <1>1, <1>3, <1>5, TwoAppended, SplicesMade
<1>. QED
  BY <1>2, <1>3, <1>4, <1>6 DEF head

LEMMA ClaimKeeps ==
    ASSUME Structure, Claim PROVE Structure'
<1>. DEFINE s == Append(log, Claimed)
            e == Message(Head(Inbox(log)))
<1>1. /\ log' = Append(s, e) /\ s \in Seq(Events) /\ Posted(s)
      /\ e \in Events /\ e.is = "message"
  BY ClaimIs
<1>2. TypeOK /\ log \in Seq(Events) /\ Len(log) \in Nat
  BY TypeParts DEF Structure
<1>3. Len(s) = Len(log) + 1 /\ \A i \in 1..Len(log) : s[i] = log[i]
  BY <1>2, SplicesMade, AppendProperties
<1>. HIDE DEF s, e
<1>4. Posted(log')
  BY <1>1, PostedExtended
<1>5. log' \in Seq(Events) /\ Len(log') = Len(s) + 1 /\ \A i \in 1..Len(s) : log'[i] = s[i]
  BY <1>1, AppendProperties
<1>6. Grown
  BY <1>2, <1>3, <1>5 DEF Grown
<1>7. Flags' /\ spent' \in 0..MaxInputs
  BY <1>2, TypeParts DEF Claim, runtime, Flags
<1>. QED
  BY <1>4, <1>6, <1>7, Logging DEF Claim, runtime

LEMMA DiscardKeeps ==
    ASSUME Structure, Discard PROVE Structure'
<1>1. TypeOK /\ log \in Seq(Events)
  BY TypeParts DEF Structure
<1>2. Grown /\ Posted(log')
  BY <1>1, SplicesMade, Appended, PostedExtended DEF Discard, Structure
<1>3. Flags' /\ spent' \in 0..MaxInputs
  BY <1>1, SpendIs, TypeParts DEF Discard, runtime, Flags
<1>. QED
  BY <1>2, <1>3, Logging DEF Discard, runtime

------------------------------------------------------------------------------
(* The drive keeps the structure.                                          *)

LEMMA DriveBeginsKeeps ==
    ASSUME Structure, DriveBegins PROVE Structure'
<1>1. TypeOK /\ Queueing /\ Phased /\ Serialized("drive") /\ run.is = "queued"
  BY DEF Structure, DriveBegins
<1>2. log \in Seq(Events) /\ Len(log) \in Nat /\ durable \in Nat /\ durable <= Len(log)
  BY <1>1, TypeParts
<1>3. CASE stopping
  <2>1. Leaves /\ requested' \in BOOLEAN
    BY <1>1, <1>3, OverLeaves DEF DriveBegins
  <2>2. Flags'
    BY <1>1, <2>1, TypeParts DEF DriveBegins, Flags
  <2>3. phase' \in {"idle", "turn"} /\ (tool.is # "none" => phase' = "turn")
    BY <1>1, TypeParts DEF DriveBegins, Phased
  <2>. QED
    BY <1>1, <1>2, <2>1, <2>2, <2>3, Leaving, TypeParts DEF DriveBegins
<1>4. CASE ~stopping
  <2>1. run' = [is |-> "preflight", mark |-> Len(log)] /\ queue' = queue /\ requested' = requested
    BY <1>4 DEF DriveBegins, Flushing
  <2>2. run' \in Runs /\ run'.is = "preflight" /\ run'.mark = Len(log)
    BY <1>2, <2>1, RunMade
  <2>3. Grown
    BY <1>1, Same DEF DriveBegins
  <2>4. Flags'
    BY <1>1, <2>1, TypeParts DEF DriveBegins, Flags
  <2>5. Moved /\ Driven /\ Worked
    BY <1>1, <1>2, <2>2, <2>4, TypeParts DEF Moved, Driven, Worked, DriveBegins
  <2>6. Queueing'
    BY <1>1, <2>1, <2>2, DriveServed DEF Queueing, DriveBegins
  <2>7. Phased'
    BY <1>1, <2>2 DEF Phased, DriveBegins
  <2>8. Posted(log')
    BY DEF Structure, DriveBegins
  <2>. QED
    BY <2>3, <2>5, <2>6, <2>7, <2>8, StructureStep
<1>. QED
  BY <1>3, <1>4

LEMMA DriveFlushFailsKeeps ==
    ASSUME Structure, DriveFlushFails PROVE Structure'
<1>1. TypeOK /\ Queueing /\ Phased /\ run.is \in {"preflight", "barrier"}
  BY DEF Structure, DriveFlushFails
<1>2. Flags
  BY <1>1, TypeParts
<1>3. Leaves /\ requested' \in BOOLEAN
  BY <1>1, <1>2, OverLeaves DEF DriveFlushFails, Flags
<1>4. Flags'
  BY <1>2, <1>3 DEF DriveFlushFails, Flags
<1>5. phase' \in {"idle", "turn"} /\ (tool.is # "none" => phase' = "turn")
  BY <1>1, TypeParts DEF DriveFlushFails, Phased
<1>6. spent' \in 0..MaxInputs
  BY <1>1, SpendIs DEF DriveFlushFails
<1>. QED
  BY <1>1, <1>3, <1>4, <1>5, <1>6, Leaving, TypeParts DEF DriveFlushFails

LEMMA RunFlushed ==
    ASSUME Structure, run.is \in {"preflight", "barrier"}, Flushed(run)
    PROVE  durable' \in Nat /\ durable <= durable' /\ durable' <= Len(log)
<1>1. TypeOK /\ run.mark <= Len(log)
  BY DEF Structure, Marked
<1>2. run.mark \in Nat
  BY <1>1, TypeParts, RunFields
<1>. QED
  BY <1>1, <1>2, FlushedIs

LEMMA DriveWaitsKeeps ==
    ASSUME Structure, DriveWaits PROVE Structure'
<1>1. TypeOK /\ Queueing /\ Phased /\ run.is = "preflight" /\ Flushed(run)
  BY DEF Structure, DriveWaits
<1>2. Flags
  BY <1>1, TypeParts
<1>3. Leaves /\ requested' \in BOOLEAN
  BY <1>1, <1>2, OverLeaves DEF DriveWaits, Flags
<1>4. durable' \in Nat /\ durable <= durable' /\ durable' <= Len(log)
  BY <1>1, RunFlushed
<1>5. timer' \in BOOLEAN /\ faulted' \in BOOLEAN /\ idleWait' \in BOOLEAN
  BY <1>2 DEF DriveWaits, Flags
<1>6. Flags'
  BY <1>2, <1>3, <1>5 DEF DriveWaits, Flags
<1>7. phase' \in {"idle", "turn"} /\ (tool.is # "none" => phase' = "turn")
  BY <1>1, TypeParts DEF DriveWaits, Phased
<1>. QED
  BY <1>1, <1>3, <1>4, <1>6, <1>7, Leaving, TypeParts DEF DriveWaits

LEMMA MaintenanceEndsKeeps ==
    ASSUME Structure, MaintenanceEnds PROVE Structure'
<1>1. TypeOK /\ Queueing /\ Phased /\ run.is = "maintenance"
  BY DEF Structure, MaintenanceEnds
<1>2. Flags /\ log \in Seq(Events) /\ Len(log) \in Nat /\ durable \in Nat /\ durable <= Len(log)
  BY <1>1, TypeParts
<1>3. tool.is = "none" /\ phase' \in {"idle", "turn"}
  BY <1>1 DEF Phased, MaintenanceEnds
<1>4. CASE run.sent
  <2>1. run' = [is |-> "barrier", mark |-> Len(log)] /\ queue' = queue /\ requested' = requested
    BY <1>4 DEF MaintenanceEnds, Flushing
  <2>2. run' \in Runs /\ run'.is = "barrier" /\ run'.mark = Len(log)
    BY <1>2, <2>1, RunMade
  <2>3. Grown
    BY <1>1, Same DEF MaintenanceEnds
  <2>4. Flags'
    BY <1>2, <2>1 DEF MaintenanceEnds, Flags
  <2>5. Moved /\ Driven /\ Worked
    BY <1>1, <1>2, <1>3, <2>2, <2>4, TypeParts DEF Moved, Driven, Worked, MaintenanceEnds
  <2>6. Queueing'
    BY <1>1, <1>3, <2>1, <2>2, DriveServed DEF Queueing, MaintenanceEnds
  <2>7. Phased'
    BY <1>3, <2>2 DEF Phased, MaintenanceEnds
  <2>8. Posted(log')
    BY DEF Structure, MaintenanceEnds
  <2>. QED
    BY <2>3, <2>5, <2>6, <2>7, <2>8, StructureStep
<1>5. CASE ~run.sent
  <2>1. Leaves /\ requested' \in BOOLEAN
    BY <1>1, <1>2, <1>5, OverLeaves DEF MaintenanceEnds, Flags
  <2>2. Flags'
    BY <1>2, <2>1 DEF MaintenanceEnds, Flags
  <2>. QED
    BY <1>1, <1>2, <1>3, <2>1, <2>2, Leaving, TypeParts DEF MaintenanceEnds
<1>. QED
  BY <1>4, <1>5

LEMMA DriveBarrierKeeps ==
    ASSUME Structure, DriveBarrier PROVE Structure'
<1>1. TypeOK /\ Queueing /\ Phased /\ run.is = "barrier" /\ Flushed(run)
  BY DEF Structure, DriveBarrier
<1>2. Flags
  BY <1>1, TypeParts
<1>3. Leaves /\ requested' \in BOOLEAN
  <2>1. (requested \/ ~stopping) \in BOOLEAN
    OBVIOUS
  <2>. QED
    BY <1>1, <2>1, OverLeaves DEF DriveBarrier
<1>4. durable' \in Nat /\ durable <= durable' /\ durable' <= Len(log)
  BY <1>1, RunFlushed
<1>5. Flags'
  BY <1>2, <1>3 DEF DriveBarrier, Flags
<1>6. phase' \in {"idle", "turn"} /\ (tool.is # "none" => phase' = "turn")
  BY <1>1, TypeParts DEF DriveBarrier, Phased
<1>. QED
  BY <1>1, <1>3, <1>4, <1>5, <1>6, Leaving, TypeParts DEF DriveBarrier

(* What a maintenance of the drive queues and records.                     *)
LEMMA PresentedIs ==
    ASSUME NEW f, Sane(f), NEW time \in Nat, NEW records, Batch(f, records, time)
    PROVE  /\ Presented(records, time) \in SUBSET Reminders
           /\ Presented(records, time) = {Reminder(records[k], time) : k \in 1..Len(records)}
           /\ \A k \in 1..Len(records) :
                 /\ records[k] \in f.active /\ records[k] \in Records
                 /\ Reminder(records[k], time) \in Reminders
                 /\ Reminder(records[k], time).id = records[k].id
                 /\ records[k].at <= Reminder(records[k], time).at
<1>1. DOMAIN records = 1..Len(records)
  BY DEF Batch
<1>2. ASSUME NEW k \in 1..Len(records)
      PROVE  /\ records[k] \in f.active /\ records[k] \in Records
             /\ Reminder(records[k], time) \in Reminders
             /\ Reminder(records[k], time).id = records[k].id
             /\ records[k].at <= Reminder(records[k], time).at
  <2>. DEFINE r == records[k]
  <2>1. r \in f.active /\ r \in Records /\ r.at <= time
    BY DEF Batch, Sane
  <2>. HIDE DEF r
  <2>2. r.interval # 0 => Occurrence(r, time) \in Nat /\ r.at <= Occurrence(r, time)
    BY <2>1, OccurrenceIs
  <2>3. /\ Reminder(r, time) \in Reminders /\ Reminder(r, time).id = r.id
        /\ r.at <= Reminder(r, time).at
    BY <2>1, <2>2 DEF Reminder, Reminders, Records
  <2>. QED
    BY <2>1, <2>3 DEF r
<1>. QED
  BY <1>1, <1>2 DEF Presented

Decided(time) == Decision(Fold(log), time)
Followup(time) == Queued(Presented(Decided(time).records, time))

LEMMA SendIs ==
    ASSUME Structure, NEW time \in Readings, NEW outcome \in {"sent", "unsent", "unrecorded"},
           DriveSends(time, outcome)
    PROVE  /\ time \in 1..MaxTime /\ time \in Nat /\ Fold(log).ok
           /\ \/ log' = log
              \/ /\ Batch(Fold(log), Decided(time).records, time)
                 /\ Followup(time) \in Events /\ Followup(time).is = "queued"
                 /\ Followup(time).reminders = Presented(Decided(time).records, time)
                 /\ \E n \in 0..Len(Decided(time).records) :
                       /\ log' = Sent(log, Followup(time), Decided(time).records, time, n)
                       /\ n # Len(Decided(time).records) => unrecorded'
<1>1. TypeOK /\ log \in Seq(Events) /\ now \in 1..MaxTime /\ MaxTime \in Nat
  BY TypeParts DEF Structure
<1>2. time \in 1..MaxTime /\ time \in Nat
  BY <1>1 DEF Readings
<1>3. Fold(log).ok /\ Sane(Fold(log))
  BY <1>1, FoldsSane DEF DriveSends
<1>4. CASE Decided(time).is # "send" \/ outcome = "unsent"
  <2>1. log' = log
    <3>1. Decided(time).is # "send" => Decided(time).is = "wait"
      BY <1>2, <1>3, DecisionIs DEF Decided
    <3>. QED
      BY <1>4, <3>1 DEF DriveSends, Decided
  <2>. QED
    BY <1>2, <1>3, <2>1
<1>5. CASE Decided(time).is = "send" /\ outcome # "unsent"
  <2>. DEFINE records == Decided(time).records
              events == Dispatches(records, time)
  <2>1. Batch(Fold(log), records, time)
    BY <1>2, <1>3, <1>5, DecisionIs DEF Decided
  <2>2. Presented(records, time) \in SUBSET Reminders
    BY <1>2, <1>3, <2>1, PresentedIs
  <2>3. /\ Followup(time) \in Events /\ Followup(time).is = "queued"
        /\ Followup(time).reminders = Presented(records, time)
    BY <2>2, SplicesMade DEF Followup
  <2>4. Len(events) = Len(records) /\ Len(records) \in Nat
    BY <2>1 DEF Dispatches, Batch
  <2>5. PICK n \in IF outcome = "unrecorded" THEN 0..Len(events) - 1 ELSE {Len(events)} :
           log' = log \o <<Followup(time)>> \o SubSeq(events, 1, n)
    BY <1>5 DEF DriveSends, Decided, Followup
  <2>6. n \in 0..Len(records)
    BY <2>4, <2>5
  <2>7. log' = Sent(log, Followup(time), records, time, n)
    BY <2>5 DEF Sent
  <2>8. n # Len(records) => unrecorded'
    BY <2>4, <2>5 DEF DriveSends
  <2>. HIDE DEF records, events
  <2>. QED
    BY <1>2, <1>3, <2>1, <2>3, <2>6, <2>7, <2>8 DEF records
<1>. QED
  BY <1>4, <1>5

LEMMA DriveSendsKeeps ==
    ASSUME Structure, NEW time \in Readings, NEW outcome \in {"sent", "unsent", "unrecorded"},
           DriveSends(time, outcome)
    PROVE  Structure'
<1>1. TypeOK /\ Queueing /\ Phased /\ Posted(log) /\ run.is = "preflight" /\ Flushed(run)
  BY DEF Structure, DriveSends
<1>2. Flags /\ log \in Seq(Events) /\ Len(log) \in Nat
  BY <1>1, TypeParts
<1>3. Grown /\ Posted(log')
  <2>1. CASE log' = log
    BY <1>1, <2>1, Same
  <2>2. CASE log' # log
    <3>. DEFINE records == Decided(time).records
                followup == Followup(time)
    <3>1. /\ time \in Nat /\ Fold(log).ok /\ Batch(Fold(log), records, time)
          /\ followup \in Events /\ followup.is = "queued"
          /\ \E n \in 0..Len(records) : log' = Sent(log, followup, records, time, n)
      BY <2>2, SendIs
    <3>. HIDE DEF records, followup
    <3>2. PICK n \in 0..Len(records) : log' = Sent(log, followup, records, time, n)
      BY <3>1
    <3>3. Sane(Fold(log)) /\ Len(records) \in Nat
      BY <1>2, <3>1, FoldsSane DEF Batch
    <3>4. /\ log' \in Seq(Events) /\ Len(log') = Len(log) + 1 + n
          /\ \A i \in 1..Len(log) : log'[i] = log[i]
      <4>1. Laid(log, followup, records, time, n, log')
        BY <1>2, <3>1, <3>2, <3>3, SentIs
      <4>. QED
        BY <4>1 DEF Laid
    <3>5. Posted(log')
      BY <1>1, <1>2, <3>1, <3>2, PostedSent
    <3>. QED
      BY <1>2, <3>3, <3>4, <3>5 DEF Grown
  <2>. QED
    BY <2>1, <2>2
<1>4. durable' \in Nat /\ durable <= durable' /\ durable' <= Len(log')
  BY <1>1, <1>2, <1>3, RunFlushed, LenProperties DEF Grown
<1>5. run' \in Runs /\ run'.is = "maintenance"
  <2>1. PICK wakes \in BOOLEAN, sent \in BOOLEAN :
           run' = [is |-> "maintenance", wakes |-> wakes, sent |-> sent]
    BY DEF DriveSends
  <2>. QED
    BY <2>1, RunMade
<1>6. Flags'
  <2>1. gaveUp' \in BOOLEAN
    BY DEF DriveSends
  <2>2. unrecorded' \in BOOLEAN
    BY DEF DriveSends
  <2>3. timer' \in BOOLEAN /\ faulted' \in BOOLEAN
    BY <1>2 DEF DriveSends, Flags
  <2>. QED
    BY <1>2, <2>1, <2>2, <2>3 DEF DriveSends, Flags
<1>7. spent' \in 0..MaxInputs
  BY <1>1, SpendIs, TypeParts DEF DriveSends
<1>8. now' \in 1..MaxTime /\ phase' = "maintenance" /\ tool' = tool /\ queue' = queue
      /\ confirmed' = confirmed
  BY SendIs DEF DriveSends
<1>9. tool.is = "none"
  BY <1>1 DEF Phased, DriveSends
<1>10. Moved /\ Driven /\ Worked
  BY <1>1, <1>4, <1>5, <1>6, <1>7, <1>8, TypeParts DEF Moved, Driven, Worked
<1>11. Queueing'
  BY <1>1, <1>5, <1>8, <1>9, DriveServed DEF Queueing
<1>12. Phased'
  BY <1>5, <1>8, <1>9 DEF Phased
<1>. QED
  BY <1>3, <1>10, <1>11, <1>12, StructureStep

------------------------------------------------------------------------------
(* The tools and the crash keep the structure.                             *)

LEMMA CallKeeps ==
    ASSUME Structure, NEW call \in Calls, Spend, Call(call)
    PROVE  Structure'
<1>1. TypeOK /\ Queueing /\ Phased /\ Posted(log)
  BY DEF Structure
<1>2. tool'.is = "queued" /\ tool' \in Tools
  BY ToolMade DEF Call
<1>3. tool.is = "none" /\ phase = "turn"
  BY RunMade DEF Call
<1>4. Flags'
  BY <1>1, TypeParts DEF Call, runtime, Flags
<1>5. Moved /\ Driven /\ Worked /\ Grown
  BY <1>1, <1>2, <1>4, SpendIs, Same, TypeParts DEF Moved, Driven, Worked, Call, runtime
<1>6. Queueing'
  BY <1>1, <1>2, <1>3, Tails DEF Queueing, Call, runtime
<1>7. Phased'
  BY <1>1, <1>3 DEF Phased, Call, runtime
<1>8. Posted(log')
  BY <1>1 DEF Call
<1>. QED
  BY <1>5, <1>6, <1>7, <1>8, StructureStep

(* A step by which the tool leaves the queue.                              *)
LEMMA ToolLeaving ==
    ASSUME Structure, UNCHANGED <<log, now, phase>>,
           tool.is \in {"preflight", "barrier"} \/ (tool.is # "none" /\ Serialized("tool")),
           tool' = None, Asked(Tail(queue)),
           durable' \in Nat, durable <= durable', durable' <= Len(log),
           spent' \in 0..MaxInputs, Flags',
           \/ confirmed' = confirmed
           \/ tool.is = "barrier" /\ tool.mark <= durable' /\ confirmed' = confirmed \union {tool.change}
    PROVE  Structure'
<1>1. TypeOK /\ Queueing /\ Phased /\ Posted(log)
  BY DEF Structure
<1>2. run \in Runs /\ tool'.is = "none" /\ tool' \in Tools
  BY <1>1, TypeParts, RunMade, ToolMade
<1>3. Queueing'
  BY <1>1, <1>2, ToolLeaves
<1>4. /\ run' \in Runs /\ (run'.is = "maintenance" <=> run.is = "maintenance")
      /\ (run'.is \in {"preflight", "barrier"} => run' = run)
  BY <1>2, AskedRun
<1>5. Moved /\ Driven /\ Worked /\ Grown
  BY <1>1, <1>2, <1>4, Same, TypeParts DEF Moved, Driven, Worked
<1>6. Phased'
  BY <1>1, <1>2, <1>4 DEF Phased
<1>. QED
  BY <1>1, <1>3, <1>5, <1>6, StructureStep

LEMMA ToolBeginsKeeps ==
    ASSUME Structure, ToolBegins PROVE Structure'
<1>1. TypeOK /\ Queueing /\ Phased /\ Posted(log) /\ tool.is = "queued" /\ Serialized("tool")
  BY DEF Structure, ToolBegins
<1>2. /\ log \in Seq(Events) /\ Len(log) \in Nat /\ durable \in Nat /\ durable <= Len(log)
      /\ tool \in Tools
  BY <1>1, TypeParts
<1>3. Flags' /\ spent' \in 0..MaxInputs
  BY <1>1, TypeParts DEF ToolBegins, runtime, Flags
<1>4. CASE tool' = [is |-> "preflight", call |-> tool.call, mark |-> Len(log)] /\ queue' = queue
  <2>1. tool'.is = "preflight" /\ tool'.mark = Len(log) /\ tool' \in Tools
    BY <1>1, <1>2, <1>4, ToolFields, ToolMade
  <2>2. Moved /\ Driven /\ Worked /\ Grown
    BY <1>1, <1>2, <1>3, <2>1, Same, TypeParts DEF Moved, Driven, Worked, ToolBegins, runtime
  <2>3. Queueing'
    BY <1>1, <1>4, <2>1, ToolServed DEF Queueing, ToolBegins, runtime
  <2>4. Phased' /\ Posted(log')
    BY <1>1 DEF Phased, ToolBegins, runtime
  <2>. QED
    BY <2>2, <2>3, <2>4, StructureStep
<1>5. CASE tool' = None /\ queue' = Tail(queue)
  <2>1. Asked(Tail(queue))
    BY <1>5 DEF Asked, ToolBegins, runtime
  <2>. QED
    BY <1>1, <1>2, <1>3, <1>5, <2>1, ToolLeaving DEF ToolBegins
<1>. QED
  BY <1>4, <1>5 DEF ToolBegins

LEMMA ToolFlushFailsKeeps ==
    ASSUME Structure, ToolFlushFails PROVE Structure'
<1>1. TypeOK /\ tool.is \in {"preflight", "barrier"}
  BY DEF Structure, ToolFlushFails
<1>2. Flags' /\ spent' \in 0..MaxInputs
  BY <1>1, SpendIs, TypeParts DEF ToolFlushFails, runtime, Flags
<1>3. Asked(Tail(queue))
  BY DEF Asked, ToolFlushFails, runtime
<1>. QED
  BY <1>1, <1>2, <1>3, ToolLeaving, TypeParts DEF ToolFlushFails

LEMMA ToolFlushed ==
    ASSUME Structure, tool.is \in {"preflight", "barrier"}, Flushed(tool)
    PROVE  /\ durable' \in Nat /\ durable <= durable' /\ durable' <= Len(log)
           /\ tool.mark <= durable'
<1>1. TypeOK /\ tool.mark <= Len(log)
  BY DEF Structure, Marked
<1>2. tool.mark \in Nat
  BY <1>1, TypeParts, ToolFields
<1>. QED
  BY <1>1, <1>2, FlushedIs

LEMMA ToolDeclinesKeeps ==
    ASSUME Structure, ToolDeclines PROVE Structure'
<1>1. TypeOK /\ tool.is = "preflight" /\ Flushed(tool)
  BY DEF Structure, ToolDeclines
<1>2. durable' \in Nat /\ durable <= durable' /\ durable' <= Len(log)
  BY <1>1, ToolFlushed
<1>3. Asked(Tail(queue)) /\ requested' \in BOOLEAN /\ timer' \in BOOLEAN
  BY <1>1, RequestsAsk DEF ToolDeclines
<1>4. Flags' /\ spent' \in 0..MaxInputs
  BY <1>1, <1>3, TypeParts DEF ToolDeclines, Flags
<1>. QED
  BY <1>1, <1>2, <1>3, <1>4, ToolLeaving DEF ToolDeclines

LEMMA ToolConfirmsKeeps ==
    ASSUME Structure, ToolConfirms PROVE Structure'
<1>1. TypeOK /\ tool.is = "barrier" /\ Flushed(tool)
  BY DEF Structure, ToolConfirms, Acknowledged
<1>2. durable' \in Nat /\ durable <= durable' /\ durable' <= Len(log) /\ tool.mark <= durable'
  BY <1>1, ToolFlushed
<1>3. Asked(Tail(queue)) /\ requested' \in BOOLEAN /\ timer' \in BOOLEAN
  BY <1>1, RequestsAsk DEF ToolConfirms
<1>4. Flags' /\ spent' \in 0..MaxInputs
  BY <1>1, <1>3, TypeParts DEF ToolConfirms, Flags
<1>. QED
  BY <1>1, <1>2, <1>3, <1>4, ToolLeaving DEF ToolConfirms

(* The change of a call: a fresh id, or one that is found.                 *)
LEMMA ChangeIs ==
    ASSUME Structure, ToolChanges
    PROVE  LET f == Fold(log)
               change == Change(tool.call, f)
           IN  /\ change \in Events /\ change.is \in Changing /\ Sane(f) /\ f.ok
               /\ log' = Append(log, change)
               /\ \/ \E record \in Records : change = Create(record) /\ record.id = f.seen + 1
                  \/ \E id \in Nat : change = Delete(id) /\ Found(f, id) # {}
<1>. DEFINE f == Fold(log)
            change == Change(tool.call, f)
<1>1. /\ TypeOK /\ log \in Seq(Events) /\ tool \in Tools /\ tool.is = "preflight"
      /\ now \in 1..MaxTime /\ MaxTime \in Nat
  BY TypeParts DEF Structure, ToolChanges
<1>2. tool.call \in Calls /\ Sane(f)
  BY <1>1, ToolFields, FoldsSane
<1>3. Changes(tool.call, f) /\ log' = Append(log, change)
  BY DEF ToolChanges
<1>. HIDE DEF f
<1>4. f.seen \in Nat /\ f.ok
  BY <1>2, <1>3 DEF Sane, Changes
<1>5. CASE tool.call.is = "create"
  <2>. DEFINE record == [id |-> f.seen + 1, at |-> now + tool.call.delay,
                         interval |-> tool.call.interval]
  <2>1. tool.call.delay \in Nat \ {0} /\ tool.call.interval \in Nat
    BY <1>2, <1>5 DEF Calls
  <2>2. record \in Records /\ record.id = f.seen + 1
    BY <1>1, <1>4, <2>1 DEF Records
  <2>3. change = Create(record)
    BY <1>5 DEF Change
  <2>. HIDE DEF record
  <2>4. Create(record) \in Events /\ Create(record).is \in Changing
    BY <2>2 DEF Create, Events, Changing
  <2>. QED
    BY <1>2, <1>3, <1>4, <2>2, <2>3, <2>4 DEF f
<1>6. CASE tool.call.is = "delete"
  <2>1. tool.call.id \in Nat /\ Found(f, tool.call.id) # {}
    BY <1>2, <1>3, <1>6 DEF Calls, Changes
  <2>2. change = Delete(tool.call.id)
    BY <1>6 DEF Change
  <2>3. Delete(tool.call.id) \in Events /\ Delete(tool.call.id).is \in Changing
    BY <2>1 DEF Delete, Events, Changing
  <2>. QED
    BY <1>2, <1>3, <1>4, <2>1, <2>2, <2>3 DEF f
<1>. QED
  BY <1>2, <1>5, <1>6 DEF Calls

LEMMA ToolChangesKeeps ==
    ASSUME Structure, ToolChanges PROVE Structure'
<1>. DEFINE change == Change(tool.call, Fold(log))
<1>1. TypeOK /\ Queueing /\ Phased /\ Posted(log) /\ tool.is = "preflight" /\ Flushed(tool)
  BY DEF Structure, ToolChanges
<1>2. change \in Events /\ change.is \in Changing /\ log' = Append(log, change)
  BY ChangeIs
<1>3. tool' = [is |-> "barrier", change |-> change, mark |-> Len(log')]
  BY DEF ToolChanges
<1>. HIDE DEF change
<1>4. log \in Seq(Events) /\ Len(log) \in Nat /\ run \in Runs
  BY <1>1, TypeParts
<1>5. Grown /\ Len(log') = Len(log) + 1 /\ log'[Len(log')] = change
  BY <1>1, <1>2, Appended
<1>6. Posted(log')
  BY <1>1, <1>2, <1>4, PostedExtended DEF Changing
<1>7. tool' \in Tools /\ tool'.is = "barrier" /\ tool'.mark = Len(log') /\ tool'.change = change
  BY <1>2, <1>3, <1>4, <1>5, ToolMade
<1>8. Asked(queue) /\ requested' \in BOOLEAN /\ timer' \in BOOLEAN
  BY <1>1, RequestsAsk DEF ToolChanges
<1>9. Flags'
  BY <1>1, <1>8, TypeParts DEF ToolChanges, Flags
<1>10. durable' \in Nat /\ durable <= durable' /\ durable' <= Len(log')
  BY <1>1, <1>4, <1>5, ToolFlushed
<1>11. /\ run' \in Runs /\ (run'.is = "maintenance" <=> run.is = "maintenance")
       /\ (run'.is \in {"preflight", "barrier"} => run' = run)
  BY <1>4, <1>8, AskedRun
<1>12. Moved /\ Driven
  BY <1>1, <1>7, <1>9, <1>10, <1>11, TypeParts DEF Moved, Driven, ToolChanges
<1>13. Worked
  BY <1>2, <1>4, <1>5, <1>7 DEF Worked, ToolChanges
<1>14. Queueing'
  <2>1. CASE run' = run /\ queue' = queue
    BY <1>1, <1>7, <2>1, ToolServed DEF Queueing
  <2>2. CASE run.is = "none" /\ run' = [is |-> "queued"] /\ queue' = Append(queue, "drive")
    <3>1. run'.is = "queued"
      BY <2>2
    <3>. QED
      BY <1>1, <1>7, <2>2, <3>1, ToolServed, Tails DEF Queueing
  <2>. QED
    BY <1>8, <2>1, <2>2 DEF Asked
<1>15. Phased'
  BY <1>1, <1>11 DEF Phased, ToolChanges
<1>. QED
  BY <1>5, <1>6, <1>12, <1>13, <1>14, <1>15, StructureStep

LEMMA CrashKeeps ==
    ASSUME Structure, Crash PROVE Structure'
<1>1. TypeOK /\ Posted(log) /\ Kept
  BY DEF Structure
<1>2. /\ log \in Seq(Events) /\ Len(log) \in Nat /\ durable \in Nat /\ durable <= Len(log)
      /\ unrecorded \in BOOLEAN
  BY <1>1, TypeParts DEF Flags
<1>3. PICK n \in durable..Len(log) :
         /\ log' = SubSeq(log, 1, n) /\ durable' = n
         /\ unrecorded' = (unrecorded \/ (n < Len(log) /\ log[n + 1].is = "dispatch"))
  BY DEF Crash
<1>4. n \in 0..Len(log)
  BY <1>2
<1>5. log' \in Seq(Events) /\ Len(log') = n /\ \A i \in 1..n : log'[i] = log[i]
  BY <1>2, <1>3, <1>4, CutIs
<1>6. Posted(log')
  BY <1>1, <1>2, <1>3, <1>4, PostedCut
<1>7. unrecorded' \in BOOLEAN
  BY <1>3
<1>8. run' = [is |-> "queued"] /\ tool' = None /\ queue' = <<"drive">> /\ phase' = "idle"
  BY DEF Crash
<1>9. run' \in Runs /\ run'.is = "queued" /\ tool' \in Tools /\ tool'.is = "none"
  BY <1>8, RunMade, ToolMade
<1>10. Flags' /\ spent' \in 0..MaxInputs
  BY <1>1, <1>7, SpendIs DEF Crash, Flags
<1>11. TypeOK'
  BY <1>1, <1>3, <1>4, <1>5, <1>8, <1>9, <1>10, QueuesTyped, TypeParts DEF TypeOK, Flags, Crash
<1>12. Queueing' /\ Phased' /\ Marked'
  BY <1>8, <1>9 DEF Queueing, Phased, Marked
<1>13. Kept'
  <2>1. \A change \in confirmed : \E i \in 1..durable' : log'[i] = change
    BY <1>1, <1>2, <1>3, <1>5 DEF Kept, Logged
  <2>. QED
    BY <1>9, <2>1 DEF Kept, Logged, Crash
<1>. QED
  BY <1>6, <1>11, <1>12, <1>13 DEF Structure

------------------------------------------------------------------------------
(* All steps together: the structure, and what becomes of the log.         *)

LEMMA StructureInit ==
    ASSUME Init PROVE Structure
<1>1. log = <<>> /\ log \in Seq(Events) /\ Len(log) = 0 /\ Len(log) \in Nat
  BY DEF Init
<1>2. /\ run \in Runs /\ run.is = "queued" /\ tool \in Tools /\ tool.is = "none"
  BY RunMade, ToolMade DEF Init
<1>3. TypeOK
  <2>1. 1 \in 1..MaxTime /\ 0 \in 0..MaxInputs /\ 0 \in 0..Len(log)
    BY <1>1, ScheduleAssumption
  <2>2. {requested, timer, idleWait, faulted, stopping, gaveUp, unrecorded} \subseteq BOOLEAN
    BY DEF Init
  <2>3. queue \in Seq({"drive", "tool"})
    BY QueuesTyped DEF Init
  <2>. QED
    BY <1>1, <1>2, <2>1, <2>2, <2>3 DEF TypeOK, Init
<1>4. Queueing /\ Phased /\ Marked
  BY <1>2 DEF Queueing, Phased, Marked, Init
<1>5. Kept
  BY <1>2 DEF Kept, Init
<1>6. Posted(log)
  <2>1. Inboxes(log)[0] = <<>>
    BY <1>1, InboxesUnfold
  <2>2. Inboxes(log)[0] \in Seq(SUBSET Reminders)
    BY <2>1
  <2>3. \A n \in 0..Len(log) : n = 0
    BY <1>1
  <2>. QED
    BY <2>2, <2>3 DEF Posted
<1>. QED
  BY <1>3, <1>4, <1>5, <1>6 DEF Structure

LEMMA CallsMade ==
    /\ \A delay \in Delays : [is |-> "create", delay |-> delay, interval |-> 0] \in Calls
    /\ [is |-> "create", delay |-> Interval, interval |-> Interval] \in Calls
    /\ \A id \in 1..MaxInputs : [is |-> "delete", id |-> id] \in Calls
  BY ScheduleAssumption DEF Calls

(* A call of one of the tools.                                             *)
Calling == \E call \in Calls : Spend /\ Call(call)

LEMMA NextSteps ==
    ASSUME Next
    PROVE  \/ DriveBegins \/ DriveWaits \/ MaintenanceEnds \/ DriveBarrier
           \/ \E time \in Readings, outcome \in {"sent", "unsent", "unrecorded"} :
                 DriveSends(time, outcome)
           \/ ToolBegins \/ ToolChanges \/ ToolDeclines \/ ToolConfirms
           \/ DriveFlushFails \/ ToolFlushFails
           \/ Tick \/ Rollback \/ StartTurn \/ Claim \/ Discard
           \/ TurnEnds \/ TimerFires \/ IdleWaitEnds \/ Dispose
           \/ Calling \/ Crash
<1>1. CASE \E delay \in Delays : schedule_create(delay, 0)
  BY <1>1, CallsMade DEF schedule_create, Calling
<1>2. CASE schedule_create(Interval, Interval)
  BY <1>2, CallsMade DEF schedule_create, Calling
<1>3. CASE \E id \in 1..MaxInputs : schedule_delete(id)
  BY <1>3, CallsMade DEF schedule_delete, Calling
<1>. QED
  BY <1>1, <1>2, <1>3 DEF Next

LEMMA StructureNext ==
    ASSUME Structure, Next
    PROVE  Structure'
<1>1. CASE DriveBegins \/ DriveWaits \/ MaintenanceEnds \/ DriveBarrier \/ DriveFlushFails
  BY <1>1, DriveBeginsKeeps, DriveWaitsKeeps, MaintenanceEndsKeeps, DriveBarrierKeeps,
     DriveFlushFailsKeeps
<1>2. CASE \E time \in Readings, outcome \in {"sent", "unsent", "unrecorded"} :
              DriveSends(time, outcome)
  BY <1>2, DriveSendsKeeps
<1>3. CASE ToolBegins \/ ToolChanges \/ ToolDeclines \/ ToolConfirms \/ ToolFlushFails
  BY <1>3, ToolBeginsKeeps, ToolChangesKeeps, ToolDeclinesKeeps, ToolConfirmsKeeps,
     ToolFlushFailsKeeps
<1>4. CASE Tick \/ Rollback \/ StartTurn \/ Claim \/ Discard
  BY <1>4, TickKeeps, RollbackKeeps, StartTurnKeeps, ClaimKeeps, DiscardKeeps
<1>5. CASE TurnEnds \/ TimerFires \/ IdleWaitEnds \/ Dispose
  BY <1>5, TurnEndsKeeps, TimerFiresKeeps, IdleWaitEndsKeeps, DisposeKeeps
<1>6. CASE Calling
  BY <1>6, CallKeeps DEF Calling
<1>7. CASE Crash
  BY <1>7, CrashKeeps
<1>. QED
  BY <1>1, <1>2, <1>3, <1>4, <1>5, <1>6, <1>7, NextSteps

(* The six things that can happen to the log.                              *)
Claims ==
    /\ Inbox(log) # <<>>
    /\ log' = Append(Append(log, Claimed), Message(Head(Inbox(log))))
Clears == log' = Append(log, Cleared)
Creates == \E record \in Records :
    record.id = Fold(log).seen + 1 /\ log' = Append(log, Create(record))
Deletes == \E id \in Nat : Found(Fold(log), id) # {} /\ log' = Append(log, Delete(id))
Sends == \E time \in Nat : \E records : \E n \in 0..Len(records) :
    /\ Batch(Fold(log), records, time)
    /\ log' = Sent(log, Queued(Presented(records, time)), records, time, n)
    /\ n # Len(records) => unrecorded'
Loses == \E n \in 0..Len(log) :
    /\ log' = SubSeq(log, 1, n)
    /\ n < Len(log) /\ log[n + 1].is = "dispatch" => unrecorded'

LogStep ==
    /\ log' = log \/ Claims \/ Clears \/ Creates \/ Deletes \/ Sends \/ Loses
    /\ unrecorded => unrecorded'

LEMMA LogSteps ==
    ASSUME Structure, Next
    PROVE  LogStep
<1>1. CASE DriveBegins \/ DriveWaits \/ MaintenanceEnds \/ DriveBarrier \/ DriveFlushFails
  <2>1. CASE DriveBegins
    BY <2>1 DEF DriveBegins, LogStep
  <2>2. CASE DriveWaits
    BY <2>2 DEF DriveWaits, LogStep
  <2>3. CASE MaintenanceEnds
    BY <2>3 DEF MaintenanceEnds, LogStep
  <2>4. CASE DriveBarrier \/ DriveFlushFails
    BY <2>4 DEF DriveBarrier, DriveFlushFails, LogStep
  <2>. QED
    BY <1>1, <2>1, <2>2, <2>3, <2>4
<1>2. CASE \E time \in Readings, outcome \in {"sent", "unsent", "unrecorded"} :
              DriveSends(time, outcome)
  <2>1. PICK time \in Readings, outcome \in {"sent", "unsent", "unrecorded"} :
           DriveSends(time, outcome)
    BY <1>2
  <2>2. unrecorded => unrecorded'
    BY <2>1 DEF DriveSends
  <2>3. log' = log \/ Sends
    <3>. SUFFICES ASSUME log' # log PROVE Sends
      OBVIOUS
    <3>. DEFINE records == Decided(time).records
    <3>1. /\ time \in Nat /\ Batch(Fold(log), records, time)
          /\ \E n \in 0..Len(records) :
                /\ log' = Sent(log, Queued(Presented(records, time)), records, time, n)
                /\ n # Len(records) => unrecorded'
      BY <2>1, SendIs DEF Followup
    <3>. HIDE DEF records
    <3>. QED
      BY <3>1 DEF Sends
  <2>. QED
    BY <2>2, <2>3 DEF LogStep
<1>3. CASE ToolBegins \/ ToolDeclines \/ ToolConfirms \/ ToolFlushFails
  BY <1>3 DEF ToolBegins, ToolDeclines, ToolConfirms, ToolFlushFails, runtime, LogStep
<1>4. CASE ToolChanges
  <2>1. Creates \/ Deletes
    BY <1>4, ChangeIs DEF Creates, Deletes
  <2>2. unrecorded' = unrecorded
    BY <1>4 DEF ToolChanges
  <2>. QED
    BY <2>1, <2>2 DEF LogStep
<1>5. CASE Tick \/ Rollback \/ StartTurn \/ TurnEnds \/ TimerFires \/ IdleWaitEnds \/ Dispose
  BY <1>5 DEF Tick, Rollback, StartTurn, TurnEnds, TimerFires, IdleWaitEnds, Dispose, runtime,
              LogStep
<1>6. CASE Claim
  <2>1. Claims
    BY <1>6, ClaimIs DEF Claims, Claim
  <2>. QED
    BY <1>6, <2>1 DEF Claim, runtime, LogStep
<1>7. CASE Discard
  BY <1>7 DEF Discard, runtime, LogStep, Clears
<1>8. CASE Calling
  BY <1>8 DEF Calling, Call, runtime, LogStep
<1>9. CASE Crash
  <2>1. durable \in Nat /\ Len(log) \in Nat
    BY TypeParts DEF Structure
  <2>2. PICK n \in durable..Len(log) :
           /\ log' = SubSeq(log, 1, n)
           /\ unrecorded' = (unrecorded \/ (n < Len(log) /\ log[n + 1].is = "dispatch"))
    BY <1>9 DEF Crash
  <2>3. n \in 0..Len(log)
    BY <2>1
  <2>4. (n < Len(log) /\ log[n + 1].is = "dispatch") => unrecorded'
    BY <2>2
  <2>5. unrecorded => unrecorded'
    BY <2>2
  <2>. QED
    BY <2>2, <2>3, <2>4, <2>5 DEF LogStep, Loses
<1>. QED
  BY <1>1, <1>2, <1>3, <1>4, <1>5, <1>6, <1>7, <1>8, <1>9, NextSteps

(* What each makes of the fold and of the inbox.                           *)
LEMMA ClaimsFold ==
    ASSUME Structure, Claims
    PROVE  /\ Fold(log') = Fold(log) /\ Inbox(log') = Tail(Inbox(log))
           /\ Len(log') = Len(log) + 2
           /\ \A i \in 1..Len(log) : log'[i] = log[i]
           /\ log'[Len(log) + 1] = Claimed
           /\ log'[Len(log) + 2] = Message(Head(Inbox(log)))
           /\ \A k \in 0..Len(log) : Folds(log')[k] = Folds(log)[k] /\ Inboxes(log')[k] = Inboxes(log)[k]
           /\ Folds(log')[Len(log) + 1] = Fold(log)
           /\ Inboxes(log')[Len(log) + 1] = Tail(Inbox(log))
           /\ Inbox(log) \in Seq(SUBSET Reminders)
<1>. DEFINE s == Append(log, Claimed)
            e == Message(Head(Inbox(log)))
<1>1. log \in Seq(Events) /\ Inbox(log) \in Seq(SUBSET Reminders) /\ Inbox(log) # <<>>
  BY TypeParts, InboxTyped DEF Structure, Claims
<1>2. Head(Inbox(log)) \in SUBSET Reminders
  BY <1>1, HeadTailProperties
<1>3. e \in Events /\ e.is = "message" /\ log' = Append(s, e)
  BY <1>2, SplicesMade DEF Claims
<1>. HIDE DEF e
<1>4. /\ s \in Seq(Events) /\ Len(s) = Len(log) + 1 /\ Len(log) \in Nat
      /\ \A i \in 1..Len(log) : s[i] = log[i]
      /\ s[Len(log) + 1] = Claimed
      /\ \A k \in 0..Len(log) : Folds(s)[k] = Folds(log)[k] /\ Inboxes(s)[k] = Inboxes(log)[k]
      /\ Fold(s) = Folded(Fold(log), Claimed) /\ Fold(s) = Folds(s)[Len(log) + 1]
      /\ Inbox(s) = Spliced(Inbox(log), Claimed) /\ Inbox(s) = Inboxes(s)[Len(log) + 1]
  BY <1>1, SplicesMade, Extended
<1>. HIDE DEF s
<1>5. /\ Len(log') = Len(s) + 1
      /\ \A i \in 1..Len(s) : log'[i] = s[i]
      /\ log'[Len(s) + 1] = e
      /\ \A k \in 0..Len(s) : Folds(log')[k] = Folds(s)[k] /\ Inboxes(log')[k] = Inboxes(s)[k]
      /\ Fold(log') = Folded(Fold(s), e)
      /\ Inbox(log') = Spliced(Inbox(s), e)
  BY <1>3, <1>4, Extended
<1>6. Fold(s) = Fold(log) /\ Fold(log') = Fold(s)
  <2>1. Claimed.is \notin Changing /\ e.is \notin Changing
    BY <1>3, SplicesMade DEF Changing
  <2>2. Folded(Fold(log), Claimed) = Fold(log)
    BY <2>1, OtherIs
  <2>3. Folded(Fold(s), e) = Fold(s)
    BY <2>1, OtherIs
  <2>. QED
    BY <1>4, <1>5, <2>2, <2>3
<1>7. Inbox(s) = Tail(Inbox(log)) /\ Inbox(log') = Inbox(s)
  BY <1>3, <1>4, <1>5, SplicesMade DEF Spliced
<1>8. Len(log) + 1 + 1 = Len(log) + 2 /\ Len(log) + 1 \in 0..Len(s) /\ Len(log) + 1 \in 1..Len(s)
      /\ 1..Len(log) \subseteq 1..Len(s) /\ 0..Len(log) \subseteq 0..Len(s)
  BY <1>4
<1>. QED
  BY <1>1, <1>4, <1>5, <1>6, <1>7, <1>8 DEF e

LEMMA ClearsFold ==
    ASSUME Structure, Clears
    PROVE  Fold(log') = Fold(log) /\ Inbox(log') = <<>>
<1>1. log \in Seq(Events)
  BY TypeParts DEF Structure
<1>2. Fold(log') = Folded(Fold(log), Cleared) /\ Inbox(log') = Spliced(Inbox(log), Cleared)
  BY <1>1, SplicesMade, Extended DEF Clears
<1>. QED
  BY <1>2, SplicesMade, OtherIs DEF Changing, Spliced

LEMMA FoldsOn ==
    ASSUME Structure, Fold(log).ok, LogStep
    PROVE  Fold(log').ok
<1>1. log \in Seq(Events) /\ Sane(Fold(log))
  BY TypeParts, FoldsSane DEF Structure
<1>2. CASE log' = log
  BY <1>2
<1>3. CASE Claims \/ Clears
  BY <1>3, ClaimsFold, ClearsFold
<1>4. CASE Creates
  <2>1. PICK record \in Records : record.id = Fold(log).seen + 1 /\ log' = Append(log, Create(record))
    BY <1>4 DEF Creates
  <2>2. Create(record) \in Events /\ Fold(log).seen < record.id
    BY <1>1, <2>1 DEF Create, Events, Sane
  <2>3. Fold(log') = Folded(Fold(log), Create(record))
    BY <1>1, <2>1, <2>2, Extended
  <2>. QED
    BY <1>1, <2>2, <2>3, CreatedIs
<1>5. CASE Deletes
  <2>1. PICK id \in Nat : Found(Fold(log), id) # {} /\ log' = Append(log, Delete(id))
    BY <1>5 DEF Deletes
  <2>2. Delete(id) \in Events
    BY DEF Delete, Events
  <2>3. Fold(log') = Folded(Fold(log), Delete(id))
    BY <1>1, <2>1, <2>2, Extended
  <2>. QED
    BY <1>1, <2>1, <2>3, DeletedIs
<1>6. CASE Sends
  <2>1. PICK time \in Nat : \E records : \E n \in 0..Len(records) :
           /\ Batch(Fold(log), records, time)
           /\ log' = Sent(log, Queued(Presented(records, time)), records, time, n)
    BY <1>6 DEF Sends
  <2>2. PICK records : \E n \in 0..Len(records) :
           /\ Batch(Fold(log), records, time)
           /\ log' = Sent(log, Queued(Presented(records, time)), records, time, n)
    BY <2>1
  <2>3. PICK n \in 0..Len(records) :
           /\ Batch(Fold(log), records, time)
           /\ log' = Sent(log, Queued(Presented(records, time)), records, time, n)
    BY <2>2
  <2>. DEFINE followup == Queued(Presented(records, time))
  <2>4. followup \in Events /\ followup.is = "queued"
    BY <1>1, <2>3, PresentedIs, SplicesMade
  <2>5. Recorded(log, followup, records, time, n)
    BY <1>1, <2>3, <2>4, SentFolds
  <2>. QED
    BY <2>3, <2>5 DEF Recorded
<1>7. CASE Loses
  <2>1. PICK n \in 0..Len(log) : log' = SubSeq(log, 1, n)
    BY <1>7 DEF Loses
  <2>2. Fold(log') = Folds(log)[n]
    BY <1>1, <2>1, CutIs
  <2>. QED
    BY <1>1, <2>2, OkSoFar
<1>. QED
  BY <1>2, <1>3, <1>4, <1>5, <1>6, <1>7 DEF LogStep

------------------------------------------------------------------------------
(* What is active stays attended.                                          *)

LEMMA AskingAttends ==
    ASSUME TypeOK, NEW q, Requests(q), stopping' = stopping, faulted' = faulted
    PROVE  Attended'
<1>1. CASE stopping \/ faulted
  BY <1>1 DEF Attended, ActiveIsAttended
<1>2. CASE ~stopping /\ ~faulted
  <2>1. run' # None /\ (run # None => requested' /\ run' = run)
    BY <1>2, RequestsAsk
  <2>2. run'.is = "maintenance" => requested'
    <3>1. CASE run = None
      <4>1. run' = [is |-> "queued"]
        BY <1>2, <3>1 DEF Requests
      <4>. QED
        BY <4>1
    <3>. QED
      BY <2>1, <3>1
  <2>. QED
    BY <2>1, <2>2 DEF Attended, ActiveIsAttended
<1>. QED
  BY <1>1, <1>2

(* A step that leaves the runtime alone and does not end a turn.           *)
LEMMA Unattended ==
    ASSUME Attended, Fold(log').active = Fold(log).active, UNCHANGED runtime,
           phase = "turn" => phase' = "turn"
    PROVE  Attended'
  BY DEF Attended, ActiveIsAttended, runtime

LEMMA LeavingAttends ==
    ASSUME Structure, Leaves, run.is \notin {"none", "queued"} \/ Serialized("drive"),
           Fold(log').active # {} =>
              timer' \/ run' # None \/ idleWait' \/ gaveUp' \/ faulted' \/ stopping'
    PROVE  Attended'
<1>1. run'.is # "maintenance"
  BY RunMade DEF Leaves
<1>. QED
  BY <1>1 DEF Attended, ActiveIsAttended

LEMMA TurnEndsAttends ==
    ASSUME Structure, TurnEnds PROVE Attended'
<1>1. TypeOK /\ Phased /\ phase = "turn" /\ log \in Seq(Events) /\ log' = log
  BY TypeParts DEF Structure, TurnEnds
<1>2. CASE \E i \in DOMAIN log : log[i].is \in Changing
  BY <1>1, <1>2, AskingAttends DEF TurnEnds
<1>3. CASE ~\E i \in DOMAIN log : log[i].is \in Changing
  <2>1. Fold(log').active = {}
    BY <1>1, <1>3, NoneActive
  <2>. QED
    BY <2>1 DEF Attended, ActiveIsAttended
<1>. QED
  BY <1>2, <1>3

LEMMA DriveBeginsAttends ==
    ASSUME Structure, DriveBegins PROVE Attended'
<1>1. CASE stopping
  BY <1>1 DEF Attended, ActiveIsAttended, DriveBegins
<1>2. CASE ~stopping
  <2>1. run' = [is |-> "preflight", mark |-> Len(log)]
    BY <1>2 DEF DriveBegins, Flushing
  <2>2. run'.is = "preflight" /\ run' # None
    BY <2>1 DEF None
  <2>. QED
    BY <2>2 DEF Attended, ActiveIsAttended
<1>. QED
  BY <1>1, <1>2

LEMMA DriveWaitsAttends ==
    ASSUME Structure, DriveWaits PROVE Attended'
<1>. DEFINE f == Fold(log)
<1>1. /\ TypeOK /\ log \in Seq(Events) /\ log' = log /\ now \in Nat /\ Flags
      /\ run.is = "preflight" /\ stopping' = stopping
  BY TypeParts DEF Structure, DriveWaits
<1>2. Sane(f)
  BY <1>1, FoldsSane
<1>3. Leaves
  BY <1>1, OverLeaves DEF DriveWaits, Flags
<1>4. Fold(log').active # {} => timer' \/ idleWait' \/ faulted' \/ stopping'
  <2>1. CASE stopping
    BY <1>1, <2>1
  <2>2. CASE ~stopping /\ faulted' = TRUE
    BY <2>2
  <2>3. CASE /\ ~stopping /\ Decision(f, now).is = "wait"
             /\ timer' = (Decision(f, now).target # Never)
    <3>1. f.active # {} => Decision(f, now).target # Never
      BY <1>1, <1>2, <2>3, DecisionIs
    <3>. QED
      BY <1>1, <2>3, <3>1
  <2>4. CASE idleWait' = TRUE
    BY <2>4
  <2>. QED
    BY <2>1, <2>2, <2>3, <2>4 DEF DriveWaits
<1>. QED
  BY <1>1, <1>3, <1>4, LeavingAttends

LEMMA DriveSendsAttends ==
    ASSUME Structure, NEW time \in Readings, NEW outcome \in {"sent", "unsent", "unrecorded"},
           DriveSends(time, outcome)
    PROVE  Attended'
<1>. DEFINE f == Fold(log)
            decision == Decision(f, time)
<1>1. log \in Seq(Events) /\ time \in Nat
  BY SendIs, TypeParts DEF Structure
<1>2. Sane(f)
  BY <1>1, FoldsSane
<1>3. /\ run' = [is |-> "maintenance", wakes |-> decision.is = "send" /\ outcome # "unsent",
                 sent |-> decision.is = "send" /\ outcome = "sent"]
      /\ gaveUp' = (outcome # "sent")
      /\ decision.is = "wait" => log' = log /\ timer' = (decision.target # Never)
  BY DEF DriveSends
<1>. HIDE DEF decision
<1>4. run' # None
  BY <1>3 DEF None
<1>5. CASE outcome # "sent"
  BY <1>3, <1>4, <1>5 DEF Attended, ActiveIsAttended
<1>6. CASE outcome = "sent" /\ decision.is = "send"
  <2>1. run'.sent
    BY <1>3, <1>6
  <2>. QED
    BY <1>4, <2>1 DEF Attended, ActiveIsAttended
<1>7. CASE outcome = "sent" /\ decision.is # "send"
  <2>1. decision.is = "wait" /\ (f.active # {} => decision.target # Never)
    BY <1>1, <1>2, <1>7, DecisionIs DEF decision
  <2>2. Fold(log').active # {} => timer'
    BY <1>3, <2>1
  <2>. QED
    BY <1>4, <2>2 DEF Attended, ActiveIsAttended
<1>. QED
  BY <1>5, <1>6, <1>7

LEMMA MaintenanceEndsAttends ==
    ASSUME Structure, Attended, MaintenanceEnds PROVE Attended'
<1>1. TypeOK /\ Flags /\ run.is = "maintenance" /\ log' = log
      /\ UNCHANGED <<faulted, timer, idleWait, stopping, gaveUp>>
  BY TypeParts DEF Structure, MaintenanceEnds
<1>2. CASE run.sent
  <2>1. run' = [is |-> "barrier", mark |-> Len(log)]
    BY <1>2 DEF MaintenanceEnds, Flushing
  <2>2. run'.is = "barrier" /\ run' # None
    BY <2>1 DEF None
  <2>. QED
    BY <2>2 DEF Attended, ActiveIsAttended
<1>3. CASE ~run.sent
  <2>1. Over(requested)
    BY <1>3 DEF MaintenanceEnds
  <2>2. Leaves /\ (requested /\ ~stopping /\ ~faulted' => run' # None)
    BY <1>1, <2>1, OverLeaves DEF Flags
  <2>3. Fold(log).active # {} => timer \/ requested \/ gaveUp \/ faulted \/ stopping
    BY <1>1, <1>3 DEF Attended
  <2>. QED
    BY <1>1, <2>2, <2>3, LeavingAttends
<1>. QED
  BY <1>2, <1>3

LEMMA DriveBarrierAttends ==
    ASSUME Structure, DriveBarrier PROVE Attended'
<1>1. /\ TypeOK /\ run.is = "barrier" /\ stopping' = stopping /\ Over(requested \/ ~stopping)
      /\ (requested \/ ~stopping) \in BOOLEAN
  BY DEF Structure, DriveBarrier
<1>2. Leaves /\ ((requested \/ ~stopping) /\ ~stopping /\ ~faulted' => run' # None)
  BY <1>1, OverLeaves
<1>. QED
  BY <1>1, <1>2, LeavingAttends

LEMMA AttendedNext ==
    ASSUME Structure, Attended, Next
    PROVE  Attended'
<1>1. TypeOK
  BY DEF Structure
<1>2. CASE DriveBegins \/ DriveWaits \/ MaintenanceEnds \/ DriveBarrier
  BY <1>2, DriveBeginsAttends, DriveWaitsAttends, MaintenanceEndsAttends, DriveBarrierAttends
<1>3. CASE DriveFlushFails
  BY <1>1, <1>3, LeavingAttends, OverLeaves, TypeParts DEF DriveFlushFails, Flags
<1>4. CASE \E time \in Readings, outcome \in {"sent", "unsent", "unrecorded"} :
              DriveSends(time, outcome)
  BY <1>4, DriveSendsAttends
<1>5. CASE ToolBegins \/ ToolFlushFails \/ Calling
  <2>1. UNCHANGED <<log, runtime, phase>>
    BY <1>5 DEF ToolBegins, ToolFlushFails, Calling, Call
  <2>. QED
    BY <2>1, Unattended
<1>6. CASE ToolChanges
  BY <1>1, <1>6, AskingAttends DEF ToolChanges
<1>7. CASE ToolDeclines
  BY <1>1, <1>7, AskingAttends DEF ToolDeclines
<1>8. CASE ToolConfirms
  BY <1>1, <1>8, AskingAttends DEF ToolConfirms
<1>9. CASE Tick \/ Rollback \/ StartTurn
  <2>1. UNCHANGED <<log, runtime>> /\ (phase = "turn" => phase' = "turn")
    BY <1>9 DEF Tick, Rollback, StartTurn
  <2>. QED
    BY <2>1, Unattended
<1>10. CASE Claim
  <2>1. Claims
    BY <1>10, ClaimIs DEF Claims, Claim
  <2>2. Fold(log').active = Fold(log).active
    BY <2>1, ClaimsFold
  <2>3. UNCHANGED runtime /\ phase' = phase
    BY <1>10 DEF Claim
  <2>. QED
    BY <2>2, <2>3, Unattended
<1>11. CASE Discard
  <2>1. Fold(log').active = Fold(log).active
    BY <1>11, ClearsFold DEF Clears, Discard
  <2>2. UNCHANGED runtime /\ phase' = phase
    BY <1>11 DEF Discard
  <2>. QED
    BY <2>1, <2>2, Unattended
<1>12. CASE TurnEnds
  BY <1>12, TurnEndsAttends
<1>13. CASE TimerFires \/ IdleWaitEnds
  BY <1>1, <1>13, AskingAttends DEF TimerFires, IdleWaitEnds
<1>14. CASE Dispose
  BY <1>14 DEF Dispose, Attended, ActiveIsAttended
<1>15. CASE Crash
  <2>1. run' = [is |-> "queued"]
    BY <1>15 DEF Crash
  <2>2. run' # None /\ run'.is = "queued"
    BY <2>1 DEF None
  <2>. QED
    BY <2>2 DEF Attended, ActiveIsAttended
<1>. QED
  BY <1>2, <1>3, <1>4, <1>5, <1>6, <1>7, <1>8, <1>9, <1>10, <1>11, <1>12, <1>13, <1>14, <1>15,
     NextSteps

------------------------------------------------------------------------------
(* Nothing is told twice.                                                  *)

LEMMA ToldOne ==
    ASSUME NEW s, NEW n \in Nat, NEW r
    PROVE  Told(s, n + 1, r) <=>
              Told(s, n, r) \/ (s[n + 1].is = "message" /\ r \in s[n + 1].reminders)
<1>1. 1..n + 1 = 1..n \union {n + 1}
  OBVIOUS
<1>. QED
  BY <1>1 DEF Told

LEMMA ToldReminders ==
    ASSUME NEW s \in Seq(Events), NEW n \in 0..Len(s), NEW r, Told(s, n, r)
    PROVE  r \in Reminders
<1>1. Len(s) \in Nat
  BY LenProperties
<1>2. PICK i \in 1..n : s[i].is = "message" /\ r \in s[i].reminders
  BY DEF Told
<1>3. s[i] \in Events
  BY <1>1, <1>2, ElementOfSeq
<1>. QED
  BY <1>2, <1>3, EventFields

LEMMA WaitingReminders ==
    ASSUME NEW box \in Seq(SUBSET Reminders), NEW r, Waiting(box, r)
    PROVE  r \in Reminders
<1>1. PICK k \in DOMAIN box : r \in box[k]
  BY DEF Waiting
<1>2. k \in 1..Len(box)
  BY <1>1, LenProperties
<1>3. box[k] \in SUBSET Reminders
  BY <1>2, ElementOfSeq
<1>. QED
  BY <1>1, <1>3

(* Logs that agree so far have told the same.                              *)
LEMMA ToldAgrees ==
    ASSUME NEW s, NEW u, NEW n \in Nat, \A i \in 1..n : u[i] = s[i]
    PROVE  /\ \A r : Told(u, n, r) <=> Told(s, n, r)
           /\ Disjoint(u, n) <=> Disjoint(s, n)
  BY DEF Told, Disjoint

LEMMA FreshAgrees ==
    ASSUME NEW s, NEW u, NEW n \in Nat, \A i \in 1..n : u[i] = s[i],
           NEW f, NEW box, FreshAt(s, n, f, box)
    PROVE  FreshAt(u, n, f, box)
<1>1. /\ \A r : Told(u, n, r) <=> Told(s, n, r)
      /\ Disjoint(u, n) <=> Disjoint(s, n)
  BY ToldAgrees
<1>. QED
  BY <1>1 DEF FreshAt

(* The cuts that a log has already keep what they had.                     *)
LEMMA FreshFront ==
    ASSUME NEW s \in Seq(Events), NEW u \in Seq(Events), Fresh(s),
           Len(s) <= Len(u), \A i \in 1..Len(s) : u[i] = s[i]
    PROVE  \A n \in 0..Len(s) : Whole(u, n) => FreshAt(u, n, Folds(u)[n], Inboxes(u)[n])
<1>1. Len(s) \in Nat /\ Len(u) \in Nat
  BY LenProperties
<1>. SUFFICES ASSUME NEW n \in 0..Len(s), Whole(u, n)
              PROVE  FreshAt(u, n, Folds(u)[n], Inboxes(u)[n])
  OBVIOUS
<1>2. n \in Nat /\ n <= Len(s) /\ n <= Len(u) /\ \A i \in 1..n : u[i] = s[i]
  BY <1>1
<1>3. Whole(s, n)
  <2>1. CASE n = Len(s)
    BY <2>1 DEF Whole
  <2>2. CASE n # Len(s)
    <3>1. n + 1 \in 1..Len(s) /\ n # Len(u)
      BY <1>1, <2>2
    <3>. QED
      BY <3>1 DEF Whole
  <2>. QED
    BY <2>1, <2>2
<1>4. FreshAt(s, n, Folds(s)[n], Inboxes(s)[n])
  BY <1>3 DEF Fresh
<1>5. Folds(u)[n] = Folds(s)[n] /\ Inboxes(u)[n] = Inboxes(s)[n]
  BY <1>1, <1>2, PrefixDecides
<1>. QED
  BY <1>2, <1>4, <1>5, FreshAgrees

LEMMA FreshNow ==
    ASSUME TypeOK, Fresh(log)
    PROVE  FreshAt(log, Len(log), Fold(log), Inbox(log))
<1>1. Len(log) \in 0..Len(log) /\ Whole(log, Len(log))
  BY TypeParts DEF Whole
<1>. QED
  BY <1>1 DEF Fresh, Fold, Inbox

(* One event that is no message, after which no more waits than before     *)
(* and what is told or waits is still behind the active records.           *)
LEMMA FreshOneMore ==
    ASSUME NEW s \in Seq(Events), Posted(s), Fresh(s), NEW e \in Events, e.is # "message",
           Apart(Spliced(Inbox(s), e)),
           \A r : Waiting(Spliced(Inbox(s), e), r) => Waiting(Inbox(s), r),
           \A r \in Reminders : Ahead(Fold(s), r) => Ahead(Folded(Fold(s), e), r)
    PROVE  Fresh(Append(s, e))
<1>. DEFINE u == Append(s, e)
<1>1. /\ u \in Seq(Events) /\ Len(u) = Len(s) + 1 /\ Len(s) \in Nat
      /\ \A i \in 1..Len(s) : u[i] = s[i]
      /\ u[Len(s) + 1] = e
      /\ Folds(u)[Len(s) + 1] = Folded(Fold(s), e)
      /\ Inboxes(u)[Len(s) + 1] = Spliced(Inbox(s), e)
  BY Extended
<1>. HIDE DEF u
<1>2. \A n \in 0..Len(s) : Whole(u, n) => FreshAt(u, n, Folds(u)[n], Inboxes(u)[n])
  BY <1>1, FreshFront
<1>3. FreshAt(s, Len(s), Fold(s), Inbox(s))
  <2>1. Len(s) \in 0..Len(s) /\ Whole(s, Len(s))
    BY <1>1 DEF Whole
  <2>. QED
    BY <2>1 DEF Fresh, Fold, Inbox
<1>4. FreshAt(u, Len(s) + 1, Folded(Fold(s), e), Spliced(Inbox(s), e))
  <2>1. \A r : Told(u, Len(s) + 1, r) <=> Told(s, Len(s), r)
    BY <1>1, ToldOne, ToldAgrees
  <2>2. Disjoint(u, Len(s) + 1)
    <3>1. Disjoint(s, Len(s))
      BY <1>3 DEF FreshAt
    <3>2. \A i \in 1..Len(s) + 1 : u[i].is = "message" => i \in 1..Len(s) /\ u[i] = s[i]
      BY <1>1
    <3>. QED
      BY <3>1, <3>2 DEF Disjoint
  <2>3. \A r : Told(s, Len(s), r) => r \in Reminders
    BY <1>1, ToldReminders
  <2>4. \A r : Waiting(Inbox(s), r) => r \in Reminders
    <3>1. Inbox(s) \in Seq(SUBSET Reminders)
      BY <1>1 DEF Posted, Inbox
    <3>. QED
      BY <3>1, WaitingReminders
  <2>. QED
    BY <1>3, <2>1, <2>2, <2>3, <2>4 DEF FreshAt
<1>5. \A n \in 0..Len(u) : n \in 0..Len(s) \/ n = Len(s) + 1
  BY <1>1
<1>6. Fresh(u)
  BY <1>1, <1>2, <1>4, <1>5 DEF Fresh
<1>. QED
  BY <1>6 DEF u

LEMMA FreshClears ==
    ASSUME Structure, Fresh(log), Clears
    PROVE  Fresh(log')
<1>1. log \in Seq(Events)
  BY TypeParts DEF Structure
<1>2. Cleared \in Events /\ Cleared.is # "message" /\ Spliced(Inbox(log), Cleared) = <<>>
  BY SplicesMade DEF Spliced
<1>3. Folded(Fold(log), Cleared) = Fold(log)
  BY SplicesMade, OtherIs DEF Changing
<1>4. Apart(<<>>) /\ \A r : ~Waiting(<<>>, r)
  BY DEF Apart, Waiting
<1>. QED
  BY <1>1, <1>2, <1>3, <1>4, FreshOneMore DEF Clears, Structure

LEMMA FreshCreates ==
    ASSUME Structure, Fold(log).ok, Fresh(log), Creates
    PROVE  Fresh(log')
<1>1. log \in Seq(Events) /\ Sane(Fold(log))
  BY TypeParts, FoldsSane DEF Structure
<1>2. PICK record \in Records :
         record.id = Fold(log).seen + 1 /\ log' = Append(log, Create(record))
  BY DEF Creates
<1>. DEFINE f == Fold(log)
            e == Create(record)
            g == Folded(f, e)
<1>3. e \in Events /\ e.is # "message" /\ Spliced(Inbox(log), e) = Inbox(log)
  BY DEF Create, Events, Spliced
<1>4. f.seen \in Nat /\ f.seen < record.id
  BY <1>1, <1>2 DEF Sane
<1>5. g.active = f.active \union {record} /\ g.seen = record.id
  BY <1>1, <1>4, CreatedIs
<1>6. Apart(Inbox(log))
  BY FreshNow DEF Structure, FreshAt
<1>7. ASSUME NEW r \in Reminders, Ahead(f, r)
      PROVE  Ahead(g, r)
  <2>. HIDE DEF f, g
  <2>. QED
    BY <1>4, <1>5, <1>7 DEF Ahead, Reminders, Records
<1>. HIDE DEF f, g, e
<1>8. Posted(log) /\ log' = Append(log, e)
  BY <1>2 DEF Structure, e
<1>9. \A r \in Reminders : Ahead(Fold(log), r) => Ahead(Folded(Fold(log), e), r)
  BY <1>7 DEF f, g
<1>. QED
  BY <1>1, <1>3, <1>6, <1>8, <1>9, FreshOneMore

LEMMA FreshDeletes ==
    ASSUME Structure, Fold(log).ok, Fresh(log), Deletes
    PROVE  Fresh(log')
<1>1. log \in Seq(Events) /\ Sane(Fold(log))
  BY TypeParts, FoldsSane DEF Structure
<1>2. PICK id \in Nat : Found(Fold(log), id) # {} /\ log' = Append(log, Delete(id))
  BY DEF Deletes
<1>. DEFINE f == Fold(log)
            e == Delete(id)
            g == Folded(f, e)
<1>3. e \in Events /\ e.is # "message" /\ Spliced(Inbox(log), e) = Inbox(log)
  BY DEF Delete, Events, Spliced
<1>4. g.active \subseteq f.active /\ g.seen = f.seen
  BY <1>1, <1>2, DeletedIs
<1>5. Apart(Inbox(log))
  BY FreshNow DEF Structure, FreshAt
<1>6. \A r \in Reminders : Ahead(f, r) => Ahead(g, r)
  <2>. HIDE DEF f, g
  <2>. QED
    BY <1>4 DEF Ahead
<1>. HIDE DEF e
<1>7. Posted(log) /\ log' = Append(log, e)
  BY <1>2 DEF Structure, e
<1>. QED
  BY <1>1, <1>3, <1>5, <1>6, <1>7, FreshOneMore

(* The message takes out of the inbox what it tells.                       *)
LEMMA FreshClaims ==
    ASSUME Structure, Fresh(log), Claims, log' \in Seq(Events)
    PROVE  Fresh(log')
<1>. DEFINE box == Inbox(log)
            f == Fold(log)
            n == Len(log)
            head == Head(box)
            s == Append(log, Claimed)
<1>1. /\ log \in Seq(Events) /\ n \in Nat /\ Posted(log)
      /\ box \in Seq(SUBSET Reminders) /\ box # <<>>
  BY InboxTyped, TypeParts DEF Structure, Claims
<1>2. /\ Fold(log') = f /\ Inbox(log') = Tail(box) /\ Len(log') = n + 2
      /\ \A i \in 1..n : log'[i] = log[i]
      /\ log'[n + 1] = Claimed /\ log'[n + 2] = Message(head)
      /\ Folds(log')[n + 1] = f /\ Inboxes(log')[n + 1] = Tail(box)
  BY ClaimsFold
<1>3. head \in SUBSET Reminders /\ Tail(box) \in Seq(SUBSET Reminders)
  BY <1>1, HeadTailProperties
<1>4. FreshAt(log, n, f, box)
  BY FreshNow DEF Structure
<1>5. /\ head = box[1] /\ DOMAIN box = 1..Len(box) /\ 1 \in 1..Len(box) /\ Len(box) \in Nat
      /\ DOMAIN Tail(box) = 1..Len(box) - 1
      /\ \A k \in 1..Len(box) - 1 : Tail(box)[k] = box[k + 1] /\ k + 1 \in 1..Len(box)
  <2>1. Len(Tail(box)) = Len(box) - 1 /\ \A k \in 1..Len(box) - 1 : Tail(box)[k] = box[k + 1]
    BY <1>1, HeadTailProperties
  <2>2. Len(box) \in Nat /\ Len(box) # 0 /\ DOMAIN box = 1..Len(box)
    BY <1>1, LenProperties
  <2>3. DOMAIN Tail(box) = 1..Len(Tail(box))
    BY <1>3, LenProperties
  <2>4. head = box[1]
    BY <1>1, HeadTailProperties
  <2>. QED
    BY <2>1, <2>2, <2>3, <2>4
<1>. HIDE DEF box, f, head, n
<1>6. Apart(Tail(box)) /\ \A r : Waiting(Tail(box), r) => Waiting(box, r) /\ r \notin head
  <2>1. Apart(box)
    BY <1>4 DEF FreshAt
  <2>2. \A k \in 1..Len(box) - 1 : k + 1 # 1 /\ Tail(box)[k] \intersect head = {}
    BY <1>5, <2>1 DEF Apart
  <2>3. \A k, l \in 1..Len(box) - 1 : k # l => k + 1 # l + 1
    BY <1>5
  <2>4. Apart(Tail(box))
    BY <1>5, <2>1, <2>3 DEF Apart
  <2>. QED
    BY <1>5, <2>2, <2>4 DEF Waiting
<1>7. \A r \in head : Waiting(box, r)
  BY <1>5 DEF Waiting
<1>8. /\ log'[n + 1].is = "claimed" /\ log'[n + 2].is = "message"
      /\ log'[n + 2].reminders = head
  BY <1>2, <1>3, SplicesMade
<1>9. /\ \A r : Told(log', n + 1, r) <=> Told(log, n, r)
      /\ \A r : Told(log', n + 2, r) <=> Told(log, n, r) \/ r \in head
  <2>1. \A r : Told(log', n, r) <=> Told(log, n, r)
    BY <1>1, <1>2, ToldAgrees
  <2>2. \A r : Told(log', n + 1, r) <=> Told(log', n, r)
    BY <1>1, <1>8, ToldOne
  <2>3. n + 1 \in Nat /\ n + 1 + 1 = n + 2
    BY <1>1
  <2>4. \A r : Told(log', n + 1 + 1, r) <=> Told(log', n + 1, r) \/ r \in head
    BY <1>8, <2>3, ToldOne
  <2>. QED
    BY <2>1, <2>2, <2>3, <2>4
<1>10. Disjoint(log', n + 1) /\ Disjoint(log', n + 2)
  <2>1. Disjoint(log, n) /\ \A r \in head : ~Told(log, n, r)
    BY <1>4, <1>7 DEF FreshAt
  <2>2. \A i \in 1..n + 2 : i \in 1..n \/ i = n + 1 \/ i = n + 2
    BY <1>1
  <2>3. \A i \in 1..n + 2 : log'[i].is = "message" =>
           (i \in 1..n /\ log'[i] = log[i]) \/ (i = n + 2 /\ log'[i].reminders = head)
    BY <1>2, <1>8, <2>2
  <2>4. \A i \in 1..n : log[i].is = "message" => log[i].reminders \intersect head = {}
    BY <2>1 DEF Told
  <2>5. Disjoint(log', n + 2)
    BY <2>1, <2>3, <2>4 DEF Disjoint
  <2>6. 1..n + 1 \subseteq 1..n + 2
    BY <1>1
  <2>. QED
    BY <2>5, <2>6 DEF Disjoint
<1>11. FreshAt(log', n + 1, f, Tail(box))
  BY <1>4, <1>6, <1>9, <1>10 DEF FreshAt
<1>12. FreshAt(log', n + 2, f, Tail(box))
  BY <1>4, <1>6, <1>7, <1>9, <1>10 DEF FreshAt
<1>13. Folds(log')[n + 2] = f /\ Inboxes(log')[n + 2] = Tail(box)
  BY <1>2 DEF Fold, Inbox
<1>14. \A k \in 0..n : Whole(log', k) => FreshAt(log', k, Folds(log')[k], Inboxes(log')[k])
  <2>1. log' \in Seq(Events)
    OBVIOUS
  <2>. QED
    BY <1>1, <1>2, <2>1, FreshFront DEF n
<1>15. \A k \in 0..n + 2 : k \in 0..n \/ k = n + 1 \/ k = n + 2
  BY <1>1
<1>. QED
  BY <1>2, <1>11, <1>12, <1>13, <1>14, <1>15 DEF Fresh

(* A crash between a follow-up and its dispatches is told of.              *)
LEMMA FreshLoses ==
    ASSUME Structure, Fresh(log), Loses, ~unrecorded'
    PROVE  Fresh(log')
<1>1. log \in Seq(Events) /\ Len(log) \in Nat
  BY TypeParts DEF Structure
<1>2. PICK n \in 0..Len(log) :
         /\ log' = SubSeq(log, 1, n)
         /\ n < Len(log) /\ log[n + 1].is = "dispatch" => unrecorded'
  BY DEF Loses
<1>3. /\ Len(log') = n /\ \A i \in 1..n : log'[i] = log[i]
      /\ \A k \in 0..n : Folds(log')[k] = Folds(log)[k] /\ Inboxes(log')[k] = Inboxes(log)[k]
  BY <1>1, <1>2, CutIs
<1>4. ASSUME NEW k \in 0..n, Whole(log', k)
      PROVE  FreshAt(log', k, Folds(log')[k], Inboxes(log')[k])
  <2>1. k \in Nat /\ k \in 0..Len(log) /\ \A i \in 1..k : log'[i] = log[i]
    BY <1>1, <1>3
  <2>2. Whole(log, k)
    <3>1. CASE k = n
      BY <1>1, <1>2, <3>1 DEF Whole
    <3>2. CASE k # n
      <4>1. k + 1 \in 1..n
        BY <3>2
      <4>. QED
        BY <1>3, <1>4, <3>2, <4>1 DEF Whole
    <3>. QED
      BY <3>1, <3>2
  <2>3. FreshAt(log, k, Folds(log)[k], Inboxes(log)[k])
    BY <2>1, <2>2 DEF Fresh
  <2>. QED
    BY <1>3, <2>1, <2>3, FreshAgrees
<1>. QED
  BY <1>3, <1>4 DEF Fresh

(* What a batch presents is past all that was told of its records or waits *)
(* to be, and its dispatches move the records past what it presents.       *)
LEMMA FreshSends ==
    ASSUME Structure, Fold(log).ok, Fresh(log), Sends, ~unrecorded'
    PROVE  Fresh(log')
<1>1. /\ log \in Seq(Events) /\ Len(log) \in Nat /\ Sane(Fold(log))
      /\ Inbox(log) \in Seq(SUBSET Reminders)
  BY TypeParts, FoldsSane, InboxTyped DEF Structure
<1>2. PICK time \in Nat : \E records : \E m \in 0..Len(records) :
         /\ Batch(Fold(log), records, time)
         /\ log' = Sent(log, Queued(Presented(records, time)), records, time, m)
         /\ m # Len(records) => unrecorded'
  BY DEF Sends
<1>3. PICK records : \E m \in 0..Len(records) :
         /\ Batch(Fold(log), records, time)
         /\ log' = Sent(log, Queued(Presented(records, time)), records, time, m)
         /\ m # Len(records) => unrecorded'
  BY <1>2
<1>4. /\ Batch(Fold(log), records, time) /\ Len(records) \in Nat
      /\ log' = Sent(log, Queued(Presented(records, time)), records, time, Len(records))
  BY <1>3 DEF Batch
<1>. DEFINE f == Fold(log)
            g == Fold(log')
            n == Len(log)
            m == Len(records)
            box == Inbox(log)
            new == Presented(records, time)
            followup == Queued(new)
<1>5. /\ new \in SUBSET Reminders
      /\ new = {Reminder(records[k], time) : k \in 1..m}
      /\ \A k \in 1..m :
            /\ records[k] \in f.active /\ records[k] \in Records
            /\ Reminder(records[k], time) \in Reminders
            /\ Reminder(records[k], time).id = records[k].id
            /\ records[k].at <= Reminder(records[k], time).at
  BY <1>1, <1>4, PresentedIs
<1>6. followup \in Events /\ followup.is = "queued" /\ followup.reminders = new
  BY <1>5, SplicesMade
<1>7. m \in 0..Len(records)
  BY <1>4
<1>8. Recorded(log, followup, records, time, m)
  BY <1>1, <1>4, <1>6, <1>7, SentFolds
<1>9. /\ log' \in Seq(Events) /\ Len(log') = n + 1 + m
      /\ \A i \in 1..n : log'[i] = log[i]
      /\ log'[n + 1] = followup
      /\ \A k \in 1..m : log'[n + 1 + k] = Dispatch(records[k].id, Accepted(records[k], time))
  <2>1. Sane(Fold(log)) /\ log' = Sent(log, followup, records, time, m)
    BY <1>1, <1>4
  <2>2. Laid(log, followup, records, time, m, log')
    BY <1>1, <1>4, <1>6, <1>7, <2>1, SentIs
  <2>. HIDE DEF followup, m
  <2>. QED
    BY <2>2 DEF Laid
<1>10. /\ g.seen = f.seen
       /\ g.active = Unsent(f, records, m) \union Left(records, time, m)
       /\ Inbox(log') = Append(box, new)
  BY <1>4, <1>6, <1>8 DEF Recorded
<1>11. FreshAt(log, n, f, box)
  BY FreshNow DEF Structure
<1>12. \A k \in 1..m : log'[n + 1 + k].is = "dispatch"
  <2>1. \A id, accepted : Dispatch(id, accepted).is = "dispatch"
    BY DEF Dispatch
  <2>. HIDE DEF n, m
  <2>. QED
    BY <1>9, <2>1
<1>13. /\ \A k \in 1..m : records[k].at <= time
       /\ \A one, other \in f.active : one.id = other.id => one = other
       /\ \A r \in f.active : r \in Records /\ r.id <= f.seen
       /\ f.seen \in Nat
  BY <1>1, <1>4 DEF Batch, Sane
<1>14. \A r : Told(log, n, r) => r \in Reminders
  BY <1>1, ToldReminders
<1>15. \A r : Waiting(box, r) => r \in Reminders
  BY <1>1, WaitingReminders
<1>16. n \in Nat /\ m \in Nat /\ box \in Seq(SUBSET Reminders)
  BY <1>1, <1>4
<1>. HIDE DEF f, g, n, m, box, new, followup
<1>17. ASSUME NEW r \in new
       PROVE  ~Ahead(f, r) /\ Ahead(g, r)
  <2>1. PICK k \in 1..m : r = Reminder(records[k], time)
    BY <1>5
  <2>. DEFINE a == records[k]
  <2>2. /\ a \in f.active /\ a \in Records /\ r \in Reminders /\ r.id = a.id /\ a.at <= r.at
        /\ a.at <= time
    BY <1>5, <1>13, <2>1
  <2>3. a.interval # 0 => r.at = Occurrence(a, time)
    BY <2>1 DEF Reminder
  <2>4. ~Ahead(f, r)
    <3>. HIDE DEF a
    <3>. QED
      BY <2>2 DEF Ahead, Records, Reminders
  <2>5. r.id <= g.seen
    BY <1>10, <1>13, <2>2
  <2>6. ASSUME NEW b \in g.active, b.id = r.id
        PROVE  r.at < b.at
    <3>1. CASE b \in Unsent(f, records, m)
      <4>1. b \in f.active /\ b # a
        BY <3>1 DEF Unsent
      <4>. QED
        BY <1>13, <2>2, <2>6, <4>1
    <3>2. CASE b \in Left(records, time, m)
      <4>1. PICK j \in 1..m : b \in Rest(records[j], time)
        BY <3>2 DEF Left
      <4>2. records[j] \in f.active /\ records[j] \in Records /\ records[j].at <= time
        BY <1>5, <1>13
      <4>3. records[j].interval # 0 /\ b = Advanced(records[j], time)
        BY <4>1 DEF Rest
      <4>4. b.id = records[j].id /\ Occurrence(records[j], time) < b.at
        BY <4>2, <4>3, AdvancedIs
      <4>5. records[j] = a
        BY <1>13, <2>2, <2>6, <4>2, <4>4
      <4>. QED
        BY <2>3, <4>3, <4>4, <4>5
    <3>. QED
      BY <1>10, <3>1, <3>2
  <2>. QED
    BY <2>4, <2>5, <2>6 DEF Ahead
<1>18. ASSUME NEW r \in Reminders, Ahead(f, r)
       PROVE  Ahead(g, r)
  <2>1. r.id <= g.seen /\ r.at \in Nat
    BY <1>10, <1>18 DEF Ahead, Reminders
  <2>2. ASSUME NEW b \in g.active, b.id = r.id
        PROVE  r.at < b.at
    <3>1. CASE b \in Unsent(f, records, m)
      BY <1>18, <2>2, <3>1 DEF Unsent, Ahead
    <3>2. CASE b \in Left(records, time, m)
      <4>1. PICK j \in 1..m : b \in Rest(records[j], time)
        BY <3>2 DEF Left
      <4>. DEFINE a == records[j]
      <4>2. a \in f.active /\ a \in Records /\ a.at <= time
        BY <1>5, <1>13
      <4>3. a.interval # 0 /\ b = Advanced(a, time)
        BY <4>1 DEF Rest
      <4>. HIDE DEF a
      <4>4. /\ b \in Records /\ b.id = a.id /\ Occurrence(a, time) < b.at
            /\ Occurrence(a, time) \in Nat /\ a.at <= Occurrence(a, time)
        BY <4>2, <4>3, AdvancedIs, OccurrenceIs
      <4>5. r.at < a.at
        BY <1>18, <2>2, <4>2, <4>4 DEF Ahead
      <4>6. a.at \in Nat /\ b.at \in Nat
        BY <4>2, <4>4 DEF Records
      <4>. QED
        BY <2>1, <4>4, <4>5, <4>6
    <3>. QED
      BY <1>10, <3>1, <3>2
  <2>. QED
    BY <2>1, <2>2 DEF Ahead
<1>19. \A r \in new : ~Told(log, n, r) /\ ~Waiting(box, r)
  BY <1>11, <1>17 DEF FreshAt
<1>20. /\ DOMAIN Append(box, new) = 1..Len(box) + 1 /\ Len(box) \in Nat /\ DOMAIN box = 1..Len(box)
       /\ \A k \in 1..Len(box) : Append(box, new)[k] = box[k]
       /\ Append(box, new)[Len(box) + 1] = new
  <2>1. /\ Append(box, new) \in Seq(SUBSET Reminders) /\ Len(Append(box, new)) = Len(box) + 1
        /\ \A k \in 1..Len(box) : Append(box, new)[k] = box[k]
        /\ Append(box, new)[Len(box) + 1] = new
    BY <1>5, <1>16, AppendProperties
  <2>. QED
    BY <1>16, <2>1, LenProperties
<1>. DEFINE next == Append(box, new)
<1>. HIDE DEF next
<1>21. \A k \in DOMAIN next : (k \in DOMAIN box /\ next[k] = box[k]) \/ (k = Len(box) + 1 /\ next[k] = new)
  <2>1. \A k \in 1..Len(box) + 1 : k \in 1..Len(box) \/ k = Len(box) + 1
    BY <1>20
  <2>. QED
    BY <1>20, <2>1 DEF next
<1>22. Apart(next)
  <2>1. \A k \in DOMAIN box : box[k] \intersect new = {}
    BY <1>19 DEF Waiting
  <2>2. Apart(box)
    BY <1>11 DEF FreshAt
  <2>. QED
    BY <1>21, <2>1, <2>2 DEF Apart
<1>23. \A r : Waiting(next, r) => Waiting(box, r) \/ r \in new
  BY <1>21 DEF Waiting
<1>24. \A i \in 1..n + 1 + m : log'[i].is = "message" => i \in 1..n /\ log'[i] = log[i]
  <2>. SUFFICES ASSUME NEW i \in 1..n + 1 + m, i \notin 1..n
                PROVE  log'[i].is # "message"
    BY <1>9
  <2>1. CASE i = n + 1
    BY <1>6, <1>9, <2>1
  <2>2. CASE i # n + 1
    <3>1. i - (n + 1) \in 1..m /\ n + 1 + (i - (n + 1)) = i
      BY <1>16, <2>2
    <3>. QED
      BY <1>12, <3>1
  <2>. QED
    BY <2>1, <2>2
<1>25. 1..n \subseteq 1..n + 1 + m
  BY <1>16
<1>26. \A r : Told(log', n + 1 + m, r) <=> Told(log, n, r)
  BY <1>9, <1>24, <1>25 DEF Told
<1>27. Disjoint(log', n + 1 + m)
  <2>1. Disjoint(log, n)
    BY <1>11 DEF FreshAt
  <2>. QED
    BY <1>24, <2>1 DEF Disjoint
<1>28. FreshAt(log', n + 1 + m, g, next)
  <2>1. \A r : Told(log, n, r) => Ahead(g, r)
    BY <1>11, <1>14, <1>18 DEF FreshAt
  <2>2. \A r : Waiting(box, r) => ~Told(log, n, r) /\ Ahead(g, r)
    BY <1>11, <1>15, <1>18 DEF FreshAt
  <2>3. \A r : Waiting(next, r) => ~Told(log, n, r) /\ Ahead(g, r)
    BY <1>17, <1>19, <1>23, <2>2
  <2>. QED
    BY <1>22, <1>26, <1>27, <2>1, <2>3 DEF FreshAt
<1>29. Folds(log')[n + 1 + m] = g /\ Inboxes(log')[n + 1 + m] = next
  BY <1>9, <1>10 DEF g, Fold, Inbox, next
<1>30. \A k \in 0..n : Whole(log', k) => FreshAt(log', k, Folds(log')[k], Inboxes(log')[k])
  <2>1. Len(log) <= Len(log')
    BY <1>9, <1>16 DEF n
  <2>. QED
    BY <1>1, <1>9, <2>1, FreshFront DEF n
<1>31. ASSUME NEW k \in 0..n + 1 + m, k \notin 0..n, k # n + 1 + m
       PROVE  ~Whole(log', k)
  <2>1. k - n \in 1..m /\ n + 1 + (k - n) = k + 1
    BY <1>16, <1>31
  <2>2. log'[k + 1].is = "dispatch"
    BY <1>12, <2>1
  <2>. QED
    BY <1>9, <1>31, <2>2 DEF Whole
<1>. QED
  BY <1>9, <1>28, <1>29, <1>30, <1>31 DEF Fresh

LEMMA FreshNext ==
    ASSUME Structure, Structure', Fold(log).ok, ~unrecorded => Fresh(log), LogStep, ~unrecorded'
    PROVE  Fresh(log')
<1>1. Fresh(log)
  BY DEF LogStep
<1>2. log' \in Seq(Events)
  BY DEF Structure, TypeOK
<1>3. CASE log' = log
  BY <1>1, <1>3
<1>4. CASE Claims
  BY <1>1, <1>2, <1>4, FreshClaims
<1>5. CASE Clears
  BY <1>1, <1>5, FreshClears
<1>6. CASE Creates
  BY <1>1, <1>6, FreshCreates
<1>7. CASE Deletes
  BY <1>1, <1>7, FreshDeletes
<1>8. CASE Sends
  BY <1>1, <1>8, FreshSends
<1>9. CASE Loses
  BY <1>1, <1>9, FreshLoses
<1>. QED
  BY <1>3, <1>4, <1>5, <1>6, <1>7, <1>8, <1>9 DEF LogStep

------------------------------------------------------------------------------
(* The theorems.                                                           *)

LEMMA IInvInit ==
    ASSUME Init PROVE IInv
<1>1. Structure
  BY StructureInit
<1>2. log = <<>> /\ Len(log) = 0
  BY DEF Init
<1>3. Folds(log)[0] = Empty /\ Inboxes(log)[0] = <<>>
  BY <1>2, FoldsUnfold, InboxesUnfold
<1>4. Fold(log).ok /\ Fold(log).active = {}
  BY <1>2, <1>3 DEF Fold, Empty
<1>5. Attended
  BY <1>4 DEF Attended, ActiveIsAttended
<1>6. FreshAt(log, 0, Empty, <<>>)
  <2>1. 1..0 = {}
    OBVIOUS
  <2>. QED
    BY <2>1 DEF FreshAt, Disjoint, Apart, Told, Waiting
<1>7. \A n \in 0..Len(log) : n = 0
  BY <1>2
<1>8. Fresh(log)
  BY <1>3, <1>6, <1>7 DEF Fresh
<1>. QED
  BY <1>1, <1>4, <1>5, <1>8 DEF IInv

LEMMA IInvNext ==
    ASSUME IInv, [Next]_vars PROVE IInv'
<1>1. Structure /\ Fold(log).ok /\ Attended /\ (~unrecorded => Fresh(log))
  BY DEF IInv
<1>2. CASE Next
  <2>1. Structure' /\ Attended' /\ LogStep
    BY <1>1, <1>2, StructureNext, AttendedNext, LogSteps
  <2>2. Fold(log').ok
    BY <1>1, <2>1, FoldsOn
  <2>3. ~unrecorded' => Fresh(log')
    BY <1>1, <2>1, FreshNext
  <2>. QED
    BY <2>1, <2>2, <2>3 DEF IInv
<1>3. CASE UNCHANGED vars
  BY <1>1, <1>3 DEF IInv, vars, runtime, Structure, TypeOK, Queueing, Phased, Marked, Kept,
                    Logged, Attended, ActiveIsAttended
<1>. QED
  BY <1>2, <1>3

LEMMA Reminds == Spec => []IInv
<1>. QED
  BY IInvInit, IInvNext, PTL DEF Spec

(* Whatever the tools, the runtime and a crash interleave, the log of the  *)
(* session folds - no id is used twice, nothing inactive is deleted or     *)
(* dispatched (foldScheduleEvents) - and the transaction that is under way *)
(* is the head of the agent's queue (runScheduleTransaction).              *)
THEOREM LogAlwaysFolds == Spec => []LogFolds
<1>1. IInv => LogFolds
  BY Tails DEF IInv, Structure, Queueing, LogFolds, Serialized
<1>. QED
  BY Reminds, <1>1, PTL

(* What schedule_create or schedule_delete confirmed, after the second     *)
(* flush of its transaction, is in the log after every crash.              *)
THEOREM ConfirmedChangesSurvive == Spec => []ConfirmedSurvives
<1>1. IInv => ConfirmedSurvives
  <2>. SUFFICES ASSUME IInv, NEW change \in confirmed
                PROVE  \E i \in DOMAIN log : log[i] = change
    BY DEF ConfirmedSurvives
  <2>1. TypeOK /\ Logged(change, durable)
    BY DEF IInv, Structure, Kept
  <2>. QED
    BY <2>1, TypeParts DEF Logged
<1>. QED
  BY Reminds, <1>1, PTL

(* Over jumps of the clock, overlapping triggers, claims, cancellations    *)
(* and crashes, no occurrence of a reminder enters the log for the user    *)
(* twice - unless the dispatch of a follow-up was refused or lost in a     *)
(* crash, the duplicate window the package admits.                         *)
THEOREM OccurrencesAreToldOnce == Spec => []DeliveredOnce
<1>1. IInv => DeliveredOnce
  <2>. SUFFICES ASSUME IInv, ~unrecorded
                PROVE  \A i, j \in DOMAIN log :
                          log[i].is = "message" /\ log[j].is = "message" /\ i # j =>
                             log[i].reminders \intersect log[j].reminders = {}
    BY DEF DeliveredOnce
  <2>1. TypeOK /\ Fresh(log)
    BY DEF IInv, Structure
  <2>2. Disjoint(log, Len(log)) /\ DOMAIN log = 1..Len(log)
    BY <2>1, FreshNow, TypeParts DEF FreshAt
  <2>. QED
    BY <2>2 DEF Disjoint
<1>. QED
  BY Reminds, <1>1, PTL

(* While a reminder is active the runtime will look at it again: a timer,  *)
(* a drive, a wait for the idle agent or the end of a turn is due, unless  *)
(* the last drive failed, the log is corrupt or the owner stopped.         *)
THEOREM ActiveRemindersAreAttended == Spec => []ActiveIsAttended
<1>1. IInv => ActiveIsAttended
  BY DEF IInv, Attended
<1>. QED
  BY Reminds, <1>1, PTL
===============================================================================
