---------------------------- MODULE WriteBehindProofs ----------------------------
(***************************************************************************)
(* Proofs about the write path of session persistence, for every number of *)
(* events, callers, failures and reloads.                                  *)
(***************************************************************************)
EXTENDS WriteBehind, FiniteSetTheorems, SequenceTheorems, TLAPS

Of(s) == {s[i] : i \in DOMAIN s}
Writing == active # None
InFlight == IF Writing THEN Of(active.batch) ELSE {}
Waits(f) == callers[f].at \in Waiting

(* Which write, barrier, timer and caller may exist beside which.          *)
Structure ==
    /\ barrier = None /\ Writing => active.is = "timer"
    /\ barrier # None =>
          /\ init = "ok"
          /\ barrier.is \in {"joined", "loop"} => ~Writing
          /\ barrier.failed => barrier.is = "loop" /\ paused
    /\ \A f \in Callers : callers[f].at = "barrier" => barrier # None
    /\ \A f \in Callers : Waits(f) => init # "none"
    /\ resuming /\ Writing => barrier # None
    /\ init = "none" => pending = <<>> /\ ~Writing /\ ~expired
    /\ Writing /\ active.stage = "rejected" => ~expired /\ (active.is = "barrier" => paused)

(* Nothing is left to fire once the plugin or the session is on its way    *)
(* out, and nothing waits once the plugin is closed.                       *)
Draining ==
    /\ barrier # None => \E f \in Callers : callers[f].at = "barrier"
    /\ (mode # "up" \/ session # "live") => ~timer /\ ~expired
    /\ mode = "closed" => /\ \A f \in Callers : ~Waits(f)
                          /\ init # "running" /\ (Writing => init = "failed")

(* Somebody will look at a queue outside a barrier: the deadline, the      *)
(* write in flight that it found, or a flush; a pause asks for a flush.    *)
Waited ==
    init # "failed" /\ pending # <<>> /\ barrier = None =>
        \/ timer \/ paused \/ (expired /\ (Writing \/ resuming))
        \/ \E f \in Callers : callers[f].at = "init"

(* While persistence is up, and as long as a flush waits for it, an event  *)
(* is covered by the cursor, or queued, or in flight.                      *)
Reached == IF init = "running" THEN seed ELSE tracked.cursor
Known(e) == e <= Reached \/ e \in Of(pending) \/ e \in InFlight
Wanted(e) == mode = "up" \/ \E f \in Callers : Waits(f) /\ e <= callers[f].mark

Covered ==
    /\ \A f \in Callers : Waits(f) => callers[f].mark <= log
    /\ init \in {"running", "ok"} => \A e \in 1..log : Wanted(e) => Known(e)
    /\ init = "ok" => tracked.cursor <= Len(store)
    /\ Writing /\ active.stage = "stored" =>
          init = "ok" /\ \A e \in Of(active.batch) : e <= tracked.cursor
    /\ Writing /\ active.stage = "rejected" => Of(active.batch) \subseteq Of(pending)

IInv == TypeOK /\ Structure /\ Draining /\ Waited /\ Covered

------------------------------------------------------------------------------
(* Sequences of events.                                                    *)

LEMMA OfAppend ==
    ASSUME NEW s \in Seq(Nat), NEW e \in Nat
    PROVE  /\ Append(s, e) \in Seq(Nat) /\ Append(s, e) # <<>>
           /\ Of(Append(s, e)) = Of(s) \union {e}
<1>1. /\ Append(s, e) \in Seq(Nat) /\ Len(Append(s, e)) = Len(s) + 1
      /\ \A i \in 1..Len(s) : Append(s, e)[i] = s[i]
      /\ Append(s, e)[Len(s) + 1] = e
  BY AppendProperties
<1>2. Len(s) \in Nat /\ DOMAIN s = 1..Len(s) /\ DOMAIN Append(s, e) = 1..Len(s) + 1
  BY <1>1, LenProperties
<1>3. 1..Len(s) + 1 = 1..Len(s) \union {Len(s) + 1}
  BY <1>2
<1>. QED
  BY <1>1, <1>2, <1>3 DEF Of

LEMMA OfConcat ==
    ASSUME NEW s \in Seq(Nat), NEW t \in Seq(Nat)
    PROVE  /\ s \o t \in Seq(Nat) /\ Len(s \o t) = Len(s) + Len(t)
           /\ Of(s \o t) = Of(s) \union Of(t)
           /\ s # <<>> => s \o t # <<>>
<1>1. /\ s \o t \in Seq(Nat) /\ Len(s \o t) = Len(s) + Len(t)
      /\ \A i \in 1..Len(s) + Len(t) :
            (s \o t)[i] = IF i <= Len(s) THEN s[i] ELSE t[i - Len(s)]
  BY ConcatProperties
<1>2. /\ Len(s) \in Nat /\ DOMAIN s = 1..Len(s) /\ Len(t) \in Nat /\ DOMAIN t = 1..Len(t)
      /\ DOMAIN (s \o t) = 1..Len(s) + Len(t)
  BY <1>1, LenProperties
<1>3. \A x \in Of(s \o t) : x \in Of(s) \union Of(t)
  <2>. SUFFICES ASSUME NEW i \in 1..Len(s) + Len(t)
                PROVE  (s \o t)[i] \in Of(s) \union Of(t)
    BY <1>2 DEF Of
  <2>1. CASE i <= Len(s)
    BY <1>1, <1>2, <2>1 DEF Of
  <2>2. CASE ~(i <= Len(s))
    <3>1. i - Len(s) \in 1..Len(t)
      BY <1>2, <2>2
    <3>. QED
      BY <1>1, <1>2, <2>2, <3>1 DEF Of
  <2>. QED
    BY <2>1, <2>2
<1>4. \A x \in Of(s) : x \in Of(s \o t)
  <2>. SUFFICES ASSUME NEW i \in 1..Len(s) PROVE s[i] \in Of(s \o t)
    BY <1>2 DEF Of
  <2>1. i \in 1..Len(s) + Len(t) /\ i <= Len(s)
    BY <1>2
  <2>. QED
    BY <1>1, <1>2, <2>1 DEF Of
<1>5. \A x \in Of(t) : x \in Of(s \o t)
  <2>. SUFFICES ASSUME NEW i \in 1..Len(t) PROVE t[i] \in Of(s \o t)
    BY <1>2 DEF Of
  <2>1. /\ Len(s) + i \in 1..Len(s) + Len(t) /\ ~(Len(s) + i <= Len(s))
        /\ (Len(s) + i) - Len(s) = i
    BY <1>2
  <2>. QED
    BY <1>1, <1>2, <2>1 DEF Of
<1>6. s # <<>> => s \o t # <<>>
  <2>1. s # <<>> => Len(s) > 0
    BY EmptySeq
  <2>2. s \o t = <<>> => Len(s \o t) = 0
    BY EmptySeq
  <2>. QED
    BY <1>1, <1>2, <2>1, <2>2
<1>. QED
  BY <1>1, <1>3, <1>4, <1>5, <1>6

LEMMA OfEmpty == Of(<<>>) = {} /\ <<>> \in Seq(Nat) /\ Len(<<>>) = 0
  BY DEF Of

LEMMA OfPrefix ==
    ASSUME NEW n \in Nat
    PROVE  /\ Prefix(n) \in Seq(Nat) /\ Len(Prefix(n)) = n
           /\ DOMAIN Prefix(n) = 1..n /\ \A i \in 1..n : Prefix(n)[i] = i
  BY DEF Prefix

LEMMA OfSuffix ==
    ASSUME NEW n \in Nat, NEW k \in 0..n
    PROVE  LET t == SubSeq(Prefix(n), k + 1, n)
           IN  /\ t \in Seq(Nat) /\ Len(t) = n - k
               /\ \A i \in 1..n - k : t[i] = k + i
<1>. DEFINE s == Prefix(n)
            t == SubSeq(s, k + 1, n)
<1>1. \A i \in 1..n : s[i] = i
  BY OfPrefix
<1>. HIDE DEF s
<1>2. k + 1 \in Int /\ n \in Int /\ \A i \in k + 1 .. n : s[i] \in Nat
  BY <1>1
<1>3. /\ t \in Seq(Nat)
      /\ Len(t) = IF k + 1 <= n THEN n - (k + 1) + 1 ELSE 0
      /\ \A i \in 1..n - (k + 1) + 1 : t[i] = s[(k + 1) + i - 1]
  BY <1>2, SubSeqProperties
<1>. HIDE DEF t
<1>4. Len(t) = n - k
  BY <1>3
<1>5. ASSUME NEW i \in 1..n - k
      PROVE  t[i] = k + i
  <2>1. i \in 1..n - (k + 1) + 1 /\ (k + 1) + i - 1 = k + i /\ k + i \in 1..n
    OBVIOUS
  <2>. QED
    BY <1>1, <1>3, <2>1
<1>. QED
  BY <1>3, <1>4, <1>5 DEF s, t

(* Numbering the elements of a set by their rank numbers each of them.     *)
LEMMA KthEnumerates ==
    ASSUME NEW n \in Nat, NEW set \in SUBSET (1..n)
    PROVE  /\ IsFiniteSet(set) /\ Cardinality(set) \in Nat
           /\ \A k \in 1..Cardinality(set) : Kth(set, k) \in set
           /\ \A i \in set : \E k \in 1..Cardinality(set) : Kth(set, k) = i
<1>. DEFINE Upto(i) == {j \in set : j <= i}
            rank == [i \in set |-> Cardinality(Upto(i))]
<1>1. IsFiniteSet(set) /\ Cardinality(set) \in Nat
  <2>1. IsFiniteSet(1..n)
    BY FS_Interval
  <2>2. IsFiniteSet(set)
    BY <2>1, FS_Subset
  <2>. QED
    BY <2>2, FS_CardinalityType
<1>2. ASSUME NEW i \in set
      PROVE  /\ IsFiniteSet(Upto(i)) /\ Cardinality(Upto(i)) \in 1..Cardinality(set)
  <2>1. Upto(i) \in SUBSET set /\ i \in Upto(i)
    OBVIOUS
  <2>. HIDE DEF Upto
  <2>2. IsFiniteSet(Upto(i)) /\ Cardinality(Upto(i)) <= Cardinality(set)
        /\ Cardinality(Upto(i)) \in Nat
    BY <1>1, <2>1, FS_Subset, FS_CardinalityType
  <2>3. Cardinality(Upto(i)) # 0
    BY <2>1, <2>2, FS_EmptySet
  <2>. QED
    BY <1>1, <2>2, <2>3
<1>3. ASSUME NEW i \in set, NEW j \in set, i < j
      PROVE  Cardinality(Upto(i)) # Cardinality(Upto(j))
  <2>1. Upto(i) \in SUBSET Upto(j) /\ j \in Upto(j) /\ j \notin Upto(i)
    <3>1. \A k \in set : k \in Nat
      OBVIOUS
    <3>2. \A k \in set : k <= i => k <= j
      BY <1>3, <3>1
    <3>3. ~(j <= i) /\ j <= j
      BY <1>3, <3>1
    <3>. QED
      BY <3>2, <3>3
  <2>2. IsFiniteSet(Upto(j))
    BY <1>2
  <2>. HIDE DEF Upto
  <2>. QED
    BY <2>1, <2>2, FS_Subset
<1>4. \A i, j \in set : rank[i] = rank[j] => i = j
  <2>1. \A i, j \in set : i = j \/ i < j \/ j < i
    <3>1. \A k \in set : k \in Nat
      OBVIOUS
    <3>. QED
      BY <3>1
  <2>2. \A i, j \in set : i < j => rank[i] # rank[j]
    BY <1>3
  <2>. HIDE DEF rank
  <2>. QED
    BY <2>1, <2>2
<1>5. rank \in [set -> 1..Cardinality(set)]
  BY <1>2
<1>6. rank \in Surjection(set, 1..Cardinality(set))
  <2>1. rank \in Injection(set, 1..Cardinality(set))
    BY <1>4, <1>5 DEF Injection, IsInjective
  <2>2. IsFiniteSet(1..Cardinality(set)) /\ Cardinality(1..Cardinality(set)) = Cardinality(set)
    BY <1>1, FS_Interval
  <2>. HIDE DEF rank
  <2>. QED
    BY <2>1, <2>2, FS_Injection
<1>7. \A k \in 1..Cardinality(set) : \E i \in set : rank[i] = k
  BY <1>6 DEF Surjection
<1>8. ASSUME NEW k \in 1..Cardinality(set)
      PROVE  Kth(set, k) \in set /\ Cardinality(Upto(Kth(set, k))) = k
  <2>1. \E i \in set : Cardinality(Upto(i)) = k
    BY <1>7
  <2>. QED
    BY <2>1 DEF Kth
<1>9. ASSUME NEW i \in set
      PROVE  \E k \in 1..Cardinality(set) : Kth(set, k) = i
  <2>1. rank[i] \in 1..Cardinality(set)
    BY <1>5
  <2>2. Kth(set, rank[i]) \in set /\ rank[Kth(set, rank[i])] = rank[i]
    BY <1>8, <2>1
  <2>. QED
    BY <1>4, <2>1, <2>2
<1>. QED
  BY <1>1, <1>8, <1>9

(* appendLiveBatch drops exactly what the cursor covers.                   *)
LEMMA FreshIsTheRest ==
    ASSUME NEW batch \in Seq(Nat), tracked.cursor \in Nat
    PROVE  /\ Fresh(batch) \in Seq(Nat)
           /\ Of(Fresh(batch)) = {e \in Of(batch) : e > tracked.cursor}
<1>. DEFINE news == {i \in DOMAIN batch : batch[i] > tracked.cursor}
<1>1. /\ Len(batch) \in Nat /\ DOMAIN batch = 1..Len(batch)
      /\ \A i \in DOMAIN batch : batch[i] \in Nat
  BY LenProperties, ElementOfSeq
<1>2. news \in SUBSET (1..Len(batch))
  BY <1>1
<1>3. Fresh(batch) = [k \in 1..Cardinality(news) |-> batch[Kth(news, k)]]
  BY DEF Fresh
<1>4. \A i \in news : i \in DOMAIN batch /\ batch[i] > tracked.cursor
  OBVIOUS
<1>5. \A i \in DOMAIN batch : batch[i] > tracked.cursor => i \in news
  OBVIOUS
<1>. HIDE DEF news
<1>6. /\ Cardinality(news) \in Nat
      /\ \A k \in 1..Cardinality(news) : Kth(news, k) \in news
      /\ \A i \in news : \E k \in 1..Cardinality(news) : Kth(news, k) = i
  BY <1>1, <1>2, KthEnumerates
<1>7. Fresh(batch) \in Seq(Nat)
  BY <1>1, <1>3, <1>4, <1>6
<1>8. DOMAIN Fresh(batch) = 1..Cardinality(news)
  BY <1>3
<1>9. \A e \in Of(Fresh(batch)) : e \in Of(batch) /\ e > tracked.cursor
  BY <1>3, <1>4, <1>6, <1>8 DEF Of
<1>10. \A e \in Of(batch) : e > tracked.cursor => e \in Of(Fresh(batch))
  <2>. SUFFICES ASSUME NEW i \in DOMAIN batch, batch[i] > tracked.cursor
                PROVE  batch[i] \in Of(Fresh(batch))
    BY DEF Of
  <2>1. PICK k \in 1..Cardinality(news) : Kth(news, k) = i
    BY <1>5, <1>6
  <2>2. Fresh(batch)[k] = batch[i]
    BY <1>3, <2>1
  <2>. QED
    BY <1>8, <2>2 DEF Of
<1>. QED
  BY <1>7, <1>9, <1>10

LEMMA OfSeq ==
    ASSUME NEW s \in Seq(Nat)
    PROVE  /\ Of(s) \subseteq Nat /\ Len(s) \in Nat /\ DOMAIN s = 1..Len(s)
           /\ s = <<>> <=> Of(s) = {}
           /\ s = <<>> <=> Len(s) = 0
           /\ Len(s) \in DOMAIN s \/ s = <<>>
  BY LenProperties, ElementOfSeq, EmptySeq DEF Of

(* What the backend accepts continues the cursor without a gap.            *)
LEMMA AcceptedContinues ==
    ASSUME NEW s \in Seq(Nat), ~Refuses(s), tracked.cursor \in Nat
    PROVE  \A i \in DOMAIN s : s[i] = tracked.cursor + i
  BY DEF Refuses

------------------------------------------------------------------------------
(* Types.                                                                  *)

LEMMA Types ==
    ASSUME TypeOK
    PROVE  /\ Writing => /\ active \in Writes /\ active.batch \in Seq(Nat)
                         /\ active.is \in {"timer", "barrier"}
                         /\ active.stage \in {"queued", "stored", "failed", "rejected"}
           /\ barrier # None => /\ barrier \in Barriers /\ barrier.failed \in BOOLEAN
                                /\ barrier.is \in {"overlap", "joined", "writing", "loop"}
           /\ tracked.cursor \in Nat /\ tracked.materialized \in BOOLEAN
           /\ \A f \in Callers : /\ callers[f].mark \in Nat
                                 /\ callers[f].at \in {"idle", "resolved", "rejected"} \union Waiting
           /\ Of(pending) \subseteq Nat /\ InFlight \subseteq Nat /\ Len(store) \in Nat
<1>1. Of(pending) \subseteq Nat /\ Len(store) \in Nat
  BY OfSeq DEF TypeOK
<1>2. Writing => /\ active \in Writes /\ active.batch \in Seq(Nat)
                 /\ active.is \in {"timer", "barrier"}
                 /\ active.stage \in {"queued", "stored", "failed", "rejected"}
  BY DEF TypeOK, Writes, Writing
<1>3. InFlight \subseteq Nat
  BY <1>2, OfSeq DEF InFlight
<1>. QED
  BY <1>1, <1>2, <1>3 DEF TypeOK, Barriers

LEMMA TypeStarts == Init => TypeOK
<1>. SUFFICES ASSUME Init PROVE TypeOK
  OBVIOUS
<1>1. store \in Seq(Nat) /\ log \in Nat /\ <<>> \in Seq(Nat)
  BY OfPrefix, WriteBehindAssumption DEF Init
<1>2. \A f \in Callers : callers[f] = [at |-> "idle", mark |-> 0]
  BY DEF Init
<1>3. /\ callers \in [Callers -> [at : {"idle", "resolved", "rejected"} \union Waiting, mark : Nat]]
      /\ tracked \in [cursor : Nat, materialized : BOOLEAN]
  BY DEF Init
<1>. QED
  BY <1>1, <1>3 DEF Init, TypeOK

(* startWrite is only called on a queue that holds something.              *)
LEMMA StartTypes ==
    ASSUME TypeOK, pending # <<>>, NEW by \in {"timer", "barrier"}, StartWrite(by)
    PROVE  /\ active' \in Writes /\ active' # None /\ active'.batch = pending /\ active'.is = by
           /\ active'.stage = "queued" /\ pending' = <<>> /\ pending' \in Seq(Nat)
           /\ ~timer' /\ ~expired' /\ timer' \in BOOLEAN /\ expired' \in BOOLEAN
<1>1. active' \in Writes
  BY DEF StartWrite, TypeOK, Writes
<1>2. active'.batch = pending /\ active'.is = by /\ active'.stage = "queued"
  BY DEF StartWrite
<1>3. None.is = "none"
  BY DEF None
<1>4. active' # None
  BY <1>2, <1>3
<1>5. pending' = <<>> /\ ~timer' /\ ~expired' /\ timer' = FALSE /\ expired' = FALSE
  BY DEF StartWrite
<1>. QED
  BY <1>1, <1>2, <1>4, <1>5, OfEmpty

LEMMA TypeSteps ==
    ASSUME TypeOK, Structure, [Next]_vars
    PROVE  TypeOK'
<1>t. /\ active # None => /\ active \in Writes /\ active.batch \in Seq(Nat)
                          /\ active.is \in {"timer", "barrier"}
      /\ barrier # None => /\ barrier \in Barriers /\ barrier.failed \in BOOLEAN
                           /\ barrier.is \in {"overlap", "joined", "writing", "loop"}
      /\ tracked.cursor \in Nat /\ tracked.materialized \in BOOLEAN
      /\ <<>> \in Seq(Nat)
  BY Types, OfEmpty DEF Writing
<1>n. None.is = "none"
  BY DEF None
<1>a. ASSUME NEW s \in Nat, Attach(s)
      PROVE  seed' \in Nat /\ init' \in {"none", "running", "ok", "failed"}
  BY <1>a DEF Attach, TypeOK
<1>e. ASSUME NEW e \in Nat, enqueue(e)
      PROVE  /\ pending' \in Seq(Nat) /\ pending' # <<>> /\ timer' \in BOOLEAN
             /\ expired' \in BOOLEAN /\ paused' \in BOOLEAN
  <2>1. pending' \in Seq(Nat) /\ pending' # <<>>
    BY <1>e, OfAppend DEF enqueue, TypeOK
  <2>. QED
    BY <1>e, <2>1 DEF enqueue, TypeOK
<1>k. ASSUME NEW f \in Callers, Ask(f)
      PROVE  /\ callers' \in [Callers -> [at : {"idle", "resolved", "rejected"} \union Waiting,
                                          mark : Nat]]
             /\ seed' \in Nat /\ init' \in {"none", "running", "ok", "failed"}
             /\ timer' = FALSE /\ expired' = FALSE
  <2>1. [at |-> "init", mark |-> log] \in [at : {"idle", "resolved", "rejected"} \union Waiting,
                                            mark : Nat]
    BY DEF Waiting, TypeOK
  <2>2. callers' = [callers EXCEPT ![f] = [at |-> "init", mark |-> log]] /\ Attach(log)
        /\ timer' = FALSE /\ expired' = FALSE
    BY <1>k DEF Ask
  <2>3. callers \in [Callers -> [at : {"idle", "resolved", "rejected"} \union Waiting, mark : Nat]]
    BY DEF TypeOK
  <2>. QED
    BY <1>a, <2>1, <2>2, <2>3 DEF TypeOK
<1>1. CASE Emit
  <2>0. log + 1 \in Nat /\ log' = log + 1
    BY <1>1 DEF Emit, TypeOK
  <2>1. CASE mode = "up"
    BY <1>1, <1>a, <1>e, <2>0, <2>1 DEF Emit, TypeOK, lifecycle
  <2>2. CASE mode # "up"
    BY <1>1, <2>0, <2>2 DEF Emit, TypeOK
  <2>. QED
    BY <2>1, <2>2
<1>2. CASE Created
  BY <1>2, <1>a DEF Created, TypeOK, controller
<1>3. ASSUME NEW o \in Outcomes, Initialize(o)
      PROVE  TypeOK'
  <2>. DEFINE suffix == SubSeq(Prefix(seed), Len(store) + 1, seed)
  <2>1. UNCHANGED <<log, callers, controller, mode, session, reloads>> /\ seed' = 0
        /\ init' \in {"ok", "failed"}
    BY <1>3 DEF Initialize
  <2>2. /\ store' \in Seq(Nat) /\ faults' \in Nat
        /\ tracked' \in [cursor : Nat, materialized : BOOLEAN]
    <3>1. CASE store # Prefix(Len(store)) \/ Len(store) > seed
      BY <1>3, <3>1 DEF Initialize, TypeOK
    <3>2. CASE ~(store # Prefix(Len(store)) \/ Len(store) > seed)
      <4>1. Appended(suffix, o)
        BY <1>3, <3>2 DEF Initialize
      <4>2. Len(store) \in 0..seed
        BY <3>2 DEF TypeOK
      <4>3. suffix \in Seq(Nat)
        BY <4>2, OfSuffix DEF TypeOK
      <4>. HIDE DEF suffix
      <4>4. store \o suffix \in Seq(Nat)
        BY <4>3, OfConcat DEF TypeOK
      <4>5. store' \in Seq(Nat) /\ faults' \in Nat
        BY <4>1, <4>4 DEF Appended, TypeOK
      <4>6. tracked' \in [cursor : Nat, materialized : BOOLEAN]
        <5>. DEFINE b == seed > 0
                    c == store # <<>>
        <5>1. b \in BOOLEAN /\ c \in BOOLEAN
          OBVIOUS
        <5>2. \/ tracked' = [cursor |-> seed, materialized |-> b]
              \/ tracked' = [cursor |-> Len(store), materialized |-> c]
          BY <1>3, <3>2 DEF Initialize
        <5>. HIDE DEF b, c
        <5>. QED
          BY <4>2, <5>1, <5>2 DEF TypeOK
      <4>. QED
        BY <4>5, <4>6
    <3>. QED
      BY <3>1, <3>2
  <2>. QED
    BY <2>1, <2>2 DEF TypeOK, controller
<1>4. ASSUME NEW o \in Outcomes, Write(o)
      PROVE  TypeOK'
  <2>. DEFINE fresh == Fresh(active.batch)
  <2>1. /\ active # None /\ active' = [active EXCEPT !.stage = active'.stage]
        /\ active'.stage \in {"stored", "failed"}
        /\ UNCHANGED <<log, callers, pending, timer, expired, paused, resuming, barrier,
                       init, seed, mode, session, reloads>>
    BY <1>4 DEF Write, Writes
  <2>2. active' \in Writes /\ active'.batch = active.batch /\ active'.is = active.is
    BY <2>1, <1>t DEF Writes
  <2>3. fresh \in Seq(Nat)
    BY <2>1, FreshIsTheRest, <1>t
  <2>. HIDE DEF fresh
  <2>4. store \o fresh \in Seq(Nat) /\ Len(fresh) \in Nat
    BY <2>3, OfConcat, OfSeq DEF TypeOK
  <2>5. \/ UNCHANGED <<store, tracked, faults>>
        \/ /\ Appended(fresh, o)
           /\ tracked' = IF o = "stored"
                         THEN [cursor |-> tracked.cursor + Len(fresh), materialized |-> TRUE]
                         ELSE tracked
    BY <1>4 DEF Write, fresh
  <2>6. store' \in Seq(Nat) /\ faults' \in Nat
    <3>1. CASE UNCHANGED <<store, tracked, faults>>
      BY <3>1 DEF TypeOK
    <3>2. CASE Appended(fresh, o)
      <4>1. store' = store \/ store' = store \o fresh
        BY <3>2 DEF Appended
      <4>2. faults' = faults \/ faults' = faults + 1
        BY <3>2 DEF Appended
      <4>3. store \in Seq(Nat) /\ faults \in Nat
        BY DEF TypeOK
      <4>4. store' \in Seq(Nat)
        BY <2>4, <4>1, <4>3
      <4>5. faults' \in Nat
        BY <4>2, <4>3
      <4>. QED
        BY <4>4, <4>5
    <3>. QED
      BY <2>5, <3>1, <3>2
  <2>7. tracked' \in [cursor : Nat, materialized : BOOLEAN]
    <3>1. \/ tracked' = tracked
          \/ tracked' = [cursor |-> tracked.cursor + Len(fresh), materialized |-> TRUE]
      BY <2>5
    <3>2. tracked.cursor + Len(fresh) \in Nat
      BY <2>4, <1>t
    <3>3. tracked \in [cursor : Nat, materialized : BOOLEAN]
      BY DEF TypeOK
    <3>. DEFINE n == tracked.cursor + Len(fresh)
    <3>4. n \in Nat /\ (tracked' = tracked \/ tracked' = [cursor |-> n, materialized |-> TRUE])
      BY <3>1, <3>2
    <3>. HIDE DEF n
    <3>. DEFINE T == [cursor : Nat, materialized : BOOLEAN]
                u == [cursor |-> n, materialized |-> TRUE]
    <3>5. u \in T
      BY <3>4
    <3>. HIDE DEF T, u
    <3>6. (tracked' = tracked \/ tracked' = u) /\ tracked \in T
      BY <3>3, <3>4 DEF T, u
    <3>7. tracked' \in T
      BY <3>5, <3>6
    <3>. QED
      BY <3>7 DEF T
  <2>8. active' # None
    BY <1>n, <2>1, <2>2, <1>t
  <2>. QED
    BY <2>1, <2>2, <2>6, <2>7, <2>8 DEF TypeOK
<1>5. CASE WriteFails
  <2>1. active' \in Writes /\ active'.batch = active.batch /\ active'.is = active.is
    BY <1>5, <1>t DEF WriteFails, Writes
  <2>2. active' # None
    BY <1>5, <1>n, <2>1, <1>t DEF WriteFails
  <2>3. pending' \in Seq(Nat)
    BY <1>5, OfConcat, <1>t DEF WriteFails, Ahead, TypeOK
  <2>. QED
    BY <1>5, <2>1, <2>2, <2>3 DEF WriteFails, TypeOK, lifecycle
<1>6. CASE WriteSettles
  <2>1. /\ barrier' \in Barriers \union {None}
        /\ barrier' # None => barrier'.is \in {"joined", "loop"}
    BY <1>6, <1>t DEF WriteSettles, TypeOK, Barriers
  <2>2. active' = None /\ UNCHANGED <<log, store, callers, faults, pending, timer, expired, paused,
                                     tracked, init, seed, mode, session, reloads>>
    BY <1>6 DEF WriteSettles, lifecycle
  <2>. QED
    <3>. DEFINE b == active.is = "timer" /\ active.stage = "stored"
    <3>1. resuming' = b /\ b \in BOOLEAN
      BY <1>6 DEF WriteSettles
    <3>. HIDE DEF b
    <3>2. resuming' \in BOOLEAN
      BY <3>1
    <3>. QED
      <4>1. /\ active' \in Writes \union {None} /\ active' # None => active'.batch # <<>>
            /\ barrier' # None => /\ barrier'.is # "overlap" /\ barrier'.is # "writing"
        BY <2>1, <2>2
      <4>2. timer' => pending' # <<>>
        BY <2>2 DEF TypeOK
      <4>. QED
        BY <2>1, <2>2, <3>2, <4>1, <4>2 DEF TypeOK
<1>7. CASE Deadline
  <2>1. CASE active # None
    BY <1>7, <2>1 DEF Deadline, TypeOK, lifecycle
  <2>2. CASE active = None
    <3>1. StartWrite("timer") /\ pending # <<>>
      BY <1>7, <2>2 DEF Deadline, TypeOK
    <3>2. /\ active' \in Writes /\ active'.batch = pending /\ active' # None
          /\ pending' = <<>> /\ timer' = FALSE /\ expired' = FALSE
      BY <3>1, StartTypes
    <3>. QED
      BY <1>7, <2>2, <3>1, <3>2, <1>t DEF Deadline, TypeOK, lifecycle
  <2>. QED
    BY <2>1, <2>2
<1>8. CASE Continue
  <2>1. CASE barrier = None /\ pending # <<>> /\ expired
    <3>1. StartWrite("timer") /\ pending # <<>>
      BY <1>8, <2>1 DEF Continue
    <3>2. /\ active' \in Writes /\ active'.batch = pending /\ active' # None
          /\ pending' = <<>> /\ timer' = FALSE /\ expired' = FALSE
      BY <3>1, StartTypes
    <3>. QED
      BY <1>8, <2>1, <3>1, <3>2, <1>t DEF Continue, TypeOK, lifecycle
  <2>2. CASE ~(barrier = None /\ pending # <<>> /\ expired)
    <3>1. UNCHANGED <<pending, timer, expired, active>> /\ resuming' = FALSE
          /\ UNCHANGED <<log, store, callers, faults, lifecycle, paused, barrier>>
      BY <1>8, <2>2 DEF Continue
    <3>2. resuming' \in BOOLEAN
      BY <3>1
    <3>3. UNCHANGED <<tracked, init, seed, mode, session, reloads>>
      BY <3>1 DEF lifecycle
    <3>. QED
      BY <3>1, <3>2, <3>3 DEF TypeOK
  <2>. QED
    BY <2>1, <2>2
<1>9. CASE Drain
  <2>1. ASSUME NEW v \in {"resolved", "rejected"}, BarrierEnds(v) PROVE TypeOK'
    BY <1>9, <2>1 DEF Drain, BarrierEnds, Joined, TypeOK, lifecycle
  <2>2. CASE ~barrier.failed /\ pending # <<>>
    <3>1. StartWrite("barrier") /\ barrier' = [barrier EXCEPT !.is = "writing"]
      BY <1>9, <2>2 DEF Drain, Drained
    <3>2. /\ active' \in Writes /\ active'.batch = pending /\ active'.is = "barrier"
          /\ active' # None /\ pending' = <<>> /\ timer' = FALSE /\ expired' = FALSE
      BY <2>2, <3>1, StartTypes
    <3>3. barrier' \in Barriers /\ barrier'.is = "writing"
      BY <1>9, <3>1, <1>t DEF Drain, Barriers
    <3>. QED
      BY <1>9, <2>2, <3>2, <3>3, <1>t DEF Drain, Drained, TypeOK, lifecycle
  <2>. QED
    BY <1>9, <2>1, <2>2 DEF Drain, Drained
<1>10. ASSUME NEW f \in Flushers, Flush(f)
       PROVE  TypeOK'
  <2>1. f \in Callers /\ Ask(f)
    BY <1>10 DEF Flush, Callers
  <2>. QED
    BY <1>10, <1>k, <2>1 DEF Flush, Ask, TypeOK
<1>11. ASSUME NEW f \in Callers, FlushProceeds(f)
       PROVE  TypeOK'
  <2>1. callers' \in [Callers -> [at : {"idle", "resolved", "rejected"} \union Waiting, mark : Nat]]
    <3>. DEFINE T == [at : {"idle", "resolved", "rejected"} \union Waiting, mark : Nat]
    <3>1. callers \in [Callers -> T]
      BY DEF TypeOK
    <3>2. /\ [at |-> "rejected", mark |-> 0] \in T /\ [at |-> "resolved", mark |-> 0] \in T
          /\ [callers[f] EXCEPT !.at = "barrier"] \in T
      BY <3>1 DEF Waiting
    <3>. HIDE DEF T
    <3>3. \/ callers' = [callers EXCEPT ![f] = [at |-> "rejected", mark |-> 0]]
          \/ callers' = [callers EXCEPT ![f] = [at |-> "resolved", mark |-> 0]]
          \/ callers' = [callers EXCEPT ![f] = [callers[f] EXCEPT !.at = "barrier"]]
      BY <1>11 DEF FlushProceeds
    <3>. QED
      BY <3>1, <3>2, <3>3 DEF T
  <2>2. /\ timer' \in BOOLEAN /\ expired' \in BOOLEAN /\ paused' \in BOOLEAN
        /\ timer' => timer
        /\ UNCHANGED <<log, store, faults, lifecycle, resuming>>
    BY <1>11 DEF FlushProceeds, StartWrite, TypeOK
  <2>3. CASE UNCHANGED <<barrier, pending, active>>
    BY <2>1, <2>2, <2>3 DEF TypeOK, lifecycle
  <2>4. CASE /\ barrier = None /\ Overlaps
             /\ barrier' = [is |-> "overlap", failed |-> FALSE] /\ UNCHANGED <<pending, active>>
    <3>1. barrier' \in Barriers /\ barrier'.is = "overlap"
      BY <2>4 DEF Barriers
    <3>2. active.is = "timer" /\ active # None
      BY <2>4 DEF Overlaps, Structure, Writing
    <3>. QED
      BY <2>1, <2>2, <2>4, <3>1, <3>2 DEF TypeOK, lifecycle
  <2>5. CASE /\ pending # <<>> /\ StartWrite("barrier")
             /\ barrier' = [is |-> "writing", failed |-> FALSE]
    <3>1. /\ active' \in Writes /\ active'.batch = pending /\ active'.is = "barrier"
          /\ active' # None /\ pending' = <<>> /\ timer' = FALSE /\ expired' = FALSE
      BY <2>5, StartTypes
    <3>. QED
      BY <2>1, <2>2, <2>5, <3>1 DEF TypeOK, lifecycle, Barriers
  <2>. QED
    BY <1>11, <2>3, <2>4, <2>5 DEF FlushProceeds
<1>12. CASE Dispose
  <2>1. "retirement" \in Callers
    BY DEF Callers
  <2>2. CASE mode = "up" /\ init # "none"
    BY <1>12, <1>k, <2>1, <2>2 DEF Dispose, Ask, TypeOK
  <2>3. CASE ~(mode = "up" /\ init # "none")
    BY <1>12, <2>3 DEF Dispose, TypeOK, controller
  <2>. QED
    BY <2>2, <2>3
<1>13. CASE Release
  BY <1>13 DEF Release, TypeOK, controller
<1>14. CASE PluginDisposed
  <2>1. "disposer" \in Callers
    BY DEF Callers
  <2>2. CASE Held
    BY <1>14, <1>k, <2>1, <2>2 DEF PluginDisposed, Ask, TypeOK
  <2>3. CASE ~Held
    BY <1>14, <2>3 DEF PluginDisposed, TypeOK, controller
  <2>. QED
    BY <2>2, <2>3
<1>15. CASE PluginCloses
  BY <1>15 DEF PluginCloses, TypeOK, controller
<1>16. CASE PluginLoads
  <2>1. /\ tracked' \in [cursor : Nat, materialized : BOOLEAN] /\ reloads' \in Nat
        /\ seed' \in Nat /\ init' \in {"none", "running", "ok", "failed"}
    BY <1>16 DEF PluginLoads, TypeOK
  <2>2. /\ pending' = <<>> /\ active' = None /\ barrier' = None /\ mode' = "up"
        /\ timer' = FALSE /\ expired' = FALSE /\ paused' = FALSE /\ resuming' = FALSE
        /\ UNCHANGED <<log, store, callers, faults, session>>
    BY <1>16 DEF PluginLoads
  <2>. QED
    BY <2>1, <2>2, <1>t DEF TypeOK
<1>17. CASE UNCHANGED vars
  BY <1>17 DEF vars, controller, lifecycle, TypeOK
<1>. QED
  BY <1>1, <1>2, <1>3, <1>4, <1>5, <1>6, <1>7, <1>8, <1>9, <1>10, <1>11, <1>12, <1>13,
     <1>14, <1>15, <1>16, <1>17 DEF Next

------------------------------------------------------------------------------
(* The control of the write path.                                          *)

Control == Structure /\ Draining /\ Waited

(* A flush, a retirement and a disposal ask in the same way.               *)
LEMMA AskKeepsControl ==
    ASSUME TypeOK, Control, NEW f \in Callers, Ask(f),
           mode' = "closed" => mode = "closed", mode # "closed"
    PROVE  Control'
<1>1. /\ init' # "none" /\ (init # "none" => init' = init) /\ (init' = "ok" => init = "ok")
      /\ init' = "failed" => init = "failed"
  BY DEF Ask, Attach
<1>2. /\ ~timer' /\ ~expired'
      /\ UNCHANGED <<pending, paused, active, resuming, barrier>>
  BY DEF Ask
<1>3. /\ callers'[f].at = "init"
      /\ \A g \in Callers : g # f => callers'[g] = callers[g]
      /\ callers[f].at \notin Waiting
  BY DEF Ask, TypeOK
<1>4. \A g \in Callers : callers'[g].at = "barrier" <=> callers[g].at = "barrier"
  BY <1>3 DEF Waiting
<1>5. Structure'
  BY <1>1, <1>2, <1>4 DEF Control, Structure, Writing, Waits
<1>6. Draining'
  BY <1>2, <1>4 DEF Control, Draining
<1>7. Waited'
  BY <1>3 DEF Waited
<1>. QED
  BY <1>5, <1>6, <1>7 DEF Control

LEMMA ControlSteps ==
    ASSUME TypeOK, Control, [Next]_vars
    PROVE  Control'
<1>t. /\ active # None => /\ active \in Writes /\ active.batch \in Seq(Nat)
                          /\ active.is \in {"timer", "barrier"}
      /\ barrier # None => /\ barrier \in Barriers /\ barrier.failed \in BOOLEAN
                           /\ barrier.is \in {"overlap", "joined", "writing", "loop"}
      /\ timer => pending # <<>>
  BY Types DEF Writing, TypeOK
<1>n. None.is = "none"
  BY DEF None
<1>. USE DEF Control
<1>1. CASE Emit
  <2>1. CASE mode = "up"
    <3>1. /\ init' # "none" /\ (init # "none" => init' = init) /\ enqueue(log + 1)
          /\ init' = "failed" => init = "failed"
          /\ session = "live"
          /\ UNCHANGED <<callers, mode, session, active, resuming, barrier>>
      BY <1>1, <2>1 DEF Emit, Attach
    <3>2. CASE barrier # None
      <4>1. UNCHANGED <<timer, expired, paused>>
        BY <3>1, <3>2 DEF enqueue
      <4>. QED
        BY <2>1, <3>1, <3>2, <4>1 DEF Structure, Draining, Waited, Writing, Waits
    <3>3. CASE barrier = None
      <4>1. /\ timer' <=> timer \/ paused \/ pending = <<>>
            /\ expired' <=> expired /\ ~paused
            /\ ~paused'
        BY <3>1, <3>3 DEF enqueue, Rearmed
      <4>2. Structure'
        BY <3>1, <3>3, <4>1 DEF Structure, Writing, Waits
      <4>3. Draining'
        BY <2>1, <3>1, <3>3 DEF Draining
      <4>4. Waited'
        BY <3>1, <3>3, <4>1 DEF Structure, Waited, Writing
      <4>. QED
        BY <4>2, <4>3, <4>4
    <3>. QED
      BY <3>2, <3>3
  <2>2. CASE mode # "up"
    BY <1>1, <2>2 DEF Emit, Structure, Draining, Waited, Writing, Waits
  <2>. QED
    BY <2>1, <2>2
<1>2. CASE Created
  <2>1. init' = "running" /\ UNCHANGED <<callers, mode, session, controller>> /\ init = "none"
    BY <1>2 DEF Created, Attach
  <2>. QED
    BY <2>1, <1>2 DEF Created, Structure, Draining, Waited, Writing, Waits, controller
<1>3. ASSUME NEW o \in Outcomes, Initialize(o)
      PROVE  Control'
  <2>1. /\ init = "running" /\ init' \in {"ok", "failed"}
        /\ UNCHANGED <<callers, mode, session, controller>>
    BY <1>3 DEF Initialize
  <2>. QED
    BY <2>1 DEF Structure, Draining, Waited, Writing, Waits, controller
<1>4. ASSUME NEW o \in Outcomes, Write(o)
      PROVE  Control'
  <2>1. /\ active # None /\ active' = [active EXCEPT !.stage = active'.stage]
        /\ active'.stage \in {"stored", "failed"}
        /\ UNCHANGED <<callers, pending, timer, expired, paused, resuming, barrier,
                       init, mode, session>>
    BY <1>4, <1>t DEF Write, Writes
  <2>2. active'.is = active.is /\ active' # None
    BY <1>n, <1>t, <2>1 DEF Writes
  <2>. QED
    BY <2>1, <2>2 DEF Structure, Draining, Waited, Writing, Waits
<1>5. CASE WriteFails
  <2>1. /\ active # None /\ active'.is = active.is /\ active'.stage = "rejected"
        /\ ~timer' /\ ~expired' /\ paused'
        /\ UNCHANGED <<callers, resuming, barrier, init, mode, session>>
    BY <1>5, <1>t DEF WriteFails, Writes, lifecycle
  <2>2. active' # None
    BY <1>n, <1>t, <2>1
  <2>. QED
    BY <2>1, <2>2 DEF Structure, Draining, Waited, Writing, Waits
<1>6. CASE WriteSettles
  <2>1. /\ active # None /\ active' = None /\ active.stage \in {"stored", "rejected"}
        /\ resuming' <=> active.is = "timer" /\ active.stage = "stored"
        /\ UNCHANGED <<callers, pending, timer, expired, paused, init, mode, session>>
    BY <1>6 DEF WriteSettles, lifecycle
  <2>2. /\ barrier = None <=> barrier' = None
        /\ barrier' # None => /\ barrier'.is \in {"joined", "loop"}
                              /\ barrier'.failed => barrier'.is = "loop" /\ paused
    <3>1. CASE barrier = None
      BY <1>6, <3>1 DEF WriteSettles
    <3>2. CASE barrier # None /\ active.is = "timer"
      <4>1. barrier' = [barrier EXCEPT !.is = "joined"]
        BY <1>6, <3>2 DEF WriteSettles
      <4>2. barrier'.is = "joined" /\ barrier'.failed = barrier.failed
        BY <1>t, <3>2, <4>1 DEF Barriers
      <4>3. ~barrier.failed
        BY <2>1, <3>2 DEF Structure, Writing
      <4>. QED
        BY <1>n, <3>2, <4>2, <4>3
    <3>3. CASE barrier # None /\ active.is = "barrier"
      <4>. DEFINE b == active.stage = "rejected"
      <4>1. barrier' = [is |-> "loop", failed |-> b]
        BY <1>6, <3>3 DEF WriteSettles
      <4>2. b => paused
        BY <2>1, <3>3 DEF Structure, Writing
      <4>. HIDE DEF b
      <4>3. barrier'.is = "loop" /\ barrier'.failed = b
        BY <4>1
      <4>. QED
        BY <1>n, <3>3, <4>2, <4>3
    <3>. QED
      BY <1>t, <2>1, <3>1, <3>2, <3>3
  <2>3. Structure'
    BY <2>1, <2>2 DEF Structure, Writing, Waits
  <2>4. Draining'
    BY <2>1, <2>2 DEF Draining, Writing, Waits
  <2>5. Waited'
    BY <2>1, <2>2 DEF Structure, Waited, Writing
  <2>. QED
    BY <2>3, <2>4, <2>5
<1>7. CASE Deadline
  <2>1. CASE active # None
    <3>1. /\ timer /\ ~timer' /\ expired' /\ active.stage = "queued" /\ ~resuming
          /\ UNCHANGED <<callers, init, mode, session, pending, active, paused, resuming, barrier>>
      BY <1>7, <2>1 DEF Deadline, ReactionsPending, lifecycle
    <3>. QED
      BY <1>t, <2>1, <3>1 DEF Structure, Draining, Waited, Writing, Waits
  <2>2. CASE active = None
    <3>1. /\ timer /\ StartWrite("timer") /\ pending # <<>> /\ ~resuming
          /\ UNCHANGED <<callers, init, mode, session, paused, resuming, barrier>>
          /\ barrier = None \/ barrier.is \notin {"joined", "loop"}
      BY <1>7, <1>t, <2>2 DEF Deadline, ReactionsPending, lifecycle
    <3>2. /\ active'.is = "timer" /\ active'.stage = "queued" /\ active' # None
          /\ pending' = <<>> /\ ~timer' /\ ~expired'
      BY <3>1, StartTypes
    <3>. QED
      BY <1>t, <2>2, <3>1, <3>2 DEF Structure, Draining, Waited, Writing, Waits, TypeOK
  <2>. QED
    BY <2>1, <2>2
<1>8. CASE Continue
  <2>0. ~resuming' /\ resuming /\ UNCHANGED <<callers, init, mode, session, paused, barrier>>
    BY <1>8 DEF Continue, lifecycle
  <2>1. CASE barrier = None /\ pending # <<>> /\ expired
    <3>1. StartWrite("timer")
      BY <1>8, <2>1 DEF Continue
    <3>2. /\ active'.is = "timer" /\ active'.stage = "queued" /\ active' # None
          /\ pending' = <<>> /\ ~timer' /\ ~expired'
      BY <2>1, <3>1, StartTypes
    <3>. QED
      BY <2>0, <2>1, <3>2 DEF Structure, Draining, Waited, Writing, Waits
  <2>2. CASE ~(barrier = None /\ pending # <<>> /\ expired)
    <3>1. UNCHANGED <<pending, timer, expired, active>>
      BY <1>8, <2>2 DEF Continue
    <3>. QED
      BY <2>0, <2>2, <3>1 DEF Structure, Draining, Waited, Writing, Waits
  <2>. QED
    BY <2>1, <2>2
<1>9. CASE Drain
  <2>0. /\ barrier # None /\ barrier.is \in {"joined", "loop"} /\ ~Writing
        /\ paused' <=> paused /\ barrier.is = "loop"
        /\ UNCHANGED <<init, mode, session, resuming>>
    BY <1>9 DEF Drain, lifecycle, Structure
  <2>1. ASSUME NEW v \in {"resolved", "rejected"}, BarrierEnds(v),
               barrier.failed \/ pending = <<>>
        PROVE  Control'
    <3>1. /\ barrier' = None /\ UNCHANGED <<pending, timer, expired, active>>
          /\ \A f \in Callers : /\ callers'[f].at # "barrier"
                                /\ callers'[f].at = "init" <=> callers[f].at = "init"
                                /\ callers'[f].at \in Waiting => callers[f].at \in Waiting
      BY <2>1 DEF BarrierEnds, Joined, Waiting
    <3>2. Structure'
      BY <2>0, <3>1 DEF Structure, Writing, Waits
    <3>3. Draining'
      BY <2>0, <3>1 DEF Draining, Writing, Waits
    <3>4. Waited'
      BY <2>0, <2>1, <3>1 DEF Structure, Waited, Writing
    <3>. QED
      BY <3>2, <3>3, <3>4
  <2>2. CASE ~barrier.failed /\ pending # <<>>
    <3>1. StartWrite("barrier") /\ barrier' = [barrier EXCEPT !.is = "writing"] /\ UNCHANGED callers
      BY <1>9, <2>2 DEF Drain, Drained
    <3>2. /\ active'.is = "barrier" /\ active'.stage = "queued" /\ active' # None
          /\ pending' = <<>> /\ ~timer' /\ ~expired'
      BY <2>2, <3>1, StartTypes
    <3>3. barrier'.is = "writing" /\ ~barrier'.failed
      BY <1>t, <2>0, <2>2, <3>1 DEF Barriers
    <3>4. barrier' # None
      BY <1>n, <3>3
    <3>5. Structure'
      BY <2>0, <3>1, <3>2, <3>3, <3>4 DEF Structure, Writing, Waits
    <3>6. mode # "closed"
      BY <2>0 DEF Draining, Waits, Waiting
    <3>. QED
      BY <2>0, <3>1, <3>2, <3>4, <3>5, <3>6 DEF Draining, Waited, Waits
  <2>. QED
    BY <1>9, <2>1, <2>2 DEF Drain, Drained
<1>10. ASSUME NEW f \in Flushers, Flush(f)
       PROVE  Control'
  BY <1>10, AskKeepsControl DEF Flush, Callers
<1>11. ASSUME NEW f \in Callers, FlushProceeds(f)
       PROVE  Control'
  <2>0. /\ callers[f].at = "init" /\ init # "running" /\ init # "none" /\ mode # "closed"
        /\ UNCHANGED <<init, mode, session, resuming>>
        /\ \A g \in Callers : g # f => callers'[g] = callers[g]
        /\ callers'[f].at # "init"
    <3>1. callers[f].at = "init" /\ init # "running" /\ UNCHANGED <<init, mode, session, resuming>>
      BY <1>11 DEF FlushProceeds, lifecycle
    <3>2. init # "none" /\ mode # "closed"
      BY <3>1 DEF Structure, Draining, Waits, Waiting
    <3>3. callers \in [Callers -> [at : {"idle", "resolved", "rejected"} \union Waiting, mark : Nat]]
      BY DEF TypeOK
    <3>4. /\ \A g \in Callers : g # f => callers'[g] = callers[g]
          /\ callers'[f].at # "init"
      BY <1>11, <3>3 DEF FlushProceeds
    <3>. QED
      BY <3>1, <3>2, <3>4
  <2>1. CASE init = "failed"
    <3>1. /\ UNCHANGED <<barrier, pending, active>> /\ ~timer' /\ ~expired'
          /\ callers'[f].at = "rejected" /\ paused' = paused /\ barrier = None
      BY <1>11, <2>1 DEF FlushProceeds, TypeOK, Structure
    <3>. QED
      BY <2>0, <2>1, <3>1 DEF Structure, Draining, Waited, Writing, Waits, Waiting
  <2>2. CASE init # "failed" /\ barrier # None
    <3>1. /\ UNCHANGED <<barrier, pending, active, timer, expired>>
          /\ callers'[f].at = "barrier" /\ paused' = paused
      BY <1>11, <2>2 DEF FlushProceeds, TypeOK
    <3>2. Structure' /\ Waited'
      BY <2>0, <2>2, <3>1 DEF Structure, Waited, Writing, Waits
    <3>3. Draining'
      BY <2>0, <2>2, <3>1 DEF Draining, Writing
    <3>. QED
      BY <3>2, <3>3
  <2>3. CASE init # "failed" /\ barrier = None
    <3>0. init = "ok" /\ ~timer' /\ ~expired' /\ ~paused'
          /\ (\A g \in Callers : callers[g].at # "barrier")
      BY <1>11, <2>0, <2>3 DEF FlushProceeds, TypeOK, Structure
    <3>1. CASE active # None
      <4>1. /\ barrier' = [is |-> "overlap", failed |-> FALSE] /\ UNCHANGED <<pending, active>>
            /\ callers'[f].at = "barrier"
        BY <1>11, <2>3, <3>1 DEF FlushProceeds, Overlaps, TypeOK
      <4>2. barrier'.is = "overlap" /\ ~barrier'.failed /\ barrier' # None
        BY <1>n, <4>1
      <4>3. active.is = "timer"
        BY <2>3, <3>1 DEF Structure, Writing
      <4>4. Structure'
        BY <2>0, <3>0, <3>1, <4>1, <4>2, <4>3 DEF Structure, Writing, Waits
      <4>5. Draining'
        BY <2>0, <3>0, <4>1, <4>2 DEF Draining
      <4>. QED
        BY <4>2, <4>4, <4>5 DEF Waited
    <3>2. CASE active = None /\ pending = <<>>
      <4>1. UNCHANGED <<barrier, pending, active>> /\ callers'[f].at = "resolved"
        BY <1>11, <2>3, <3>2 DEF FlushProceeds, Overlaps, TypeOK
      <4>. QED
        BY <2>0, <2>3, <3>0, <3>2, <4>1 DEF Structure, Draining, Waited, Writing, Waits, Waiting
    <3>3. CASE active = None /\ pending # <<>>
      <4>1. /\ StartWrite("barrier") /\ barrier' = [is |-> "writing", failed |-> FALSE]
            /\ callers'[f].at = "barrier"
        BY <1>11, <2>3, <3>3 DEF FlushProceeds, Overlaps, TypeOK
      <4>2. barrier'.is = "writing" /\ ~barrier'.failed /\ barrier' # None
        BY <1>n, <4>1
      <4>3. /\ active'.is = "barrier" /\ active'.stage = "queued" /\ active' # None
            /\ pending' = <<>> /\ ~timer' /\ ~expired'
        BY <3>3, <4>1, StartTypes
      <4>4. Structure'
        BY <2>0, <3>0, <4>1, <4>2, <4>3 DEF Structure, Writing, Waits
      <4>5. Draining'
        BY <2>0, <3>0, <4>1, <4>2, <4>3 DEF Draining
      <4>. QED
        BY <4>2, <4>4, <4>5 DEF Waited
    <3>. QED
      BY <3>1, <3>2, <3>3
  <2>. QED
    BY <2>1, <2>2, <2>3
<1>12. CASE Dispose
  <2>1. CASE mode = "up" /\ init # "none"
    BY <1>12, <2>1, AskKeepsControl DEF Dispose, Callers
  <2>2. CASE ~(mode = "up" /\ init # "none")
    <3>1. UNCHANGED <<callers, controller, init, mode>>
      BY <1>12, <2>2 DEF Dispose
    <3>2. ~timer /\ ~expired
      BY <1>t, <2>2 DEF Structure, Draining
    <3>. QED
      BY <3>1, <3>2 DEF Structure, Draining, Waited, Writing, Waits, controller
  <2>. QED
    BY <2>1, <2>2
<1>13. CASE Release
  BY <1>13 DEF Release, Structure, Draining, Waited, Writing, Waits, controller
<1>14. CASE PluginDisposed
  <2>1. CASE Held
    BY <1>14, <2>1, AskKeepsControl DEF PluginDisposed, Callers
  <2>2. CASE ~Held
    <3>1. UNCHANGED <<callers, controller, init, session>> /\ mode' = "disposing"
      BY <1>14, <2>2 DEF PluginDisposed
    <3>2. ~timer /\ ~expired
      BY <1>t, <2>2 DEF Structure, Draining, Held
    <3>. QED
      BY <3>1, <3>2 DEF Structure, Draining, Waited, Writing, Waits, controller
  <2>. QED
    BY <2>1, <2>2
<1>15. CASE PluginCloses
  BY <1>15 DEF PluginCloses, Settled, Structure, Draining, Waited, Writing, Waits, controller
<1>16. CASE PluginLoads
  <2>1. /\ pending' = <<>> /\ active' = None /\ barrier' = None /\ mode' = "up" /\ mode = "closed"
        /\ timer' = FALSE /\ expired' = FALSE /\ paused' = FALSE /\ resuming' = FALSE
        /\ UNCHANGED <<callers, session>>
    BY <1>16 DEF PluginLoads
  <2>2. \A f \in Callers : callers[f].at \notin Waiting /\ callers[f].at # "barrier"
    BY <2>1 DEF Draining, Waits, Waiting
  <2>. QED
    BY <2>1, <2>2 DEF Structure, Draining, Waited, Writing, Waits
<1>17. CASE UNCHANGED vars
  BY <1>17 DEF vars, controller, lifecycle, Structure, Draining, Waited, Writing, Waits
<1>. QED
  BY <1>1, <1>2, <1>3, <1>4, <1>5, <1>6, <1>7, <1>8, <1>9, <1>10, <1>11, <1>12, <1>13,
     <1>14, <1>15, <1>16, <1>17 DEF Next

------------------------------------------------------------------------------
(* Where the events are.                                                   *)

LEMMA StartMoves ==
    ASSUME TypeOK, active = None, pending # <<>>, NEW by \in {"timer", "barrier"}, StartWrite(by)
    PROVE  /\ Of(pending') = {} /\ InFlight = {} /\ InFlight' = Of(pending)
           /\ active' # None /\ active'.stage = "queued"
<1>1. /\ active'.batch = pending /\ active' # None /\ pending' = <<>> /\ active'.stage = "queued"
  BY StartTypes
<1>. QED
  BY <1>1, OfEmpty DEF InFlight, Writing

(* Whoever asks while persistence is up asks for events that are known.    *)
LEMMA AskKeepsCovered ==
    ASSUME TypeOK, Covered, mode = "up", NEW f \in Callers, Ask(f), Structure
    PROVE  Covered'
<1>1. /\ log' = log /\ pending' = pending /\ active' = active /\ tracked' = tracked /\ store' = store
      /\ callers[f].at \notin Waiting /\ callers'[f] = [at |-> "init", mark |-> log]
      /\ \A g \in Callers : g # f => callers'[g] = callers[g]
  BY DEF Ask, TypeOK
<1>2. \/ init' = init /\ seed' = seed
      \/ init = "none" /\ init' = "running" /\ seed' = log
  BY DEF Ask, Attach
<1>3. log \in Nat /\ \A g \in Callers : callers'[g].at \in Waiting => callers'[g].mark <= log'
  <2>1. log \in Nat /\ callers'[f].mark = log /\ log' = log
    BY <1>1 DEF TypeOK
  <2>2. \A g \in Callers : callers[g].at \in Waiting => callers[g].mark <= log
    BY DEF Covered, Waits
  <2>. QED
    BY <1>1, <2>1, <2>2
<1>4. InFlight' = InFlight /\ Of(pending') = Of(pending)
  BY <1>1 DEF InFlight, Writing
<1>5. init \in {"running", "ok"} => \A e \in 1..log : Known(e)
  BY DEF Covered, Wanted
<1>6. init' \in {"running", "ok"} => \A e \in 1..log' : Known(e)'
  BY <1>1, <1>2, <1>4, <1>5 DEF Known, Reached
<1>. QED
  BY <1>1, <1>2, <1>3, <1>6 DEF Covered, Waits, Writing

LEMMA CoveredSteps ==
    ASSUME TypeOK, Structure, Covered, [Next]_vars
    PROVE  Covered'
<1>t. /\ Writing => /\ active \in Writes /\ active.batch \in Seq(Nat)
                    /\ active.stage \in {"queued", "stored", "failed", "rejected"}
      /\ tracked.cursor \in Nat /\ Len(store) \in Nat /\ log \in Nat /\ seed \in Nat
      /\ pending \in Seq(Nat) /\ Of(pending) \subseteq Nat /\ InFlight \subseteq Nat
      /\ \A f \in Callers : callers[f].mark \in Nat
  BY Types DEF TypeOK
<1>n. None.is = "none"
  BY DEF None
(* A step after which nobody else asks, the log is as long as before and   *)
(* no known event became unknown.                                          *)
<1>k. ASSUME log' = log,
             \A f \in Callers : Waits(f)' => Waits(f) /\ callers'[f].mark = callers[f].mark,
             mode' = "up" => mode = "up",
             init' \in {"running", "ok"} => init \in {"running", "ok"},
             init' \in {"running", "ok"} =>
                 \A e \in 1..log : Known(e) => Known(e)',
             init' = "ok" => tracked'.cursor <= Len(store'),
             Writing' /\ active'.stage = "stored" =>
                 init' = "ok" /\ \A e \in Of(active'.batch) : e <= tracked'.cursor,
             Writing' /\ active'.stage = "rejected" => Of(active'.batch) \subseteq Of(pending')
      PROVE  Covered'
  <2>1. \A e \in 1..log : Wanted(e)' => Wanted(e)
    BY <1>k DEF Wanted
  <2>2. \A f \in Callers : Waits(f)' => callers'[f].mark <= log'
    BY <1>k DEF Covered
  <2>3. init' \in {"running", "ok"} => \A e \in 1..log' : Wanted(e)' => Known(e)'
    BY <1>k, <2>1 DEF Covered
  <2>. QED
    BY <1>k, <2>2, <2>3 DEF Covered
(* A step of the controller that only moves the queue into a write.        *)
<1>s. ASSUME active = None, pending # <<>>, NEW by \in {"timer", "barrier"}, StartWrite(by),
             UNCHANGED <<log, store, lifecycle>>,
             \A f \in Callers : Waits(f)' => Waits(f) /\ callers'[f].mark = callers[f].mark
      PROVE  Covered'
  <2>1. /\ Of(pending') = {} /\ InFlight = {} /\ InFlight' = Of(pending)
        /\ active' # None /\ active'.stage = "queued"
    BY <1>s, StartMoves
  <2>2. UNCHANGED <<tracked, init, seed, mode>>
    BY <1>s DEF lifecycle
  <2>3. \A e \in 1..log : Known(e) => Known(e)'
    BY <2>1, <2>2 DEF Known, Reached
  <2>. QED
    BY <1>k, <1>s, <2>1, <2>2, <2>3 DEF Covered
<1>u. ASSUME UNCHANGED <<log, store, tracked, init, seed, pending, active>>,
             mode' = "up" => mode = "up",
             \A f \in Callers : Waits(f)' => Waits(f) /\ callers'[f].mark = callers[f].mark
      PROVE  Covered'
  <2>1. \A e \in 1..log : Known(e) => Known(e)'
    BY <1>u DEF Known, Reached, InFlight, Writing
  <2>. QED
    BY <1>k, <1>u, <2>1 DEF Covered, Writing
<1>1. CASE Emit
  <2>0. log' = log + 1 /\ UNCHANGED <<store, callers, tracked, mode, active>>
    BY <1>1 DEF Emit
  <2>1. \A f \in Callers : Waits(f)' => callers'[f].mark <= log
    BY <2>0 DEF Covered, Waits
  <2>2. CASE mode = "up"
    <3>1. /\ pending' = Append(pending, log + 1)
          /\ \/ init' = init /\ seed' = seed
             \/ init = "none" /\ init' = "running" /\ seed' = log + 1
      BY <1>1, <2>2 DEF Emit, Attach, enqueue
    <3>2. Of(pending') = Of(pending) \union {log + 1} /\ InFlight' = InFlight
      BY <1>t, <2>0, <3>1, OfAppend DEF InFlight, Writing
    <3>3. init \in {"running", "ok"} => \A e \in 1..log : Known(e)
      BY <2>2 DEF Covered, Wanted
    <3>4. init' \in {"running", "ok"} => \A e \in 1..log + 1 : Known(e)'
      BY <1>t, <2>0, <3>1, <3>2, <3>3 DEF Known, Reached
    <3>5. \A f \in Callers : Waits(f)' => callers'[f].mark <= log'
      BY <1>t, <2>0, <2>1
    <3>. QED
      BY <2>0, <3>1, <3>2, <3>4, <3>5 DEF Covered, Writing
  <2>3. CASE mode # "up"
    <3>1. UNCHANGED <<init, seed, pending>>
      BY <1>1, <2>3 DEF Emit
    <3>2. \A e \in 1..log + 1 : Wanted(e)' => e \in 1..log /\ Wanted(e)
      BY <1>t, <2>0, <2>1, <2>3 DEF Wanted, Waits
    <3>3. \A e \in 1..log : Known(e)' <=> Known(e)
      BY <2>0, <3>1 DEF Known, Reached, InFlight, Writing
    <3>4. \A f \in Callers : Waits(f)' => callers'[f].mark <= log'
      BY <1>t, <2>0, <2>1
    <3>5. init' \in {"running", "ok"} => \A e \in 1..log' : Wanted(e)' => Known(e)'
      BY <2>0, <3>1, <3>2, <3>3 DEF Covered
    <3>. QED
      BY <2>0, <3>1, <3>4, <3>5 DEF Covered, Writing
  <2>. QED
    BY <2>2, <2>3
<1>2. CASE Created
  <2>1. /\ init = "none" /\ init' = "running" /\ seed' = log
        /\ UNCHANGED <<log, store, callers, tracked, mode, pending, active>>
    BY <1>2 DEF Created, Attach, controller
  <2>2. \A e \in 1..log' : Known(e)'
    BY <1>t, <2>1 DEF Known, Reached
  <2>. QED
    BY <2>1, <2>2 DEF Covered, Waits, Writing
<1>3. ASSUME NEW o \in Outcomes, Initialize(o)
      PROVE  Covered'
  <2>. DEFINE suffix == SubSeq(Prefix(seed), Len(store) + 1, seed)
  <2>1. /\ init = "running" /\ init' \in {"ok", "failed"}
        /\ UNCHANGED <<log, callers, mode, pending, active>>
    BY <1>3 DEF Initialize, controller
  <2>2. ASSUME init' = "ok"
        PROVE  tracked'.cursor = seed /\ Len(store') = seed
    <3>1. /\ Len(store) <= seed /\ o = "stored" /\ Appended(suffix, o)
          /\ tracked'.cursor = seed
      BY <1>3, <1>t, <2>2 DEF Initialize
    <3>2. Len(store) \in 0..seed /\ store' = store \o suffix
      BY <1>t, <3>1 DEF Appended
    <3>3. suffix \in Seq(Nat) /\ Len(suffix) = seed - Len(store)
      BY <1>t, <3>2, OfSuffix
    <3>. HIDE DEF suffix
    <3>4. store \in Seq(Nat)
      BY DEF TypeOK
    <3>5. Len(store') = Len(store) + Len(suffix)
      BY <3>2, <3>3, <3>4, OfConcat
    <3>. QED
      BY <1>t, <3>1, <3>3, <3>5
  <2>3. init' = "ok" => \A e \in 1..log : Known(e) => Known(e)'
    BY <2>1, <2>2 DEF Known, Reached, InFlight, Writing
  <2>4. init' = "ok" => tracked'.cursor <= Len(store')
    BY <1>t, <2>2
  <2>. QED
    BY <1>k, <2>1, <2>3, <2>4 DEF Covered, Writing, Waits
<1>4. ASSUME NEW o \in Outcomes, Write(o)
      PROVE  Covered'
  <2>. DEFINE fresh == Fresh(active.batch)
              refused == init = "failed" \/ (fresh # <<>> /\ Refuses(fresh))
  <2>1. /\ Writing /\ active' = [active EXCEPT !.stage = active'.stage]
        /\ active'.stage \in {"stored", "failed"}
        /\ init # "running"
        /\ active'.stage = "stored" => o = "stored" /\ ~refused
        /\ UNCHANGED <<log, callers, pending, init, seed, mode>>
    BY <1>4, <1>t DEF Write, Writes, Writing
  <2>2. active'.batch = active.batch /\ active' # None
    BY <1>n, <1>t, <2>1 DEF Writes
  <2>3. InFlight' = InFlight
    BY <2>1, <2>2 DEF InFlight, Writing
  <2>4. fresh \in Seq(Nat) /\ Of(fresh) = {e \in Of(active.batch) : e > tracked.cursor}
    BY <1>t, <2>1, FreshIsTheRest
  <2>5. /\ fresh = <<>> \/ refused => UNCHANGED <<store, tracked>>
        /\ ~(fresh = <<>> \/ refused) =>
              /\ Appended(fresh, o)
              /\ tracked' = IF o = "stored"
                            THEN [cursor |-> tracked.cursor + Len(fresh), materialized |-> TRUE]
                            ELSE tracked
    BY <1>4 DEF Write
  <2>6. /\ Len(fresh) \in Nat /\ (fresh = <<>> <=> Of(fresh) = {}) /\ DOMAIN fresh = 1..Len(fresh)
    BY <2>4, OfSeq
  <2>7. /\ init \in {"none", "ok", "failed"} /\ init # "none"
    BY <2>1 DEF Structure, TypeOK
  <2>8. tracked'.cursor \in Nat /\ tracked.cursor <= tracked'.cursor
    BY <1>t, <2>5, <2>6
  <2>9. active'.stage = "stored" => \A e \in Of(active.batch) : e <= tracked'.cursor
    <3>1. SUFFICES ASSUME active'.stage = "stored", NEW e \in Of(active.batch)
                   PROVE  e <= tracked'.cursor
      OBVIOUS
    <3>2. ~refused /\ o = "stored" /\ e \in Nat
      BY <1>t, <2>1, <3>1 DEF InFlight
    <3>3. CASE e <= tracked.cursor
      BY <1>t, <2>8, <3>2, <3>3
    <3>4. CASE ~(e <= tracked.cursor)
      <4>1. e \in Of(fresh)
        BY <1>t, <2>4, <3>2, <3>4
      <4>2. ~Refuses(fresh) /\ fresh # <<>>
        BY <2>6, <3>2, <4>1
      <4>3. tracked'.cursor = tracked.cursor + Len(fresh)
        BY <2>5, <3>2, <4>2
      <4>4. \A i \in DOMAIN fresh : fresh[i] = tracked.cursor + i
        BY <1>t, <2>4, <4>2, AcceptedContinues
      <4>5. PICK i \in DOMAIN fresh : e = fresh[i]
        BY <4>1 DEF Of
      <4>. HIDE DEF fresh, refused
      <4>. QED
        BY <1>t, <2>6, <4>3, <4>4, <4>5
    <3>. QED
      BY <3>3, <3>4
  <2>. HIDE DEF fresh, refused
  <2>10. init' = "ok" => tracked'.cursor <= Len(store')
    <3>1. CASE fresh = <<>> \/ refused
      BY <2>1, <2>5, <3>1 DEF Covered
    <3>2. CASE ~(fresh = <<>> \/ refused)
      <4>1. store \in Seq(Nat) /\ Appended(fresh, o)
        BY <2>5, <3>2 DEF TypeOK
      <4>2. Len(store \o fresh) = Len(store) + Len(fresh)
        BY <2>4, <4>1, OfConcat
      <4>3. CASE o = "stored"
        <5>1. Len(store') = Len(store) + Len(fresh) /\ tracked'.cursor = tracked.cursor + Len(fresh)
          BY <2>5, <3>2, <4>1, <4>2, <4>3 DEF Appended
        <5>. QED
          BY <1>t, <2>1, <2>6, <5>1 DEF Covered
      <4>4. CASE o # "stored"
        <5>1. tracked' = tracked /\ (Len(store') = Len(store) \/ Len(store') = Len(store) + Len(fresh))
          BY <2>5, <3>2, <4>1, <4>2, <4>4 DEF Appended
        <5>. QED
          BY <1>t, <2>1, <2>6, <5>1 DEF Covered
      <4>. QED
        BY <4>3, <4>4
    <3>. QED
      BY <3>1, <3>2
  <2>11. active'.stage = "stored" => init' = "ok"
    <3>1. active'.stage = "stored" => init # "failed"
      BY <2>1 DEF refused
    <3>. QED
      BY <2>1, <2>7, <3>1
  <2>12. \A e \in 1..log : Known(e) => Known(e)'
    BY <1>t, <2>1, <2>3, <2>8 DEF Known, Reached
  <2>. QED
    BY <1>k, <2>1, <2>2, <2>9, <2>10, <2>11, <2>12 DEF Waits
<1>5. CASE WriteFails
  <2>1. /\ Writing /\ active'.stage = "rejected" /\ active'.batch = active.batch
        /\ pending' = active.batch \o pending
        /\ UNCHANGED <<log, store, callers, tracked, init, seed, mode>>
    BY <1>5, <1>t DEF WriteFails, Writes, Writing, Ahead, lifecycle
  <2>2. Of(pending') = Of(active.batch) \union Of(pending)
    BY <1>t, <2>1, OfConcat
  <2>3. \A e \in 1..log : Known(e) => Known(e)'
    BY <2>1, <2>2 DEF Known, Reached, InFlight
  <2>. QED
    BY <1>k, <2>1, <2>2, <2>3 DEF Covered, Waits
<1>6. CASE WriteSettles
  <2>1. /\ Writing /\ active' = None /\ active.stage \in {"stored", "rejected"}
        /\ UNCHANGED <<log, store, callers, pending, tracked, init, seed, mode>>
    BY <1>6 DEF WriteSettles, lifecycle, Writing
  <2>2. \A e \in 1..log : Known(e) => Known(e)'
    <3>1. CASE active.stage = "stored"
      BY <2>1, <3>1 DEF Covered, Known, Reached, InFlight, Writing
    <3>2. CASE active.stage = "rejected"
      BY <2>1, <3>2 DEF Covered, Known, Reached, InFlight, Writing
    <3>. QED
      BY <2>1, <3>1, <3>2
  <2>. QED
    BY <1>k, <2>1, <2>2 DEF Covered, Writing, Waits
<1>7. CASE Deadline
  <2>1. UNCHANGED <<log, store, callers, lifecycle>>
    BY <1>7 DEF Deadline
  <2>2. CASE active # None
    BY <1>7, <1>u, <2>1, <2>2 DEF Deadline, lifecycle, Waits
  <2>3. CASE active = None
    <3>1. StartWrite("timer") /\ pending # <<>>
      BY <1>7, <2>3 DEF Deadline, TypeOK
    <3>. QED
      BY <1>s, <2>1, <2>3, <3>1 DEF Waits
  <2>. QED
    BY <2>2, <2>3
<1>8. CASE Continue
  <2>0. resuming /\ UNCHANGED <<log, store, callers, lifecycle>>
    BY <1>8 DEF Continue
  <2>1. CASE barrier = None /\ pending # <<>> /\ expired
    <3>1. StartWrite("timer") /\ active = None
      BY <1>8, <2>0, <2>1 DEF Continue, Structure, Writing
    <3>. QED
      BY <1>s, <2>0, <2>1, <3>1 DEF Waits
  <2>2. CASE ~(barrier = None /\ pending # <<>> /\ expired)
    BY <1>8, <1>u, <2>0, <2>2 DEF Continue, lifecycle, Waits
  <2>. QED
    BY <2>1, <2>2
<1>9. CASE Drain
  <2>0. ~Writing /\ UNCHANGED <<log, store, lifecycle>>
    BY <1>9 DEF Drain, Structure
  <2>1. ASSUME NEW v \in {"resolved", "rejected"}, BarrierEnds(v)
        PROVE  Covered'
    <3>1. \A f \in Callers : Waits(f)' => Waits(f) /\ callers'[f].mark = callers[f].mark
      BY <2>1 DEF BarrierEnds, Joined, Waits, Waiting
    <3>. QED
      BY <1>u, <2>0, <2>1, <3>1 DEF BarrierEnds, lifecycle
  <2>2. CASE ~barrier.failed /\ pending # <<>>
    <3>1. StartWrite("barrier") /\ UNCHANGED callers
      BY <1>9, <2>2 DEF Drain, Drained
    <3>. QED
      BY <1>s, <2>0, <2>2, <3>1 DEF Waits, Writing
  <2>. QED
    BY <1>9, <2>1, <2>2 DEF Drain, Drained
<1>10. ASSUME NEW f \in Flushers, Flush(f)
       PROVE  Covered'
  BY <1>10, AskKeepsCovered DEF Flush, Callers
<1>11. ASSUME NEW f \in Callers, FlushProceeds(f)
       PROVE  Covered'
  <2>0. UNCHANGED <<log, store, lifecycle>> /\ callers[f].at = "init"
    BY <1>11 DEF FlushProceeds
  <2>1. \A g \in Callers : Waits(g)' => Waits(g) /\ callers'[g].mark = callers[g].mark
    <3>1. callers \in [Callers -> [at : {"idle", "resolved", "rejected"} \union Waiting, mark : Nat]]
      BY DEF TypeOK
    <3>2. \A g \in Callers : g # f => callers'[g] = callers[g]
      BY <1>11, <3>1 DEF FlushProceeds
    <3>3. callers'[f].at \in Waiting => callers'[f].mark = callers[f].mark
      <4>1. \/ callers'[f] = [at |-> "rejected", mark |-> 0]
            \/ callers'[f] = [at |-> "resolved", mark |-> 0]
            \/ callers'[f] = [callers[f] EXCEPT !.at = "barrier"]
        BY <1>11, <3>1 DEF FlushProceeds
      <4>2. [callers[f] EXCEPT !.at = "barrier"].mark = callers[f].mark
        BY <3>1
      <4>3. \/ callers'[f].at = "rejected" \/ callers'[f].at = "resolved"
            \/ callers'[f].mark = callers[f].mark
        <5>1. CASE callers'[f] = [at |-> "rejected", mark |-> 0]
          BY <5>1
        <5>2. CASE callers'[f] = [at |-> "resolved", mark |-> 0]
          BY <5>2
        <5>3. CASE callers'[f] = [callers[f] EXCEPT !.at = "barrier"]
          BY <4>2, <5>3
        <5>. QED
          BY <4>1, <5>1, <5>2, <5>3
      <4>. QED
        BY <4>3 DEF Waiting
    <3>. QED
      BY <2>0, <3>2, <3>3 DEF Waits, Waiting
  <2>2. CASE UNCHANGED <<pending, active>>
    BY <1>u, <2>0, <2>1, <2>2 DEF lifecycle
  <2>3. CASE ~Overlaps /\ pending # <<>> /\ StartWrite("barrier")
    BY <1>s, <2>0, <2>1, <2>3 DEF Overlaps
  <2>. QED
    BY <1>11, <2>2, <2>3 DEF FlushProceeds
<1>12. CASE Dispose
  <2>1. CASE mode = "up" /\ init # "none"
    BY <1>12, <2>1, AskKeepsCovered DEF Dispose, Callers
  <2>2. CASE ~(mode = "up" /\ init # "none")
    BY <1>12, <1>u, <2>2 DEF Dispose, controller, Waits
  <2>. QED
    BY <2>1, <2>2
<1>13. CASE Release
  BY <1>13, <1>u DEF Release, controller, Waits
<1>14. CASE PluginDisposed
  <2>1. CASE Held
    BY <1>14, <2>1, AskKeepsCovered DEF PluginDisposed, Callers
  <2>2. CASE ~Held
    BY <1>14, <1>u, <2>2 DEF PluginDisposed, controller, Waits
  <2>. QED
    BY <2>1, <2>2
<1>15. CASE PluginCloses
  BY <1>15, <1>u DEF PluginCloses, controller, Waits
<1>16. CASE PluginLoads
  <2>1. /\ active' = None /\ UNCHANGED <<log, store, callers>>
        /\ init' \in {"none", "running"} /\ (init' = "running" => seed' = log)
    BY <1>16 DEF PluginLoads
  <2>2. init' = "running" => \A e \in 1..log' : Known(e)'
    BY <1>t, <2>1 DEF Known, Reached
  <2>. QED
    BY <2>1, <2>2 DEF Covered, Waits, Writing
<1>17. CASE UNCHANGED vars
  BY <1>17, <1>u DEF vars, controller, lifecycle, Waits
<1>. QED
  BY <1>1, <1>2, <1>3, <1>4, <1>5, <1>6, <1>7, <1>8, <1>9, <1>10, <1>11, <1>12, <1>13,
     <1>14, <1>15, <1>16, <1>17 DEF Next

------------------------------------------------------------------------------

(* Types, control and coverage hold together, whatever the backend does.   *)
THEOREM IInvHolds == Spec => []IInv
<1>1. Init => IInv
  <2>. SUFFICES ASSUME Init PROVE IInv
    OBVIOUS
  <2>1. TypeOK
    BY TypeStarts
  <2>2. Structure /\ Draining /\ Waited /\ Covered
    BY DEF Init, Structure, Draining, Waited, Covered, Writing, Waits, Waiting
  <2>. QED
    BY <2>1, <2>2 DEF IInv
<1>2. IInv /\ [Next]_vars => IInv'
  BY TypeSteps, ControlSteps, CoveredSteps DEF IInv, Control
<1>. QED
  BY <1>1, <1>2, PTL DEF Spec

(* The queue keeps every event of the session and never loses its writer,  *)
(* and a closed plugin leaves nothing that could append: enqueue,          *)
(* startWrite, the disposer.                                               *)
THEOREM QueueIsKept == Spec => []QueueOK
<1>1. IInv => QueueOK
  <2>. SUFFICES ASSUME IInv PROVE QueueOK
    OBVIOUS
  <2>. USE DEF IInv
  <2>1. EveryEventHasAWriter
    <3>. SUFFICES ASSUME mode = "up", init = "ok"
                  PROVE  /\ \A e \in 1..log :
                               \/ e <= Len(store)
                               \/ \E i \in DOMAIN pending : pending[i] = e
                               \/ active # None /\ \E i \in DOMAIN active.batch :
                                                       active.batch[i] = e
                         /\ pending # <<>> =>
                               \/ timer \/ paused \/ resuming \/ active # None \/ barrier # None
                               \/ \E f \in Callers : callers[f].at = "init"
      BY DEF EveryEventHasAWriter
    <3>1. ASSUME NEW e \in 1..log
          PROVE  \/ e <= Len(store)
                 \/ \E i \in DOMAIN pending : pending[i] = e
                 \/ active # None /\ \E i \in DOMAIN active.batch : active.batch[i] = e
      <4>1. Known(e) /\ tracked.cursor <= Len(store)
        BY DEF Covered, Wanted
      <4>2. tracked.cursor \in Nat /\ Len(store) \in Nat
        BY Types
      <4>3. e <= Len(store) \/ e \in Of(pending) \/ e \in InFlight
        BY <4>1, <4>2 DEF Known, Reached
      <4>. QED
        BY <4>3 DEF Of, InFlight, Writing
    <3>2. pending # <<>> =>
             \/ timer \/ paused \/ resuming \/ active # None \/ barrier # None
             \/ \E f \in Callers : callers[f].at = "init"
      BY DEF Waited, Writing
    <3>. QED
      BY <3>1, <3>2
  <2>2. ClosedIsQuiet
    <3>. SUFFICES ASSUME mode = "closed"
                  PROVE  ~timer /\ barrier = None /\ (active # None => init = "failed")
      BY DEF ClosedIsQuiet
    <3>1. \A f \in Callers : callers[f].at # "barrier"
      BY DEF Draining, Waits, Waiting
    <3>. QED
      BY <3>1 DEF Draining, Writing
  <2>. QED
    BY <2>1, <2>2 DEF QueueOK
<1>. QED
  BY <1>1, IInvHolds, PTL

------------------------------------------------------------------------------
(* A backend that fails only by storing nothing.  What it holds is then    *)
(* the prefix of the log that the cursor counts, and whatever is on its    *)
(* way belongs to the log; a retirement asks for all of it.                *)
Retired ==
    /\ session = "live" => callers["retirement"].at = "idle"
    /\ Waits("retirement") => callers["retirement"].mark = log
    /\ callers["retirement"].at = "resolved" => Len(store) = log

Stored ==
    /\ store = Prefix(Len(store)) /\ Len(store) <= log
    /\ init = "ok" => tracked.cursor = Len(store)
    /\ Of(pending) \subseteq 1..log /\ InFlight \subseteq 1..log
    /\ init = "running" => seed <= log
    /\ Retired

(* What an append adds to the prefix is the next part of the log.          *)
LEMMA PrefixGrows ==
    ASSUME NEW n \in Nat, NEW t \in Seq(Nat), \A i \in DOMAIN t : t[i] = n + i
    PROVE  Prefix(n) \o t = Prefix(n + Len(t))
<1>. DEFINE s == Prefix(n)
            u == Prefix(n + Len(t))
<1>1. Len(t) \in Nat /\ DOMAIN t = 1..Len(t)
  BY LenProperties
<1>2. /\ s \in Seq(Nat) /\ Len(s) = n /\ \A i \in 1..n : s[i] = i
      /\ u \in Seq(Nat) /\ Len(u) = n + Len(t) /\ \A i \in 1..n + Len(t) : u[i] = i
  BY <1>1, OfPrefix
<1>. HIDE DEF s, u
<1>3. /\ s \o t \in Seq(Nat) /\ Len(s \o t) = n + Len(t)
      /\ \A i \in 1..n + Len(t) : (s \o t)[i] = IF i <= n THEN s[i] ELSE t[i - n]
  BY <1>2, ConcatProperties
<1>4. ASSUME NEW i \in 1..n + Len(t)
      PROVE  (s \o t)[i] = u[i]
  <2>1. CASE i <= n
    BY <1>1, <1>2, <1>3, <2>1
  <2>2. CASE ~(i <= n)
    <3>1. i - n \in DOMAIN t /\ n + (i - n) = i
      BY <1>1, <2>2
    <3>. QED
      BY <1>2, <1>3, <2>2, <3>1
  <2>. QED
    BY <2>1, <2>2
<1>5. s \o t = u
  BY <1>1, <1>2, <1>3, <1>4, SeqEqual
<1>. QED
  BY <1>5 DEF s, u

LEMMA StoreSteps ==
    ASSUME Faults \subseteq {"refused"}, IInv, Stored, NEW o \in Outcomes,
           Initialize(o) \/ Write(o)
    PROVE  /\ store' = Prefix(Len(store')) /\ Len(store') \in Len(store)..log
           /\ init' = "ok" => tracked'.cursor = Len(store')
           /\ Of(pending') \subseteq 1..log /\ InFlight' \subseteq 1..log
           /\ init' # "running"
           /\ UNCHANGED <<log, callers, session>>
<1>. USE DEF IInv
<1>t. /\ tracked.cursor \in Nat /\ Len(store) \in Nat /\ log \in Nat /\ seed \in Nat
      /\ store \in Seq(Nat) /\ o \in {"stored", "refused"}
      /\ Writing => active \in Writes /\ active.batch \in Seq(Nat)
  BY Types DEF TypeOK, Outcomes
<1>n. None.is = "none"
  BY DEF None
<1>1. CASE Initialize(o)
  <2>. DEFINE suffix == SubSeq(Prefix(seed), Len(store) + 1, seed)
  <2>1. /\ init = "running" /\ init' \in {"ok", "failed"}
        /\ UNCHANGED <<log, callers, session, pending, active>>
    BY <1>1 DEF Initialize, controller
  <2>2. InFlight' = InFlight /\ Of(pending') = Of(pending)
    BY <2>1 DEF InFlight, Writing
  <2>3. CASE Len(store) > seed
    <3>1. UNCHANGED store /\ init' = "failed"
      BY <1>1, <2>3 DEF Initialize
    <3>. QED
      BY <1>t, <2>1, <2>2, <3>1 DEF Stored
  <2>4. CASE ~(Len(store) > seed)
    <3>1. Appended(suffix, o) /\ (init' = "ok" => o = "stored")
          /\ (o = "stored" => tracked'.cursor = seed)
      BY <1>1, <2>4 DEF Initialize, Stored
    <3>2. /\ suffix \in Seq(Nat) /\ Len(suffix) = seed - Len(store)
          /\ \A i \in 1..seed - Len(store) : suffix[i] = Len(store) + i
      <4>1. Len(store) \in 0..seed
        BY <1>t, <2>4
      <4>. QED
        BY <1>t, <4>1, OfSuffix
    <3>. HIDE DEF suffix
    <3>3. DOMAIN suffix = 1..seed - Len(store)
      BY <3>2, LenProperties
    <3>4. store \o suffix = Prefix(Len(store) + Len(suffix))
      BY <1>t, <3>2, <3>3, PrefixGrows DEF Stored
    <3>5. CASE o = "stored"
      <4>1. store' = Prefix(seed)
        BY <1>t, <3>1, <3>2, <3>4, <3>5 DEF Appended
      <4>2. Len(store') = seed
        BY <1>t, <4>1, OfPrefix
      <4>. QED
        BY <1>t, <2>1, <2>2, <2>4, <3>1, <3>5, <4>1, <4>2 DEF Stored
    <3>6. CASE o = "refused"
      <4>1. UNCHANGED store /\ init' = "failed"
        BY <2>1, <3>1, <3>6 DEF Appended
      <4>. QED
        BY <1>t, <2>1, <2>2, <4>1 DEF Stored
    <3>. QED
      BY <1>t, <3>5, <3>6
  <2>. QED
    BY <2>3, <2>4
<1>2. CASE Write(o)
  <2>. DEFINE fresh == Fresh(active.batch)
              refused == init = "failed" \/ (fresh # <<>> /\ Refuses(fresh))
  <2>1. /\ Writing /\ active' = [active EXCEPT !.stage = active'.stage]
        /\ init # "running"
        /\ UNCHANGED <<log, callers, session, pending, init>>
    BY <1>2, <1>t DEF Write, Writes, Writing
  <2>2. active'.batch = active.batch /\ active' # None
    BY <1>n, <1>t, <2>1 DEF Writes
  <2>3. InFlight' = InFlight /\ Of(pending') = Of(pending)
    BY <2>1, <2>2 DEF InFlight, Writing
  <2>4. fresh \in Seq(Nat) /\ Of(fresh) = {e \in Of(active.batch) : e > tracked.cursor}
    BY <1>t, <2>1, FreshIsTheRest
  <2>5. /\ fresh = <<>> \/ refused => UNCHANGED <<store, tracked>>
        /\ ~(fresh = <<>> \/ refused) =>
              /\ Appended(fresh, o)
              /\ tracked' = IF o = "stored"
                            THEN [cursor |-> tracked.cursor + Len(fresh), materialized |-> TRUE]
                            ELSE tracked
    BY <1>2 DEF Write
  <2>6. Len(fresh) \in Nat /\ DOMAIN fresh = 1..Len(fresh) /\ (fresh # <<>> => Len(fresh) \in DOMAIN fresh)
    BY <2>4, OfSeq
  <2>7. ~(fresh = <<>> \/ refused) => init = "ok" /\ ~Refuses(fresh)
    BY <2>1 DEF TypeOK, Structure
  <2>. HIDE DEF fresh, refused
  <2>8. CASE fresh = <<>> \/ refused \/ o = "refused"
    <3>1. UNCHANGED <<store, tracked>>
      BY <2>5, <2>8 DEF Appended
    <3>. QED
      BY <1>t, <2>1, <2>3, <3>1 DEF Stored
  <2>9. CASE ~(fresh = <<>> \/ refused) /\ o = "stored"
    <3>1. tracked.cursor = Len(store) /\ ~Refuses(fresh)
      BY <2>7, <2>9 DEF Stored
    <3>2. \A i \in DOMAIN fresh : fresh[i] = Len(store) + i
      BY <1>t, <2>4, <3>1, AcceptedContinues
    <3>3. store' = store \o fresh /\ tracked'.cursor = Len(store) + Len(fresh)
      BY <2>5, <2>9, <3>1 DEF Appended
    <3>4. store' = Prefix(Len(store) + Len(fresh))
      BY <1>t, <2>4, <3>2, <3>3, PrefixGrows DEF Stored
    <3>5. Len(store') = Len(store) + Len(fresh)
      BY <1>t, <2>6, <3>4, OfPrefix
    <3>6. Len(store) + Len(fresh) \in Of(active.batch)
      BY <2>4, <2>6, <2>9, <3>2 DEF Of
    <3>7. Len(store) + Len(fresh) <= log
      BY <1>t, <2>1, <2>6, <3>6 DEF Stored, InFlight
    <3>8. Len(store') \in Len(store)..log
      BY <1>t, <2>6, <3>5, <3>7
    <3>. QED
      BY <2>1, <2>3, <3>3, <3>4, <3>5, <3>8 DEF Stored
  <2>. QED
    BY <1>t, <2>8, <2>9
<1>. QED
  BY <1>1, <1>2

(* A flush that finds nothing queued and nothing in flight is answered     *)
(* truthfully: what it asked for is stored.                                *)
LEMMA NothingLeftMeansStored ==
    ASSUME IInv, Stored, NEW f \in Callers, Waits(f), init = "ok", pending = <<>>, active = None
    PROVE  callers[f].mark <= Len(store)
<1>. USE DEF IInv
<1>1. /\ callers[f].mark \in Nat /\ log \in Nat /\ Len(store) \in Nat
      /\ callers[f].mark <= log /\ tracked.cursor = Len(store)
  BY Types DEF Covered, Stored, TypeOK
<1>2. Of(pending) = {} /\ InFlight = {}
  BY OfEmpty DEF InFlight, Writing
<1>3. CASE callers[f].mark = 0
  BY <1>1, <1>3
<1>4. CASE callers[f].mark # 0
  <2>1. callers[f].mark \in 1..log /\ callers[f].mark <= callers[f].mark
    BY <1>1, <1>4
  <2>2. Known(callers[f].mark)
    BY <2>1 DEF Covered, Wanted
  <2>. QED
    BY <1>1, <1>2, <2>2 DEF Known, Reached
<1>. QED
  BY <1>3, <1>4

LEMMA StoredSteps ==
    ASSUME Faults \subseteq {"refused"}, IInv, Stored, [Next]_vars
    PROVE  Stored'
<1>. USE DEF IInv
<1>t. /\ tracked.cursor \in Nat /\ Len(store) \in Nat /\ log \in Nat /\ seed \in Nat
      /\ pending \in Seq(Nat)
      /\ Writing => active \in Writes /\ active.batch \in Seq(Nat)
      /\ "retirement" \in Callers /\ "disposer" \in Callers
      /\ "retirement" \notin Flushers /\ "retirement" # "disposer"
      /\ callers \in [Callers -> [at : {"idle", "resolved", "rejected"} \union Waiting, mark : Nat]]
  BY Types, WriteBehindAssumption DEF TypeOK, Callers
(* A step that stores nothing and moves no event out of the write path.    *)
<1>k. ASSUME UNCHANGED <<log, store, tracked>>,
             init' = "ok" => init = "ok",
             init' = "running" => init = "running" \/ seed' = log,
             init' = "running" /\ init = "running" => seed' = seed,
             Of(pending') \subseteq Of(pending) \union InFlight,
             InFlight' \subseteq Of(pending) \union InFlight,
             Retired'
      PROVE  Stored'
  <2>1. store' = Prefix(Len(store')) /\ Len(store') <= log'
    BY <1>k DEF Stored
  <2>2. init' = "ok" => tracked'.cursor = Len(store')
    BY <1>k DEF Stored
  <2>3. Of(pending') \subseteq 1..log' /\ InFlight' \subseteq 1..log'
    BY <1>k DEF Stored
  <2>4. init' = "running" => seed' <= log'
    BY <1>k, <1>t DEF Stored
  <2>. QED
    BY <1>k, <2>1, <2>2, <2>3, <2>4 DEF Stored
<1>r. ASSUME UNCHANGED <<log, store>>, callers'["retirement"] = callers["retirement"],
             session' = session
      PROVE  Retired'
  BY <1>r DEF Stored, Retired, Waits
<1>u. ASSUME UNCHANGED <<log, store, tracked, init, seed, pending, active>>, Retired'
      PROVE  Stored'
  BY <1>k, <1>u DEF InFlight, Writing
<1>s. ASSUME active = None, pending # <<>>, NEW by \in {"timer", "barrier"}, StartWrite(by),
             UNCHANGED <<log, store, lifecycle>>, Retired'
      PROVE  Stored'
  <2>1. Of(pending') = {} /\ InFlight' = Of(pending)
    BY <1>s, StartMoves
  <2>2. UNCHANGED <<tracked, init, seed>>
    BY <1>s DEF lifecycle
  <2>. QED
    BY <1>k, <1>s, <2>1, <2>2
<1>a. ASSUME NEW f \in Callers, Ask(f), Retired'
      PROVE  Stored'
  <2>1. /\ UNCHANGED <<log, store, tracked, pending, active>>
        /\ \/ init' = init /\ seed' = seed
           \/ init = "none" /\ init' = "running" /\ seed' = log
    BY <1>a DEF Ask, Attach
  <2>2. InFlight' = InFlight /\ Of(pending') = Of(pending)
    BY <2>1 DEF InFlight, Writing
  <2>. QED
    BY <1>a, <1>k, <2>1, <2>2
<1>o. ASSUME NEW f \in Callers, f # "retirement", Ask(f), session' = session
      PROVE  Retired'
  BY <1>o, <1>r, <1>t DEF Ask
<1>1. CASE Emit
  <2>1. /\ log' = log + 1 /\ session = "live" /\ UNCHANGED <<store, callers, tracked, active, session>>
        /\ \/ /\ pending' = Append(pending, log + 1)
              /\ \/ init' = init /\ seed' = seed
                 \/ init = "none" /\ init' = "running" /\ seed' = log + 1
           \/ UNCHANGED <<init, seed, pending>>
    BY <1>1 DEF Emit, Attach, enqueue
  <2>2. Of(pending') \subseteq Of(pending) \union {log + 1}
    <3>1. CASE pending' = pending
      BY <3>1
    <3>2. CASE pending' = Append(pending, log + 1)
      <4>1. log + 1 \in Nat
        BY <1>t
      <4>. QED
        BY <1>t, <3>2, <4>1, OfAppend
    <3>. QED
      BY <2>1, <3>1, <3>2
  <2>3. InFlight' = InFlight
    BY <2>1 DEF InFlight, Writing
  <2>4. Of(pending') \subseteq 1..log + 1 /\ InFlight' \subseteq 1..log + 1
    BY <1>t, <2>2, <2>3 DEF Stored
  <2>5. Retired'
    BY <2>1 DEF Stored, Retired, Waits, Waiting
  <2>. QED
    BY <1>t, <2>1, <2>4, <2>5 DEF Stored
<1>2. CASE Created
  <2>1. /\ init' = "running" /\ seed' = log
        /\ UNCHANGED <<log, store, callers, tracked, session, pending, active>>
    BY <1>2 DEF Created, Attach, controller
  <2>2. InFlight' = InFlight /\ Retired'
    BY <1>r, <2>1 DEF InFlight, Writing
  <2>. QED
    BY <1>2, <1>k, <2>1, <2>2 DEF Created
<1>3. ASSUME NEW o \in Outcomes, Initialize(o) \/ Write(o)
      PROVE  Stored'
  <2>1. /\ store' = Prefix(Len(store')) /\ Len(store') \in Len(store)..log
        /\ init' = "ok" => tracked'.cursor = Len(store')
        /\ Of(pending') \subseteq 1..log /\ InFlight' \subseteq 1..log
        /\ init' # "running"
        /\ UNCHANGED <<log, callers, session>>
    BY <1>3, StoreSteps
  <2>2. Retired'
    BY <1>t, <2>1 DEF Stored, Retired, Waits
  <2>. QED
    BY <1>t, <2>1, <2>2 DEF Stored
<1>5. CASE WriteFails
  <2>1. /\ Writing /\ active'.batch = active.batch /\ pending' = active.batch \o pending
        /\ UNCHANGED <<log, store, callers, tracked, init, seed, session>>
    BY <1>5, <1>t DEF WriteFails, Writes, Writing, Ahead, lifecycle
  <2>2. Of(pending') = Of(active.batch) \union Of(pending)
    BY <1>t, <2>1, OfConcat
  <2>3. InFlight' \subseteq InFlight /\ Of(active.batch) = InFlight
    BY <2>1 DEF InFlight
  <2>. QED
    BY <1>k, <1>r, <2>1, <2>2, <2>3
<1>6. CASE WriteSettles
  <2>1. active' = None /\ UNCHANGED <<log, store, callers, pending, tracked, init, seed, session>>
    BY <1>6 DEF WriteSettles, lifecycle
  <2>. QED
    BY <1>k, <1>r, <2>1 DEF InFlight, Writing
<1>7. CASE Deadline
  <2>1. UNCHANGED <<log, store, callers, lifecycle>> /\ Retired'
    BY <1>7, <1>r DEF Deadline, lifecycle
  <2>2. CASE active # None
    BY <1>7, <1>u, <2>1, <2>2 DEF Deadline, lifecycle
  <2>3. CASE active = None
    <3>1. StartWrite("timer") /\ pending # <<>>
      BY <1>7, <2>3 DEF Deadline, TypeOK
    <3>. QED
      BY <1>s, <2>1, <2>3, <3>1
  <2>. QED
    BY <2>2, <2>3
<1>8. CASE Continue
  <2>0. resuming /\ UNCHANGED <<log, store, callers, lifecycle>> /\ Retired'
    BY <1>8, <1>r DEF Continue, lifecycle
  <2>1. CASE barrier = None /\ pending # <<>> /\ expired
    <3>1. StartWrite("timer") /\ active = None
      BY <1>8, <2>0, <2>1 DEF Continue, Structure, Writing
    <3>. QED
      BY <1>s, <2>0, <2>1, <3>1
  <2>2. CASE ~(barrier = None /\ pending # <<>> /\ expired)
    BY <1>8, <1>u, <2>0, <2>2 DEF Continue, lifecycle
  <2>. QED
    BY <2>1, <2>2
<1>9. CASE Drain
  <2>0. ~Writing /\ init = "ok" /\ UNCHANGED <<log, store, lifecycle>> /\ session' = session
    BY <1>9 DEF Drain, Structure, lifecycle
  <2>1. CASE barrier.failed /\ BarrierEnds("rejected")
    <3>1. callers'["retirement"].at = "rejected" \/ callers'["retirement"] = callers["retirement"]
      BY <1>t, <2>1 DEF BarrierEnds, Joined
    <3>2. Retired'
      <4>1. CASE callers'["retirement"] = callers["retirement"]
        BY <1>r, <2>0, <4>1
      <4>2. CASE callers'["retirement"] # callers["retirement"]
        <5>1. callers["retirement"].at = "barrier"
          BY <1>t, <2>1, <4>2 DEF BarrierEnds, Joined
        <5>2. session # "live"
          BY <5>1 DEF Stored, Retired
        <5>. QED
          BY <2>0, <3>1, <4>2, <5>2 DEF Retired, Waits, Waiting
      <4>. QED
        BY <4>1, <4>2
    <3>. QED
      BY <1>u, <2>0, <2>1, <3>2 DEF BarrierEnds, lifecycle
  <2>2. CASE pending = <<>> /\ BarrierEnds("resolved")
    <3>1. Retired'
      <4>1. CASE callers["retirement"].at # "barrier"
        <5>1. callers'["retirement"] = callers["retirement"]
          BY <1>t, <2>2, <4>1 DEF BarrierEnds, Joined
        <5>. QED
          BY <1>r, <2>0, <5>1
      <4>2. CASE callers["retirement"].at = "barrier"
        <5>1. callers'["retirement"].at = "resolved"
          BY <1>t, <2>2, <4>2 DEF BarrierEnds, Joined
        <5>2. session # "live" /\ Waits("retirement") /\ callers["retirement"].mark = log
          BY <4>2 DEF Stored, Retired, Waits, Waiting
        <5>3. log <= Len(store) /\ Len(store) <= log
          BY <1>t, <2>0, <2>2, <5>2, NothingLeftMeansStored DEF Writing, Stored
        <5>4. Len(store) = log
          BY <1>t, <5>3
        <5>. QED
          BY <2>0, <5>1, <5>2, <5>4 DEF Retired, Waits, Waiting
      <4>. QED
        BY <4>1, <4>2
    <3>. QED
      BY <1>u, <2>0, <2>2, <3>1 DEF BarrierEnds, lifecycle
  <2>3. CASE ~barrier.failed /\ pending # <<>>
    <3>1. StartWrite("barrier") /\ UNCHANGED callers
      BY <1>9, <2>3 DEF Drain, Drained
    <3>. QED
      BY <1>r, <1>s, <2>0, <2>3, <3>1 DEF Writing
  <2>. QED
    BY <1>9, <2>1, <2>2, <2>3 DEF Drain, Drained
<1>10. ASSUME NEW f \in Flushers, Flush(f)
       PROVE  Stored'
  <2>1. f \in Callers /\ f # "retirement" /\ Ask(f) /\ session' = session
    BY <1>10, <1>t DEF Flush, Callers
  <2>. QED
    BY <1>a, <1>o, <2>1
<1>11. ASSUME NEW f \in Callers, FlushProceeds(f)
       PROVE  Stored'
  <2>0. UNCHANGED <<log, store, lifecycle>> /\ callers[f].at = "init" /\ session' = session
        /\ Waits(f) /\ init \in {"ok", "failed"}
    <3>1. UNCHANGED <<log, store, lifecycle>> /\ callers[f].at = "init" /\ init # "running"
      BY <1>11 DEF FlushProceeds
    <3>2. Waits(f) /\ init # "none"
      BY <3>1 DEF Waits, Waiting, Structure
    <3>. QED
      BY <3>1, <3>2 DEF lifecycle, TypeOK
  <2>1. Retired'
    <3>1. CASE f # "retirement"
      <4>1. callers'["retirement"] = callers["retirement"]
        BY <1>11, <1>t, <3>1 DEF FlushProceeds
      <4>. QED
        BY <1>r, <2>0, <4>1
    <3>2. CASE f = "retirement"
      <4>1. session # "live" /\ callers[f].mark = log
        BY <2>0, <3>2 DEF Stored, Retired
      <4>2. CASE init = "failed"
        <5>1. callers'[f].at = "rejected"
          BY <1>11, <1>t, <4>2 DEF FlushProceeds
        <5>. QED
          BY <2>0, <3>2, <4>1, <5>1 DEF Retired, Waits, Waiting
      <4>3. CASE init = "ok" /\ barrier = None /\ ~Overlaps /\ pending = <<>>
        <5>1. callers'[f].at = "resolved"
          BY <1>11, <1>t, <4>3 DEF FlushProceeds
        <5>2. log <= Len(store) /\ Len(store) <= log
          BY <2>0, <4>1, <4>3, NothingLeftMeansStored DEF Overlaps, Stored
        <5>3. Len(store) = log
          BY <1>t, <5>2
        <5>. QED
          BY <2>0, <3>2, <4>1, <5>1, <5>3 DEF Retired, Waits, Waiting
      <4>4. CASE init = "ok" /\ ~(barrier = None /\ ~Overlaps /\ pending = <<>>)
        <5>1. callers'[f] = [callers[f] EXCEPT !.at = "barrier"]
          BY <1>11, <1>t, <4>4 DEF FlushProceeds
        <5>2. callers'[f].at = "barrier" /\ callers'[f].mark = log
          BY <1>t, <4>1, <5>1
        <5>. QED
          BY <2>0, <3>2, <4>1, <5>2 DEF Retired, Waits, Waiting
      <4>. QED
        BY <2>0, <4>2, <4>3, <4>4
    <3>. QED
      BY <3>1, <3>2
  <2>2. CASE UNCHANGED <<pending, active>>
    BY <1>u, <2>0, <2>1, <2>2 DEF lifecycle
  <2>3. CASE ~Overlaps /\ pending # <<>> /\ StartWrite("barrier")
    BY <1>s, <2>0, <2>1, <2>3 DEF Overlaps
  <2>. QED
    BY <1>11, <2>2, <2>3 DEF FlushProceeds
<1>12. CASE Dispose
  <2>0. session = "live" /\ session' = "disposed" /\ callers["retirement"].at = "idle"
    BY <1>12 DEF Dispose, Stored, Retired
  <2>1. CASE mode = "up" /\ init # "none"
    <3>1. Ask("retirement")
      BY <1>12, <2>1 DEF Dispose
    <3>2. /\ callers'["retirement"].at = "init" /\ callers'["retirement"].mark = log /\ log' = log
      BY <1>t, <3>1 DEF Ask
    <3>3. Retired'
      BY <2>0, <3>2 DEF Retired
    <3>. QED
      BY <1>a, <1>t, <3>1, <3>3
  <2>2. CASE ~(mode = "up" /\ init # "none")
    <3>1. UNCHANGED <<log, store, callers, tracked, init, seed, pending, active>>
      BY <1>12, <2>2 DEF Dispose, controller
    <3>2. Retired'
      BY <2>0, <3>1 DEF Retired, Waits, Waiting
    <3>. QED
      BY <1>u, <3>1, <3>2
  <2>. QED
    BY <2>1, <2>2
<1>13. CASE Release
  <2>1. /\ UNCHANGED <<log, store, callers, tracked, init, seed, pending, active>>
        /\ session = "disposed" /\ session' = "released"
    BY <1>13 DEF Release, controller
  <2>2. Retired'
    BY <2>1 DEF Stored, Retired, Waits
  <2>. QED
    BY <1>u, <2>1, <2>2
<1>14. CASE PluginDisposed
  <2>1. CASE Held
    <3>1. Ask("disposer") /\ session' = session
      BY <1>14, <2>1 DEF PluginDisposed
    <3>. QED
      BY <1>a, <1>o, <1>t, <3>1
  <2>2. CASE ~Held
    BY <1>14, <1>r, <1>u, <2>2 DEF PluginDisposed, controller
  <2>. QED
    BY <2>1, <2>2
<1>15. CASE PluginCloses
  BY <1>15, <1>r, <1>u DEF PluginCloses, controller
<1>16. CASE PluginLoads
  <2>1. /\ pending' = <<>> /\ active' = None /\ UNCHANGED <<log, store, callers, session>>
        /\ init' \in {"none", "running"} /\ (init' = "running" => seed' = log)
    BY <1>16 DEF PluginLoads
  <2>2. Of(pending') = {} /\ InFlight' = {} /\ Retired'
    BY <1>r, <2>1, OfEmpty DEF InFlight, Writing
  <2>. QED
    BY <1>t, <2>1, <2>2 DEF Stored
<1>17. CASE UNCHANGED vars
  BY <1>17, <1>r, <1>u DEF vars, controller, lifecycle
<1>. QED
  BY <1>1, <1>2, <1>3, <1>5, <1>6, <1>7, <1>8, <1>9, <1>10, <1>11, <1>12, <1>13,
     <1>14, <1>15, <1>16, <1>17 DEF Next

(* What the contract sees of a caller.                                     *)
Seen(f) == [callers[f] EXCEPT !.at = IF @ \in Waiting THEN "waiting" ELSE @]
Asked == [f \in Callers |-> Seen(f)]

LEMMA SeenFields ==
    ASSUME TypeOK, NEW f \in Callers
    PROVE  /\ Asked[f] = Seen(f) /\ Seen(f).mark = callers[f].mark
           /\ Seen(f).at = IF callers[f].at \in Waiting THEN "waiting" ELSE callers[f].at
           /\ Seen(f).at = "waiting" <=> Waits(f)
<1>1. callers[f] \in [at : {"idle", "resolved", "rejected"} \union Waiting, mark : Nat]
  BY DEF TypeOK
<1>2. /\ Asked[f] = Seen(f) /\ Seen(f).mark = callers[f].mark
      /\ Seen(f).at = IF callers[f].at \in Waiting THEN "waiting" ELSE callers[f].at
  BY <1>1 DEF Asked, Seen
<1>. QED
  BY <1>1, <1>2 DEF Waits

LEMMA AskImplements ==
    ASSUME TypeOK, NEW f \in Callers, Ask(f), session' = session \/ session' = "disposed",
           session = "released" => session' = "released"
    PROVE  Contract!Next
<1>1. /\ UNCHANGED <<log, store>> /\ callers[f].at \notin Waiting
      /\ callers' = [callers EXCEPT ![f] = [at |-> "init", mark |-> log]]
  BY DEF Ask
<1>2. Seen(f)' = [at |-> "waiting", mark |-> log]
  <2>1. callers'[f] = [at |-> "init", mark |-> log]
    BY <1>1 DEF TypeOK
  <2>. QED
    BY <2>1 DEF Seen, Waiting
<1>3. \A g \in Callers : g # f => Seen(g)' = Seen(g)
  BY <1>1 DEF Seen, TypeOK
<1>4. Asked' = [Asked EXCEPT ![f] = [at |-> "waiting", mark |-> log]]
  BY <1>2, <1>3 DEF Asked
<1>5. Asked[f].at # "waiting"
  BY <1>1, SeenFields DEF Waits
<1>6. (session = "released")' <=> (session = "released")
  OBVIOUS
<1>7. Contract!Ask(f)
  BY <1>1, <1>4, <1>5, <1>6 DEF Contract!Ask, Asked, Seen
<1>. QED
  BY <1>7 DEF Contract!Next

(* Several callers that learn one outcome.                                 *)
LEMMA SettleImplements ==
    ASSUME TypeOK, NEW F \in SUBSET Callers, NEW verdict \in {"resolved", "rejected"},
           UNCHANGED <<log, store, session>>,
           \A f \in F : Waits(f) /\ callers'[f] = [at |-> verdict, mark |-> 0],
           \A f \in Callers \ F : Seen(f)' = Seen(f),
           verdict = "resolved" => \A f \in F : callers[f].mark <= Len(store)
    PROVE  Contract!Next
<1>1. ASSUME NEW f \in F
      PROVE  Seen(f)' = [at |-> verdict, mark |-> 0]
  <2>1. callers'[f] = [at |-> verdict, mark |-> 0] /\ verdict \notin Waiting
    BY DEF Waiting
  <2>2. callers'[f].at = verdict
    BY <2>1
  <2>3. Seen(f)' = [callers'[f] EXCEPT !.at = verdict]
    BY <2>1, <2>2 DEF Seen
  <2>. QED
    BY <2>1, <2>3
<1>2. Asked' = [f \in Callers |-> IF f \in F THEN [at |-> verdict, mark |-> 0] ELSE Asked[f]]
  BY <1>1 DEF Asked
<1>3. /\ \A f \in F : Asked[f].at = "waiting"
      /\ verdict = "resolved" => \A f \in F : Asked[f].mark <= Len(store)
  BY SeenFields
<1>4. Contract!Settle(F, verdict)
  BY <1>2, <1>3 DEF Contract!Settle, Asked, Seen
<1>. QED
  BY <1>4 DEF Contract!Next

LEMMA ContractSteps ==
    ASSUME Faults \subseteq {"refused"}, IInv, Stored, [Next]_vars
    PROVE  [Contract!Next]_(Contract!vars)
<1>. USE DEF IInv
<1>t. /\ Len(store) \in Nat /\ log \in Nat
      /\ "retirement" \in Callers /\ "disposer" \in Callers
      /\ callers \in [Callers -> [at : {"idle", "resolved", "rejected"} \union Waiting, mark : Nat]]
  BY Types DEF TypeOK, Callers
<1>u. ASSUME UNCHANGED <<log, store, callers>>, session' = "released" <=> session = "released"
      PROVE  UNCHANGED Contract!vars
  BY <1>u DEF Contract!vars
<1>1. CASE Emit
  <2>1. log' = log + 1 /\ UNCHANGED <<store, callers, session>>
    BY <1>1 DEF Emit
  <2>2. Contract!Log
    BY <2>1 DEF Contract!Log
  <2>. QED
    BY <2>2 DEF Contract!Next
<1>3. ASSUME NEW o \in Outcomes, Initialize(o) \/ Write(o)
      PROVE  Contract!Next
  <2>1. /\ store' = Prefix(Len(store')) /\ Len(store') \in Len(store)..log
        /\ UNCHANGED <<log, callers, session>>
    BY <1>3, StoreSteps
  <2>2. \E n \in Len(store)..log : store' = Contract!Prefix(n)
    BY <2>1 DEF Prefix, Contract!Prefix
  <2>3. Contract!Store
    BY <2>1, <2>2 DEF Contract!Store
  <2>. QED
    BY <2>3 DEF Contract!Next
<1>4. CASE Created \/ WriteFails \/ WriteSettles \/ Deadline \/ Continue \/ PluginCloses \/ PluginLoads
  <2>1. UNCHANGED <<log, store, callers, session>>
    BY <1>4 DEF Created, WriteFails, WriteSettles, Deadline, Continue, PluginCloses, PluginLoads,
                lifecycle, controller
  <2>. QED
    BY <1>u, <2>1
<1>9. CASE Drain
  <2>. DEFINE F == {f \in Callers : callers[f].at = "barrier"}
  <2>0. ~Writing /\ init = "ok" /\ UNCHANGED <<log, store, session>>
    BY <1>9 DEF Drain, Structure, lifecycle
  <2>1. ASSUME NEW v \in {"resolved", "rejected"}, BarrierEnds(v), v = "resolved" => pending = <<>>
        PROVE  Contract!Next
    <3>1. \A f \in F : Waits(f) /\ callers'[f] = [at |-> v, mark |-> 0]
      BY <2>1 DEF BarrierEnds, Joined, Waits, Waiting
    <3>2. \A f \in Callers \ F : Seen(f)' = Seen(f)
      BY <2>1 DEF BarrierEnds, Joined, Seen
    <3>3. v = "resolved" => \A f \in F : callers[f].mark <= Len(store)
      BY <2>0, <2>1, <3>1, NothingLeftMeansStored DEF Writing
    <3>4. F \in SUBSET Callers
      OBVIOUS
    <3>. HIDE DEF F
    <3>. QED
      BY <2>0, <3>1, <3>2, <3>3, <3>4, SettleImplements
  <2>2. CASE UNCHANGED callers
    BY <1>u, <2>0, <2>2
  <2>. QED
    BY <1>9, <2>1, <2>2 DEF Drain, Drained
<1>10. ASSUME NEW f \in Flushers, Flush(f)
       PROVE  Contract!Next
  BY <1>10, AskImplements DEF Flush, Callers
<1>11. ASSUME NEW f \in Callers, FlushProceeds(f)
       PROVE  [Contract!Next]_(Contract!vars)
  <2>0. UNCHANGED <<log, store, session>> /\ Waits(f) /\ init \in {"ok", "failed"}
    <3>1. UNCHANGED <<log, store, session>> /\ callers[f].at = "init" /\ init # "running"
      BY <1>11 DEF FlushProceeds, lifecycle
    <3>2. Waits(f) /\ init # "none"
      BY <3>1 DEF Waits, Waiting, Structure
    <3>. QED
      BY <3>1, <3>2 DEF TypeOK
  <2>1. \A g \in Callers : g # f => Seen(g)' = Seen(g)
    <3>1. \A g \in Callers : g # f => callers'[g] = callers[g]
      BY <1>11, <1>t DEF FlushProceeds
    <3>. QED
      BY <3>1 DEF Seen
  <2>2. ASSUME NEW v \in {"resolved", "rejected"}, callers'[f] = [at |-> v, mark |-> 0],
               v = "resolved" => callers[f].mark <= Len(store)
        PROVE  Contract!Next
    <3>. DEFINE F == {f}
    <3>1. /\ F \in SUBSET Callers /\ \A g \in F : Waits(g) /\ callers'[g] = [at |-> v, mark |-> 0]
          /\ \A g \in Callers \ F : Seen(g)' = Seen(g)
          /\ v = "resolved" => \A g \in F : callers[g].mark <= Len(store)
      BY <2>0, <2>1, <2>2
    <3>. HIDE DEF F
    <3>. QED
      BY <2>0, <3>1, SettleImplements
  <2>3. CASE init = "failed"
    <3>1. callers'[f] = [at |-> "rejected", mark |-> 0]
      BY <1>11, <1>t, <2>3 DEF FlushProceeds
    <3>. QED
      BY <2>2, <3>1
  <2>4. CASE init = "ok" /\ barrier = None /\ ~Overlaps /\ pending = <<>>
    <3>1. callers'[f] = [at |-> "resolved", mark |-> 0]
      BY <1>11, <1>t, <2>4 DEF FlushProceeds
    <3>2. callers[f].mark <= Len(store)
      BY <2>0, <2>4, NothingLeftMeansStored DEF Overlaps
    <3>. QED
      BY <2>2, <3>1, <3>2
  <2>5. CASE init = "ok" /\ ~(barrier = None /\ ~Overlaps /\ pending = <<>>)
    <3>1. callers'[f] = [callers[f] EXCEPT !.at = "barrier"] /\ callers[f].at = "init"
      BY <1>11, <1>t, <2>5 DEF FlushProceeds
    <3>2. Seen(f)' = Seen(f)
      BY <1>t, <3>1 DEF Seen, Waiting
    <3>3. Asked' = Asked
      BY <2>1, <3>2 DEF Asked
    <3>. QED
      BY <2>0, <3>3 DEF Contract!vars, Asked, Seen
  <2>. QED
    BY <2>0, <2>3, <2>4, <2>5
<1>12. CASE Dispose
  <2>0. session = "live" /\ session' = "disposed"
    BY <1>12 DEF Dispose
  <2>1. CASE mode = "up" /\ init # "none"
    BY <1>12, <1>t, <2>0, <2>1, AskImplements DEF Dispose
  <2>2. CASE ~(mode = "up" /\ init # "none")
    BY <1>12, <1>u, <2>0, <2>2 DEF Dispose
  <2>. QED
    BY <2>1, <2>2
<1>13. CASE Release
  <2>1. UNCHANGED <<log, store, callers>> /\ session' = "released" /\ Len(store) = log
    BY <1>13 DEF Release, Drawn, Stored, Retired
  <2>2. Contract!Release
    BY <2>1 DEF Contract!Release
  <2>. QED
    BY <2>2 DEF Contract!Next
<1>14. CASE PluginDisposed
  <2>1. CASE Held
    BY <1>14, <1>t, <2>1, AskImplements DEF PluginDisposed
  <2>2. CASE ~Held
    BY <1>14, <1>u, <2>2 DEF PluginDisposed
  <2>. QED
    BY <2>1, <2>2
<1>17. CASE UNCHANGED vars
  BY <1>17, <1>u DEF vars, lifecycle
<1>. QED
  BY <1>1, <1>3, <1>4, <1>9, <1>10, <1>11, <1>12, <1>13, <1>14, <1>17 DEF Next

(* Persistence keeps its contract (DurableLog) over failed batches,        *)
(* overlapping barriers and reloads, as long as an append that fails has   *)
(* stored nothing: storage is a growing prefix of the log, a flush that    *)
(* resolves covers what was logged before it, and only a session that is   *)
(* stored completely is released.                                          *)
THEOREM ContractIsKept ==
    ASSUME Faults \subseteq {"refused"}
    PROVE  Spec => FlushContract
<1>1. Init => Contract!Init /\ Stored
  <2>. SUFFICES ASSUME Init PROVE Contract!Init /\ Stored
    OBVIOUS
  <2>1. TypeOK /\ log \in Nat
    BY TypeStarts DEF TypeOK
  <2>2. PICK n \in 0..log : store = Prefix(n)
    BY DEF Init
  <2>3. n \in Nat /\ Len(store) = n
    BY <2>1, <2>2, OfPrefix
  <2>4. \A f \in Callers : callers[f] = [at |-> "idle", mark |-> 0]
    BY DEF Init
  <2>5. \A f \in Callers : Seen(f) = [at |-> "idle", mark |-> 0]
    BY <2>4 DEF Seen, Waiting
  <2>6. "retirement" \in Callers
    BY DEF Callers
  <2>7. Stored
    BY <2>1, <2>2, <2>3, <2>4, <2>6, OfEmpty
       DEF Init, Stored, Retired, Waits, Waiting, InFlight, Writing
  <2>8. Contract!Init
    <3>1. \E m \in 0..log : store = Contract!Prefix(m)
      BY <2>2 DEF Prefix, Contract!Prefix
    <3>2. (session = "released") = FALSE
      BY DEF Init
    <3>3. Asked = [f \in Callers |-> [at |-> "idle", mark |-> 0]]
      BY <2>5 DEF Asked
    <3>. QED
      BY <2>1, <3>1, <3>2, <3>3 DEF Contract!Init, Asked, Seen
  <2>. QED
    BY <2>7, <2>8
<1>2. IInv /\ Stored /\ [Next]_vars => Stored' /\ [Contract!Next]_(Contract!vars)
  BY StoredSteps, ContractSteps
<1>. QED
  BY <1>1, <1>2, IInvHolds, PTL DEF Spec, FlushContract, Contract!Spec

======
