------------------------------ MODULE JobsProofs ------------------------------
(***************************************************************************)
(* Proofs about the job registry, for every limit, every number of jobs,   *)
(* waits and owners: capacity holds, the first outcome stands, no          *)
(* completion is lost, and a disposed agent leaves no live job.            *)
(***************************************************************************)
EXTENDS Jobs, FiniteSetTheorems, SequenceTheorems, TLAPS

(* The waits a job's counter stands for: all but those whose abort already *)
(* uncounted them and those whose finally clause ran.                      *)
Held == {"pending", "released", "expired"}
Waiting(j) == {w \in DOMAIN waits : waits[w].job = j /\ waits[w].state \in Held}

Counting ==
    /\ \A w \in DOMAIN waits : waits[w].job \in DOMAIN jobs
    /\ \A j \in DOMAIN jobs : jobs[j].waiters = Cardinality(Waiting(j))

(* What the registry knows of each job: a deadline only bounds a running   *)
(* cancellation; an unfinished job is marked reported only by somebody who *)
(* answers for it; and until it ends it can be found by every teardown     *)
(* that has to await it.                                                   *)
Found(j) ==
    /\ service # "gone" /\ jobs[j].stored
    /\ service = "disposing" => j \in all
    /\ jobs[j].owner # Nobody =>
          /\ owner[jobs[j].owner] # "gone"
          /\ owner[jobs[j].owner] = "live" => jobs[j].owner \in cleanups
          /\ owner[jobs[j].owner] = "disposing" => j \in owned[jobs[j].owner]

Registered(j) ==
    /\ jobs[j].deadline => jobs[j].status = "stopping"
    /\ service = "live" => ~jobs[j].late
    /\ ~Ended(j) =>
          /\ jobs[j].reported => jobs[j].claimed
          /\ service # "live" => jobs[j].claimed \/ jobs[j].late
          /\ ~jobs[j].late => Found(j)

AllRegistered == \A j \in DOMAIN jobs : Registered(j)

IInv == TypeOK /\ Counting /\ AllRegistered

------------------------------------------------------------------------------
(* Sequences and records.                                                  *)

LEMMA MapOfSeq ==
    ASSUME NEW S, NEW T, NEW s \in Seq(S), NEW g \in [DOMAIN s -> T]
    PROVE  g \in Seq(T) /\ Len(g) = Len(s)
<1>1. g \in Seq(T)
  OBVIOUS
<1>2. /\ Len(g) \in Nat /\ Len(s) \in Nat
      /\ DOMAIN g = 1..Len(g) /\ DOMAIN s = 1..Len(s) /\ DOMAIN g = DOMAIN s
  BY <1>1, LenProperties
<1>3. \A n \in Nat : n \in 1..Len(g) <=> n \in 1..Len(s)
  BY <1>2
<1>4. Len(g) = 0 \/ Len(g) \in 1..Len(g)
  BY <1>2
<1>5. Len(s) = 0 \/ Len(s) \in 1..Len(s)
  BY <1>2
<1>6. Len(g) <= Len(s) /\ Len(s) <= Len(g)
  BY <1>2, <1>3, <1>4, <1>5
<1>. QED
  BY <1>1, <1>2, <1>6

LEMMA AppendOfSeq ==
    ASSUME NEW S, NEW s \in Seq(S), NEW e \in S
    PROVE  /\ Append(s, e) \in Seq(S) /\ Len(Append(s, e)) = Len(s) + 1
           /\ DOMAIN Append(s, e) = DOMAIN s \union {Len(s) + 1}
           /\ Len(s) + 1 \notin DOMAIN s /\ DOMAIN s = 1..Len(s) /\ Len(s) \in Nat
           /\ \A i \in DOMAIN s : Append(s, e)[i] = s[i]
           /\ Append(s, e)[Len(s) + 1] = e
<1>1. /\ Append(s, e) \in Seq(S) /\ Len(Append(s, e)) = Len(s) + 1
      /\ \A i \in 1..Len(s) : Append(s, e)[i] = s[i]
      /\ Append(s, e)[Len(s) + 1] = e
  BY AppendProperties
<1>2. Len(s) \in Nat /\ DOMAIN s = 1..Len(s)
  BY LenProperties
<1>3. DOMAIN Append(s, e) = 1..Len(s) + 1
  BY <1>1, LenProperties
<1>4. 1..Len(s) + 1 = 1..Len(s) \union {Len(s) + 1} /\ Len(s) + 1 \notin 1..Len(s)
  BY <1>2
<1>. QED
  BY <1>1, <1>2, <1>3, <1>4

LEMMA Known ==
    ASSUME TypeOK
    PROVE  /\ \A j \in DOMAIN jobs : jobs[j] \in Records
           /\ \A w \in DOMAIN waits : waits[w] \in Waits
           /\ DOMAIN jobs \subseteq JobIds /\ IsFiniteSet(DOMAIN jobs)
           /\ IsFiniteSet(DOMAIN waits) /\ Len(jobs) \in Nat /\ DOMAIN jobs = 1..Len(jobs)
<1>1. /\ Len(jobs) \in Nat /\ DOMAIN jobs = 1..Len(jobs) /\ Len(jobs) <= MaxJobs
      /\ Len(waits) \in Nat /\ DOMAIN waits = 1..Len(waits)
  BY LenProperties DEF TypeOK
<1>2. DOMAIN jobs \subseteq JobIds
  BY <1>1, JobsAssumption DEF JobIds
<1>3. IsFiniteSet(DOMAIN jobs) /\ IsFiniteSet(DOMAIN waits)
  BY <1>1, FS_Interval
<1>. QED
  BY <1>1, <1>2, <1>3, ElementOfSeq DEF TypeOK

(* The owner, the age and the bookkeeping of a record that a step of its   *)
(* life leaves alone.                                                      *)
Same(r, s) ==
    /\ s \in Records
    /\ s.owner = r.owner /\ s.late = r.late /\ s.stored = r.stored /\ s.waiters = r.waiters

LEMMA SettledRecord ==
    ASSUME NEW r \in Records, NEW status \in Terminal
    PROVE  LET s == Settled(r, status)
           IN  /\ Same(r, s) /\ s.status = status /\ ~s.deadline /\ s.claimed = r.claimed
               /\ \/ s.notices > 0 \/ r.reported \/ r.waiters > 0
                  \/ service # "live" \/ r.owner = Nobody
<1>. DEFINE t == [r EXCEPT !.status = status, !.deadline = FALSE,
                           !.reported = @ \/ r.waiters > 0]
            s == [t EXCEPT !.notices = @ + (IF Announces(t) THEN 1 ELSE 0)]
<1>1. /\ t \in Records /\ t.status = status /\ ~t.deadline /\ t.claimed = r.claimed
      /\ t.owner = r.owner /\ t.late = r.late /\ t.stored = r.stored
      /\ t.waiters = r.waiters /\ t.notices \in Nat
      /\ t.reported <=> r.reported \/ r.waiters > 0
  BY DEF Records, Terminal, Statuses
<1>. HIDE DEF t
<1>2. \/ Announces(t) \/ r.reported \/ r.waiters > 0 \/ service # "live" \/ r.owner = Nobody
  BY <1>1 DEF Announces
<1>3. /\ s \in Records /\ s.status = t.status /\ s.deadline = t.deadline
      /\ s.claimed = t.claimed /\ s.owner = t.owner /\ s.late = t.late
      /\ s.stored = t.stored /\ s.waiters = t.waiters
      /\ Announces(t) => s.notices > 0
  <2>1. CASE Announces(t)
    <3>1. s = [t EXCEPT !.notices = @ + 1]
      BY <2>1
    <3>. QED
      BY <1>1, <3>1 DEF Records
  <2>2. CASE ~Announces(t)
    <3>1. s = [t EXCEPT !.notices = @ + 0]
      BY <2>2
    <3>. QED
      BY <1>1, <2>2, <3>1 DEF Records
  <2>. QED
    BY <2>1, <2>2
<1>4. Settled(r, status) = s
  BY DEF Settled, t
<1>. HIDE DEF s
<1>. QED
  BY <1>1, <1>2, <1>3, <1>4 DEF Same

LEMMA CancelledRecord ==
    ASSUME NEW r \in Records, NEW throws \in BOOLEAN
    PROVE  LET s == Cancelled(r, throws)
           IN  /\ Same(r, s) /\ s.claimed
               /\ \/ s.status = "stopping" /\ ~(r.status = "running" /\ throws)
                  \/ s.status = "failed" /\ ~s.deadline /\ r.status = "running" /\ throws
<1>. DEFINE t == [r EXCEPT !.reported = TRUE, !.claimed = TRUE]
<1>1. Same(r, t) /\ t \in Records /\ t.claimed
  BY DEF Records, Same
<1>2. CASE r.status = "running" /\ throws
  <2>1. Cancelled(r, throws) = Settled(t, "failed")
    BY <1>2 DEF Cancelled
  <2>. HIDE DEF t
  <2>2. "failed" \in Terminal
    BY DEF Terminal
  <2>3. /\ Same(t, Settled(t, "failed")) /\ Settled(t, "failed").status = "failed"
        /\ ~Settled(t, "failed").deadline /\ Settled(t, "failed").claimed = t.claimed
    BY <1>1, <2>2, SettledRecord
  <2>. QED
    BY <1>1, <1>2, <2>1, <2>3 DEF Same
<1>3. CASE ~(r.status = "running" /\ throws)
  <2>1. Cancelled(r, throws) = [t EXCEPT !.status = "stopping", !.deadline = TRUE]
    BY <1>3 DEF Cancelled, Armed
  <2>. HIDE DEF t
  <2>. QED
    BY <1>1, <1>3, <2>1 DEF Same, Records, Statuses
<1>. QED
  BY <1>2, <1>3

LEMMA OneRecord ==
    ASSUME TypeOK, NEW j \in DOMAIN jobs, NEW s \in Records
    PROVE  /\ [jobs EXCEPT ![j] = s] \in Seq(Records)
           /\ Len([jobs EXCEPT ![j] = s]) = Len(jobs)
           /\ DOMAIN [jobs EXCEPT ![j] = s] = DOMAIN jobs
           /\ [jobs EXCEPT ![j] = s][j] = s
           /\ \A k \in DOMAIN jobs \ {j} : [jobs EXCEPT ![j] = s][k] = jobs[k]
<1>. DEFINE g == [jobs EXCEPT ![j] = s]
<1>1. g \in [DOMAIN jobs -> Records]
  BY Known
<1>2. jobs \in Seq(Records)
  BY DEF TypeOK
<1>3. g \in Seq(Records) /\ Len(g) = Len(jobs)
  <2>. HIDE DEF g
  <2>. QED
    BY <1>1, <1>2, MapOfSeq
<1>. QED
  BY <1>3

(* Releasing the waits of some jobs changes none of the counts, and none   *)
(* of them stays pending.                                                  *)
LEMMA ReleasedWaits ==
    ASSUME TypeOK, NEW set
    PROVE  /\ Released(set) \in Seq(Waits) /\ DOMAIN Released(set) = DOMAIN waits
           /\ \A w \in DOMAIN waits :
                /\ Released(set)[w].job = waits[w].job
                /\ Released(set)[w].state \in Held <=> waits[w].state \in Held
                /\ Released(set)[w].state # waits[w].state
                      => waits[w].state = "pending" /\ Released(set)[w].state = "released"
                /\ (waits[w].job \in set /\ waits[w].state \in Held)
                      => Released(set)[w].state \in {"released", "expired"}
<1>1. \A w \in DOMAIN waits : waits[w] \in Waits
  BY Known
<1>2. \A w \in DOMAIN waits : [waits[w] EXCEPT !.state = "released"] \in Waits
  BY <1>1 DEF Waits
<1>3. waits \in Seq(Waits)
  BY DEF TypeOK
<1>4. Released(set) \in [DOMAIN waits -> Waits]
  BY <1>1, <1>2 DEF Released
<1>5. Released(set) \in Seq(Waits) /\ DOMAIN Released(set) = DOMAIN waits
  BY <1>3, <1>4, MapOfSeq
<1>6. ASSUME NEW w \in DOMAIN waits
      PROVE  /\ Released(set)[w].job = waits[w].job
             /\ Released(set)[w].state \in Held <=> waits[w].state \in Held
             /\ Released(set)[w].state # waits[w].state
                   => waits[w].state = "pending" /\ Released(set)[w].state = "released"
             /\ (waits[w].job \in set /\ waits[w].state \in Held)
                   => Released(set)[w].state \in {"released", "expired"}
  <2>1. CASE waits[w].job \in set /\ waits[w].state = "pending"
    <3>1. Released(set)[w] = [waits[w] EXCEPT !.state = "released"]
      BY <2>1 DEF Released
    <3>2. Released(set)[w].job = waits[w].job /\ Released(set)[w].state = "released"
      BY <1>1, <3>1 DEF Waits
    <3>. QED
      BY <2>1, <3>2 DEF Held
  <2>2. CASE ~(waits[w].job \in set /\ waits[w].state = "pending")
    <3>1. Released(set)[w] = waits[w]
      BY <2>2 DEF Released
    <3>. QED
      BY <2>2, <3>1 DEF Held
  <2>. QED
    BY <2>1, <2>2
<1>. QED
  BY <1>5, <1>6

------------------------------------------------------------------------------
(* What any step does to a job that exists: its owner stands, what is      *)
(* known of its completion is never forgotten, its first outcome stands,   *)
(* and when it ends somebody learns of it.                                 *)
Informed(j) ==
    \/ jobs'[j].claimed \/ jobs'[j].notices > 0 \/ jobs[j].reported
    \/ jobs[j].waiters > 0 /\ \A w \in Waiting(j) : w \in DOMAIN waits' /\ Answers(w)'
    \/ service # "live" \/ jobs[j].owner = Nobody

Moved(j) ==
    /\ jobs'[j].owner = jobs[j].owner /\ jobs'[j].late = jobs[j].late
    /\ jobs[j].claimed => jobs'[j].claimed
    /\ jobs[j].notices > 0 => jobs'[j].notices > 0
    /\ jobs'[j].deadline => jobs'[j].status = "stopping"
    /\ Ended(j) => jobs'[j].status = jobs[j].status /\ jobs'[j].notices = jobs[j].notices
    /\ ~Ended(j)' => (jobs'[j].reported => jobs[j].reported \/ jobs'[j].claimed)
    /\ (~Ended(j) /\ Ended(j)') => Informed(j)

(* A wait keeps its job, and goes on answering for a job that ended.       *)
Attended(w) ==
    /\ w \in DOMAIN waits' /\ waits'[w].job = waits[w].job
    /\ (Ended(waits[w].job) /\ Answers(w)) => Answers(w)'

Carried ==
    /\ jobs' \in Seq(Records) /\ Len(jobs') <= MaxJobs
    /\ DOMAIN jobs \subseteq DOMAIN jobs'
    /\ waits' \in Seq(Waits)
    /\ \A j \in DOMAIN jobs : Moved(j)
    /\ \A w \in DOMAIN waits : Attended(w)

(* A job that a step leaves alone, and one that only its status, its       *)
(* counters or its marks could have disturbed.                             *)
LEMMA Untouched ==
    ASSUME IInv, NEW j \in DOMAIN jobs, jobs'[j] = jobs[j]
    PROVE  Moved(j)
BY DEF IInv, AllRegistered, Registered, Moved, Ended

(* The counts stand when no wait is opened or closed.                      *)
LEMMA CountsStand ==
    ASSUME Counting, DOMAIN jobs' = DOMAIN jobs, DOMAIN waits' = DOMAIN waits,
           \A j \in DOMAIN jobs : jobs'[j].waiters = jobs[j].waiters,
           \A w \in DOMAIN waits :
              /\ waits'[w].job = waits[w].job
              /\ waits'[w].state \in Held <=> waits[w].state \in Held
    PROVE  Counting'
<1>1. \A j : Waiting(j)' = Waiting(j)
  BY DEF Waiting
<1>. QED
  BY <1>1 DEF Counting

LEMMA ReleaseAttends ==
    ASSUME TypeOK, NEW set, waits' = Released(set)
    PROVE  /\ \A w \in DOMAIN waits : Attended(w)
           /\ \A j \in set : \A w \in Waiting(j) : w \in DOMAIN waits' /\ Answers(w)'
<1>1. ASSUME NEW w \in DOMAIN waits
      PROVE  Attended(w)
  BY <1>1, ReleasedWaits DEF Attended, Answers
<1>2. ASSUME NEW j \in set, NEW w \in Waiting(j)
      PROVE  w \in DOMAIN waits' /\ Answers(w)'
  <2>1. w \in DOMAIN waits /\ waits[w].job = j /\ waits[w].state \in Held
    BY <1>2 DEF Waiting
  <2>2. Released(set)[w].state \in {"released", "expired"} /\ w \in DOMAIN Released(set)
    BY <1>2, <2>1, ReleasedWaits
  <2>. QED
    BY <2>2 DEF Answers
<1>. QED
  BY <1>1, <1>2

LEMMA SameWaitsAttend ==
    ASSUME waits' = waits
    PROVE  \A w \in DOMAIN waits : Attended(w)
BY DEF Attended, Answers

------------------------------------------------------------------------------
(* The actions that change the record of one job.                          *)

LEMMA ChangeOne ==
    ASSUME IInv, NEW j \in DOMAIN jobs, NEW s \in Records, jobs' = [jobs EXCEPT ![j] = s],
           waits' \in Seq(Waits), \A w \in DOMAIN waits : Attended(w), Moved(j)
    PROVE  Carried
<1>1. TypeOK
  BY DEF IInv
<1>2. /\ jobs' \in Seq(Records) /\ Len(jobs') = Len(jobs) /\ DOMAIN jobs' = DOMAIN jobs
      /\ \A k \in DOMAIN jobs \ {j} : jobs'[k] = jobs[k]
  BY <1>1, OneRecord
<1>3. \A k \in DOMAIN jobs : Moved(k)
  BY <1>2, Untouched
<1>. QED
  BY <1>1, <1>2, <1>3 DEF Carried, TypeOK

LEMMA SettleStep ==
    ASSUME IInv, NEW j \in DOMAIN jobs, NEW r \in Records, NEW status \in Terminal,
           r = jobs[j] \/ r = [jobs[j] EXCEPT !.producing = FALSE], ~Ended(j),
           jobs' = [jobs EXCEPT ![j] = Settled(r, status)], waits' = Released({j})
    PROVE  Carried /\ Counting' /\ \A k \in DOMAIN jobs : jobs'[k].stored = jobs[k].stored
<1>1. TypeOK /\ jobs[j] \in Records
  BY Known DEF IInv
<1>2. /\ r.owner = jobs[j].owner /\ r.late = jobs[j].late /\ r.stored = jobs[j].stored
      /\ r.waiters = jobs[j].waiters /\ r.reported = jobs[j].reported
      /\ r.claimed = jobs[j].claimed
  BY <1>1 DEF Records
<1>. DEFINE s == Settled(r, status)
<1>3. /\ Same(r, s) /\ s.status = status /\ ~s.deadline /\ s.claimed = r.claimed
      /\ \/ s.notices > 0 \/ r.reported \/ r.waiters > 0
         \/ service # "live" \/ r.owner = Nobody
  BY SettledRecord
<1>. HIDE DEF s
<1>4. /\ s \in Records /\ s.owner = jobs[j].owner /\ s.late = jobs[j].late
      /\ s.stored = jobs[j].stored /\ s.waiters = jobs[j].waiters /\ s.claimed = jobs[j].claimed
  BY <1>2, <1>3 DEF Same
<1>5. jobs' = [jobs EXCEPT ![j] = s]
  BY DEF s
<1>6. /\ jobs'[j] = s /\ DOMAIN jobs' = DOMAIN jobs
      /\ \A k \in DOMAIN jobs \ {j} : jobs'[k] = jobs[k]
  BY <1>1, <1>4, <1>5, OneRecord
<1>7. /\ waits' \in Seq(Waits) /\ DOMAIN waits' = DOMAIN waits
      /\ \A w \in DOMAIN waits : Attended(w)
      /\ \A w \in Waiting(j) : w \in DOMAIN waits' /\ Answers(w)'
      /\ \A w \in DOMAIN waits :
            /\ waits'[w].job = waits[w].job
            /\ waits'[w].state \in Held <=> waits[w].state \in Held
  BY <1>1, ReleasedWaits, ReleaseAttends
<1>8. Ended(j)'
  BY <1>3, <1>6 DEF Ended
<1>9. Informed(j)
  BY <1>2, <1>3, <1>6, <1>7 DEF Informed
<1>10. r.notices = jobs[j].notices /\ r.notices \in Nat
  BY <1>1 DEF Records
<1>11. r.notices > 0 => s.notices > 0
  BY <1>10 DEF s, Settled, Records
<1>12. Moved(j)
  BY <1>3, <1>4, <1>6, <1>8, <1>9, <1>10, <1>11 DEF Moved
<1>13. Carried
  BY <1>4, <1>5, <1>7, <1>12, ChangeOne
<1>14. \A k \in DOMAIN jobs : jobs'[k].waiters = jobs[k].waiters /\ jobs'[k].stored = jobs[k].stored
  BY <1>4, <1>6
<1>15. Counting'
  BY <1>6, <1>7, <1>14, CountsStand DEF IInv
<1>. QED
  BY <1>13, <1>14, <1>15

StoredSame == \A k \in DOMAIN jobs : jobs'[k].stored = jobs[k].stored

LEMMA ProduceStep ==
    ASSUME IInv, NEW j \in DOMAIN jobs, NEW status \in Terminal, Produce(j, status)
    PROVE  Carried /\ Counting' /\ StoredSame /\ DOMAIN jobs' = DOMAIN jobs
<1>1. TypeOK /\ jobs[j] \in Records
  BY Known DEF IInv
<1>. DEFINE done == [jobs[j] EXCEPT !.producing = FALSE]
<1>2. /\ done \in Records /\ done.owner = jobs[j].owner /\ done.late = jobs[j].late
      /\ done.stored = jobs[j].stored /\ done.waiters = jobs[j].waiters
      /\ done.claimed = jobs[j].claimed /\ done.notices = jobs[j].notices
      /\ done.status = jobs[j].status /\ done.deadline = jobs[j].deadline
      /\ done.reported = jobs[j].reported
  BY <1>1 DEF Records
<1>3. CASE ~Ended(j)
  <2>1. jobs' = [jobs EXCEPT ![j] = Settled(done, status)] /\ waits' = Released({j})
    BY <1>3 DEF Produce, FirstOutcome
  <2>2. done = [jobs[j] EXCEPT !.producing = FALSE]
    OBVIOUS
  <2>3. Carried /\ Counting' /\ StoredSame
    <3>. HIDE DEF done
    <3>. QED
      BY <1>2, <1>3, <2>1, <2>2, SettleStep DEF StoredSame
  <2>4. DOMAIN jobs' = DOMAIN jobs
    BY <2>1
  <2>. QED
    BY <2>3, <2>4
<1>4. CASE Ended(j)
  <2>1. jobs' = [jobs EXCEPT ![j] = done] /\ waits' = waits
    BY <1>4 DEF Produce, FirstOutcome
  <2>. HIDE DEF done
  <2>2. /\ jobs'[j] = done /\ DOMAIN jobs' = DOMAIN jobs
        /\ \A k \in DOMAIN jobs \ {j} : jobs'[k] = jobs[k]
    BY <1>1, <1>2, <2>1, OneRecord
  <2>3. Moved(j)
    BY <1>2, <1>4, <2>2 DEF Moved, Ended, IInv, AllRegistered, Registered
  <2>4. Carried
    BY <1>1, <1>2, <2>1, <2>3, ChangeOne, SameWaitsAttend DEF TypeOK
  <2>5. \A k \in DOMAIN jobs : jobs'[k].waiters = jobs[k].waiters /\ jobs'[k].stored = jobs[k].stored
    BY <1>2, <2>2
  <2>6. Counting'
    BY <2>1, <2>2, <2>5, CountsStand DEF IInv
  <2>. QED
    BY <2>2, <2>4, <2>5, <2>6 DEF StoredSame
<1>. QED
  BY <1>3, <1>4

LEMMA ExpireStep ==
    ASSUME IInv, NEW j \in DOMAIN jobs, Expire(j)
    PROVE  Carried /\ Counting' /\ StoredSame /\ DOMAIN jobs' = DOMAIN jobs
<1>1. TypeOK /\ jobs[j] \in Records
  BY Known DEF IInv
<1>2. ~Ended(j)
  BY DEF Expire, IInv, AllRegistered, Registered, Ended, Terminal
<1>3. /\ jobs' = [jobs EXCEPT ![j] = Settled(jobs[j], "failed")] /\ waits' = Released({j})
      /\ "failed" \in Terminal
  BY DEF Expire, Terminal
<1>4. Carried /\ Counting' /\ StoredSame
  BY <1>1, <1>2, <1>3, SettleStep DEF StoredSame
<1>. QED
  BY <1>3, <1>4

(* Marking a record, or counting a wait, settles nothing.                  *)
LEMMA MarkStep ==
    ASSUME IInv, NEW j \in DOMAIN jobs, NEW s \in Records, jobs' = [jobs EXCEPT ![j] = s],
           s.owner = jobs[j].owner, s.late = jobs[j].late, s.stored = jobs[j].stored,
           jobs[j].claimed => s.claimed, s.notices = jobs[j].notices,
           s.deadline => s.status = "stopping",
           Ended(j) => s.status = jobs[j].status,
           s.status \in Terminal => Ended(j),
           s.status \notin Terminal => (s.reported => jobs[j].reported \/ s.claimed),
           waits' \in Seq(Waits), \A w \in DOMAIN waits : Attended(w)
    PROVE  /\ Carried /\ StoredSame /\ DOMAIN jobs' = DOMAIN jobs
           /\ jobs'[j] = s /\ \A k \in DOMAIN jobs \ {j} : jobs'[k] = jobs[k]
<1>1. TypeOK
  BY DEF IInv
<1>2. /\ jobs'[j] = s /\ DOMAIN jobs' = DOMAIN jobs
      /\ \A k \in DOMAIN jobs \ {j} : jobs'[k] = jobs[k]
  BY <1>1, OneRecord
<1>3. Moved(j)
  BY <1>2 DEF Moved, Ended
<1>4. Carried
  BY <1>3, ChangeOne
<1>. QED
  BY <1>2, <1>4 DEF StoredSame

LEMMA ReadStep ==
    ASSUME IInv, NEW j \in DOMAIN jobs, Read(j)
    PROVE  Carried /\ Counting' /\ StoredSame /\ DOMAIN jobs' = DOMAIN jobs
<1>1. TypeOK /\ jobs[j] \in Records /\ waits \in Seq(Waits)
  BY Known DEF IInv, TypeOK
<1>. DEFINE s == [jobs[j] EXCEPT !.reported = TRUE, !.claimed = TRUE]
<1>2. /\ s \in Records /\ s.owner = jobs[j].owner /\ s.late = jobs[j].late
      /\ s.stored = jobs[j].stored /\ s.waiters = jobs[j].waiters
      /\ s.claimed /\ s.notices = jobs[j].notices
      /\ s.status = jobs[j].status /\ s.deadline = jobs[j].deadline
  BY <1>1 DEF Records
<1>3. jobs' = [jobs EXCEPT ![j] = s] /\ waits' = waits /\ Ended(j)
  BY DEF Read
<1>4. /\ s.deadline => s.status = "stopping"
      /\ s.status \in Terminal
  BY <1>2, <1>3 DEF IInv, AllRegistered, Registered, Ended
<1>. HIDE DEF s
<1>5. /\ Carried /\ StoredSame /\ DOMAIN jobs' = DOMAIN jobs
      /\ jobs'[j] = s /\ \A k \in DOMAIN jobs \ {j} : jobs'[k] = jobs[k]
  BY <1>1, <1>2, <1>3, <1>4, MarkStep, SameWaitsAttend
<1>6. Counting'
  BY <1>2, <1>3, <1>5, CountsStand DEF IInv
<1>. QED
  BY <1>5, <1>6

LEMMA KillStep ==
    ASSUME IInv, NEW j \in DOMAIN jobs, Kill(j)
    PROVE  Carried /\ Counting' /\ StoredSame /\ DOMAIN jobs' = DOMAIN jobs
<1>1. TypeOK /\ jobs[j] \in Records /\ waits \in Seq(Waits)
  BY Known DEF IInv, TypeOK
<1>. DEFINE s == [jobs[j] EXCEPT !.status = IF Ended(j) THEN @ ELSE "stopping",
                                 !.deadline = IF Ended(j) THEN @ ELSE TRUE,
                                 !.reported = TRUE, !.claimed = TRUE]
<1>2. /\ s \in Records /\ s.owner = jobs[j].owner /\ s.late = jobs[j].late
      /\ s.stored = jobs[j].stored /\ s.waiters = jobs[j].waiters
      /\ s.claimed /\ s.notices = jobs[j].notices
      /\ Ended(j) => s.status = jobs[j].status /\ s.deadline = jobs[j].deadline
      /\ ~Ended(j) => s.status = "stopping"
  BY <1>1 DEF Records, Statuses
<1>3. jobs' = [jobs EXCEPT ![j] = s] /\ waits' = waits
  BY DEF Kill, Armed
<1>. HIDE DEF s
<1>4. /\ s.deadline => s.status = "stopping"
      /\ s.status \in Terminal => Ended(j)
  BY <1>2 DEF IInv, AllRegistered, Registered, Ended, Terminal
<1>5. /\ Carried /\ StoredSame /\ DOMAIN jobs' = DOMAIN jobs
      /\ jobs'[j] = s /\ \A k \in DOMAIN jobs \ {j} : jobs'[k] = jobs[k]
  BY <1>1, <1>2, <1>3, <1>4, MarkStep, SameWaitsAttend
<1>6. Counting'
  BY <1>2, <1>3, <1>5, CountsStand DEF IInv
<1>. QED
  BY <1>5, <1>6

(* Closing a wait takes it out of the count of its job, and of no other.   *)
LEMMA CloseWait ==
    ASSUME IInv, NEW w \in DOMAIN waits, NEW v \in Waits, waits[w].state \in Held,
           v.job = waits[w].job, v.state \notin Held, waits' = [waits EXCEPT ![w] = v],
           DOMAIN jobs' = DOMAIN jobs,
           jobs'[waits[w].job].waiters = jobs[waits[w].job].waiters - 1,
           \A k \in DOMAIN jobs \ {waits[w].job} : jobs'[k].waiters = jobs[k].waiters
    PROVE  waits' \in Seq(Waits) /\ Counting'
<1>. DEFINE j == waits[w].job
<1>1. /\ TypeOK /\ IsFiniteSet(DOMAIN waits) /\ \A x \in DOMAIN waits : waits[x] \in Waits
      /\ waits \in Seq(Waits) /\ Counting
  BY Known DEF IInv, TypeOK
<1>2. waits' \in [DOMAIN waits -> Waits]
  BY <1>1
<1>3. waits' \in Seq(Waits) /\ DOMAIN waits' = DOMAIN waits
  BY <1>1, <1>2, MapOfSeq
<1>4. /\ waits'[w].job = j /\ waits'[w].state \notin Held
      /\ \A x \in DOMAIN waits \ {w} : waits'[x] = waits[x]
  BY <1>1
<1>5. \A k : IsFiniteSet(Waiting(k))
  BY <1>1, FS_Subset DEF Waiting
<1>6. w \in Waiting(j) /\ Waiting(j)' = Waiting(j) \ {w}
  BY <1>3, <1>4 DEF Waiting
<1>7. Cardinality(Waiting(j)') = Cardinality(Waiting(j)) - 1
  BY <1>5, <1>6, FS_RemoveElement
<1>8. \A k \in DOMAIN jobs \ {j} : Waiting(k)' = Waiting(k)
  BY <1>3, <1>4 DEF Waiting
<1>9. j \in DOMAIN jobs
  BY <1>1 DEF Counting
<1>10. \A x \in DOMAIN waits' : waits'[x].job \in DOMAIN jobs'
  BY <1>1, <1>3, <1>4 DEF Counting
<1>11. jobs'[j].waiters = Cardinality(Waiting(j)')
  BY <1>1, <1>7, <1>9 DEF Counting
<1>12. ASSUME NEW k \in DOMAIN jobs \ {j}
       PROVE  jobs'[k].waiters = Cardinality(Waiting(k)')
  BY <1>1, <1>8 DEF Counting
<1>. QED
  BY <1>3, <1>10, <1>11, <1>12 DEF Counting

(* The count of a job with an open wait is positive, so that it can drop.  *)
LEMMA UncountedRecord ==
    ASSUME IInv, NEW w \in DOMAIN waits, waits[w].state \in Held
    PROVE  LET j == waits[w].job
           IN  /\ j \in DOMAIN jobs /\ Uncounted(j) \in Records
               /\ Uncounted(j).waiters = jobs[j].waiters - 1
               /\ Uncounted(j).owner = jobs[j].owner /\ Uncounted(j).late = jobs[j].late
               /\ Uncounted(j).stored = jobs[j].stored
               /\ Uncounted(j).claimed = jobs[j].claimed
               /\ Uncounted(j).notices = jobs[j].notices
               /\ Uncounted(j).status = jobs[j].status
               /\ Uncounted(j).deadline = jobs[j].deadline
               /\ Uncounted(j).reported = jobs[j].reported
<1>. DEFINE j == waits[w].job
<1>1. /\ TypeOK /\ Counting /\ IsFiniteSet(DOMAIN waits) /\ j \in DOMAIN jobs
  BY Known DEF IInv, Counting
<1>2. jobs[j] \in Records
  BY <1>1, Known
<1>3. IsFiniteSet(Waiting(j)) /\ w \in Waiting(j)
  BY <1>1, FS_Subset DEF Waiting
<1>4. Cardinality(Waiting(j)) # 0 /\ Cardinality(Waiting(j)) \in Nat
  BY <1>3, FS_CardinalityType, FS_EmptySet
<1>5. jobs[j].waiters - 1 \in Nat
  BY <1>1, <1>4 DEF Counting
<1>6. Uncounted(j) = [jobs[j] EXCEPT !.waiters = jobs[j].waiters - 1]
  BY DEF Uncounted
<1>. HIDE DEF j
<1>7. /\ Uncounted(j) \in Records
      /\ Uncounted(j).waiters = jobs[j].waiters - 1
      /\ Uncounted(j).owner = jobs[j].owner /\ Uncounted(j).late = jobs[j].late
      /\ Uncounted(j).stored = jobs[j].stored
      /\ Uncounted(j).claimed = jobs[j].claimed
      /\ Uncounted(j).notices = jobs[j].notices
      /\ Uncounted(j).status = jobs[j].status
      /\ Uncounted(j).deadline = jobs[j].deadline
      /\ Uncounted(j).reported = jobs[j].reported
  BY <1>2, <1>5, <1>6 DEF Records
<1>. QED
  BY <1>1, <1>7 DEF j

LEMMA AbortWaitStep ==
    ASSUME IInv, NEW w \in DOMAIN waits, AbortWait(w)
    PROVE  Carried /\ Counting' /\ StoredSame /\ DOMAIN jobs' = DOMAIN jobs
<1>. DEFINE j == waits[w].job
            s == Uncounted(j)
            v == [waits[w] EXCEPT !.state = "rejected"]
<1>1. TypeOK /\ waits[w] \in Waits /\ waits[w].state = "pending" /\ waits[w].state \in Held
  BY Known DEF IInv, AbortWait, Held
<1>2. v \in Waits /\ v.job = j /\ v.state \notin Held
  BY <1>1 DEF Waits, Held
<1>3. waits' = [waits EXCEPT ![w] = v] /\ jobs' = [jobs EXCEPT ![j] = s]
  BY DEF AbortWait, AbortedCount
<1>4. /\ j \in DOMAIN jobs /\ s \in Records /\ s.waiters = jobs[j].waiters - 1
      /\ s.owner = jobs[j].owner /\ s.late = jobs[j].late
      /\ s.stored = jobs[j].stored /\ s.claimed = jobs[j].claimed
      /\ s.notices = jobs[j].notices /\ s.status = jobs[j].status
      /\ s.deadline = jobs[j].deadline /\ s.reported = jobs[j].reported
  BY <1>1, UncountedRecord
<1>. HIDE DEF j, s, v
<1>5. /\ jobs'[j] = s /\ DOMAIN jobs' = DOMAIN jobs
      /\ \A k \in DOMAIN jobs \ {j} : jobs'[k] = jobs[k]
  BY <1>1, <1>3, <1>4, OneRecord
<1>6. jobs'[j].waiters = jobs[j].waiters - 1
  BY <1>4, <1>5
<1>7. waits' \in Seq(Waits) /\ Counting'
  BY <1>1, <1>2, <1>3, <1>5, <1>6, CloseWait DEF j
<1>8. ASSUME NEW x \in DOMAIN waits
      PROVE  Attended(x)
  <2>1. CASE x = w
    <3>1. waits'[x] = v /\ x \in DOMAIN waits' /\ ~Answers(x)
      BY <1>1, <1>3, <2>1 DEF Answers
    <3>. QED
      BY <1>2, <2>1, <3>1 DEF Attended, j
  <2>2. CASE x # w
    <3>1. waits'[x] = waits[x] /\ x \in DOMAIN waits'
      BY <1>3, <2>2
    <3>. QED
      BY <3>1 DEF Attended, Answers
  <2>. QED
    BY <2>1, <2>2
<1>9. /\ s.deadline => s.status = "stopping"
      /\ s.status \in Terminal => Ended(j)
      /\ Ended(j) => s.status = jobs[j].status
  BY <1>4 DEF IInv, AllRegistered, Registered, Ended
<1>10. Carried /\ StoredSame
  BY <1>3, <1>4, <1>7, <1>8, <1>9, MarkStep
<1>. QED
  BY <1>5, <1>7, <1>10

LEMMA FinishWaitStep ==
    ASSUME IInv, NEW w \in DOMAIN waits, FinishWait(w)
    PROVE  Carried /\ Counting' /\ StoredSame /\ DOMAIN jobs' = DOMAIN jobs
<1>. DEFINE j == waits[w].job
            u == Uncounted(j)
            s == [u EXCEPT !.reported = @ \/ Ended(j)]
            v == [waits[w] EXCEPT !.state = IF Ended(j) THEN "answered" ELSE "returned"]
<1>1. /\ TypeOK /\ waits[w] \in Waits /\ waits[w].state \in Held
      /\ waits[w].state \in {"released", "expired"}
  BY Known DEF IInv, FinishWait, Held
<1>2. /\ v \in Waits /\ v.job = j /\ v.state \notin Held
      /\ Ended(j) => v.state = "answered"
  BY <1>1 DEF Waits, Held
<1>3. waits' = [waits EXCEPT ![w] = v] /\ jobs' = [jobs EXCEPT ![j] = s]
  BY DEF FinishWait
<1>4. /\ j \in DOMAIN jobs /\ u \in Records /\ u.waiters = jobs[j].waiters - 1
      /\ u.owner = jobs[j].owner /\ u.late = jobs[j].late
      /\ u.stored = jobs[j].stored /\ u.claimed = jobs[j].claimed
      /\ u.notices = jobs[j].notices /\ u.status = jobs[j].status
      /\ u.deadline = jobs[j].deadline /\ u.reported = jobs[j].reported
  BY <1>1, UncountedRecord
<1>. HIDE DEF u
<1>5. /\ s \in Records /\ s.waiters = u.waiters /\ s.owner = u.owner /\ s.late = u.late
      /\ s.stored = u.stored /\ s.claimed = u.claimed
      /\ s.notices = u.notices /\ s.status = u.status
      /\ s.deadline = u.deadline /\ (s.reported <=> u.reported \/ Ended(j))
  BY <1>4 DEF Records, Ended
<1>. HIDE DEF j, s, v
<1>6. /\ jobs'[j] = s /\ DOMAIN jobs' = DOMAIN jobs
      /\ \A k \in DOMAIN jobs \ {j} : jobs'[k] = jobs[k]
  BY <1>1, <1>3, <1>4, <1>5, OneRecord
<1>7. jobs'[j].waiters = jobs[j].waiters - 1
  BY <1>4, <1>5, <1>6
<1>8. waits' \in Seq(Waits) /\ Counting'
  BY <1>1, <1>2, <1>3, <1>6, <1>7, CloseWait DEF j
<1>9. ASSUME NEW x \in DOMAIN waits
      PROVE  Attended(x)
  <2>1. CASE x = w
    <3>1. waits'[x] = v /\ x \in DOMAIN waits'
      BY <1>3, <2>1
    <3>. QED
      BY <1>2, <2>1, <3>1 DEF Attended, Answers, j
  <2>2. CASE x # w
    <3>1. waits'[x] = waits[x] /\ x \in DOMAIN waits'
      BY <1>3, <2>2
    <3>. QED
      BY <3>1 DEF Attended, Answers
  <2>. QED
    BY <2>1, <2>2
<1>10. /\ s.deadline => s.status = "stopping"
       /\ s.status \in Terminal => Ended(j)
       /\ Ended(j) => s.status = jobs[j].status
       /\ s.status \notin Terminal => (s.reported => jobs[j].reported)
  BY <1>4, <1>5 DEF IInv, AllRegistered, Registered, Ended
<1>11. /\ s.owner = jobs[j].owner /\ s.late = jobs[j].late /\ s.stored = jobs[j].stored
       /\ s.claimed = jobs[j].claimed /\ s.notices = jobs[j].notices
  BY <1>4, <1>5
<1>12. Carried /\ StoredSame
  BY <1>3, <1>4, <1>5, <1>8, <1>9, <1>10, <1>11, MarkStep
<1>. QED
  BY <1>6, <1>8, <1>12

LEMMA ExpireWaitStep ==
    ASSUME IInv, NEW w \in DOMAIN waits, ExpireWait(w)
    PROVE  Carried /\ Counting' /\ StoredSame /\ DOMAIN jobs' = DOMAIN jobs
<1>. DEFINE v == [waits[w] EXCEPT !.state = "expired"]
<1>1. /\ TypeOK /\ waits \in Seq(Waits) /\ \A x \in DOMAIN waits : waits[x] \in Waits
      /\ waits[w].state = "pending"
  BY Known DEF IInv, TypeOK, ExpireWait
<1>2. v \in Waits /\ v.job = waits[w].job /\ v.state = "expired"
  BY <1>1 DEF Waits
<1>3. waits' = [waits EXCEPT ![w] = v] /\ jobs' = jobs
  BY DEF ExpireWait
<1>. HIDE DEF v
<1>4. waits' \in [DOMAIN waits -> Waits]
  BY <1>1, <1>2, <1>3
<1>5. waits' \in Seq(Waits) /\ DOMAIN waits' = DOMAIN waits
  BY <1>1, <1>4, MapOfSeq
<1>6. ASSUME NEW x \in DOMAIN waits
      PROVE  /\ waits'[x].job = waits[x].job
             /\ waits'[x].state \in Held <=> waits[x].state \in Held
             /\ Answers(x) => waits'[x].state = waits[x].state
  <2>1. CASE x = w
    <3>1. waits'[x] = v
      BY <1>3, <2>1
    <3>. QED
      BY <1>1, <1>2, <2>1, <3>1 DEF Held, Answers
  <2>2. CASE x # w
    BY <1>3, <2>2
  <2>. QED
    BY <2>1, <2>2
<1>7. \A x \in DOMAIN waits : Attended(x)
  BY <1>5, <1>6 DEF Attended, Answers
<1>8. \A j \in DOMAIN jobs : Moved(j)
  BY <1>3, Untouched
<1>9. Carried /\ StoredSame
  BY <1>1, <1>3, <1>5, <1>7, <1>8 DEF Carried, StoredSame, TypeOK
<1>10. Counting'
  BY <1>3, <1>5, <1>6, CountsStand DEF IInv
<1>. QED
  BY <1>3, <1>9, <1>10

LEMMA WaitStep ==
    ASSUME IInv, NEW j \in DOMAIN jobs, Wait(j)
    PROVE  Carried /\ Counting' /\ StoredSame /\ DOMAIN jobs' = DOMAIN jobs
<1>. DEFINE v == [job |-> j, state |-> "pending"]
            n == Len(waits) + 1
            s == [jobs[j] EXCEPT !.waiters = @ + 1]
<1>1. /\ TypeOK /\ jobs[j] \in Records /\ waits \in Seq(Waits) /\ IsFiniteSet(DOMAIN waits)
      /\ j \in JobIds /\ Counting
  BY Known DEF IInv, TypeOK
<1>2. v \in Waits /\ v.job = j /\ v.state = "pending"
  BY <1>1 DEF Waits
<1>3. /\ s \in Records /\ s.owner = jobs[j].owner /\ s.late = jobs[j].late
      /\ s.stored = jobs[j].stored /\ s.waiters = jobs[j].waiters + 1
      /\ s.claimed = jobs[j].claimed /\ s.notices = jobs[j].notices
      /\ s.status = jobs[j].status /\ s.deadline = jobs[j].deadline
      /\ s.reported = jobs[j].reported
  BY <1>1 DEF Records
<1>4. /\ waits' = Append(waits, v) /\ jobs' = [jobs EXCEPT ![j] = s]
  BY DEF Wait
<1>. HIDE DEF v, s
<1>5. /\ waits' \in Seq(Waits) /\ DOMAIN waits' = DOMAIN waits \union {n}
      /\ n \notin DOMAIN waits /\ \A x \in DOMAIN waits : waits'[x] = waits[x]
      /\ waits'[n] = v
  BY <1>1, <1>2, <1>4, AppendOfSeq
<1>. HIDE DEF n
<1>6. \A x \in DOMAIN waits : Attended(x)
  BY <1>5 DEF Attended, Answers
<1>7. /\ s.deadline => s.status = "stopping"
      /\ s.status \in Terminal => Ended(j)
      /\ Ended(j) => s.status = jobs[j].status
  BY <1>3 DEF IInv, AllRegistered, Registered, Ended
<1>8. /\ Carried /\ StoredSame /\ DOMAIN jobs' = DOMAIN jobs
      /\ jobs'[j] = s /\ \A k \in DOMAIN jobs \ {j} : jobs'[k] = jobs[k]
  BY <1>3, <1>4, <1>5, <1>6, <1>7, MarkStep
<1>9. Waiting(j)' = Waiting(j) \union {n} /\ n \notin Waiting(j)
  BY <1>2, <1>5 DEF Waiting, Held
<1>10. \A k \in DOMAIN jobs \ {j} : Waiting(k)' = Waiting(k)
  BY <1>2, <1>5 DEF Waiting
<1>11. IsFiniteSet(Waiting(j))
  BY <1>1, FS_Subset DEF Waiting
<1>12. Cardinality(Waiting(j)') = Cardinality(Waiting(j)) + 1
  BY <1>9, <1>11, FS_AddElement
<1>13. jobs'[j].waiters = Cardinality(Waiting(j)')
  BY <1>1, <1>3, <1>8, <1>12 DEF Counting
<1>14. \A k \in DOMAIN jobs \ {j} : jobs'[k].waiters = Cardinality(Waiting(k)')
  BY <1>1, <1>8, <1>10 DEF Counting
<1>15. \A x \in DOMAIN waits' : waits'[x].job \in DOMAIN jobs'
  BY <1>1, <1>2, <1>5, <1>8 DEF Counting
<1>16. Counting'
  BY <1>8, <1>13, <1>14, <1>15 DEF Counting
<1>. QED
  BY <1>8, <1>16

------------------------------------------------------------------------------
(* A new job is running, unreported, and of the age of the registry.       *)
Fresh(j) ==
    /\ jobs'[j].status = "running" /\ ~jobs'[j].reported /\ jobs'[j].waiters = 0
    /\ ~jobs'[j].deadline /\ jobs'[j].stored /\ (jobs'[j].late <=> service # "live")
    /\ jobs'[j].owner # Nobody =>
          owner[jobs'[j].owner] = "live" /\ jobs'[j].owner \in cleanups'

(* What a started job adds: one more job, and only within the limit.       *)
Added(o) ==
    /\ Len(jobs') = Len(jobs) + 1 /\ DOMAIN jobs' = DOMAIN jobs \union {Len(jobs) + 1}
    /\ jobs'[Len(jobs) + 1].owner = o /\ activeTaskCount(o) < Limit

LEMMA StartStep ==
    ASSUME IInv, NEW o \in Owners \union {Nobody}, NEW runs \in BOOLEAN, Start(o, runs)
    PROVE  /\ Carried /\ Counting' /\ StoredSame
           /\ \A j \in DOMAIN jobs' \ DOMAIN jobs : Fresh(j)
           /\ \A j \in DOMAIN jobs : jobs'[j] = jobs[j]
           /\ DOMAIN jobs' = DOMAIN jobs \/ Added(o)
<1>1. /\ TypeOK /\ jobs \in Seq(Records) /\ Len(jobs) \in Nat /\ Len(jobs) < MaxJobs
      /\ DOMAIN jobs = 1..Len(jobs) /\ Counting /\ waits \in Seq(Waits)
      /\ Len(jobs) <= MaxJobs
  BY Known DEF IInv, TypeOK, Start
<1>2. /\ waits' = waits /\ cleanups' = cleanups \union ({o} \ {Nobody})
      /\ o # Nobody => owner[o] = "live"
  BY DEF Start
<1>3. CASE runs /\ activeTaskCount(o) < Limit
  <2>. DEFINE e == [owner |-> o, status |-> "running", reported |-> FALSE, waiters |-> 0,
                    deadline |-> FALSE, producing |-> TRUE, stored |-> TRUE,
                    late |-> service # "live", notices |-> 0, claimed |-> FALSE]
              n == Len(jobs) + 1
  <2>1. jobs' = Append(jobs, e)
    BY <1>3 DEF Start
  <2>2. /\ e \in Records /\ e.owner = o /\ e.status = "running" /\ ~e.reported
        /\ e.waiters = 0 /\ ~e.deadline /\ e.stored /\ (e.late <=> service # "live")
    BY DEF Records, Statuses
  <2>. HIDE DEF e
  <2>3. /\ jobs' \in Seq(Records) /\ Len(jobs') = Len(jobs) + 1
        /\ DOMAIN jobs' = DOMAIN jobs \union {n} /\ n \notin DOMAIN jobs
        /\ \A j \in DOMAIN jobs : jobs'[j] = jobs[j]
        /\ jobs'[n] = e
    BY <1>1, <2>1, <2>2, AppendOfSeq
  <2>4. Len(jobs') <= MaxJobs
    BY <1>1, <2>3, JobsAssumption
  <2>5. Carried /\ StoredSame
    BY <1>1, <1>2, <2>3, <2>4, Untouched, SameWaitsAttend DEF Carried, StoredSame
  <2>6. Fresh(n) /\ Added(o)
    BY <1>2, <1>3, <2>2, <2>3 DEF Fresh, Added
  <2>7. \A k : Waiting(k)' = Waiting(k)
    BY <1>2 DEF Waiting
  <2>8. Waiting(n) = {}
    BY <1>1, <2>3 DEF Waiting, Counting
  <2>9. Cardinality(Waiting(n)) = 0
    BY <2>8, FS_EmptySet
  <2>10. \A j \in DOMAIN jobs' : jobs'[j].waiters = Cardinality(Waiting(j)')
    BY <1>1, <2>2, <2>3, <2>7, <2>9 DEF Counting
  <2>11. \A w \in DOMAIN waits' : waits'[w].job \in DOMAIN jobs'
    BY <1>1, <1>2, <2>3 DEF Counting
  <2>. QED
    BY <2>3, <2>5, <2>6, <2>10, <2>11 DEF Counting
<1>4. CASE ~(runs /\ activeTaskCount(o) < Limit)
  <2>1. jobs' = jobs
    BY <1>4 DEF Start
  <2>2. Carried /\ StoredSame
    BY <1>1, <1>2, <2>1, Untouched, SameWaitsAttend DEF Carried, StoredSame
  <2>3. Counting'
    BY <1>1, <1>2, <2>1 DEF Counting, Waiting
  <2>. QED
    BY <2>1, <2>2, <2>3
<1>. QED
  BY <1>3, <1>4

------------------------------------------------------------------------------
(* Teardown: whoever tears a job down answers for it.                      *)

LEMMA CancelledNotices ==
    ASSUME NEW r \in Records, NEW throws \in BOOLEAN, r.notices > 0
    PROVE  Cancelled(r, throws).notices > 0
<1>. DEFINE t == [r EXCEPT !.reported = TRUE, !.claimed = TRUE]
<1>1. t \in Records /\ t.notices = r.notices
  BY DEF Records
<1>2. CASE r.status = "running" /\ throws
  <2>1. Cancelled(r, throws) = Settled(t, "failed")
    BY <1>2 DEF Cancelled
  <2>. HIDE DEF t
  <2>2. t.notices > 0 /\ t.notices \in Nat
    BY <1>1 DEF Records
  <2>3. Settled(t, "failed").notices > 0
    BY <1>1, <2>2 DEF Settled, Records
  <2>. QED
    BY <2>1, <2>3
<1>3. CASE ~(r.status = "running" /\ throws)
  <2>1. Cancelled(r, throws) = [t EXCEPT !.status = "stopping", !.deadline = TRUE]
    BY <1>3 DEF Cancelled, Armed
  <2>. HIDE DEF t
  <2>. QED
    BY <1>1, <2>1 DEF Records
<1>. QED
  BY <1>2, <1>3

LEMMA CancelStep ==
    ASSUME IInv, NEW set \in SUBSET DOMAIN jobs, NEW throwing \in SUBSET DOMAIN jobs,
           CancelForTeardown(set, throwing)
    PROVE  /\ Carried /\ Counting' /\ StoredSame /\ DOMAIN jobs' = DOMAIN jobs
           /\ \A j \in set : ~Ended(j) => jobs'[j].claimed
<1>1. /\ TypeOK /\ \A j \in DOMAIN jobs : jobs[j] \in Records
      /\ jobs \in Seq(Records) /\ Len(jobs) <= MaxJobs
  BY Known DEF IInv, TypeOK
<1>. DEFINE hit(j) == j \in set /\ ~Ended(j)
            gone == {j \in set \intersect throwing : jobs[j].status = "running"}
            e(j) == IF hit(j) THEN Cancelled(jobs[j], j \in throwing) ELSE jobs[j]
<1>2. jobs' = [j \in DOMAIN jobs |-> e(j)] /\ waits' = Released(gone)
  BY DEF CancelForTeardown
<1>3. ASSUME NEW j \in DOMAIN jobs, hit(j)
      PROVE  /\ Same(jobs[j], e(j)) /\ e(j).claimed
             /\ \/ e(j).status = "stopping"
                \/ e(j).status = "failed" /\ ~e(j).deadline
             /\ jobs[j].notices > 0 => e(j).notices > 0
  <2>1. e(j) = Cancelled(jobs[j], j \in throwing) /\ jobs[j] \in Records
    BY <1>1, <1>3
  <2>. DEFINE b == j \in throwing
  <2>2. b \in BOOLEAN
    OBVIOUS
  <2>3. e(j) = Cancelled(jobs[j], b)
    BY <2>1
  <2>. HIDE DEF b, e
  <2>. QED
    BY <2>1, <2>2, <2>3, CancelledRecord, CancelledNotices
<1>4. \A j \in DOMAIN jobs : ~hit(j) => e(j) = jobs[j]
  OBVIOUS
<1>5. \A j \in DOMAIN jobs : e(j) \in Records
  <2>. HIDE DEF e
  <2>. QED
    BY <1>1, <1>3, <1>4 DEF Same
<1>6. jobs' \in [DOMAIN jobs -> Records] /\ \A j \in DOMAIN jobs : jobs'[j] = e(j)
  <2>. HIDE DEF e
  <2>. QED
    BY <1>2, <1>5
<1>7. jobs' \in Seq(Records) /\ Len(jobs') = Len(jobs) /\ DOMAIN jobs' = DOMAIN jobs
  BY <1>1, <1>6, MapOfSeq
<1>8. /\ waits' \in Seq(Waits) /\ DOMAIN waits' = DOMAIN waits
      /\ \A w \in DOMAIN waits : Attended(w)
      /\ \A w \in DOMAIN waits :
            /\ waits'[w].job = waits[w].job
            /\ waits'[w].state \in Held <=> waits[w].state \in Held
  <2>. HIDE DEF gone
  <2>. QED
    BY <1>1, <1>2, ReleasedWaits, ReleaseAttends
<1>9. ASSUME NEW j \in DOMAIN jobs
      PROVE  /\ Moved(j) /\ jobs'[j].waiters = jobs[j].waiters
             /\ jobs'[j].stored = jobs[j].stored
             /\ hit(j) => jobs'[j].claimed
  <2>1. CASE hit(j)
    <3>1. jobs'[j] = e(j) /\ ~Ended(j)
      BY <1>6, <2>1
    <3>2. /\ Same(jobs[j], jobs'[j]) /\ jobs'[j].claimed
          /\ jobs'[j].deadline => jobs'[j].status = "stopping"
          /\ jobs[j].notices > 0 => jobs'[j].notices > 0
      <4>. HIDE DEF e, hit
      <4>. QED
        BY <1>3, <2>1, <3>1
    <3>. HIDE DEF e, hit
    <3>. QED
      BY <2>1, <3>1, <3>2 DEF Moved, Same, Informed
  <2>2. CASE ~hit(j)
    <3>1. jobs'[j] = jobs[j]
      BY <1>4, <1>6, <2>2
    <3>. HIDE DEF e, hit
    <3>. QED
      BY <2>2, <3>1, Untouched
  <2>. QED
    BY <2>1, <2>2
<1>10. Carried /\ StoredSame
  BY <1>1, <1>7, <1>8, <1>9 DEF Carried, StoredSame
<1>11. Counting'
  BY <1>7, <1>8, <1>9, CountsStand DEF IInv
<1>. QED
  BY <1>7, <1>9, <1>10, <1>11

(* Dropping jobs from the store changes nothing else of them.              *)
LEMMA DropStep ==
    ASSUME IInv, NEW set \in SUBSET DOMAIN jobs, waits' = waits,
           jobs' = [j \in DOMAIN jobs |->
                      IF j \in set THEN [jobs[j] EXCEPT !.stored = FALSE] ELSE jobs[j]]
    PROVE  /\ Carried /\ Counting' /\ DOMAIN jobs' = DOMAIN jobs
           /\ \A j \in DOMAIN jobs :
                /\ jobs'[j].status = jobs[j].status /\ jobs'[j].late = jobs[j].late
                /\ jobs'[j].reported = jobs[j].reported /\ jobs'[j].claimed = jobs[j].claimed
                /\ jobs'[j].deadline = jobs[j].deadline /\ jobs'[j].owner = jobs[j].owner
                /\ j \notin set => jobs'[j] = jobs[j]
<1>1. /\ TypeOK /\ \A j \in DOMAIN jobs : jobs[j] \in Records
      /\ jobs \in Seq(Records) /\ Len(jobs) <= MaxJobs /\ waits \in Seq(Waits)
  BY Known DEF IInv, TypeOK
<1>2. ASSUME NEW j \in DOMAIN jobs
      PROVE  /\ jobs'[j] \in Records
             /\ jobs'[j].status = jobs[j].status /\ jobs'[j].late = jobs[j].late
             /\ jobs'[j].reported = jobs[j].reported /\ jobs'[j].claimed = jobs[j].claimed
             /\ jobs'[j].deadline = jobs[j].deadline /\ jobs'[j].owner = jobs[j].owner
             /\ jobs'[j].waiters = jobs[j].waiters /\ jobs'[j].notices = jobs[j].notices
             /\ j \notin set => jobs'[j] = jobs[j]
  <2>1. CASE j \in set
    <3>1. jobs'[j] = [jobs[j] EXCEPT !.stored = FALSE] /\ jobs[j] \in Records
      BY <1>1, <2>1
    <3>. QED
      BY <2>1, <3>1 DEF Records
  <2>2. CASE j \notin set
    <3>1. jobs'[j] = jobs[j]
      BY <2>2
    <3>. QED
      BY <1>1, <3>1
  <2>. QED
    BY <2>1, <2>2
<1>3. jobs' \in [DOMAIN jobs -> Records]
  BY <1>2
<1>4. jobs' \in Seq(Records) /\ Len(jobs') = Len(jobs) /\ DOMAIN jobs' = DOMAIN jobs
  BY <1>1, <1>3, MapOfSeq
<1>5. \A j \in DOMAIN jobs : Moved(j)
  BY <1>2, <1>4 DEF Moved, Ended, IInv, AllRegistered, Registered
<1>6. Carried
  BY <1>1, <1>4, <1>5, SameWaitsAttend DEF Carried
<1>7. Counting'
  BY <1>2, <1>4, CountsStand DEF IInv
<1>. QED
  BY <1>2, <1>4, <1>6, <1>7

------------------------------------------------------------------------------
(* What the registry knows survives every step.                            *)

LEMMA KnownOfMoved ==
    ASSUME IInv, NEW j \in DOMAIN jobs, Moved(j), ~Ended(j)'
    PROVE  /\ ~Ended(j)
           /\ jobs'[j].reported => jobs'[j].claimed
           /\ service # "live" => jobs'[j].claimed \/ jobs'[j].late
<1>1. ~Ended(j)
  BY DEF Moved, Ended
<1>. QED
  BY <1>1 DEF Moved, IInv, AllRegistered, Registered

(* A step that is no teardown.                                             *)
LEMMA OrdinaryStep ==
    ASSUME IInv, Carried, Counting', StoredSame, cleanups \subseteq cleanups',
           cleanups' \subseteq Owners,
           owner' = owner, owned' = owned, service' = service, all' = all,
           \A j \in DOMAIN jobs' \ DOMAIN jobs : Fresh(j)
    PROVE  IInv'
<1>1. TypeOK'
  BY DEF IInv, Carried, TypeOK
<1>2. ASSUME NEW j \in DOMAIN jobs
      PROVE  Registered(j)'
  <2>1. Moved(j) /\ Registered(j) /\ jobs'[j].stored = jobs[j].stored
    BY DEF IInv, Carried, AllRegistered, StoredSame
  <2>2. ASSUME ~Ended(j)', ~jobs'[j].late
        PROVE  Found(j)'
    <3>1. Found(j)
      BY <2>1, <2>2, KnownOfMoved DEF Registered, Moved
    <3>. QED
      BY <2>1, <3>1 DEF Found, Moved
  <2>. QED
    BY <2>1, <2>2, KnownOfMoved DEF Registered, Moved
<1>3. ASSUME NEW j \in DOMAIN jobs' \ DOMAIN jobs
      PROVE  Registered(j)'
  <2>1. Fresh(j)
    OBVIOUS
  <2>. QED
    BY <2>1 DEF Fresh, Registered, Found, Ended
<1>4. AllRegistered'
  BY <1>2, <1>3 DEF AllRegistered
<1>. QED
  BY <1>1, <1>4 DEF IInv

LEMMA DisposeOwnerStep ==
    ASSUME IInv, NEW o \in Owners, NEW throwing \in SUBSET DOMAIN jobs,
           DisposeOwner(o, throwing)
    PROVE  IInv' /\ Carried /\ DOMAIN jobs' = DOMAIN jobs
<1>. DEFINE mine == IF o \in cleanups THEN {j \in Stored : jobs[j].owner = o} ELSE {}
<1>1. /\ owner[o] = "live" /\ owner' = [owner EXCEPT ![o] = "disposing"]
      /\ owned' = [owned EXCEPT ![o] = mine] /\ CancelForTeardown(mine, throwing)
      /\ cleanups' = cleanups \ {o} /\ service' = service /\ all' = all
  BY DEF DisposeOwner
<1>2. mine \in SUBSET DOMAIN jobs
  BY DEF Stored
<1>3. /\ Carried /\ Counting' /\ StoredSame /\ DOMAIN jobs' = DOMAIN jobs
      /\ \A j \in mine : ~Ended(j) => jobs'[j].claimed
  <2>. HIDE DEF mine
  <2>. QED
    BY <1>1, <1>2, CancelStep
<1>4. /\ owner \in [Owners -> Lives] /\ owned \in [Owners -> SUBSET DOMAIN jobs]
      /\ cleanups \subseteq Owners
  BY DEF IInv, TypeOK
<1>5. TypeOK'
  <2>1. owner' \in [Owners -> Lives] /\ owned' \in [Owners -> SUBSET DOMAIN jobs']
    <3>. HIDE DEF mine
    <3>. QED
      BY <1>1, <1>2, <1>3, <1>4 DEF Lives
  <2>2. cleanups' \subseteq Owners
    BY <1>1, <1>4
  <2>. QED
    BY <1>1, <1>3, <2>1, <2>2 DEF IInv, TypeOK, Carried
<1>6. ASSUME NEW j \in DOMAIN jobs
      PROVE  Registered(j)'
  <2>1. Moved(j) /\ Registered(j) /\ jobs'[j].stored = jobs[j].stored
    BY <1>3 DEF IInv, Carried, AllRegistered, StoredSame
  <2>2. ASSUME ~Ended(j)', ~jobs'[j].late
        PROVE  Found(j)'
    <3>1. Found(j) /\ jobs'[j].owner = jobs[j].owner
      BY <2>1, <2>2, KnownOfMoved DEF Registered, Moved
    <3>2. jobs[j].owner = o => j \in mine
      BY <1>1, <3>1, JobsAssumption DEF Found, Stored
    <3>3. jobs[j] \in Records
      BY Known DEF IInv
    <3>4. CASE jobs[j].owner = o
      <4>1. owner'[o] = "disposing" /\ j \in owned'[o]
        <5>. HIDE DEF mine
        <5>. QED
          BY <1>1, <1>4, <3>2, <3>4
      <4>. HIDE DEF mine
      <4>. QED
        BY <1>1, <2>1, <3>1, <3>4, <4>1 DEF Found
    <3>5. CASE jobs[j].owner # o
      <4>1. jobs[j].owner # Nobody => /\ owner'[jobs[j].owner] = owner[jobs[j].owner]
                                      /\ owned'[jobs[j].owner] = owned[jobs[j].owner]
        <5>. HIDE DEF mine
        <5>. QED
          BY <1>1, <1>4, <3>3, <3>5 DEF Records
      <4>. HIDE DEF mine
      <4>. QED
        BY <1>1, <2>1, <3>1, <3>5, <4>1 DEF Found
    <3>. QED
      BY <3>4, <3>5
  <2>. QED
    BY <1>1, <2>1, <2>2, KnownOfMoved DEF Registered, Moved
<1>. QED
  BY <1>3, <1>5, <1>6 DEF IInv, AllRegistered

LEMMA OwnerDisposedStep ==
    ASSUME IInv, NEW o \in Owners, OwnerDisposed(o)
    PROVE  IInv' /\ Carried /\ DOMAIN jobs' = DOMAIN jobs
<1>1. /\ owner[o] = "disposing" /\ \A j \in owned[o] : Ended(j)
      /\ owner' = [owner EXCEPT ![o] = "gone"]
      /\ jobs' = [j \in DOMAIN jobs |->
                    IF j \in owned[o] THEN [jobs[j] EXCEPT !.stored = FALSE] ELSE jobs[j]]
      /\ waits' = waits /\ cleanups' = cleanups /\ owned' = owned
      /\ service' = service /\ all' = all
  BY DEF OwnerDisposed, AllSettled
<1>2. /\ owner \in [Owners -> Lives] /\ owned \in [Owners -> SUBSET DOMAIN jobs]
  BY DEF IInv, TypeOK
<1>3. owned[o] \in SUBSET DOMAIN jobs
  BY <1>2
<1>4. /\ Carried /\ Counting' /\ DOMAIN jobs' = DOMAIN jobs
      /\ \A j \in DOMAIN jobs :
           /\ jobs'[j].status = jobs[j].status /\ jobs'[j].late = jobs[j].late
           /\ jobs'[j].reported = jobs[j].reported /\ jobs'[j].claimed = jobs[j].claimed
           /\ jobs'[j].deadline = jobs[j].deadline /\ jobs'[j].owner = jobs[j].owner
           /\ j \notin owned[o] => jobs'[j] = jobs[j]
  BY <1>1, <1>3, DropStep
<1>5. TypeOK'
  <2>1. owner' \in [Owners -> Lives]
    BY <1>1, <1>2 DEF Lives
  <2>. QED
    BY <1>1, <1>4, <2>1 DEF IInv, TypeOK, Carried
<1>6. ASSUME NEW j \in DOMAIN jobs
      PROVE  Registered(j)'
  <2>1. Moved(j) /\ Registered(j) /\ (Ended(j)' <=> Ended(j))
    BY <1>4 DEF IInv, Carried, AllRegistered, Ended
  <2>2. ASSUME ~Ended(j)', ~jobs'[j].late
        PROVE  Found(j)'
    <3>1. Found(j) /\ j \notin owned[o]
      BY <1>1, <1>4, <2>1, <2>2 DEF Registered
    <3>2. jobs'[j] = jobs[j] /\ jobs[j].owner # o /\ jobs[j] \in Records
      BY <1>1, <1>4, <3>1, Known, JobsAssumption DEF Found, IInv
    <3>3. jobs[j].owner # Nobody => owner'[jobs[j].owner] = owner[jobs[j].owner]
      BY <1>1, <1>2, <3>2 DEF Records
    <3>. QED
      BY <1>1, <3>1, <3>2, <3>3 DEF Found
  <2>. QED
    BY <1>1, <2>1, <2>2, KnownOfMoved DEF Registered, Moved
<1>. QED
  BY <1>4, <1>5, <1>6 DEF IInv, AllRegistered

LEMMA DisposeServiceStep ==
    ASSUME IInv, NEW throwing \in SUBSET DOMAIN jobs, DisposeService(throwing)
    PROVE  IInv' /\ Carried /\ DOMAIN jobs' = DOMAIN jobs
<1>1. /\ service = "live" /\ service' = "disposing" /\ all' = Stored
      /\ CancelForTeardown(Stored, throwing)
      /\ cleanups' = cleanups /\ owner' = owner /\ owned' = owned
  BY DEF DisposeService
<1>2. Stored \in SUBSET DOMAIN jobs
  BY DEF Stored
<1>3. /\ Carried /\ Counting' /\ StoredSame /\ DOMAIN jobs' = DOMAIN jobs
      /\ \A j \in Stored : ~Ended(j) => jobs'[j].claimed
  BY <1>1, <1>2, CancelStep
<1>4. TypeOK'
  BY <1>1, <1>2, <1>3 DEF IInv, TypeOK, Carried, Lives
<1>5. ASSUME NEW j \in DOMAIN jobs
      PROVE  Registered(j)'
  <2>1. Moved(j) /\ Registered(j) /\ jobs'[j].stored = jobs[j].stored
    BY <1>3 DEF IInv, Carried, AllRegistered, StoredSame
  <2>2. ASSUME ~Ended(j)'
        PROVE  Found(j)' /\ jobs'[j].claimed
    <3>1. Found(j) /\ ~Ended(j)
      BY <1>1, <2>1, <2>2, KnownOfMoved DEF Registered
    <3>2. j \in Stored
      BY <3>1 DEF Found, Stored
    <3>. QED
      BY <1>1, <1>3, <2>1, <3>1, <3>2 DEF Found, Moved
  <2>. QED
    BY <1>1, <2>1, <2>2, KnownOfMoved DEF Registered, Moved
<1>. QED
  BY <1>3, <1>4, <1>5 DEF IInv, AllRegistered

LEMMA ServiceDisposedStep ==
    ASSUME IInv, ServiceDisposed
    PROVE  IInv' /\ Carried /\ DOMAIN jobs' = DOMAIN jobs
<1>1. /\ service = "disposing" /\ service' = "gone" /\ \A j \in all : Ended(j)
      /\ jobs' = [j \in DOMAIN jobs |-> [jobs[j] EXCEPT !.stored = FALSE]]
      /\ cleanups' = {} /\ waits' = waits /\ owner' = owner /\ owned' = owned /\ all' = all
  BY DEF ServiceDisposed, AllSettled
<1>2. jobs' = [j \in DOMAIN jobs |->
                 IF j \in DOMAIN jobs THEN [jobs[j] EXCEPT !.stored = FALSE] ELSE jobs[j]]
  BY <1>1
<1>3. /\ Carried /\ Counting' /\ DOMAIN jobs' = DOMAIN jobs
      /\ \A j \in DOMAIN jobs :
           /\ jobs'[j].status = jobs[j].status /\ jobs'[j].late = jobs[j].late
           /\ jobs'[j].reported = jobs[j].reported /\ jobs'[j].claimed = jobs[j].claimed
           /\ jobs'[j].deadline = jobs[j].deadline /\ jobs'[j].owner = jobs[j].owner
  BY <1>1, <1>2, DropStep
<1>4. TypeOK'
  BY <1>1, <1>3 DEF IInv, TypeOK, Carried, Lives
<1>5. ASSUME NEW j \in DOMAIN jobs
      PROVE  Registered(j)'
  <2>1. Registered(j) /\ (Ended(j)' <=> Ended(j))
    BY <1>3 DEF IInv, AllRegistered, Ended
  <2>2. ~Ended(j)' => jobs'[j].late
    BY <1>1, <1>3, <2>1 DEF Registered, Found
  <2>. QED
    BY <1>1, <1>3, <2>1, <2>2 DEF Registered
<1>. QED
  BY <1>3, <1>4, <1>5 DEF IInv, AllRegistered

------------------------------------------------------------------------------
(* One step.                                                               *)

Growth ==
    \/ DOMAIN jobs' = DOMAIN jobs
    \/ /\ \E o \in Owners \union {Nobody} : Added(o)
       /\ \A j \in DOMAIN jobs : jobs'[j] = jobs[j]

LEMMA InitIInv == Init => IInv
<1>. SUFFICES ASSUME Init PROVE IInv
  OBVIOUS
<1>1. TypeOK
  BY JobsAssumption DEF Init, TypeOK, Lives
<1>. QED
  BY <1>1 DEF Init, IInv, Counting, AllRegistered

LEMMA NextStep ==
    ASSUME IInv, Next
    PROVE  /\ IInv' /\ Carried /\ Growth
           /\ \A j \in DOMAIN jobs' \ DOMAIN jobs : ~Ended(j)'
           /\ service' = "live" => service = "live"
<1>1. CASE \E o \in Owners \union {Nobody}, runs \in BOOLEAN : Start(o, runs)
  <2>1. PICK o \in Owners \union {Nobody}, runs \in BOOLEAN : Start(o, runs)
    BY <1>1
  <2>2. /\ Carried /\ Counting' /\ StoredSame
        /\ \A j \in DOMAIN jobs' \ DOMAIN jobs : Fresh(j)
        /\ \A j \in DOMAIN jobs : jobs'[j] = jobs[j]
        /\ DOMAIN jobs' = DOMAIN jobs \/ Added(o)
    BY <2>1, StartStep
  <2>3. /\ cleanups' = cleanups \union ({o} \ {Nobody}) /\ service' = service
        /\ owner' = owner /\ owned' = owned /\ all' = all
    BY <2>1 DEF Start
  <2>4. cleanups \subseteq cleanups' /\ cleanups' \subseteq Owners
    BY <2>3 DEF IInv, TypeOK
  <2>5. IInv'
    BY <2>2, <2>3, <2>4, OrdinaryStep
  <2>6. \A j \in DOMAIN jobs' \ DOMAIN jobs : ~Ended(j)'
    BY <2>2 DEF Fresh, Ended, Terminal
  <2>. QED
    BY <2>2, <2>3, <2>5, <2>6 DEF Growth
<1>2. CASE \E j \in DOMAIN jobs :
              \/ \E status \in Terminal : Produce(j, status)
              \/ Expire(j) \/ Read(j) \/ Kill(j) \/ Wait(j)
  <2>1. PICK j \in DOMAIN jobs :
              \/ \E status \in Terminal : Produce(j, status)
              \/ Expire(j) \/ Read(j) \/ Kill(j) \/ Wait(j)
    BY <1>2
  <2>2. Carried /\ Counting' /\ StoredSame /\ DOMAIN jobs' = DOMAIN jobs
    BY <2>1, ProduceStep, ExpireStep, ReadStep, KillStep, WaitStep
  <2>3. /\ cleanups' = cleanups /\ service' = service
        /\ owner' = owner /\ owned' = owned /\ all' = all
    BY <2>1 DEF Produce, Expire, Read, Kill, Wait
  <2>4. IInv'
    BY <2>2, <2>3, OrdinaryStep DEF IInv, TypeOK
  <2>. QED
    BY <2>2, <2>3, <2>4 DEF Growth
<1>3. CASE \E w \in DOMAIN waits : AbortWait(w) \/ ExpireWait(w) \/ FinishWait(w)
  <2>1. PICK w \in DOMAIN waits : AbortWait(w) \/ ExpireWait(w) \/ FinishWait(w)
    BY <1>3
  <2>2. Carried /\ Counting' /\ StoredSame /\ DOMAIN jobs' = DOMAIN jobs
    BY <2>1, AbortWaitStep, ExpireWaitStep, FinishWaitStep
  <2>3. /\ cleanups' = cleanups /\ service' = service
        /\ owner' = owner /\ owned' = owned /\ all' = all
    BY <2>1 DEF AbortWait, ExpireWait, FinishWait
  <2>4. IInv'
    BY <2>2, <2>3, OrdinaryStep DEF IInv, TypeOK
  <2>. QED
    BY <2>2, <2>3, <2>4 DEF Growth
<1>4. CASE Teardown
  <2>1. IInv' /\ Carried /\ DOMAIN jobs' = DOMAIN jobs
    BY <1>4, DisposeOwnerStep, OwnerDisposedStep, DisposeServiceStep, ServiceDisposedStep
       DEF Teardown
  <2>2. service' = "live" => service = "live"
    BY <1>4 DEF Teardown, DisposeOwner, OwnerDisposed, DisposeService, ServiceDisposed
  <2>. QED
    BY <2>1, <2>2 DEF Growth
<1>. QED
  BY <1>1, <1>2, <1>3, <1>4 DEF Next

LEMMA StutterStep ==
    ASSUME IInv, UNCHANGED vars
    PROVE  IInv'
BY DEF vars, IInv, TypeOK, Counting, Waiting, AllRegistered, Registered, Found, Ended

THEOREM IInvHolds == Spec => []IInv
<1>1. Init => IInv
  BY InitIInv
<1>2. IInv /\ [Next]_vars => IInv'
  BY NextStep, StutterStep
<1>. QED
  BY <1>1, <1>2, PTL DEF Spec

------------------------------------------------------------------------------
(* Capacity.                                                               *)

Unfinished(o) == {j \in DOMAIN jobs : jobs[j].owner = o /\ ~Ended(j)}

(* On a live registry the count that start compares with the limit is the  *)
(* number of all the unfinished jobs of the bucket.                        *)
LEMMA CountIsComplete ==
    ASSUME IInv, service = "live", NEW o
    PROVE  activeTaskCount(o) = Cardinality(Unfinished(o))
<1>1. ASSUME NEW j \in DOMAIN jobs
      PROVE  ~Ended(j) <=> jobs[j].stored /\ jobs[j].status \in Active
  <2>1. jobs[j] \in Records /\ Registered(j)
    BY Known DEF IInv, AllRegistered
  <2>2. ~Ended(j) => jobs[j].stored
    BY <2>1 DEF Registered, Found
  <2>3. ~Ended(j) <=> jobs[j].status \in Active
    BY <2>1 DEF Records, Statuses, Terminal, Active, Ended
  <2>. QED
    BY <2>2, <2>3
<1>2. {j \in Stored : jobs[j].owner = o /\ jobs[j].status \in Active} = Unfinished(o)
  BY <1>1 DEF Stored, Unfinished
<1>. QED
  BY <1>2 DEF activeTaskCount

LEMMA CapacityStep ==
    ASSUME IInv, CapacityHolds, Next
    PROVE  CapacityHolds'
<1>. SUFFICES ASSUME service' = "live", NEW o \in Owners \union {Nobody}
              PROVE  Cardinality(Unfinished(o)') <= Limit
  BY DEF CapacityHolds, Unfinished
<1>1. /\ IInv' /\ Carried /\ Growth /\ service = "live"
      /\ \A j \in DOMAIN jobs' \ DOMAIN jobs : ~Ended(j)'
  BY NextStep
<1>2. /\ IsFiniteSet(DOMAIN jobs) /\ Len(jobs) \in Nat /\ DOMAIN jobs = 1..Len(jobs)
      /\ Limit \in Nat
  BY Known, JobsAssumption DEF IInv
<1>3. IsFiniteSet(Unfinished(o)) /\ Cardinality(Unfinished(o)) \in Nat
  BY <1>2, FS_Subset, FS_CardinalityType DEF Unfinished
<1>4. Cardinality(Unfinished(o)) <= Limit
  BY <1>1 DEF CapacityHolds, Unfinished
<1>5. \A j \in DOMAIN jobs : j \in Unfinished(o)' => j \in Unfinished(o)
  BY <1>1 DEF Unfinished, Carried, Moved, Ended
<1>6. CASE \A j \in DOMAIN jobs' \ DOMAIN jobs : jobs'[j].owner # o
  <2>1. Unfinished(o)' \subseteq Unfinished(o)
    BY <1>5, <1>6 DEF Unfinished
  <2>2. /\ IsFiniteSet(Unfinished(o)')
        /\ Cardinality(Unfinished(o)') <= Cardinality(Unfinished(o))
    BY <1>3, <2>1, FS_Subset
  <2>3. Cardinality(Unfinished(o)') \in Nat
    BY <2>2, FS_CardinalityType
  <2>. QED
    BY <1>2, <1>3, <1>4, <2>2, <2>3
<1>7. CASE \E j \in DOMAIN jobs' \ DOMAIN jobs : jobs'[j].owner = o
  <2>. DEFINE n == Len(jobs) + 1
  <2>1. Added(o)
    BY <1>1, <1>7 DEF Growth, Added
  <2>2. DOMAIN jobs' = DOMAIN jobs \union {n} /\ n \notin DOMAIN jobs
    BY <1>2, <2>1 DEF Added
  <2>3. n \notin Unfinished(o)
    BY <2>2 DEF Unfinished
  <2>4. Unfinished(o)' \subseteq Unfinished(o) \union {n}
    BY <1>5, <2>2 DEF Unfinished
  <2>5. /\ IsFiniteSet(Unfinished(o) \union {n})
        /\ Cardinality(Unfinished(o) \union {n}) = Cardinality(Unfinished(o)) + 1
    BY <1>3, <2>3, FS_AddElement
  <2>6. /\ IsFiniteSet(Unfinished(o)')
        /\ Cardinality(Unfinished(o)') <= Cardinality(Unfinished(o)) + 1
    BY <2>4, <2>5, FS_Subset
  <2>7. Cardinality(Unfinished(o)') \in Nat
    BY <2>6, FS_CardinalityType
  <2>8. Cardinality(Unfinished(o)) < Limit
    BY <1>1, <2>1, CountIsComplete DEF Added
  <2>. QED
    BY <1>2, <1>3, <2>6, <2>7, <2>8
<1>. QED
  BY <1>6, <1>7

(* The registry keeps its types, and while it lives no owner ever has more *)
(* unfinished jobs than the limit, however starts, kills that have not yet *)
(* stopped anything, and teardowns interleave.                             *)
THEOREM RegistryHolds == Spec => []RegistryOK
<1>1. Init => IInv /\ CapacityHolds
  <2>. SUFFICES ASSUME Init PROVE IInv /\ CapacityHolds
    OBVIOUS
  <2>1. \A o : Unfinished(o) = {}
    BY DEF Init, Unfinished
  <2>2. CapacityHolds
    BY <2>1, FS_EmptySet, JobsAssumption DEF CapacityHolds, Unfinished
  <2>. QED
    BY <2>2, InitIInv
<1>2. (IInv /\ CapacityHolds) /\ [Next]_vars => (IInv /\ CapacityHolds)'
  <2>1. ASSUME IInv, CapacityHolds, Next PROVE (IInv /\ CapacityHolds)'
    BY <2>1, NextStep, CapacityStep
  <2>2. ASSUME IInv, CapacityHolds, UNCHANGED vars PROVE (IInv /\ CapacityHolds)'
    <3>1. CapacityHolds'
      BY <2>2 DEF vars, CapacityHolds, Ended
    <3>. QED
      BY <2>2, <3>1, StutterStep
  <2>. QED
    BY <2>1, <2>2
<1>3. IInv /\ CapacityHolds => RegistryOK
  BY DEF IInv, RegistryOK
<1>. QED
  BY <1>1, <1>2, <1>3, PTL DEF Spec

------------------------------------------------------------------------------
(* Outcomes and notices.                                                   *)

(* Once a job has an outcome no step changes it, and no step announces it  *)
(* again: not a producer that answers after its cancellation was forced,   *)
(* not a kill, a wait or a teardown.                                       *)
THEOREM FirstOutcomeStands == Spec => OutcomeIsFinal
<1>. DEFINE Final == \A j \in DOMAIN jobs : Ended(j) =>
                        /\ jobs'[j].status = jobs[j].status
                        /\ jobs'[j].notices = jobs[j].notices
<1>1. IInv /\ [Next]_vars => [Final]_vars
  <2>1. ASSUME IInv, Next PROVE Final
    BY <2>1, NextStep DEF Carried, Moved
  <2>. QED
    BY <2>1
<1>. HIDE DEF Final
<1>2. Spec => [][Final]_vars
  BY <1>1, IInvHolds, PTL DEF Spec
<1>. QED
  BY <1>2 DEF OutcomeIsFinal, Final

LEMMA CompletionStep ==
    ASSUME IInv, CompletionReachesSomeone, Next
    PROVE  CompletionReachesSomeone'
<1>1. IInv' /\ Carried /\ \A j \in DOMAIN jobs' \ DOMAIN jobs : ~Ended(j)'
  BY NextStep
<1>2. ASSUME NEW j \in DOMAIN jobs', Ended(j)', jobs'[j].owner # Nobody, ~jobs'[j].late
      PROVE  \/ jobs'[j].notices > 0
             \/ jobs'[j].claimed
             \/ \E w \in DOMAIN waits' : waits'[w].job = j /\ Answers(w)'
  <2>1. j \in DOMAIN jobs /\ Moved(j) /\ Registered(j)
    BY <1>1, <1>2 DEF Carried, IInv, AllRegistered
  <2>2. jobs[j].owner # Nobody /\ ~jobs[j].late
    BY <1>2, <2>1 DEF Moved
  <2>3. \A w \in DOMAIN waits : Attended(w)
    BY <1>1 DEF Carried
  <2>4. CASE Ended(j)
    <3>1. \/ jobs[j].notices > 0 \/ jobs[j].claimed
          \/ \E w \in DOMAIN waits : waits[w].job = j /\ Answers(w)
      BY <2>1, <2>2, <2>4 DEF CompletionReachesSomeone
    <3>2. CASE \E w \in DOMAIN waits : waits[w].job = j /\ Answers(w)
      <4>1. PICK w \in DOMAIN waits : waits[w].job = j /\ Answers(w)
        BY <3>2
      <4>2. w \in DOMAIN waits' /\ waits'[w].job = j /\ Answers(w)'
        BY <2>3, <2>4, <4>1 DEF Attended
      <4>. QED
        BY <4>2
    <3>. QED
      BY <2>1, <3>1, <3>2 DEF Moved
  <2>5. CASE ~Ended(j)
    <3>1. Informed(j)
      BY <1>2, <2>1, <2>5 DEF Moved
    <3>2. service # "live" => jobs[j].claimed
      BY <2>1, <2>2, <2>5 DEF Registered
    <3>3. jobs[j].reported => jobs[j].claimed
      BY <2>1, <2>5 DEF Registered
    <3>4. jobs[j].claimed => jobs'[j].claimed
      BY <2>1 DEF Moved
    <3>5. CASE jobs[j].waiters > 0 /\ \A w \in Waiting(j) : w \in DOMAIN waits' /\ Answers(w)'
      <4>1. Waiting(j) # {}
        <5>1. Cardinality(Waiting(j)) > 0
          BY <2>1, <3>5 DEF IInv, Counting
        <5>2. Cardinality({}) = 0
          BY FS_EmptySet
        <5>. QED
          BY <5>1, <5>2
      <4>2. PICK w \in Waiting(j) : w \in DOMAIN waits' /\ Answers(w)'
        BY <3>5, <4>1
      <4>3. w \in DOMAIN waits /\ waits[w].job = j
        BY <4>2 DEF Waiting
      <4>4. waits'[w].job = j
        BY <2>3, <4>3 DEF Attended
      <4>. QED
        BY <4>2, <4>4
    <3>. QED
      BY <2>2, <3>1, <3>2, <3>3, <3>4, <3>5 DEF Informed
  <2>. QED
    BY <2>4, <2>5
<1>. QED
  BY <1>2 DEF CompletionReachesSomeone

(* No completion of an owned job is lost: whatever waits, aborts, timeouts,*)
(* kills and teardowns race the settlement, its owner is sent a notice or  *)
(* somebody answers for it.                                                *)
THEOREM NoCompletionIsLost == Spec => []CompletionReachesSomeone
<1>1. Init => CompletionReachesSomeone
  BY DEF Init, CompletionReachesSomeone
<1>2. IInv /\ CompletionReachesSomeone /\ [Next]_vars => CompletionReachesSomeone'
  <2>1. ASSUME CompletionReachesSomeone, UNCHANGED vars PROVE CompletionReachesSomeone'
    BY <2>1 DEF vars, CompletionReachesSomeone, Answers, Ended
  <2>. QED
    BY <2>1, CompletionStep
<1>. QED
  BY <1>1, <1>2, IInvHolds, PTL DEF Spec

(* When an agent is gone none of its jobs is still running, except those   *)
(* started on a registry that was already being disposed.                  *)
THEOREM DisposedOwnersAreQuiet == Spec => []OwnerDisposalQuiet
<1>1. IInv => OwnerDisposalQuiet
  <2>. SUFFICES ASSUME IInv, NEW o \in Owners, owner[o] = "gone",
                       NEW j \in DOMAIN jobs, jobs[j].owner = o, ~Ended(j), ~jobs[j].late
                PROVE  FALSE
    BY DEF OwnerDisposalQuiet
  <2>1. Found(j)
    BY DEF IInv, AllRegistered, Registered
  <2>. QED
    BY <2>1, JobsAssumption DEF Found
<1>. QED
  BY <1>1, IInvHolds, PTL
==============================================================================
