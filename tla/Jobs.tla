--------------------------------- MODULE Jobs ---------------------------------
(***************************************************************************)
(* The background-job registry (packages/jobs/jobs-local/src/index.ts) and *)
(* the completion notice of packages/jobs/tool-jobs/src/index.ts.          *)
(*                                                                         *)
(* A producer runs a job and settles it when it likes, or never.  Callers  *)
(* start, read, kill and wait for jobs; an agent that owns jobs, or the    *)
(* service itself, may be disposed at any await.  Each method runs to its  *)
(* first await without interruption.                                       *)
(***************************************************************************)
EXTENDS Integers, Sequences, FiniteSets

CONSTANTS
    Owners,     \* agents that start jobs
    Nobody,     \* the owner of unowned jobs
    Limit,      \* config.maxConcurrentJobsPerOwner
    MaxJobs,    \* bound: jobs ever started
    MaxWaits    \* bound: wait() calls on live jobs

ASSUME JobsAssumption ==
    /\ Nobody \notin Owners
    /\ Limit \in Nat \ {0} /\ MaxJobs \in Nat /\ MaxWaits \in Nat

VARIABLES
    jobs,       \* jobs[j]: the record of the j-th job
    waits,      \* waits[w]: the w-th wait() that had to wait
    cleanups,   \* ownerCleanups: owners with an attached cleanup effect
    owner,      \* lifecycle of each agent
    owned,      \* owned[o]: the jobs its disposeOwned awaits
    service,    \* lifecycle of the registry
    all         \* the jobs its disposeAll awaits

vars == <<jobs, waits, cleanups, owner, owned, service, all>>

JobIds == 1..MaxJobs
Terminal == {"completed", "failed"}      \* a producer's "killed" is as "completed"
Statuses == {"running", "stopping"} \union Terminal
Lives == {"live", "disposing", "gone"}

(* late, notices and claimed are kept for the properties: started after    *)
(* the service began to be disposed; completion notices sent; a killer, a  *)
(* reader or a teardown knows of the completion.                           *)
Records ==
    [owner : Owners \union {Nobody}, status : Statuses, reported : BOOLEAN,
     waiters : Nat, deadline : BOOLEAN, producing : BOOLEAN, stored : BOOLEAN,
     late : BOOLEAN, notices : Nat, claimed : BOOLEAN]

Waits ==
    [job : JobIds,
     state : {"pending", "released", "expired", "rejected", "returned", "answered"}]

TypeOK ==
    /\ jobs \in Seq(Records) /\ Len(jobs) <= MaxJobs
    /\ waits \in Seq(Waits)
    /\ cleanups \subseteq Owners
    /\ owner \in [Owners -> Lives]
    /\ owned \in [Owners -> SUBSET DOMAIN jobs]
    /\ service \in Lives
    /\ all \subseteq DOMAIN jobs

Init ==
    /\ jobs = <<>> /\ waits = <<>>
    /\ cleanups = {}
    /\ owner = [o \in Owners |-> "live"]
    /\ owned = [o \in Owners |-> {}]
    /\ service = "live"
    /\ all = {}

------------------------------------------------------------------------------

Ended(j) == jobs[j].status \in Terminal
Stored == {j \in DOMAIN jobs : jobs[j].stored}

RunningOnly == {"running"}                 \* mutant: a stopping job holds no place
Active == {"running", "stopping"}
activeTaskCount(o) ==
    Cardinality({j \in Stored : jobs[j].owner = o /\ jobs[j].status \in Active})

(* armCancellationDeadline                                                 *)
NotArmed == FALSE                          \* mutant: nothing bounds the cancellation
Armed == TRUE

(* settle: the record after its first effective outcome, and the waits it  *)
(* releases.  The completion is announced last, and tool-jobs sends the    *)
(* owner a notice unless somebody else already answers for it.             *)
Announces(record) ==
    service = "live" /\ ~record.reported /\ record.owner # Nobody

Settled(record, status) ==
    LET recorded == [record EXCEPT !.status = status, !.deadline = FALSE,
                                   !.reported = @ \/ record.waiters > 0]
    IN  [recorded EXCEPT !.notices = @ + (IF Announces(recorded) THEN 1 ELSE 0)]

Released(set) ==
    [w \in DOMAIN waits |->
        IF waits[w].job \in set /\ waits[w].state = "pending"
        THEN [waits[w] EXCEPT !.state = "released"] ELSE waits[w]]

------------------------------------------------------------------------------
(* start.  The cleanup effect is attached before the limit is checked and  *)
(* the producer runs; a disposing agent's scope refuses it, and a producer *)
(* that throws leaves no job.                                              *)

Start(o, runs) ==
    /\ Len(jobs) < MaxJobs
    /\ o # Nobody => owner[o] = "live"
    /\ cleanups' = cleanups \union ({o} \ {Nobody})
    /\ IF runs /\ activeTaskCount(o) < Limit
       THEN jobs' = Append(jobs,
                [owner |-> o, status |-> "running", reported |-> FALSE, waiters |-> 0,
                 deadline |-> FALSE, producing |-> TRUE, stored |-> TRUE,
                 late |-> service # "live", notices |-> 0, claimed |-> FALSE])
       ELSE UNCHANGED jobs
    /\ UNCHANGED <<waits, owner, owned, service, all>>

(* The producer's done promise settles once; the first outcome wins.       *)
AnyOutcome(j) == TRUE                      \* mutant: a late outcome overwrites
FirstOutcome(j) == ~Ended(j)

Produce(j, status) ==
    /\ jobs[j].producing
    /\ LET done == [jobs[j] EXCEPT !.producing = FALSE]
       IN  IF FirstOutcome(j)
           THEN /\ jobs' = [jobs EXCEPT ![j] = Settled(done, status)]
                /\ waits' = Released({j})
           ELSE /\ jobs' = [jobs EXCEPT ![j] = done]
                /\ UNCHANGED waits
    /\ UNCHANGED <<cleanups, owner, owned, service, all>>

(* The cancellation deadline expires before the producer settles.          *)
Expire(j) ==
    /\ jobs[j].deadline
    /\ jobs' = [jobs EXCEPT ![j] = Settled(jobs[j], "failed")]
    /\ waits' = Released({j})
    /\ UNCHANGED <<cleanups, owner, owned, service, all>>

(* read: the output of a finished job leaves nothing to announce.          *)
Read(j) ==
    /\ jobs[j].stored /\ Ended(j)
    /\ jobs' = [jobs EXCEPT ![j].reported = TRUE, ![j].claimed = TRUE]
    /\ UNCHANGED <<waits, cleanups, owner, owned, service, all>>

(* kill, of a job whose cancel returns (a throw changes nothing).          *)
Kill(j) ==
    /\ jobs[j].stored /\ jobs[j].status # "stopping"
    /\ jobs' = [jobs EXCEPT
          ![j].status = IF Ended(j) THEN @ ELSE "stopping",
          ![j].deadline = IF Ended(j) THEN @ ELSE Armed,
          ![j].reported = TRUE, ![j].claimed = TRUE]
    /\ UNCHANGED <<waits, cleanups, owner, owned, service, all>>

------------------------------------------------------------------------------
(* wait: counted until its finally clause, except that an abort uncounts   *)
(* at once so that a settlement of the same tick is still announced.       *)

Uncounted(j) == [jobs[j] EXCEPT !.waiters = @ - 1]

Wait(j) ==
    /\ jobs[j].stored /\ ~Ended(j)
    /\ Len(waits) < MaxWaits
    /\ waits' = Append(waits, [job |-> j, state |-> "pending"])
    /\ jobs' = [jobs EXCEPT ![j].waiters = @ + 1]
    /\ UNCHANGED <<cleanups, owner, owned, service, all>>

StillCounted(j) == jobs[j]                 \* mutant: uncounted by finally only
AbortedCount(j) == Uncounted(j)

AbortWait(w) ==
    /\ waits[w].state = "pending"
    /\ waits' = [waits EXCEPT ![w].state = "rejected"]
    /\ jobs' = [jobs EXCEPT ![waits[w].job] = AbortedCount(waits[w].job)]
    /\ UNCHANGED <<cleanups, owner, owned, service, all>>

ExpireWait(w) ==
    /\ waits[w].state = "pending"
    /\ waits' = [waits EXCEPT ![w].state = "expired"]
    /\ UNCHANGED <<jobs, cleanups, owner, owned, service, all>>

FinishWait(w) ==
    LET j == waits[w].job
    IN  /\ waits[w].state \in {"released", "expired"}
        /\ waits' = [waits EXCEPT ![w].state = IF Ended(j) THEN "answered" ELSE "returned"]
        /\ jobs' = [jobs EXCEPT ![j] = [Uncounted(j) EXCEPT !.reported = @ \/ Ended(j)]]
        /\ UNCHANGED <<cleanups, owner, owned, service, all>>

------------------------------------------------------------------------------
(* Teardown.  cancelForTeardown answers for each live job before it is     *)
(* cancelled; a cancel that throws fails the record at once.               *)

Cancelled(record, throws) ==
    LET told == [record EXCEPT !.reported = TRUE, !.claimed = TRUE]
    IN  IF record.status = "running" /\ throws THEN Settled(told, "failed")
        ELSE [told EXCEPT !.status = "stopping", !.deadline = Armed]

CancelForTeardown(set, throwing) ==
    /\ jobs' = [j \in DOMAIN jobs |->
                  IF j \in set /\ ~Ended(j) THEN Cancelled(jobs[j], j \in throwing)
                  ELSE jobs[j]]
    /\ waits' = Released({j \in set \intersect throwing : jobs[j].status = "running"})

NoneAwaited(set) == TRUE                   \* mutant: settlements are not awaited
AllSettled(set) == \A j \in set : Ended(j)

(* disposeOwned, run by the effect attached to the agent's scope           *)
DisposeOwner(o, throwing) ==
    /\ owner[o] = "live"
    /\ owner' = [owner EXCEPT ![o] = "disposing"]
    /\ LET mine == IF o \in cleanups THEN {j \in Stored : jobs[j].owner = o} ELSE {}
       IN  /\ owned' = [owned EXCEPT ![o] = mine]
           /\ CancelForTeardown(mine, throwing)
    /\ cleanups' = cleanups \ {o}
    /\ UNCHANGED <<service, all>>

OwnerDisposed(o) ==
    /\ owner[o] = "disposing"
    /\ AllSettled(owned[o])
    /\ owner' = [owner EXCEPT ![o] = "gone"]
    /\ jobs' = [j \in DOMAIN jobs |->
                  IF j \in owned[o] THEN [jobs[j] EXCEPT !.stored = FALSE] ELSE jobs[j]]
    /\ UNCHANGED <<waits, cleanups, owned, service, all>>

(* disposeAll.  Its listeners close first; whatever the store holds when   *)
(* the settlements it awaits are in, is dropped.                           *)
DisposeService(throwing) ==
    /\ service = "live"
    /\ service' = "disposing"
    /\ all' = Stored
    /\ CancelForTeardown(Stored, throwing)
    /\ UNCHANGED <<cleanups, owner, owned>>

ServiceDisposed ==
    /\ service = "disposing"
    /\ AllSettled(all)
    /\ service' = "gone"
    /\ jobs' = [j \in DOMAIN jobs |-> [jobs[j] EXCEPT !.stored = FALSE]]
    /\ cleanups' = {}
    /\ UNCHANGED <<waits, owner, owned, all>>

------------------------------------------------------------------------------

Teardown ==
    \/ \E o \in Owners, throwing \in SUBSET DOMAIN jobs : DisposeOwner(o, throwing)
    \/ \E o \in Owners : OwnerDisposed(o)
    \/ \E throwing \in SUBSET DOMAIN jobs : DisposeService(throwing)
    \/ ServiceDisposed

Next ==
    \/ \E o \in Owners \union {Nobody}, runs \in BOOLEAN : Start(o, runs)
    \/ \E j \in DOMAIN jobs :
          \/ \E status \in Terminal : Produce(j, status)
          \/ Expire(j) \/ Read(j) \/ Kill(j) \/ Wait(j)
    \/ \E w \in DOMAIN waits : AbortWait(w) \/ ExpireWait(w) \/ FinishWait(w)
    \/ Teardown

Spec == Init /\ [][Next]_vars

(* Timers fire and continuations run.  Producers owe nothing: a job may    *)
(* run for ever and ignore its cancellation.                               *)
Fairness ==
    /\ \A j \in JobIds : WF_vars(j \in DOMAIN jobs /\ Expire(j))
    /\ \A o \in Owners : WF_vars(OwnerDisposed(o))
    /\ WF_vars(ServiceDisposed)

FairSpec == Spec /\ Fairness

------------------------------------------------------------------------------
(* Properties.                                                             *)

(* While the service lives no bucket holds more unfinished work than the   *)
(* limit, counting what was asked to stop and has not stopped.             *)
CapacityHolds ==
    service = "live" => \A o \in Owners \union {Nobody} :
        Cardinality({j \in DOMAIN jobs : jobs[j].owner = o /\ ~Ended(j)}) <= Limit

RegistryOK == TypeOK /\ CapacityHolds

(* No completion of an owned job is lost, whatever waits, aborts, timeouts *)
(* and kills race it: its owner is sent a notice, or somebody else answers *)
(* for it - a killer, a reader, a teardown, or a wait that was pending and *)
(* returns the finished job.  A wait that rejects answers for nothing.     *)
Answers(w) == waits[w].state \in {"released", "expired", "answered"}

CompletionReachesSomeone ==
    \A j \in DOMAIN jobs :
        Ended(j) /\ jobs[j].owner # Nobody /\ ~jobs[j].late
        => \/ jobs[j].notices > 0
           \/ jobs[j].claimed
           \/ \E w \in DOMAIN waits : waits[w].job = j /\ Answers(w)

(* The first outcome stands: after a forced failure a late producer neither *)
(* changes the record nor announces it a second time.                      *)
OutcomeIsFinal ==
    [][\A j \in DOMAIN jobs : Ended(j) =>
          /\ jobs'[j].status = jobs[j].status
          /\ jobs'[j].notices = jobs[j].notices]_vars

(* When the disposal of an agent is over none of its jobs is live, even if *)
(* the service was disposed meanwhile; jobs started on a registry already  *)
(* being disposed are the exception (see README).                          *)
OwnerDisposalQuiet ==
    \A o \in Owners : owner[o] = "gone" =>
        \A j \in DOMAIN jobs : jobs[j].owner = o => Ended(j) \/ jobs[j].late

(* Disposal ends although producers may ignore their cancellation.         *)
TeardownCompletes ==
    /\ \A o \in Owners : owner[o] = "disposing" ~> owner[o] = "gone"
    /\ service = "disposing" ~> service = "gone"
==============================================================================
