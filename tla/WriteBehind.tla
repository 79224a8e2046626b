----------------------------- MODULE WriteBehind -----------------------------
(***************************************************************************)
(* How one live session's events reach storage: the batching controller    *)
(* (packages/session/session-persistence/src/write-behind.ts), the         *)
(* lifecycle that the persistence coordinator gives it (coordinator.ts:    *)
(* initialization, flush, retirement, disposal and reload of the plugin)   *)
(* and the append of the JSONL backend.                                    *)
(*                                                                         *)
(* An action is one job of the event loop or one write of the backend.     *)
(* The session's events are the numbers 1..log; whatever else is appended  *)
(* to the log while persistence is suspended interleaves freely.           *)
(***************************************************************************)
EXTENDS Integers, Sequences, FiniteSets

CONSTANTS
    Flushers,    \* callers of session/flush
    Faults,      \* how an append may fail: "refused", "unacknowledged"
    MaxSeed,     \* bound: events of the session when persistence first sees it
    MaxLog,      \* bound: events of the session
    MaxFaults,   \* bound: failures of the backend
    MaxReloads   \* bound: reloads of the persistence plugin

ASSUME WriteBehindAssumption ==
    /\ MaxSeed \in Nat /\ MaxLog \in Nat /\ MaxFaults \in Nat /\ MaxReloads \in Nat
    /\ Faults \subseteq {"refused", "unacknowledged"}
    /\ {"retirement", "disposer"} \intersect Flushers = {}

VARIABLES
    log,         \* how many events the session has
    store,       \* the events in the session's log file
    tracked,     \* SessionState: [cursor, materialized] of this session
    init,        \* live.init: "none", "running", "ok", "failed"
    seed,        \* how many events the initialization has to store
    pending,     \* events copied by the controller and in no write
    timer,       \* the batching deadline is armed
    expired,     \* deadlineExpired
    paused,      \* automaticPaused
    active,      \* the write in flight
    resuming,    \* continueAutomatic is about to run
    barrier,     \* the shared flush barrier
    callers,     \* who waits for a flush, and for which events
    mode,        \* the plugin: "up", "disposing", "closed"
    session,     \* "live", "disposed", "released"
    faults, reloads

controller == <<pending, timer, expired, paused, active, resuming, barrier>>
lifecycle == <<tracked, init, seed, mode, session, reloads>>
vars == <<log, store, callers, faults, controller, lifecycle>>

None == [is |-> "none"]

Callers == Flushers \union {"retirement", "disposer"}
Prefix(n) == [i \in 1..n |-> i]

Writes ==
    [is : {"timer", "barrier"}, batch : Seq(Nat),
     stage : {"queued", "stored", "failed", "rejected"}]
Barriers == [is : {"overlap", "joined", "writing", "loop"}, failed : BOOLEAN]
Waiting == {"init", "barrier"}

TypeOK ==
    /\ log \in Nat /\ seed \in Nat /\ faults \in Nat /\ reloads \in Nat
    /\ store \in Seq(Nat) /\ pending \in Seq(Nat)
    /\ tracked \in [cursor : Nat, materialized : BOOLEAN]
    /\ init \in {"none", "running", "ok", "failed"}
    /\ timer \in BOOLEAN /\ expired \in BOOLEAN /\ paused \in BOOLEAN /\ resuming \in BOOLEAN
    /\ active \in Writes \union {None}
    /\ active # None => active.batch # <<>>
    /\ barrier \in Barriers \union {None}
    /\ barrier # None =>
          /\ barrier.is = "overlap" => active # None /\ active.is = "timer"
          /\ barrier.is = "writing" => active # None /\ active.is = "barrier"
    /\ timer => pending # <<>>
    /\ callers \in [Callers -> [at : {"idle", "resolved", "rejected"} \union Waiting,
                                mark : Nat]]
    /\ mode \in {"up", "disposing", "closed"}
    /\ session \in {"live", "disposed", "released"}

\* A new or forked session has nothing stored, a prepared or adopted one a prefix.
Init ==
    /\ log \in 0..MaxSeed
    /\ \E n \in 0..log : store = Prefix(n)
    /\ tracked = [cursor |-> 0, materialized |-> FALSE]
    /\ init = "none" /\ seed = 0
    /\ pending = <<>> /\ active = None /\ barrier = None
    /\ timer = FALSE /\ expired = FALSE /\ paused = FALSE /\ resuming = FALSE
    /\ callers = [f \in Callers |-> [at |-> "idle", mark |-> 0]]
    /\ mode = "up" /\ session = "live"
    /\ faults = 0 /\ reloads = 0

------------------------------------------------------------------------------
(* initFor: the controller is created once per live session, with a copy   *)
(* of what the session holds.                                              *)
Attach(n) ==
    IF init = "none" THEN init' = "running" /\ seed' = n ELSE UNCHANGED <<init, seed>>

(* startWrite: the whole queue becomes one batch.                          *)
StartWrite(by) ==
    /\ active' = [is |-> by, batch |-> pending, stage |-> "queued"]
    /\ pending' = <<>>
    /\ timer' = FALSE /\ expired' = FALSE

(* enqueue                                                                 *)
Unarmed == FALSE                           \* mutant: a paused queue stays paused
Rearmed == paused \/ pending = <<>>

enqueue(e) ==
    /\ pending' = Append(pending, e)
    /\ IF barrier # None
       THEN UNCHANGED <<timer, expired, paused>>
       ELSE /\ timer' = (timer \/ Rearmed)
            /\ expired' = (expired /\ ~paused)
            /\ paused' = FALSE

(* An event is appended to the session; a listening plugin copies it.      *)
Emit ==
    /\ session = "live" /\ log < MaxLog
    /\ log' = log + 1
    /\ IF mode = "up"
       THEN Attach(log + 1) /\ enqueue(log + 1)
       ELSE UNCHANGED <<init, seed, pending, timer, expired, paused>>
    /\ UNCHANGED <<store, callers, faults, tracked, mode, session, reloads,
                   active, resuming, barrier>>

(* session/created                                                         *)
Created ==
    /\ mode = "up" /\ session = "live" /\ init = "none"
    /\ Attach(log)
    /\ UNCHANGED <<log, store, callers, faults, controller,
                   tracked, mode, session, reloads>>

------------------------------------------------------------------------------
(* The append of the backend.  "refused": nothing is stored, a partial     *)
(* write is rolled back.  "unacknowledged": everything is stored and then  *)
(* a close, a stat or the sync of the directory fails.                     *)

Appended(events, outcome) ==
    /\ store' = IF outcome = "refused" THEN store ELSE store \o events
    /\ faults' = IF outcome = "stored" THEN faults ELSE faults + 1
    /\ outcome \in Faults => faults < MaxFaults

Outcomes == {"stored"} \union Faults

(* appendCore: a log may be created once, and every event must continue it. *)
Refuses(events) ==
    \/ \E i \in DOMAIN events : events[i] # tracked.cursor + i
    \/ ~tracked.materialized /\ store # <<>>

(* onCreated, adoptLivePrefix, attachPrepared: take over what is stored,   *)
(* provided it is what the session holds, and store the rest of the seed.  *)
Initialize(outcome) ==
    LET suffix == SubSeq(Prefix(seed), Len(store) + 1, seed)
    IN
    /\ init = "running"
    /\ IF store # Prefix(Len(store)) \/ Len(store) > seed
       THEN /\ outcome = "refused" /\ init' = "failed"
            /\ UNCHANGED <<store, tracked, faults>>
       ELSE /\ outcome = "unacknowledged" => suffix # <<>>
            /\ Appended(suffix, outcome)
            /\ init' = IF outcome = "stored" THEN "ok" ELSE "failed"
            /\ tracked' =
                  IF outcome = "stored"
                  THEN [cursor |-> seed, materialized |-> seed > 0]
                  ELSE [cursor |-> Len(store), materialized |-> store # <<>>]
    /\ seed' = 0
    /\ UNCHANGED <<log, callers, controller, mode, session, reloads>>

(* appendLiveBatch: what initialization already stored is filtered out.    *)
Kth(set, k) == CHOOSE i \in set : Cardinality({j \in set : j <= i}) = k
Fresh(batch) ==
    LET news == {i \in DOMAIN batch : batch[i] > tracked.cursor}
    IN  [k \in 1..Cardinality(news) |-> batch[Kth(news, k)]]

Write(outcome) ==
    LET fresh == Fresh(active.batch)
        refused == init = "failed" \/ (fresh # <<>> /\ Refuses(fresh))
    IN
    /\ active # None /\ active.stage = "queued" /\ init # "running"
    /\ IF refused \/ fresh = <<>>
       THEN outcome = "stored" /\ UNCHANGED <<store, tracked, faults>>
       ELSE /\ Appended(fresh, outcome)
            /\ tracked' = IF outcome = "stored"
                          THEN [cursor |-> tracked.cursor + Len(fresh), materialized |-> TRUE]
                          ELSE tracked
    /\ active' = [active EXCEPT !.stage =
                     IF outcome = "stored" /\ ~refused THEN "stored" ELSE "failed"]
    /\ UNCHANGED <<log, callers, pending, timer, expired, paused, resuming, barrier,
                   init, seed, mode, session, reloads>>

(* The catch clause of startWrite: the batch goes back ahead of the events *)
(* that arrived meanwhile, and automatic writing pauses.                   *)
Behind(batch) == pending \o batch          \* mutant: the batch goes to the end
Ahead(batch) == batch \o pending

WriteFails ==
    /\ active # None /\ active.stage = "failed"
    /\ pending' = Ahead(active.batch)
    /\ timer' = FALSE /\ expired' = FALSE /\ paused' = TRUE
    /\ active' = [active EXCEPT !.stage = "rejected"]
    /\ UNCHANGED <<log, store, callers, faults, lifecycle, resuming, barrier>>

(* Its finally clause, and who was waiting for the write.                  *)
WriteSettles ==
    /\ active # None /\ active.stage \in {"stored", "rejected"}
    /\ active' = None
    /\ resuming' = (active.is = "timer" /\ active.stage = "stored")
    /\ barrier' =
          CASE barrier = None -> None
            [] barrier # None /\ active.is = "timer" -> [barrier EXCEPT !.is = "joined"]
            [] barrier # None /\ active.is = "barrier" ->
                  [is |-> "loop", failed |-> active.stage = "rejected"]
    /\ UNCHANGED <<log, store, callers, faults, lifecycle, pending, timer, expired, paused>>

(* onDeadline, a macrotask: no promise reaction is waiting to run.         *)
ReactionsPending ==
    \/ resuming
    \/ active # None /\ active.stage # "queued"
    \/ active # None /\ init = "failed"
    \/ barrier # None /\ barrier.is \in {"joined", "loop"}
    \/ init # "running" /\ \E f \in Callers : callers[f].at = "init"

Deadline ==
    /\ timer /\ ~ReactionsPending
    /\ IF active # None
       THEN timer' = FALSE /\ expired' = TRUE /\ UNCHANGED <<pending, active>>
       ELSE StartWrite("timer")
    /\ UNCHANGED <<log, store, callers, faults, lifecycle, paused, resuming, barrier>>

(* continueAutomatic                                                       *)
Continue ==
    /\ resuming /\ resuming' = FALSE
    /\ IF barrier = None /\ pending # <<>> /\ expired
       THEN StartWrite("timer")
       ELSE UNCHANGED <<pending, timer, expired, active>>
    /\ UNCHANGED <<log, store, callers, faults, lifecycle, paused, barrier>>

------------------------------------------------------------------------------
(* drainBarrier: after the overlapping write, whatever its outcome, write  *)
(* until nothing is queued; then everyone who joined learns the outcome.   *)

Joined(verdict) ==
    [f \in Callers |->
        IF callers[f].at = "barrier" THEN [at |-> verdict, mark |-> 0] ELSE callers[f]]

Drained == pending = <<>>

BarrierEnds(verdict) ==
    /\ barrier' = None
    /\ callers' = Joined(verdict)
    /\ UNCHANGED <<pending, timer, expired, active>>

Drain ==
    /\ barrier # None /\ barrier.is \in {"joined", "loop"}
    /\ paused' = (paused /\ barrier.is = "loop")
    /\ IF barrier.failed THEN BarrierEnds("rejected")
       ELSE IF Drained THEN BarrierEnds("resolved")
       ELSE /\ StartWrite("barrier")
            /\ barrier' = [barrier EXCEPT !.is = "writing"]
            /\ UNCHANGED callers
    /\ UNCHANGED <<log, store, faults, lifecycle, resuming>>

(* PersistenceCoordinator.flush up to its await of the initialization.     *)
Ask(f) ==
    /\ callers[f].at \notin Waiting
    /\ callers' = [callers EXCEPT ![f] = [at |-> "init", mark |-> log]]
    /\ Attach(log)
    /\ timer' = FALSE /\ expired' = FALSE
    /\ UNCHANGED <<log, store, faults, tracked, reloads,
                   pending, paused, active, resuming, barrier>>

Flush(f) ==
    /\ mode = "up" /\ session = "live"
    /\ Ask(f)
    /\ UNCHANGED <<mode, session>>

(* ... and from there: the controller's flush.                             *)
NoOverlap == FALSE                         \* mutant: a write in flight is not awaited
Overlaps == active # None

FlushProceeds(f) ==
    /\ callers[f].at = "init" /\ init # "running"
    /\ IF init = "failed" \/ barrier = None
       THEN timer' = FALSE /\ expired' = FALSE ELSE UNCHANGED <<timer, expired>>
    /\ paused' = (paused /\ (init = "failed" \/ barrier # None))
    /\ callers' = [callers EXCEPT ![f] =
          IF init = "failed" THEN [at |-> "rejected", mark |-> 0]
          ELSE IF barrier = None /\ ~Overlaps /\ pending = <<>> THEN [at |-> "resolved", mark |-> 0]
          ELSE [@ EXCEPT !.at = "barrier"]]
    /\ IF init = "failed" \/ barrier # None
       THEN UNCHANGED <<barrier, pending, active>>
       ELSE \/ /\ Overlaps
               /\ barrier' = [is |-> "overlap", failed |-> FALSE]
               /\ UNCHANGED <<pending, active>>
            \/ /\ ~Overlaps /\ pending = <<>>
               /\ UNCHANGED <<barrier, pending, active>>
            \/ /\ ~Overlaps /\ pending # <<>>
               /\ StartWrite("barrier")
               /\ barrier' = [is |-> "writing", failed |-> FALSE]
    /\ UNCHANGED <<log, store, faults, lifecycle, resuming>>

------------------------------------------------------------------------------
(* session/disposed: retire, and the release that follows its flush.       *)

Dispose ==
    /\ session = "live"
    /\ session' = "disposed"
    /\ IF mode = "up" /\ init # "none" THEN Ask("retirement")
       ELSE UNCHANGED <<log, store, callers, faults, controller, tracked, init, seed, reloads>>
    /\ UNCHANGED mode

Drawn == callers["retirement"].at = "resolved"

Release ==
    /\ session = "disposed" /\ mode # "closed" /\ Drawn
    /\ session' = "released"
    /\ UNCHANGED <<log, store, callers, faults, controller, tracked, init, seed, mode, reloads>>

(* The plugin's disposer: admission is closed, live controllers are        *)
(* drained, the chains of serialized operations settle, the backend closes. *)
Held == init # "none" /\ session # "released"

PluginDisposed ==
    /\ mode = "up"
    /\ mode' = "disposing"
    /\ IF Held THEN Ask("disposer")
       ELSE UNCHANGED <<log, store, callers, faults, controller, tracked, init, seed, reloads>>
    /\ UNCHANGED session

Settled == \A f \in Callers : callers[f].at \notin Waiting

PluginCloses ==
    /\ mode = "disposing"
    /\ Settled /\ ~(session = "disposed" /\ Drawn)
    /\ init # "running" /\ (active # None => init = "failed")
    /\ mode' = "closed"
    /\ UNCHANGED <<log, store, callers, faults, controller, tracked, init, seed, session, reloads>>

(* A reloaded plugin adopts the live sessions; nothing else is left of the *)
(* old one.                                                                *)
PluginLoads ==
    /\ mode = "closed" /\ reloads < MaxReloads /\ ~ReactionsPending
    /\ mode' = "up" /\ reloads' = reloads + 1
    /\ tracked' = [cursor |-> 0, materialized |-> FALSE]
    /\ init' = IF session = "live" THEN "running" ELSE "none"
    /\ seed' = IF session = "live" THEN log ELSE 0
    /\ pending' = <<>> /\ active' = None /\ barrier' = None
    /\ timer' = FALSE /\ expired' = FALSE /\ paused' = FALSE /\ resuming' = FALSE
    /\ UNCHANGED <<log, store, callers, faults, session>>

Next ==
    \/ Emit \/ Created
    \/ \E o \in Outcomes : Initialize(o) \/ Write(o)
    \/ WriteFails \/ WriteSettles \/ Deadline \/ Continue \/ Drain
    \/ \E f \in Flushers : Flush(f)
    \/ \E f \in Callers : FlushProceeds(f)
    \/ Dispose \/ Release \/ PluginDisposed \/ PluginCloses \/ PluginLoads

(* The backend answers, and the event loop runs what is due.               *)
Fairness ==
    /\ WF_vars(\E o \in Outcomes : Initialize(o))
    /\ WF_vars(\E o \in Outcomes : Write(o))
    /\ WF_vars(WriteFails) /\ WF_vars(WriteSettles)
    /\ WF_vars(Deadline) /\ WF_vars(Continue) /\ WF_vars(Drain)
    /\ \A f \in Callers : WF_vars(FlushProceeds(f))

Spec == Init /\ [][Next]_vars
FairSpec == Spec /\ Fairness

------------------------------------------------------------------------------
(* DurableLog is what the coordinator, the controller and the backend      *)
(* together implement: the log file holds a growing prefix of the log - no *)
(* event lost, doubled or out of order over failed batches, overlapping    *)
(* barriers and reloads - a flush that resolves covers what was logged     *)
(* before it, and a released session is stored completely.                 *)
Contract == INSTANCE DurableLog WITH
    logged <- log,
    stored <- store,
    asked <- [f \in Callers |->
                 [callers[f] EXCEPT !.at = IF @ \in Waiting THEN "waiting" ELSE @]],
    released <- session = "released"

FlushContract == Contract!Spec

(* enqueue, startWrite, catch: while persistence is up every event of the  *)
(* session is stored, or in the batch being written, or queued; and        *)
(* whatever is queued has somebody who will write it - a deadline, a write *)
(* that continues, a barrier, a flush on its way - unless automatic        *)
(* writing is paused after a reported failure.                             *)
EveryEventHasAWriter ==
    mode = "up" /\ init = "ok" /\ session # "released" =>
        /\ \A e \in 1..log :
              \/ e <= Len(store)
              \/ \E i \in DOMAIN pending : pending[i] = e
              \/ active # None /\ \E i \in DOMAIN active.batch : active.batch[i] = e
        /\ pending # <<>> =>
              \/ timer \/ paused \/ resuming \/ active # None \/ barrier # None
              \/ \E f \in Callers : callers[f].at = "init"

(* The disposer of the write path: once the backend is closed no deadline, *)
(* barrier or write is left that would append to it.                       *)
ClosedIsQuiet ==
    mode = "closed" =>
        /\ ~timer /\ barrier = None
        /\ active # None => init = "failed"

QueueOK == TypeOK /\ EveryEventHasAWriter /\ ClosedIsQuiet

(* flush, drainBarrier: when the backend has stopped failing, a flush that *)
(* finds no write under way resolves, whatever failed before it; only a    *)
(* failed initialization is never retried.                                 *)
Undisturbed(f) ==
    callers[f].at = "init" /\ faults = MaxFaults /\ active = None /\ barrier = None

RetryHeals ==
    \A f \in Callers : Undisturbed(f) /\ init # "failed" ~> callers[f].at = "resolved"

(* "advance the cursor as soon as it commits" (coordinator.ts:778): not    *)
(* when the backend fails after it has stored the batch, which is then     *)
(* appended a second time.                                                 *)
StoredOnce == store = Prefix(Len(store))
===============================================================================
