------------------------------ MODULE DurableLog ------------------------------
(***************************************************************************)
(* What session persistence promises to the rest of the harness, without   *)
(* batches, timers, retries or reloads: storage holds a growing prefix of  *)
(* the session's log; a flush that resolves covers everything logged       *)
(* before it was called; and a disposed session is forgotten only when all *)
(* of its log is stored (packages/session/session-persistence).            *)
(***************************************************************************)
EXTENDS Naturals, Sequences

CONSTANT Callers         \* who may ask for a flush

VARIABLES
    logged,              \* how many events the session has logged
    stored,              \* the events storage holds
    asked,               \* per caller, the state of its last flush
    released             \* whether the session's memory was given up

vars == <<logged, stored, asked, released>>

States == {"idle", "waiting", "resolved", "rejected"}

Prefix(n) == [i \in 1..n |-> i]

Init ==
    /\ logged \in Nat
    /\ \E n \in 0..logged : stored = Prefix(n)
    /\ asked = [f \in Callers |-> [at |-> "idle", mark |-> 0]]
    /\ released = FALSE

Log == logged' = logged + 1 /\ UNCHANGED <<stored, asked, released>>

Store ==
    /\ \E n \in Len(stored)..logged : stored' = Prefix(n)
    /\ UNCHANGED <<logged, asked, released>>

Ask(f) ==
    /\ asked[f].at # "waiting"
    /\ asked' = [asked EXCEPT ![f] = [at |-> "waiting", mark |-> logged]]
    /\ UNCHANGED <<logged, stored, released>>

\* Callers that joined one barrier learn its outcome together.
Settle(F, verdict) ==
    /\ \A f \in F : asked[f].at = "waiting"
    /\ verdict = "resolved" => \A f \in F : asked[f].mark <= Len(stored)
    /\ asked' = [f \in Callers |->
                    IF f \in F THEN [at |-> verdict, mark |-> 0] ELSE asked[f]]
    /\ UNCHANGED <<logged, stored, released>>

Release ==
    /\ Len(stored) = logged
    /\ released' = TRUE
    /\ UNCHANGED <<logged, stored, asked>>

Next ==
    \/ Log \/ Store \/ Release
    \/ \E f \in Callers : Ask(f)
    \/ \E F \in SUBSET Callers, verdict \in {"resolved", "rejected"} : Settle(F, verdict)

Spec == Init /\ [][Next]_vars
===============================================================================
