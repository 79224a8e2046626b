------------------------------ MODULE HomeLease ------------------------------
(***************************************************************************)
(* Process-lifetime ownership of a Harness home (apps/cli/src/             *)
(* home-lease.ts): a Host listens on the first endpoint of its home that   *)
(* is free; where one is taken it asks the listener which home it owns,    *)
(* and is refused by a Host of its own home.  Hosts start, stop and die,   *)
(* and on TCP other programs and the Hosts of other homes share the ports. *)
(***************************************************************************)
EXTENDS Integers, Sequences

CONSTANTS
    Hosts,       \* processes that boot a profile
    Homes,       \* canonical homes; also the name of each home's pipe
    HomeOf,      \* HomeOf[h]: the home Host h boots with
    Ports,       \* loopback ports
    Candidates,  \* Candidates[home]: its ports in probing order
    Strangers,   \* ports other programs may listen on
    Prompt       \* does every owner answer a probe within its timeout?

Free    == "free"
Foreign == "foreign"

ASSUME HomeLeaseAssumption ==
    /\ HomeOf \in [Hosts -> Homes]
    /\ Candidates \in [Homes -> Seq(Ports)]
    /\ \A home \in Homes : Candidates[home] # <<>>
    /\ Strangers \subseteq Ports
    /\ Prompt \in BOOLEAN
    /\ {Free, Foreign} \intersect Hosts = {}

VARIABLES
    platform,  \* process.platform, for all of the machine
    listener,  \* listener[e]: who listens on endpoint e
    at,        \* at[h]: where Host h is in acquireDshHomeLease
    index,     \* index[h]: the candidate it tries or holds
    vacated,   \* history: endpoints that had a listener and lost it
    silent     \* history: <<h, g>> - h gave up waiting for the answer of g

vars == <<platform, listener, at, index, vacated, silent>>

Addresses == Ports \union Homes

endpoints(home) == IF platform = "win32" THEN <<home>> ELSE Candidates[home]

Candidate(h) == endpoints(HomeOf[h])[index[h]]

Places == {"off", "listen", "probe", "owner", "refused", "failed"}
Attempting(h) == at[h] \in {"listen", "probe"}

Init ==
    /\ platform \in {"win32", "posix"}
    /\ listener = [e \in Addresses |-> Free]
    /\ at = [h \in Hosts |-> "off"]
    /\ index = [h \in Hosts |-> 1]
    /\ vacated = {}
    /\ silent = {}

------------------------------------------------------------------------------
(* acquireDshHomeLease                                                     *)

Boot(h) ==
    /\ at[h] \in {"off", "refused", "failed"}
    /\ at' = [at EXCEPT ![h] = "listen"]
    /\ index' = [index EXCEPT ![h] = 1]
    /\ silent' = {pair \in silent : pair[1] # h}
    /\ UNCHANGED <<platform, listener, vacated>>

Listen(h) ==
    /\ at[h] = "listen"
    /\ IF listener[Candidate(h)] = Free
       THEN /\ listener' = [listener EXCEPT ![Candidate(h)] = h]
            /\ at' = [at EXCEPT ![h] = "owner"]
       ELSE /\ at' = [at EXCEPT ![h] = "probe"]
            /\ UNCHANGED listener
    /\ UNCHANGED <<platform, index, vacated, silent>>

(* Any error but EADDRINUSE is thrown.                                     *)
ListenFails(h) ==
    /\ at[h] = "listen"
    /\ at' = [at EXCEPT ![h] = "failed"]
    /\ UNCHANGED <<platform, listener, index, vacated, silent>>

(* What the probe says of the incumbent decides between the refusal and    *)
(* the next candidate; a pipe is taken by nobody but a Host of its home.   *)
Exhausted(h) == index[h] >= Len(endpoints(HomeOf[h]))

Conclude(h, recognised) ==
    IF platform = "win32" \/ recognised
    THEN /\ at' = [at EXCEPT ![h] = "refused"]
         /\ UNCHANGED index
    ELSE IF Exhausted(h)
    THEN /\ at' = [at EXCEPT ![h] = "failed"]
         /\ UNCHANGED index
    ELSE /\ at' = [at EXCEPT ![h] = "listen"]
         /\ index' = [index EXCEPT ![h] = @ + 1]

SameHost(h, g) == h = g                    \* mutant: compares the owner, not the home
Recognised(h, g) == HomeOf[g] = HomeOf[h]  \* incumbent?.homeHash === hash

Answered(h) ==
    /\ at[h] = "probe"
    /\ listener[Candidate(h)] \in Hosts
    /\ Conclude(h, Recognised(h, listener[Candidate(h)]))
    /\ UNCHANGED <<platform, listener, vacated, silent>>

(* The connection is refused or reset: the incumbent is gone.              *)
Unreachable(h) ==
    /\ at[h] = "probe"
    /\ listener[Candidate(h)] = Free
    /\ Conclude(h, FALSE)
    /\ UNCHANGED <<platform, listener, vacated, silent>>

(* The timer fires, or a stranger answers something else.                  *)
Untimed(h) == FALSE                        \* mutant: a probe without a timer
GivesUp(h) == listener[Candidate(h)] # Free

TimedOut(h) ==
    LET incumbents == {listener[Candidate(h)]} \intersect Hosts
    IN  /\ at[h] = "probe"
        /\ GivesUp(h)
        /\ incumbents # {} => ~Prompt
        /\ Conclude(h, FALSE)
        /\ silent' = silent \union ({h} \X incumbents)
        /\ UNCHANGED <<platform, listener, vacated>>

------------------------------------------------------------------------------
(* The system around it.                                                   *)

(* release(), or the death of the process: its endpoint vanishes.          *)
Exit(h) ==
    LET held == {e \in Addresses : listener[e] = h}
    IN  /\ Attempting(h) \/ at[h] = "owner"
        /\ at' = [at EXCEPT ![h] = "off"]
        /\ listener' = [e \in Addresses |-> IF e \in held THEN Free ELSE listener[e]]
        /\ vacated' = vacated \union held
        /\ silent' = {pair \in silent : h \notin {pair[1], pair[2]}}
        /\ UNCHANGED <<platform, index>>

StrangerListens(port) ==
    /\ listener[port] = Free
    /\ listener' = [listener EXCEPT ![port] = Foreign]
    /\ UNCHANGED <<platform, at, index, vacated, silent>>

StrangerLeaves(port) ==
    /\ listener[port] = Foreign
    /\ listener' = [listener EXCEPT ![port] = Free]
    /\ vacated' = vacated \union {port}
    /\ UNCHANGED <<platform, at, index, silent>>

Attempt(h) ==
    Listen(h) \/ ListenFails(h) \/ Answered(h) \/ Unreachable(h) \/ TimedOut(h)

Next ==
    \/ \E h \in Hosts : Boot(h) \/ Attempt(h) \/ Exit(h)
    \/ \E port \in Strangers : StrangerListens(port) \/ StrangerLeaves(port)

Spec == Init /\ [][Next]_vars

(* The socket calls of a live process answer, and its timer fires.         *)
FairSpec == Spec /\ \A h \in Hosts : WF_vars(Attempt(h))

------------------------------------------------------------------------------
(* Properties.                                                             *)

TypeOK ==
    /\ platform \in {"win32", "posix"}
    /\ listener \in [Addresses -> Hosts \union {Free, Foreign}]
    /\ at \in [Hosts -> Places]
    /\ index \in [Hosts -> Nat]
    /\ \A h \in Hosts : index[h] \in DOMAIN endpoints(HomeOf[h])
    /\ vacated \subseteq Addresses
    /\ silent \subseteq Hosts \X Hosts

Owners(home) == {h \in Hosts : HomeOf[h] = home /\ at[h] = "owner"}

(* How far the exclusion goes: two Hosts own one home only if the endpoint *)
(* of the one that comes first in probing order changed hands before, or   *)
(* the other gave up waiting for its answer.  As long as nobody leaves and *)
(* owners answer in time, ownership is exclusive - whichever ports other   *)
(* programs and other homes occupy.                                        *)
SplitNeedsTurnover ==
    \A home \in Homes : \A first, second \in Owners(home) :
        first # second /\ index[first] <= index[second]
        => Candidate(first) \in vacated \/ <<second, first>> \in silent

(* An attempt ends: with the lease, a refusal or an error, whatever other  *)
(* programs do with the connections of its probes.                         *)
AttemptsEnd == \A h \in Hosts : Attempting(h) ~> ~Attempting(h)

(* home-lease.ts:173 "Acquire exclusive process-lifetime ownership of one  *)
(* Harness home".                                                          *)
ExclusiveOwnership ==
    \A home \in Homes : \A first, second \in Owners(home) : first = second
==============================================================================
