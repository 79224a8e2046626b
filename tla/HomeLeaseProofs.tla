--------------------------- MODULE HomeLeaseProofs ---------------------------
(***************************************************************************)
(* Proofs about HomeLease, for any hosts, homes and ports: the types, and  *)
(* how far the exclusion of two owners goes.                               *)
(***************************************************************************)
EXTENDS HomeLease, SequenceTheorems, TLAPS

------------------------------------------------------------------------------
(* The inductive invariant.                                                *)

(* A Host listens where it owns, and nowhere else.                         *)
ListenersOwn ==
    /\ \A h \in Hosts : at[h] = "owner" => listener[Candidate(h)] = h
    /\ \A h \in Hosts, e \in Addresses :
          listener[e] = h => at[h] = "owner" /\ e = Candidate(h)

(* A Host found this endpoint taken, and not by a rival that answered: it  *)
(* changed hands since, or it has the listener the Host met there - another *)
(* home, a stranger, or a rival that stayed silent.                        *)
Taken(e) == e \in vacated \/ listener[e] # Free

Passed(h, e) ==
    \/ e \in vacated
    \/ /\ listener[e] # Free
       /\ listener[e] \in Hosts /\ HomeOf[listener[e]] = HomeOf[h]
             => <<h, listener[e]>> \in silent

PassedFor(h) ==
    /\ at[h] \in {"listen", "probe", "owner"} =>
          \A i \in 1..(index[h] - 1) : Passed(h, endpoints(HomeOf[h])[i])
    /\ at[h] = "probe" => Taken(Candidate(h))

PassedAll == \A h \in Hosts : PassedFor(h)

IInv == TypeOK /\ ListenersOwn /\ PassedAll

------------------------------------------------------------------------------
(* Type correctness.                                                       *)

LEMMA EndpointsType ==
    ASSUME platform \in {"win32", "posix"}, NEW place \in Homes
    PROVE  /\ endpoints(place) \in Seq(Addresses)
           /\ endpoints(place) # <<>>
           /\ DOMAIN endpoints(place) = 1..Len(endpoints(place))
           /\ Len(endpoints(place)) \in Nat /\ Len(endpoints(place)) >= 1
           /\ \A i \in 1..Len(endpoints(place)) : endpoints(place)[i] \in Addresses
<1>1. /\ Candidates[place] \in Seq(Ports) /\ Candidates[place] # <<>>
  BY HomeLeaseAssumption
<1>2. Candidates[place] \in Seq(Addresses)
  BY <1>1 DEF Addresses
<1>3. <<place>> \in Seq(Addresses) /\ <<place>> # <<>>
  BY DEF Addresses
<1>4. endpoints(place) \in Seq(Addresses) /\ endpoints(place) # <<>>
  BY <1>1, <1>2, <1>3 DEF endpoints
<1>. HIDE DEF endpoints
<1>5. Len(endpoints(place)) \in Nat /\ DOMAIN endpoints(place) = 1..Len(endpoints(place))
  BY <1>4, LenProperties
<1>6. Len(endpoints(place)) # 0
  BY <1>4, EmptySeq
<1>. QED  BY <1>4, <1>5, <1>6, ElementOfSeq

LEMMA CandidateType ==
    ASSUME TypeOK, NEW h \in Hosts
    PROVE  Candidate(h) \in Addresses /\ index[h] \in 1..Len(endpoints(HomeOf[h]))
<1>1. HomeOf[h] \in Homes
  BY HomeLeaseAssumption
<1>. QED  BY <1>1, EndpointsType DEF TypeOK, Candidate

LEMMA TypeInit == Init => TypeOK
<1>. SUFFICES ASSUME Init PROVE TypeOK
  OBVIOUS
<1>1. \A h \in Hosts : index[h] \in DOMAIN endpoints(HomeOf[h])
  <2>. TAKE h \in Hosts
  <2>1. HomeOf[h] \in Homes
    BY HomeLeaseAssumption
  <2>. QED  BY <2>1, EndpointsType DEF Init
<1>. QED  BY <1>1 DEF Init, TypeOK, Places

(* What the probe concludes moves the Host along its candidates.           *)
LEMMA ConcludeType ==
    ASSUME TypeOK, NEW h \in Hosts, NEW recognised \in BOOLEAN, Conclude(h, recognised),
           platform' = platform
    PROVE  /\ at' \in [Hosts -> Places] /\ index' \in [Hosts -> Nat]
           /\ \A g \in Hosts : index'[g] \in DOMAIN (endpoints(HomeOf[g])')
<1>1. \A g \in Hosts : endpoints(HomeOf[g])' = endpoints(HomeOf[g])
  BY DEF endpoints
<1>2. /\ HomeOf[h] \in Homes
      /\ index[h] \in 1..Len(endpoints(HomeOf[h]))
      /\ DOMAIN endpoints(HomeOf[h]) = 1..Len(endpoints(HomeOf[h]))
      /\ Len(endpoints(HomeOf[h])) \in Nat
  BY CandidateType, EndpointsType, HomeLeaseAssumption DEF TypeOK
<1>3. at' \in [Hosts -> Places]
  BY DEF Conclude, TypeOK, Places
<1>4. /\ index \in [Hosts -> Nat]
      /\ \A g \in Hosts : index[g] \in DOMAIN endpoints(HomeOf[g])
  BY DEF TypeOK
<1>5. CASE index' = index
  BY <1>1, <1>3, <1>4, <1>5
<1>6. CASE index' = [index EXCEPT ![h] = @ + 1] /\ ~Exhausted(h)
  <2>1. index[h] + 1 \in DOMAIN endpoints(HomeOf[h])
    BY <1>2, <1>6 DEF Exhausted
  <2>2. ASSUME NEW g \in Hosts PROVE index'[g] \in DOMAIN endpoints(HomeOf[g])
    BY <1>4, <1>6, <2>1
  <2>3. index' \in [Hosts -> Nat]
    BY <1>4, <1>6
  <2>. QED  BY <1>1, <1>3, <2>2, <2>3
<1>. QED  BY <1>5, <1>6 DEF Conclude

LEMMA SameEndpoints ==
    ASSUME platform' = platform
    PROVE  \A place : endpoints(place)' = endpoints(place)
  BY DEF endpoints

LEMMA AttemptType ==
    ASSUME TypeOK, NEW h \in Hosts, Attempt(h)
    PROVE  TypeOK'
<1>1. Candidate(h) \in Addresses
  BY CandidateType
<1>2. CASE Listen(h)
  BY <1>1, <1>2, SameEndpoints DEF Listen, TypeOK, Places
<1>3. CASE ListenFails(h)
  BY <1>3, SameEndpoints DEF ListenFails, TypeOK, Places
<1>4. CASE Answered(h)
  <2>1. Recognised(h, listener[Candidate(h)]) \in BOOLEAN
    BY DEF Recognised
  <2>. QED  BY <1>4, <2>1, ConcludeType DEF Answered, TypeOK
<1>5. CASE Unreachable(h)
  BY <1>5, ConcludeType DEF Unreachable, TypeOK
<1>6. CASE TimedOut(h)
  <2>1. silent' \subseteq Hosts \X Hosts
    BY <1>6 DEF TimedOut, TypeOK
  <2>. QED  BY <1>6, <2>1, ConcludeType DEF TimedOut, TypeOK
<1>. QED  BY <1>2, <1>3, <1>4, <1>5, <1>6 DEF Attempt

LEMMA BootType ==
    ASSUME TypeOK, NEW h \in Hosts, Boot(h)
    PROVE  TypeOK'
<1>1. \A g \in Hosts : index'[g] \in DOMAIN endpoints(HomeOf[g])
  <2>1. HomeOf[h] \in Homes
    BY HomeLeaseAssumption
  <2>2. 1 \in DOMAIN endpoints(HomeOf[h])
    BY <2>1, EndpointsType DEF TypeOK
  <2>. QED  BY <2>2 DEF Boot, TypeOK
<1>. QED  BY <1>1, SameEndpoints DEF Boot, TypeOK, Places

LEMMA TypeStep == TypeOK /\ [Next]_vars => TypeOK'
<1>. SUFFICES ASSUME TypeOK, [Next]_vars PROVE TypeOK'
  OBVIOUS
<1>1. ASSUME NEW h \in Hosts, Exit(h) PROVE TypeOK'
  BY <1>1, SameEndpoints DEF Exit, TypeOK, Places
<1>2. ASSUME NEW port \in Strangers, StrangerListens(port) PROVE TypeOK'
  BY <1>2, SameEndpoints, HomeLeaseAssumption DEF StrangerListens, TypeOK, Addresses
<1>3. ASSUME NEW port \in Strangers, StrangerLeaves(port) PROVE TypeOK'
  BY <1>3, SameEndpoints, HomeLeaseAssumption DEF StrangerLeaves, TypeOK, Addresses
<1>4. CASE UNCHANGED vars
  BY <1>4, SameEndpoints DEF vars, TypeOK
<1>. QED  BY <1>1, <1>2, <1>3, <1>4, AttemptType, BootType DEF Next

(* Every index stays within the candidates of its home, however Hosts,     *)
(* strangers and lost answers interleave.                                  *)
THEOREM TypeCorrect == Spec => []TypeOK
  BY TypeInit, TypeStep, PTL DEF Spec

------------------------------------------------------------------------------
(* Who listens where.                                                      *)

(* A step that leaves the listeners and the owners alone.                  *)
LEMMA OwnersStay ==
    ASSUME ListenersOwn, listener' = listener, platform' = platform,
           \A g \in Hosts : at'[g] = "owner" <=> at[g] = "owner",
           \A g \in Hosts : at[g] = "owner" => index'[g] = index[g]
    PROVE  ListenersOwn'
<1>1. \A g \in Hosts : at[g] = "owner" => Candidate(g)' = Candidate(g)
  BY SameEndpoints DEF Candidate
<1>. QED  BY <1>1 DEF ListenersOwn

LEMMA ProbeOwns ==
    ASSUME TypeOK, ListenersOwn, NEW h \in Hosts, NEW recognised, at[h] = "probe",
           Conclude(h, recognised), listener' = listener, platform' = platform
    PROVE  ListenersOwn'
<1>1. /\ \A g \in Hosts : at'[g] = "owner" <=> at[g] = "owner"
      /\ \A g \in Hosts : at[g] = "owner" => index'[g] = index[g]
  BY DEF Conclude, TypeOK
<1>. QED  BY <1>1, OwnersStay

LEMMA NobodyListens ==
    ASSUME HomeLeaseAssumption, NEW h \in Hosts
    PROVE  h # Free /\ h # Foreign
  BY DEF HomeLeaseAssumption

LEMMA OwnersStep == TypeOK /\ ListenersOwn /\ [Next]_vars => ListenersOwn'
<1>. SUFFICES ASSUME TypeOK, ListenersOwn, [Next]_vars PROVE ListenersOwn'
  OBVIOUS
<1>1. ASSUME NEW h \in Hosts, Boot(h) PROVE ListenersOwn'
  <2>1. /\ \A g \in Hosts : at'[g] = "owner" <=> at[g] = "owner"
        /\ \A g \in Hosts : at[g] = "owner" => index'[g] = index[g]
    BY <1>1 DEF Boot, TypeOK
  <2>. QED  BY <1>1, <2>1, OwnersStay DEF Boot
<1>2. ASSUME NEW h \in Hosts, Listen(h) PROVE ListenersOwn'
  <2>1. CASE listener[Candidate(h)] = Free
    <3>1. \A g \in Hosts : Candidate(g)' = Candidate(g)
      BY <1>2, SameEndpoints DEF Listen, Candidate
    <3>2. /\ Candidate(h) \in Addresses
          /\ listener' = [listener EXCEPT ![Candidate(h)] = h]
          /\ at' = [at EXCEPT ![h] = "owner"] /\ at[h] = "listen"
      BY <1>2, <2>1, CandidateType DEF Listen
    <3>3. \A g \in Hosts : at'[g] = "owner" => listener'[Candidate(g)] = g
      BY <2>1, <3>2, NobodyListens, CandidateType, HomeLeaseAssumption DEF ListenersOwn, TypeOK
    <3>4. \A g \in Hosts, e \in Addresses :
             listener'[e] = g => at'[g] = "owner" /\ e = Candidate(g)
      BY <3>2 DEF ListenersOwn, TypeOK
    <3>. QED  BY <3>1, <3>3, <3>4 DEF ListenersOwn
  <2>2. CASE listener[Candidate(h)] # Free
    <3>1. \A g \in Hosts : at'[g] = "owner" <=> at[g] = "owner"
      BY <1>2, <2>2 DEF Listen, TypeOK
    <3>. QED  BY <1>2, <2>2, <3>1, OwnersStay DEF Listen
  <2>. QED  BY <2>1, <2>2
<1>3. ASSUME NEW h \in Hosts, ListenFails(h) PROVE ListenersOwn'
  <2>1. \A g \in Hosts : at'[g] = "owner" <=> at[g] = "owner"
    BY <1>3 DEF ListenFails, TypeOK
  <2>. QED  BY <1>3, <2>1, OwnersStay DEF ListenFails
<1>4. ASSUME NEW h \in Hosts, Answered(h) \/ Unreachable(h) \/ TimedOut(h)
      PROVE  ListenersOwn'
  BY <1>4, ProbeOwns DEF Answered, Unreachable, TimedOut
<1>5. ASSUME NEW h \in Hosts, Exit(h) PROVE ListenersOwn'
  <2>1. \A g \in Hosts : Candidate(g)' = Candidate(g)
    BY <1>5, SameEndpoints DEF Exit, Candidate
  <2>2. \A g \in Hosts : at'[g] = IF g = h THEN "off" ELSE at[g]
    BY <1>5 DEF Exit, TypeOK
  <2>3. \A e \in Addresses : listener'[e] = IF listener[e] = h THEN Free ELSE listener[e]
    BY <1>5 DEF Exit
  <2>4. \A g \in Hosts : at'[g] = "owner" => listener'[Candidate(g)] = g
    BY <2>2, <2>3, CandidateType DEF ListenersOwn
  <2>5. \A g \in Hosts, e \in Addresses :
           listener'[e] = g => at'[g] = "owner" /\ e = Candidate(g)
    BY <2>2, <2>3, NobodyListens, HomeLeaseAssumption DEF ListenersOwn
  <2>. QED  BY <2>1, <2>4, <2>5 DEF ListenersOwn
<1>6. ASSUME NEW port \in Strangers, StrangerListens(port) \/ StrangerLeaves(port)
      PROVE  ListenersOwn'
  <2>1. /\ \A g \in Hosts : Candidate(g)' = Candidate(g)
        /\ at' = at
    BY <1>6, SameEndpoints DEF StrangerListens, StrangerLeaves, Candidate
  <2>2. /\ listener[port] \in {Free, Foreign} /\ listener'[port] \in {Free, Foreign}
        /\ \A e \in Addresses : e # port => listener'[e] = listener[e]
    BY <1>6, HomeLeaseAssumption DEF StrangerListens, StrangerLeaves, TypeOK, Addresses
  <2>3. \A g \in Hosts : at[g] = "owner" => listener'[Candidate(g)] = g
    BY <2>2, NobodyListens, CandidateType, HomeLeaseAssumption DEF ListenersOwn
  <2>4. \A g \in Hosts, e \in Addresses :
           listener'[e] = g => at[g] = "owner" /\ e = Candidate(g)
    BY <2>2, NobodyListens, HomeLeaseAssumption DEF ListenersOwn
  <2>. QED  BY <2>1, <2>3, <2>4 DEF ListenersOwn
<1>7. CASE UNCHANGED vars
  BY <1>7, OwnersStay DEF vars
<1>. QED  BY <1>1, <1>2, <1>3, <1>4, <1>5, <1>6, <1>7 DEF Next, Attempt

LEMMA OwnersInit == Init => ListenersOwn
  BY NobodyListens, HomeLeaseAssumption DEF Init, ListenersOwn

------------------------------------------------------------------------------
(* What a Host passed stays as it found it.                                *)

LEMMA PassedStays ==
    ASSUME TypeOK, NEW h \in Hosts, PassedFor(h), platform' = platform,
           index'[h] = index[h],
           at'[h] \in {"listen", "probe", "owner"} => at[h] \in {"listen", "probe", "owner"},
           at'[h] = "probe" => Taken(Candidate(h)),
           vacated \subseteq vacated',
           \A e \in Addresses :
              \/ e \in vacated'
              \/ e \notin vacated /\ listener[e] = Free
              \/ /\ listener'[e] = listener[e]
                 /\ <<h, listener[e]>> \in silent => <<h, listener[e]>> \in silent'
    PROVE  PassedFor(h)'
<1>1. /\ endpoints(HomeOf[h])' = endpoints(HomeOf[h])
      /\ Candidate(h)' = Candidate(h)
  BY SameEndpoints DEF Candidate
<1>2. /\ Candidate(h) \in Addresses
      /\ index[h] \in 1..Len(endpoints(HomeOf[h]))
      /\ Len(endpoints(HomeOf[h])) \in Nat
      /\ \A i \in 1..Len(endpoints(HomeOf[h])) : endpoints(HomeOf[h])[i] \in Addresses
  BY CandidateType, EndpointsType, HomeLeaseAssumption DEF TypeOK
<1>3. \A e \in Addresses : Passed(h, e) => Passed(h, e)'
  BY DEF Passed
<1>4. \A e \in Addresses : Taken(e) => Taken(e)'
  BY DEF Taken
<1>5. ASSUME at'[h] \in {"listen", "probe", "owner"}, NEW i \in 1..(index'[h] - 1)
      PROVE  Passed(h, endpoints(HomeOf[h])[i])'
  <2>1. endpoints(HomeOf[h])[i] \in Addresses
    BY <1>2
  <2>2. Passed(h, endpoints(HomeOf[h])[i])
    BY <1>5 DEF PassedFor
  <2>3. Passed(h, endpoints(HomeOf[h])[i])'
    BY <2>1, <2>2, <1>3, <1>1 DEF Passed
  <2>. QED  BY <2>3
<1>6. at'[h] = "probe" => Taken(Candidate(h))'
  BY <1>1, <1>2, <1>4 DEF Taken
<1>. QED  BY <1>5, <1>6 DEF PassedFor

(* A step of one Host that leaves listeners alone.                         *)
LEMMA OthersPassed ==
    ASSUME TypeOK, PassedAll, NEW h \in Hosts, PassedFor(h)', platform' = platform,
           listener' = listener, vacated' = vacated,
           \A g \in Hosts : g # h => at'[g] = at[g] /\ index'[g] = index[g],
           \A g, x \in Hosts : g # h /\ <<g, x>> \in silent => <<g, x>> \in silent'
    PROVE  PassedAll'
<1>. SUFFICES ASSUME NEW g \in Hosts, g # h PROVE PassedFor(g)'
  BY DEF PassedAll
<1>1. PassedFor(g)
  BY DEF PassedAll
<1>2. at'[g] = "probe" => Taken(Candidate(g))
  BY <1>1 DEF PassedFor
<1>3. \A e \in Addresses : <<g, listener[e]>> \in silent => <<g, listener[e]>> \in silent'
  BY DEF TypeOK
<1>. QED  BY <1>1, <1>2, <1>3, PassedStays

LEMMA ProbePassed ==
    ASSUME TypeOK, PassedAll, NEW h \in Hosts, NEW recognised \in BOOLEAN, at[h] = "probe",
           Conclude(h, recognised), listener' = listener, vacated' = vacated,
           platform' = platform, silent \subseteq silent',
           silent' \subseteq silent \union ({h} \X Hosts),
           recognised \/ Candidate(h) \in vacated
             \/ /\ listener[Candidate(h)] # Free
                /\ listener[Candidate(h)] \in Hosts
                      /\ HomeOf[listener[Candidate(h)]] = HomeOf[h]
                   => <<h, listener[Candidate(h)]>> \in silent'
    PROVE  PassedAll'
<1>1. /\ \A g \in Hosts : g # h => at'[g] = at[g] /\ index'[g] = index[g]
      /\ at'[h] \in {"refused", "failed", "listen"}
      /\ at'[h] = "listen" => index'[h] = index[h] + 1 /\ ~recognised
  BY DEF Conclude, TypeOK
<1>2. index[h] \in 1..Len(endpoints(HomeOf[h])) /\ Len(endpoints(HomeOf[h])) \in Nat
  BY CandidateType, EndpointsType, HomeLeaseAssumption DEF TypeOK
<1>3. ASSUME at'[h] = "listen", NEW i \in 1..(index'[h] - 1)
      PROVE  Passed(h, endpoints(HomeOf[h])[i])'
  <2>1. CASE i = index[h]
    <3>1. endpoints(HomeOf[h])[i] = Candidate(h)
      BY <2>1 DEF Candidate
    <3>2. (endpoints(HomeOf[h])[i])' = Candidate(h)
      BY <3>1, SameEndpoints
    <3>. QED  BY <1>1, <1>3, <3>2 DEF Passed
  <2>2. CASE i # index[h]
    <3>1. i \in 1..(index[h] - 1)
      BY <1>1, <1>2, <1>3, <2>2
    <3>2. Passed(h, endpoints(HomeOf[h])[i])
      BY <3>1 DEF PassedAll, PassedFor
    <3>. QED  BY <3>2, SameEndpoints DEF Passed
  <2>. QED  BY <2>1, <2>2
<1>4. PassedFor(h)'
  BY <1>1, <1>3 DEF PassedFor
<1>. QED  BY <1>1, <1>4, OthersPassed

LEMMA AttemptPassed ==
    ASSUME TypeOK, ListenersOwn, PassedAll, NEW h \in Hosts, Attempt(h)
    PROVE  PassedAll'
<1>0. /\ PassedFor(h)
      /\ Candidate(h) \in Addresses
      /\ listener[Candidate(h)] \in Hosts \union {Free, Foreign}
  BY CandidateType DEF PassedAll, TypeOK
<1>1. CASE Listen(h) /\ listener[Candidate(h)] = Free
  <2>1. /\ \A g \in Hosts : at'[g] = IF g = h THEN "owner" ELSE at[g]
        /\ \A e \in Addresses : listener'[e] = listener[e] \/ listener[e] = Free
        /\ UNCHANGED <<platform, index, vacated, silent>> /\ at[h] = "listen"
    BY <1>0, <1>1 DEF Listen, TypeOK
  <2>. SUFFICES ASSUME NEW g \in Hosts PROVE PassedFor(g)'
    BY DEF PassedAll
  <2>2. PassedFor(g) /\ (at'[g] = "probe" => Taken(Candidate(g)))
    BY <2>1 DEF PassedAll, PassedFor
  <2>3. at'[g] \in {"listen", "probe", "owner"} => at[g] \in {"listen", "probe", "owner"}
    BY <2>1
  <2>4. \A e \in Addresses :
           \/ e \in vacated'
           \/ e \notin vacated /\ listener[e] = Free
           \/ /\ listener'[e] = listener[e]
              /\ <<g, listener[e]>> \in silent => <<g, listener[e]>> \in silent'
    BY <2>1
  <2>. QED  BY <2>1, <2>2, <2>3, <2>4, PassedStays
<1>2. CASE Listen(h) /\ listener[Candidate(h)] # Free
  <2>1. /\ \A g \in Hosts : at'[g] = IF g = h THEN "probe" ELSE at[g]
        /\ UNCHANGED <<platform, listener, index, vacated, silent>> /\ at[h] = "listen"
    BY <1>2 DEF Listen, TypeOK
  <2>2. Taken(Candidate(h))
    BY <1>2 DEF Taken
  <2>3. PassedFor(h)'
    BY <1>0, <2>1, <2>2, PassedStays
  <2>. QED  BY <2>1, <2>3, OthersPassed
<1>3. CASE ListenFails(h)
  <2>1. /\ \A g \in Hosts : at'[g] = IF g = h THEN "failed" ELSE at[g]
        /\ UNCHANGED <<platform, listener, index, vacated, silent>>
    BY <1>3 DEF ListenFails, TypeOK
  <2>2. PassedFor(h)'
    BY <2>1 DEF PassedFor
  <2>. QED  BY <2>1, <2>2, OthersPassed
<1>4. CASE Answered(h)
  <2>1. Recognised(h, listener[Candidate(h)]) \in BOOLEAN
    BY DEF Recognised
  <2>2. \/ Recognised(h, listener[Candidate(h)])
        \/ HomeOf[listener[Candidate(h)]] # HomeOf[h]
    BY DEF Recognised
  <2>3. listener[Candidate(h)] # Free
    BY <1>4, NobodyListens, HomeLeaseAssumption DEF Answered
  <2>. QED  BY <1>4, <2>1, <2>2, <2>3, ProbePassed DEF Answered
<1>5. CASE Unreachable(h)
  <2>1. Candidate(h) \in vacated
    BY <1>0, <1>5 DEF Unreachable, PassedFor, Taken
  <2>. QED  BY <1>5, <2>1, ProbePassed DEF Unreachable
<1>6. CASE TimedOut(h)
  <2>1. /\ silent \subseteq silent' /\ silent' \subseteq silent \union ({h} \X Hosts)
        /\ listener[Candidate(h)] \in Hosts => <<h, listener[Candidate(h)]>> \in silent'
    BY <1>6 DEF TimedOut
  <2>2. listener[Candidate(h)] # Free
    BY <1>6 DEF TimedOut, GivesUp
  <2>. QED  BY <1>6, <2>1, <2>2, ProbePassed DEF TimedOut
<1>. QED  BY <1>1, <1>2, <1>3, <1>4, <1>5, <1>6 DEF Attempt, Listen

LEMMA PassedStep == TypeOK /\ ListenersOwn /\ PassedAll /\ [Next]_vars => PassedAll'
<1>. SUFFICES ASSUME TypeOK, ListenersOwn, PassedAll, [Next]_vars PROVE PassedAll'
  OBVIOUS
<1>1. ASSUME NEW h \in Hosts, Boot(h) PROVE PassedAll'
  <2>1. /\ \A g \in Hosts : g # h => at'[g] = at[g] /\ index'[g] = index[g]
        /\ at'[h] = "listen" /\ index'[h] = 1
        /\ \A g, x \in Hosts : g # h /\ <<g, x>> \in silent => <<g, x>> \in silent'
        /\ UNCHANGED <<platform, listener, vacated>>
    BY <1>1 DEF Boot, TypeOK
  <2>2. PassedFor(h)'
    BY <2>1 DEF PassedFor
  <2>. QED  BY <2>1, <2>2, OthersPassed
<1>2. ASSUME NEW h \in Hosts, Exit(h) PROVE PassedAll'
  <2>1. /\ \A g \in Hosts : at'[g] = IF g = h THEN "off" ELSE at[g]
        /\ \A e \in Addresses : listener'[e] = listener[e] \/ e \in vacated'
        /\ \A e \in Addresses : listener[e] = h => e \in vacated'
        /\ vacated \subseteq vacated'
        /\ UNCHANGED <<platform, index>>
    BY <1>2 DEF Exit, TypeOK
  <2>2. \A g, x \in Hosts : g # h /\ x # h /\ <<g, x>> \in silent => <<g, x>> \in silent'
    BY <1>2 DEF Exit
  <2>3. PassedFor(h)'
    BY <2>1 DEF PassedFor
  <2>4. ASSUME NEW g \in Hosts, g # h PROVE PassedFor(g)'
    <3>1. PassedFor(g) /\ (at'[g] = "probe" => Taken(Candidate(g))) /\ at'[g] = at[g]
      BY <2>1, <2>4 DEF PassedAll, PassedFor
    <3>2. \A e \in Addresses :
             <<g, listener[e]>> \in silent
             => e \in vacated' \/ <<g, listener[e]>> \in silent'
      BY <2>1, <2>2, <2>4 DEF TypeOK
    <3>. QED  BY <2>1, <3>1, <3>2, PassedStays
  <2>. QED  BY <2>3, <2>4 DEF PassedAll
<1>3. ASSUME NEW port \in Strangers, StrangerListens(port) \/ StrangerLeaves(port)
      PROVE  PassedAll'
  <2>. SUFFICES ASSUME NEW g \in Hosts PROVE PassedFor(g)'
    BY DEF PassedAll
  <2>1. /\ UNCHANGED <<platform, at, index, silent>>
        /\ vacated \subseteq vacated'
        /\ \A e \in Addresses :
              \/ listener'[e] = listener[e]
              \/ listener[e] = Free
              \/ e \in vacated'
    BY <1>3 DEF StrangerListens, StrangerLeaves, TypeOK
  <2>2. PassedFor(g) /\ (at'[g] = "probe" => Taken(Candidate(g)))
    BY <2>1 DEF PassedAll, PassedFor
  <2>. QED  BY <2>1, <2>2, PassedStays
<1>4. CASE UNCHANGED vars
  <2>. SUFFICES ASSUME NEW g \in Hosts PROVE PassedFor(g)'
    BY DEF PassedAll
  <2>1. PassedFor(g) /\ (at'[g] = "probe" => Taken(Candidate(g)))
    BY <1>4 DEF vars, PassedAll, PassedFor
  <2>. QED  BY <1>4, <2>1, PassedStays DEF vars
<1>. QED  BY <1>1, <1>2, <1>3, <1>4, AttemptPassed DEF Next

LEMMA PassedInit == Init => PassedAll
  BY DEF Init, PassedAll, PassedFor

LEMMA Invariance == Spec => []IInv
<1>1. Init => IInv
  BY TypeInit, OwnersInit, PassedInit DEF IInv
<1>2. IInv /\ [Next]_vars => IInv'
  BY TypeStep, OwnersStep, PassedStep DEF IInv
<1>. QED  BY <1>1, <1>2, PTL DEF Spec

(* Two owners of a home listen on different candidates, and the one that   *)
(* is further on passed the other's: so that one changed hands or its      *)
(* owner was not heard.                                                    *)
THEOREM SplitExplained == Spec => []SplitNeedsTurnover
<1>1. IInv => SplitNeedsTurnover
  <2>. SUFFICES ASSUME IInv, NEW place \in Homes,
                       NEW first \in Owners(place), NEW second \in Owners(place),
                       first # second, index[first] <= index[second]
                PROVE  Candidate(first) \in vacated \/ <<second, first>> \in silent
    BY DEF SplitNeedsTurnover
  <2>1. /\ first \in Hosts /\ at[first] = "owner" /\ HomeOf[first] = place
        /\ second \in Hosts /\ at[second] = "owner" /\ HomeOf[second] = place
        /\ TypeOK /\ ListenersOwn /\ PassedFor(second)
    BY DEF IInv, Owners, PassedAll
  <2>2. /\ listener[Candidate(first)] = first
        /\ listener[Candidate(second)] = second
    BY <2>1 DEF ListenersOwn
  <2>3. /\ index[first] \in 1..Len(endpoints(place)) /\ Len(endpoints(place)) \in Nat
        /\ index[second] \in 1..Len(endpoints(place))
    BY <2>1, CandidateType, EndpointsType DEF TypeOK
  <2>4. Candidate(first) = endpoints(place)[index[first]]
    BY <2>1 DEF Candidate
  <2>5. index[first] # index[second]
    BY <2>1, <2>2 DEF Candidate
  <2>6. index[first] \in 1..(index[second] - 1)
    BY <2>3, <2>5
  <2>7. Passed(second, Candidate(first))
    BY <2>1, <2>4, <2>6 DEF PassedFor
  <2>. QED  BY <2>1, <2>2, <2>7 DEF Passed
<1>. QED  BY <1>1, Invariance, PTL
==============================================================================
