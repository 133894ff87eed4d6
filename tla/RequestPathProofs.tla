-------------------------- MODULE RequestPathProofs --------------------------
(***************************************************************************)
(* The bounds of RequestPath for any number of requests, addresses and     *)
(* slots.                                                                  *)
(***************************************************************************)
EXTENDS RequestPath, FiniteSetTheorems, TLAPS

\* The routes of requests on their way.
RoutesFit ==
    \A r \in Requests :
        /\ pc[r] # "idle" => ip[r] \in IPs
        /\ pc[r] \in {"lane", "return"} => route[r] \in Lanes

\* The channels hold one token for each goroutine inside.
SlotsAreCounted ==
    /\ guard = Cardinality(Running)
    /\ guard <= MaxRequests
    /\ \A l \in Lanes : lane[l] = Cardinality(Occupants(l)) /\ lane[l] <= MaxLane[l]

\* The requests of i between IsBlocked and their verdict.
Checking(i) == {r \in Requests : pc[r] = "token" /\ ip[r] = i}

\* An address at its limit is blocked, and what can still be added to its
\* failures comes from the requests that were let in before.
TriesAreCounted ==
    \A i \in IPs :
        failures[i] >= MaxFailures =>
            /\ i \in blocked
            /\ failures[i] + Cardinality(Checking(i)) <= MaxFailures + MaxRequests - 1

SlotInv == TypeOK /\ RoutesFit /\ SlotsAreCounted

Inv == SlotInv /\ TriesAreCounted

\* The sets that are counted are finite.
LEMMA Finite ==
    /\ IsFiniteSet(Running) /\ Cardinality(Running) \in Nat
    /\ \A l \in Lanes : IsFiniteSet(Occupants(l)) /\ Cardinality(Occupants(l)) \in Nat
    /\ \A i \in IPs : IsFiniteSet(Checking(i)) /\ Cardinality(Checking(i)) \in Nat
<1>1. \A S \in SUBSET Requests : IsFiniteSet(S) /\ Cardinality(S) \in Nat
  BY PathAssumption, FS_Subset, FS_CardinalityType
<1>2. /\ Running \in SUBSET Requests
      /\ \A l \in Lanes : Occupants(l) \in SUBSET Requests
      /\ \A i \in IPs : Checking(i) \in SUBSET Requests
  BY DEF Running, Occupants, Checking
<1> QED
  BY <1>1, <1>2

\* Nobody is inside at the start.
LEMMA InitInv == Init => Inv
<1> SUFFICES ASSUME Init PROVE Inv
  OBVIOUS
<1>1. TypeOK /\ RoutesFit
  BY DEF Init, TypeOK, RoutesFit, Labels, Replies, Lanes
<1>2. Running = {} /\ \A l \in Lanes : Occupants(l) = {}
  BY DEF Init, Running, Inside, Occupants, InLane
<1>3. SlotsAreCounted
  <2>1. Cardinality(Running) = 0 /\ \A l \in Lanes : Cardinality(Occupants(l)) = 0
    BY <1>2, FS_EmptySet
  <2>2. guard = 0 /\ \A l \in Lanes : lane[l] = 0
    BY DEF Init
  <2>3. MaxRequests \in Nat /\ \A l \in Lanes : MaxLane[l] \in Nat
    BY PathAssumption
  <2> QED
    BY <2>1, <2>2, <2>3 DEF SlotsAreCounted
<1>4. TriesAreCounted
  BY PathAssumption DEF Init, TriesAreCounted
<1> QED
  BY <1>1, <1>3, <1>4 DEF Inv, SlotInv

\* Type correctness of every step, and routes that fit.
LEMMA NextTypes ==
    ASSUME SlotInv, [Next]_vars
    PROVE  TypeOK' /\ RoutesFit'
<1> USE DEF SlotInv, TypeOK, RoutesFit, Labels, Replies, Routes, Goto, Answer,
        ToHandler, request, auth
<1>0. /\ guard \in Nat
      /\ \A l \in Lanes : lane[l] \in Nat
      /\ \A i \in IPs : failures[i] \in Nat
  OBVIOUS
<1>1. ASSUME NEW r \in Requests, Arrive(r) PROVE TypeOK' /\ RoutesFit'
  <2>1. CASE UNCHANGED <<pc, request, guard>> /\ reply' = [reply EXCEPT ![r] = "busy"]
    BY <1>1, <2>1 DEF Arrive
  <2>2. CASE Goto(r, "limit") /\ guard' = guard + 1
    <3>1. PICK t \in Routes, i \in IPs :
            route' = [route EXCEPT ![r] = t] /\ ip' = [ip EXCEPT ![r] = i]
      BY <1>1, <2>2 DEF Arrive
    <3>2. UNCHANGED <<lane, data, auth>> /\ reply' = [reply EXCEPT ![r] = "none"]
      BY <1>1, <2>2 DEF Arrive
    <3>3. pc' \in [Requests -> Labels] /\ reply' \in [Requests -> Replies]
      BY <2>2, <3>2
    <3>6. guard' \in Nat
      <4> HIDE DEF SlotInv
      <4> QED
        BY <1>0, <2>2
    <3>4. /\ route' \in [Requests -> Routes \cup {"none"}]
          /\ ip' \in [Requests -> IPs \cup {NoIP}]
      BY <3>1
    <3>5. RoutesFit'
      BY <2>2, <3>1
    <3> QED
      BY <3>2, <3>3, <3>4, <3>5, <3>6
  <2> QED
    BY <1>1, <2>1, <2>2 DEF Arrive
<1>2. ASSUME NEW r \in Requests, Timeout(r) PROVE TypeOK' /\ RoutesFit'
  BY <1>2 DEF Timeout
<1>3. ASSUME NEW r \in Requests, Allow(r) PROVE TypeOK' /\ RoutesFit'
  <2>1. data' \subseteq IPs
    <3>1. PICK kept \in SUBSET data : data' \in Room(kept, ip[r])
      BY <1>3 DEF Allow, Swept
    <3>2. ip[r] \in IPs
      BY <1>3 DEF Allow
    <3>3. data' = kept \cup {ip[r]} \/ \E x \in kept : data' = (kept \ {x}) \cup {ip[r]}
      BY <3>1 DEF Room
    <3> QED
      BY <3>1, <3>2, <3>3
  <2>2. pc' \in [Requests -> Labels] /\ reply' \in [Requests -> Replies]
    BY <1>3 DEF Allow
  <2>3. RoutesFit'
    BY <1>3 DEF Allow
  <2> QED
    BY <1>3, <2>1, <2>2, <2>3 DEF Allow
<1>4. ASSUME NEW r \in Requests, IsBlocked(r) PROVE TypeOK' /\ RoutesFit'
  <2>1. pc' \in [Requests -> Labels] /\ reply' \in [Requests -> Replies]
    BY <1>4 DEF IsBlocked
  <2>2. /\ failures' \in [IPs -> Nat]
        /\ blocked' \subseteq IPs /\ over' \subseteq blocked'
    <3>1. failures' = failures \/ failures' = [failures EXCEPT ![ip[r]] = 0]
      BY <1>4 DEF IsBlocked
    <3>2. \/ UNCHANGED <<blocked, over>>
          \/ blocked' = blocked \ {ip[r]} /\ over' = over \ {ip[r]}
      BY <1>4 DEF IsBlocked
    <3>3. failures' \in [IPs -> Nat]
      <4>1. failures \in [IPs -> Nat]
        OBVIOUS
      <4> HIDE DEF SlotInv
      <4> QED
        BY <3>1, <4>1
    <3>4. blocked' \subseteq IPs /\ over' \subseteq blocked'
      BY <3>2
    <3> QED
      BY <3>3, <3>4
  <2>3. RoutesFit'
    BY <1>4 DEF IsBlocked
  <2> QED
    BY <1>4, <2>1, <2>2, <2>3 DEF IsBlocked
<1>5. ASSUME NEW r \in Requests, CheckToken(r) PROVE TypeOK' /\ RoutesFit'
  <2>1. pc' \in [Requests -> Labels] /\ reply' \in [Requests -> Replies]
    BY <1>5 DEF CheckToken
  <2>2. /\ failures' \in [IPs -> Nat]
        /\ blocked' \subseteq IPs /\ over' \subseteq blocked'
    <3>1. ip[r] \in IPs
      BY <1>5 DEF CheckToken
    <3>2. CASE Failure(ip[r])
      <4>1. failures' \in [IPs -> Nat]
        <5>1. failures[ip[r]] + 1 \in Nat
          <6> HIDE DEF SlotInv
          <6> QED
            BY <1>0, <3>1
        <5>2. failures' = [failures EXCEPT ![ip[r]] = failures[ip[r]] + 1]
          BY <3>2 DEF Failure
        <5> QED
          BY <5>1, <5>2
      <4>2. \/ UNCHANGED <<blocked, over>>
            \/ blocked' = blocked \cup {ip[r]} /\ over' = over \ {ip[r]}
        BY <3>2 DEF Failure
      <4> QED
        BY <3>1, <4>1, <4>2
    <3>3. CASE Success(ip[r])
      BY <3>1, <3>3 DEF Success
    <3>4. CASE UNCHANGED auth
      BY <3>4
    <3> QED
      BY <1>5, <3>2, <3>3, <3>4 DEF CheckToken
  <2>3. RoutesFit'
    BY <1>5 DEF CheckToken
  <2> QED
    BY <1>5, <2>1, <2>2, <2>3 DEF CheckToken
<1>6. ASSUME NEW r \in Requests, EnterLane(r) PROVE TypeOK' /\ RoutesFit'
  <2>1. pc' \in [Requests -> Labels] /\ reply' \in [Requests -> Replies]
    BY <1>6 DEF EnterLane
  <2>2. lane' \in [Lanes -> Nat]
    <3>1. route[r] \in Lanes
      BY <1>6 DEF EnterLane
    <3>2. lane' = lane \/ lane' = [lane EXCEPT ![route[r]] = lane[route[r]] + 1]
      BY <1>6 DEF EnterLane
    <3>3. lane[route[r]] + 1 \in Nat
      <4> HIDE DEF SlotInv
      <4> QED
        BY <1>0, <3>1
    <3> QED
      BY <3>2, <3>3
  <2>3. RoutesFit'
    BY <1>6 DEF EnterLane
  <2> QED
    BY <1>6, <2>1, <2>2, <2>3 DEF EnterLane
<1>7. ASSUME NEW r \in Requests, Handle(r) PROVE TypeOK' /\ RoutesFit'
  BY <1>7 DEF Handle
<1>8. ASSUME NEW r \in Requests, LeaveLane(r) PROVE TypeOK' /\ RoutesFit'
  <2>1. pc' \in [Requests -> Labels]
    BY <1>8 DEF LeaveLane
  <2>2. lane' \in [Lanes -> Nat]
    <3>1. route[r] \in Lanes
      BY <1>8 DEF LeaveLane
    <3>2. \E n \in Nat : lane' = [lane EXCEPT ![route[r]] = n]
      <4> DEFINE k == lane[route[r]]
      <4>1. (IF k > 0 THEN k - 1 ELSE k) \in Nat
        <5> HIDE DEF SlotInv
        <5> QED
          BY <1>0, <3>1
      <4>2. lane' = [lane EXCEPT ![route[r]] = IF k > 0 THEN k - 1 ELSE k]
        BY <1>8 DEF LeaveLane
      <4> QED
        BY <4>1, <4>2
    <3> QED
      BY <3>2
  <2>3. RoutesFit'
    BY <1>8 DEF LeaveLane
  <2> QED
    BY <1>8, <2>1, <2>2, <2>3 DEF LeaveLane
<1>9. ASSUME NEW r \in Requests, Leave(r) PROVE TypeOK' /\ RoutesFit'
  <2>1. r \in Running
    BY <1>9 DEF Leave, Running, Inside
  <2>2. guard - 1 \in Nat
    <3>1. Cardinality(Running) # 0
      BY <2>1, Finite, FS_EmptySet
    <3>2. guard # 0
      BY <3>1 DEF SlotsAreCounted
    <3> HIDE DEF SlotInv
    <3> QED
      BY <1>0, <3>2
  <2> QED
    BY <1>9, <2>2 DEF Leave
<1>10. ASSUME NEW i \in IPs, BlockEnds(i) PROVE TypeOK' /\ RoutesFit'
  BY <1>10 DEF BlockEnds
<1>11. CASE UNCHANGED vars
  BY <1>11 DEF vars
<1> QED
  BY <1>1, <1>2, <1>3, <1>4, <1>5, <1>6, <1>7, <1>8, <1>9, <1>10, <1>11
     DEF Next, RequestStep

\* One goroutine more, one goroutine less.
LEMMA Counts ==
    \A S \in SUBSET Requests, r \in Requests :
        /\ r \notin S => Cardinality(S \cup {r}) = Cardinality(S) + 1
        /\ r \in S => Cardinality(S \ {r}) = Cardinality(S) - 1
<1> SUFFICES ASSUME NEW S \in SUBSET Requests, NEW r \in Requests
             PROVE  /\ r \notin S => Cardinality(S \cup {r}) = Cardinality(S) + 1
                    /\ r \in S => Cardinality(S \ {r}) = Cardinality(S) - 1
  OBVIOUS
<1>1. IsFiniteSet(S)
  BY FS_Subset, PathAssumption
<1> QED
  BY <1>1, FS_AddElement, FS_RemoveElement

\* A step that moves nobody past the guard or into a lane.
LEMMA SameSlots ==
    ASSUME SlotsAreCounted, UNCHANGED <<guard, lane>>,
           Running' = Running, \A l \in Lanes : Occupants(l)' = Occupants(l)
    PROVE  SlotsAreCounted'
  BY DEF SlotsAreCounted

\* A token is put into a channel with the goroutine that enters and taken out
\* with the one that leaves.
LEMMA NextSlots ==
    ASSUME SlotInv, [Next]_vars
    PROVE  SlotsAreCounted'
<1> USE DEF Goto, request, auth
<1>0. /\ pc \in [Requests -> Labels] /\ route \in [Requests -> Routes \cup {"none"}]
      /\ guard \in Nat /\ lane \in [Lanes -> Nat]
      /\ MaxRequests \in Nat /\ MaxLane \in [Lanes -> Nat]
      /\ SlotsAreCounted /\ RoutesFit
  BY PathAssumption DEF SlotInv, TypeOK
<1>1. ASSUME NEW r \in Requests, Arrive(r) PROVE SlotsAreCounted'
  <2>1. CASE UNCHANGED <<pc, request, guard>>
    BY <1>0, <1>1, <2>1, SameSlots DEF Arrive, Running, Inside, Occupants, InLane
  <2>2. CASE guard < MaxRequests /\ guard' = guard + 1 /\ Goto(r, "limit")
    <3>1. PICK t \in Routes : route' = [route EXCEPT ![r] = t]
      BY <1>1, <2>2 DEF Arrive
    <3>2. Running' = Running \cup {r} /\ r \notin Running
      BY <1>0, <1>1, <2>2 DEF Arrive, Running, Inside
    <3>3. \A l \in Lanes : Occupants(l)' = Occupants(l)
      BY <1>0, <1>1, <2>2, <3>1 DEF Arrive, Occupants, InLane
    <3>4. Cardinality(Running') = Cardinality(Running) + 1
      BY <3>2, Counts DEF Running
    <3>5. lane' = lane
      BY <1>1 DEF Arrive
    <3> QED
      BY <1>0, <2>2, <3>3, <3>4, <3>5 DEF SlotsAreCounted
  <2> QED
    BY <1>1, <2>1, <2>2 DEF Arrive
<1>2. ASSUME NEW r \in Requests, Timeout(r) PROVE SlotsAreCounted'
  BY <1>0, <1>2, SameSlots DEF Timeout, Running, Inside, Occupants, InLane
<1>3. ASSUME NEW r \in Requests, Allow(r) PROVE SlotsAreCounted'
  <2>1. \/ pc' = [pc EXCEPT ![r] = "leave"]
        \/ pc' = [pc EXCEPT ![r] = "auth"]
        \/ pc' = [pc EXCEPT ![r] = "lane"]
        \/ pc' = [pc EXCEPT ![r] = "handle"] /\ route[r] \notin Lanes
    BY <1>3 DEF Allow, ToHandler
  <2>2. UNCHANGED <<guard, lane, route>> /\ pc[r] = "limit"
    BY <1>3 DEF Allow
  <2>3. Running' = Running
    BY <1>0, <2>1, <2>2 DEF Running, Inside
  <2>4. \A l \in Lanes : Occupants(l)' = Occupants(l)
    BY <1>0, <2>1, <2>2 DEF Occupants, InLane, Lanes
  <2> QED
    BY <1>0, <2>2, <2>3, <2>4, SameSlots
<1>4. ASSUME NEW r \in Requests, IsBlocked(r) PROVE SlotsAreCounted'
  <2>1. pc' = [pc EXCEPT ![r] = "leave"] \/ pc' = [pc EXCEPT ![r] = "token"]
    BY <1>4 DEF IsBlocked
  <2>2. UNCHANGED <<guard, lane, route>> /\ pc[r] = "auth"
    BY <1>4 DEF IsBlocked
  <2> QED
    BY <1>0, <2>1, <2>2, SameSlots DEF Running, Inside, Occupants, InLane
<1>5. ASSUME NEW r \in Requests, CheckToken(r) PROVE SlotsAreCounted'
  <2>1. \/ pc' = [pc EXCEPT ![r] = "leave"]
        \/ pc' = [pc EXCEPT ![r] = "lane"]
        \/ pc' = [pc EXCEPT ![r] = "handle"] /\ route[r] \notin Lanes
    BY <1>5 DEF CheckToken, ToHandler
  <2>2. UNCHANGED <<guard, lane, route>> /\ pc[r] = "token"
    BY <1>5 DEF CheckToken
  <2>3. Running' = Running
    BY <1>0, <2>1, <2>2 DEF Running, Inside
  <2>4. \A l \in Lanes : Occupants(l)' = Occupants(l)
    BY <1>0, <2>1, <2>2 DEF Occupants, InLane
  <2> QED
    BY <1>0, <2>2, <2>3, <2>4, SameSlots
<1>6. ASSUME NEW r \in Requests, EnterLane(r) PROVE SlotsAreCounted'
  <2> DEFINE m == route[r]
  <2>1. m \in Lanes /\ pc[r] = "lane" /\ UNCHANGED <<guard, route>>
    BY <1>0, <1>6 DEF EnterLane, RoutesFit
  <2>2. CASE pc' = [pc EXCEPT ![r] = "leave"] /\ lane' = lane
    BY <1>0, <2>1, <2>2, SameSlots DEF Running, Inside, Occupants, InLane
  <2>3. CASE /\ pc' = [pc EXCEPT ![r] = "handle"]
             /\ lane[m] < MaxLane[m] /\ lane' = [lane EXCEPT ![m] = lane[m] + 1]
    <3>1. Running' = Running
      BY <1>0, <2>1, <2>3 DEF Running, Inside
    <3>2. Occupants(m)' = Occupants(m) \cup {r} /\ r \notin Occupants(m)
      BY <1>0, <2>1, <2>3 DEF Occupants, InLane
    <3>3. \A l \in Lanes \ {m} : Occupants(l)' = Occupants(l)
      BY <1>0, <2>1, <2>3 DEF Occupants, InLane
    <3>4. Cardinality(Occupants(m)') = Cardinality(Occupants(m)) + 1
      BY <3>2, Counts DEF Occupants
    <3>5. ASSUME NEW l \in Lanes
          PROVE  lane'[l] = Cardinality(Occupants(l)') /\ lane'[l] <= MaxLane[l]
      <4>1. CASE l = m
        BY <1>0, <2>1, <2>3, <3>4, <4>1 DEF SlotsAreCounted
      <4>2. CASE l # m
        BY <1>0, <2>3, <3>3, <4>2 DEF SlotsAreCounted
      <4> QED
        BY <4>1, <4>2
    <3> QED
      BY <1>0, <2>1, <3>1, <3>5 DEF SlotsAreCounted
  <2> QED
    BY <1>6, <2>2, <2>3 DEF EnterLane
<1>7. ASSUME NEW r \in Requests, Handle(r) PROVE SlotsAreCounted'
  <2>1. \/ pc' = [pc EXCEPT ![r] = "return"] /\ route[r] \in Lanes
        \/ pc' = [pc EXCEPT ![r] = "leave"] /\ route[r] \notin Lanes
    BY <1>7 DEF Handle
  <2>2. UNCHANGED <<guard, lane, route>> /\ pc[r] = "handle"
    BY <1>7 DEF Handle
  <2>3. Running' = Running
    BY <1>0, <2>1, <2>2 DEF Running, Inside
  <2>4. \A l \in Lanes : Occupants(l)' = Occupants(l)
    BY <1>0, <2>1, <2>2 DEF Occupants, InLane
  <2> QED
    BY <1>0, <2>2, <2>3, <2>4, SameSlots
<1>8. ASSUME NEW r \in Requests, LeaveLane(r) PROVE SlotsAreCounted'
  <2> DEFINE m == route[r]
  <2>1. /\ m \in Lanes /\ pc[r] = "return" /\ UNCHANGED <<guard, route>>
        /\ pc' = [pc EXCEPT ![r] = "leave"]
        /\ lane' = [lane EXCEPT ![m] = IF lane[m] > 0 THEN lane[m] - 1 ELSE lane[m]]
    BY <1>0, <1>8 DEF LeaveLane, RoutesFit
  <2>2. Running' = Running
    BY <1>0, <2>1 DEF Running, Inside
  <2>3. Occupants(m)' = Occupants(m) \ {r} /\ r \in Occupants(m)
    BY <1>0, <2>1 DEF Occupants, InLane
  <2>4. \A l \in Lanes \ {m} : Occupants(l)' = Occupants(l)
    BY <1>0, <2>1 DEF Occupants, InLane
  <2>5. Cardinality(Occupants(m)') = Cardinality(Occupants(m)) - 1
    BY <2>3, Counts DEF Occupants
  <2>6. Cardinality(Occupants(m)) # 0
    BY <2>1, <2>3, Finite, FS_EmptySet
  <2>7. ASSUME NEW l \in Lanes
        PROVE  lane'[l] = Cardinality(Occupants(l)') /\ lane'[l] <= MaxLane[l]
    <3>1. CASE l = m
      BY <1>0, <2>1, <2>5, <2>6, <3>1 DEF SlotsAreCounted
    <3>2. CASE l # m
      BY <1>0, <2>1, <2>4, <3>2 DEF SlotsAreCounted
    <3> QED
      BY <3>1, <3>2
  <2> QED
    BY <1>0, <2>1, <2>2, <2>7 DEF SlotsAreCounted
<1>9. ASSUME NEW r \in Requests, Leave(r) PROVE SlotsAreCounted'
  <2>1. /\ pc[r] = "leave" /\ pc' = [pc EXCEPT ![r] = "idle"]
        /\ route' = [route EXCEPT ![r] = "none"]
        /\ lane' = lane /\ guard' = guard - 1
    BY <1>9 DEF Leave
  <2>2. Running' = Running \ {r} /\ r \in Running
    BY <1>0, <2>1 DEF Running, Inside
  <2>3. \A l \in Lanes : Occupants(l)' = Occupants(l)
    BY <1>0, <2>1 DEF Occupants, InLane
  <2>4. Cardinality(Running') = Cardinality(Running) - 1
    BY <2>2, Counts DEF Running
  <2> QED
    BY <1>0, <2>1, <2>3, <2>4 DEF SlotsAreCounted
<1>10. ASSUME NEW i \in IPs, BlockEnds(i) PROVE SlotsAreCounted'
  BY <1>0, <1>10, SameSlots DEF BlockEnds, Running, Inside, Occupants, InLane
<1>11. CASE UNCHANGED vars
  BY <1>0, <1>11, SameSlots DEF vars, Running, Inside, Occupants, InLane
<1> QED
  BY <1>1, <1>2, <1>3, <1>4, <1>5, <1>6, <1>7, <1>8, <1>9, <1>10, <1>11
     DEF Next, RequestStep

\* A step that neither lets a request of i past IsBlocked nor counts for i.
LEMMA SameTries ==
    ASSUME NEW i \in IPs, TriesAreCounted, failures \in [IPs -> Nat],
           failures'[i] = failures[i], i \in blocked => i \in blocked',
           Checking(i)' = Checking(i)
    PROVE  failures'[i] >= MaxFailures =>
               /\ i \in blocked'
               /\ failures'[i] + Cardinality(Checking(i)') <= MaxFailures + MaxRequests - 1
  BY DEF TriesAreCounted

\* IsBlocked stops the requests of a blocked address, and each one that was
\* past it fails at most once more.
LEMMA NextTries ==
    ASSUME Inv, [Next]_vars
    PROVE  TriesAreCounted'
<1> DEFINE Tries(i) ==
      failures'[i] >= MaxFailures =>
          /\ i \in blocked'
          /\ failures'[i] + Cardinality(Checking(i)') <= MaxFailures + MaxRequests - 1
<1> SUFFICES ASSUME NEW i \in IPs PROVE Tries(i)
  BY DEF TriesAreCounted
<1> USE DEF Goto, request, auth
<1>0. /\ pc \in [Requests -> Labels] /\ ip \in [Requests -> IPs \cup {NoIP}]
      /\ failures \in [IPs -> Nat] /\ failures[i] \in Nat /\ over \subseteq blocked
      /\ MaxRequests \in Nat \ {0} /\ MaxFailures \in Nat \ {0}
      /\ SlotsAreCounted /\ RoutesFit /\ TriesAreCounted
  BY PathAssumption DEF Inv, SlotInv, TypeOK
<1>1. ASSUME NEW r \in Requests, Arrive(r) PROVE Tries(i)
  <2>1. Checking(i)' = Checking(i)
    BY <1>0, <1>1 DEF Arrive, Checking
  <2> QED
    BY <1>0, <1>1, <2>1, SameTries DEF Arrive
<1>2. ASSUME NEW r \in Requests,
             Timeout(r) \/ Allow(r) \/ EnterLane(r) \/ Handle(r) \/ LeaveLane(r)
      PROVE  Tries(i)
  <2>1. /\ UNCHANGED <<ip, auth>>
        /\ \/ pc' = pc
           \/ \E l \in Labels \ {"token"} : pc[r] # "token" /\ pc' = [pc EXCEPT ![r] = l]
    BY <1>2 DEF Timeout, Allow, ToHandler, EnterLane, Handle, LeaveLane, Labels
  <2>2. Checking(i)' = Checking(i)
    BY <1>0, <2>1 DEF Checking
  <2> QED
    BY <1>0, <2>1, <2>2, SameTries
<1>3. ASSUME NEW r \in Requests, Leave(r) PROVE Tries(i)
  <2>1. Checking(i)' = Checking(i)
    BY <1>0, <1>3 DEF Leave, Checking
  <2> QED
    BY <1>0, <1>3, <2>1, SameTries DEF Leave
<1>4. ASSUME NEW r \in Requests, IsBlocked(r) PROVE Tries(i)
  <2>1. pc[r] = "auth" /\ ip' = ip
    BY <1>4 DEF IsBlocked
  <2>2. CASE UNCHANGED auth /\ Goto(r, "leave")
    <3>1. Checking(i)' = Checking(i)
      BY <1>0, <2>1, <2>2 DEF Checking
    <3> QED
      BY <1>0, <2>2, <3>1, SameTries
  <2>3. CASE /\ ip[r] \notin blocked \ over /\ Goto(r, "token")
             /\ blocked' = blocked \ {ip[r]}
             /\ failures' = IF ip[r] \in over THEN [failures EXCEPT ![ip[r]] = 0]
                                              ELSE failures
    <3>1. CASE i # ip[r]
      <4>1. Checking(i)' = Checking(i)
        BY <1>0, <2>1, <2>3, <3>1 DEF Checking
      <4> QED
        BY <1>0, <2>3, <3>1, <4>1, SameTries
    <3>2. CASE i = ip[r]
      <4>1. CASE i \in over
        BY <1>0, <2>3, <3>2, <4>1
      <4>2. CASE i \notin over
        BY <1>0, <2>3, <3>2, <4>2 DEF TriesAreCounted
      <4> QED
        BY <4>1, <4>2
    <3> QED
      BY <3>1, <3>2
  <2> QED
    BY <1>4, <2>2, <2>3 DEF IsBlocked
<1>5. ASSUME NEW r \in Requests, CheckToken(r) PROVE Tries(i)
  <2>1. pc[r] = "token" /\ ip' = ip /\ ip[r] \in IPs
    BY <1>0, <1>5 DEF CheckToken, RoutesFit
  <2>2. \E l \in {"leave", "lane", "handle"} : pc' = [pc EXCEPT ![r] = l]
    BY <1>5 DEF CheckToken, ToHandler
  <2>3. CASE i # ip[r]
    <3>1. Checking(i)' = Checking(i)
      BY <1>0, <2>1, <2>2, <2>3 DEF Checking
    <3>2. failures'[i] = failures[i] /\ (i \in blocked => i \in blocked')
      BY <1>0, <1>5, <2>1, <2>3 DEF CheckToken, Failure, Success
    <3> QED
      BY <1>0, <3>1, <3>2, SameTries
  <2>4. CASE i = ip[r]
    <3>1. Checking(i)' = Checking(i) \ {r} /\ r \in Checking(i)
      BY <1>0, <2>1, <2>2, <2>4 DEF Checking
    <3>2. Cardinality(Checking(i)') = Cardinality(Checking(i)) - 1
      BY <3>1, Counts DEF Checking
    <3>3. Cardinality(Checking(i)) \in Nat /\ Cardinality(Checking(i)) <= MaxRequests
      <4>1. Checking(i) \subseteq Running
        BY DEF Checking, Running, Inside
      <4>2. Cardinality(Checking(i)) <= Cardinality(Running)
        BY <4>1, Finite, FS_Subset
      <4> QED
        BY <1>0, <4>2, Finite DEF SlotsAreCounted
    <3>4. CASE Failure(i)
      <4>1. failures'[i] = failures[i] + 1
        BY <1>0, <3>4 DEF Failure
      <4>2. failures'[i] >= MaxFailures => i \in blocked'
        BY <3>4, <4>1 DEF Failure
      <4>3. CASE failures[i] >= MaxFailures
        BY <1>0, <3>2, <3>3, <4>1, <4>2, <4>3 DEF TriesAreCounted
      <4>4. CASE ~(failures[i] >= MaxFailures)
        BY <1>0, <3>2, <3>3, <4>1, <4>2, <4>4
      <4> QED
        BY <4>3, <4>4
    <3>5. CASE Success(i)
      <4>1. failures'[i] = 0
        BY <1>0, <3>5 DEF Success
      <4> QED
        BY <1>0, <4>1
    <3>6. CASE UNCHANGED auth
      BY <1>0, <3>2, <3>3, <3>6 DEF TriesAreCounted
    <3> QED
      BY <1>5, <2>4, <3>4, <3>5, <3>6 DEF CheckToken
  <2> QED
    BY <2>3, <2>4
<1>6. ASSUME NEW j \in IPs, BlockEnds(j) PROVE Tries(i)
  <2>1. Checking(i)' = Checking(i)
    BY <1>6 DEF BlockEnds, Checking
  <2> QED
    BY <1>0, <1>6, <2>1, SameTries DEF BlockEnds
<1>7. CASE UNCHANGED vars
  <2>1. Checking(i)' = Checking(i)
    BY <1>7 DEF vars, Checking
  <2> QED
    BY <1>0, <1>7, <2>1, SameTries DEF vars
<1> QED
  BY <1>1, <1>2, <1>3, <1>4, <1>5, <1>6, <1>7 DEF Next, RequestStep

-----------------------------------------------------------------------------
(* The theorems. *)

\* The strengthening holds: tokens match goroutines, and failures match the
\* requests that can still add to them.
THEOREM InvHolds == Spec => []Inv
<1>1. Inv /\ [Next]_vars => Inv'
  BY NextTypes, NextSlots, NextTries DEF Inv, SlotInv
<1> QED
  BY <1>1, InitInv, PTL DEF Spec

\* Type correctness: no release takes a token that is not there.
THEOREM TypesHold == Spec => []TypeOK
<1>1. Inv => TypeOK
  BY DEF Inv, SlotInv
<1> QED
  BY <1>1, InvHolds, PTL

\* withConcurrencyLimit and acquireGuard bound the goroutines and the
\* handlers, those whose clients have been timed out included.
THEOREM RunningIsBounded == Spec => []RunningBounded
<1>1. Inv => RunningBounded
  BY DEF Inv, SlotInv, SlotsAreCounted, RunningBounded
<1> QED
  BY <1>1, InvHolds, PTL

\* authFailureGuard: the failures of an address stay within its limit and the
\* requests that were past IsBlocked when the block began.
THEOREM TriesStayBounded == Spec => []TriesAreBounded
<1>1. Inv => TriesAreBounded
  <2> SUFFICES ASSUME Inv, NEW i \in IPs
               PROVE  failures[i] <= MaxFailures + MaxRequests - 1
    BY DEF TriesAreBounded
  <2>1. /\ failures[i] \in Nat /\ Cardinality(Checking(i)) \in Nat
        /\ MaxRequests \in Nat \ {0} /\ MaxFailures \in Nat \ {0}
    BY Finite, PathAssumption DEF Inv, SlotInv, TypeOK
  <2> QED
    BY <2>1 DEF Inv, TriesAreCounted
<1> QED
  BY <1>1, InvHolds, PTL

\* withConcurrencyLimit and acquireGuard refuse only when every slot is held
\* by a goroutine that is still running.
THEOREM RefusalsHaveReasons == Spec => BusyIsTrue
<1>1. Inv /\ [Next]_vars => [BusyHasReason]_vars
  <2> SUFFICES ASSUME Inv, Next, NEW s \in Requests
               PROVE  /\ (pc[s] = "idle" /\ reply'[s] = "busy" /\ reply[s] # "busy")
                            => Cardinality(Running) = MaxRequests
                      /\ (reply'[s] = "lane busy" /\ reply[s] # "lane busy")
                            => Cardinality(Occupants(route[s])) = MaxLane[route[s]]
    BY DEF BusyHasReason
  <2>0. /\ reply \in [Requests -> Replies] /\ guard \in Nat /\ lane \in [Lanes -> Nat]
        /\ MaxRequests \in Nat /\ MaxLane \in [Lanes -> Nat]
        /\ SlotsAreCounted /\ RoutesFit
    BY PathAssumption DEF Inv, SlotInv, TypeOK
  <2>1. ASSUME NEW r \in Requests, Arrive(r), reply'[s] = "busy", reply[s] # "busy"
        PROVE  Cardinality(Running) = MaxRequests
    <3>1. guard >= MaxRequests
      BY <2>0, <2>1 DEF Arrive
    <3> QED
      BY <2>0, <3>1 DEF SlotsAreCounted
  <2>2. ASSUME NEW r \in Requests, Arrive(r)
        PROVE  ~(reply'[s] = "lane busy" /\ reply[s] # "lane busy")
    BY <2>0, <2>2 DEF Arrive
  <2>3. ASSUME NEW r \in Requests, EnterLane(r), reply'[s] = "lane busy", reply[s] # "lane busy"
        PROVE  Cardinality(Occupants(route[s])) = MaxLane[route[s]]
    <3>1. s = r /\ lane[route[r]] >= MaxLane[route[r]] /\ route[r] \in Lanes
      BY <2>0, <2>3 DEF EnterLane, Answer, RoutesFit
    <3> QED
      BY <2>0, <3>1 DEF SlotsAreCounted
  <2>4. ASSUME NEW r \in Requests, EnterLane(r)
        PROVE  ~(reply'[s] = "busy" /\ reply[s] # "busy")
    BY <2>0, <2>4 DEF EnterLane, Answer
  <2>5. ASSUME NEW r \in Requests,
               \/ Timeout(r) \/ Allow(r) \/ IsBlocked(r) \/ CheckToken(r)
               \/ Handle(r) \/ LeaveLane(r) \/ Leave(r)
        PROVE  /\ ~(reply'[s] = "busy" /\ reply[s] # "busy")
               /\ ~(reply'[s] = "lane busy" /\ reply[s] # "lane busy")
    <3>1. \/ reply' = reply
          \/ \E a \in {"none", "refused", "handled", "timeout"} :
                reply' = [reply EXCEPT ![r] = a]
      BY <2>0, <2>5
         DEF Timeout, Allow, IsBlocked, CheckToken, Handle, LeaveLane, Leave, Answer
    <3> QED
      BY <2>0, <3>1
  <2>6. ASSUME NEW i \in IPs, BlockEnds(i) PROVE reply' = reply
    BY <2>6 DEF BlockEnds
  <2> QED
    BY <2>1, <2>2, <2>3, <2>4, <2>5, <2>6 DEF Next, RequestStep
<1> QED
  BY <1>1, InvHolds, PTL DEF Spec, BusyIsTrue

\* ipRateLimiter.Allow evicts before it adds, so the table keeps its maximum.
THEOREM TableStaysBounded == Spec => []TableBounded
<1>1. Init => TableBounded
  BY FS_EmptySet, PathAssumption DEF Init, TableBounded
<1>2. Inv /\ TableBounded /\ [Next]_vars => TableBounded'
  <2> SUFFICES ASSUME Inv, TableBounded, [Next]_vars PROVE TableBounded'
    OBVIOUS
  <2>1. data \subseteq IPs /\ IsFiniteSet(data) /\ MaxIPs \in Nat \ {0}
    BY PathAssumption, FS_Subset DEF Inv, SlotInv, TypeOK
  <2>2. ASSUME NEW r \in Requests, Allow(r) PROVE TableBounded'
    <3>1. PICK kept \in SUBSET data : data' \in Room(kept, ip[r])
      BY <2>2 DEF Allow, Swept
    <3>2. /\ IsFiniteSet(kept) /\ Cardinality(kept) \in Nat
          /\ Cardinality(kept) <= MaxIPs
      <4>1. IsFiniteSet(kept) /\ Cardinality(kept) <= Cardinality(data)
        BY <2>1, FS_Subset
      <4>2. Cardinality(kept) \in Nat /\ Cardinality(data) \in Nat
        BY <2>1, <4>1, FS_CardinalityType
      <4> QED
        BY <2>1, <4>1, <4>2 DEF TableBounded
    <3>3. CASE ip[r] \in kept
      <4>1. data' = kept
        BY <3>1, <3>3 DEF Room
      <4> QED
        BY <3>2, <4>1 DEF TableBounded
    <3>4. CASE ip[r] \notin kept /\ Cardinality(kept) < MaxIPs
      <4>1. data' = kept \cup {ip[r]}
        BY <3>1, <3>4 DEF Room
      <4>2. Cardinality(data') = Cardinality(kept) + 1
        BY <3>2, <3>4, <4>1, FS_AddElement
      <4> QED
        BY <2>1, <3>2, <3>4, <4>2 DEF TableBounded
    <3>5. CASE ip[r] \notin kept /\ ~(Cardinality(kept) < MaxIPs)
      <4>1. PICK oldest \in kept : data' = (kept \ {oldest}) \cup {ip[r]}
        BY <3>1, <3>5 DEF Room
      <4>2. IsFiniteSet(kept \ {oldest}) /\ Cardinality(kept \ {oldest}) = Cardinality(kept) - 1
        BY <3>2, FS_RemoveElement
      <4>3. Cardinality(data') = Cardinality(kept \ {oldest}) + 1
        BY <3>5, <4>1, <4>2, FS_AddElement
      <4> QED
        BY <2>1, <3>2, <4>2, <4>3 DEF TableBounded
    <3> QED
      BY <3>3, <3>4, <3>5
  <2>3. CASE UNCHANGED data
    BY <2>3 DEF TableBounded
  <2>4. (\A r \in Requests : ~Allow(r)) => UNCHANGED data
    BY DEF Next, RequestStep, Arrive, Timeout, IsBlocked, CheckToken, EnterLane,
           Handle, LeaveLane, Leave, BlockEnds, vars
  <2> QED
    BY <2>2, <2>3, <2>4
<1> QED
  BY <1>1, <1>2, InvHolds, PTL DEF Spec
=============================================================================
